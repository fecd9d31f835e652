--------------------------- MODULE Server_proofs ---------------------------
(***************************************************************************)
(* Proofs about the server as a whole.  Of the calls of its clients (Rest):*)
(* the controller is asked for what the caller asked for, and a result is  *)
(* the answer to it, for any calls and requests.  Of the process that      *)
(* serves them (Lifecycle): an orderly exit cuts nobody off and comes      *)
(* after a signal, for any set of connections.  Of what is calculated of a *)
(* request's answers (Calculations): the windows of time cover the zone's  *)
(* month, the search for a prediction finds its own and never another, the *)
(* tree of API calls counts each sample once, the tree of statistics loses *)
(* no cost on any level, and estimations are the figures of the statistics *)
(* they are of, for any calendar, words, predictions, samples, labels and  *)
(* statistics.                                                             *)
(***************************************************************************)
EXTENDS Rest, Lifecycle, Calculations, Sums, TLAPS

-----------------------------------------------------------------------------
(* The calls: what the proofs need beyond the properties                   *)

\* Each of a call's variables has an entry for it.
Entries ==
  /\ DOMAIN pc = Calls /\ DOMAIN request = Calls /\ DOMAIN asked = Calls
  /\ DOMAIN estimated = Calls /\ DOMAIN response = Calls
  /\ DOMAIN result = Calls

\* What the controller has been asked passed the endpoint's checks.
AskedOf(c) ==
  /\ request[c] \in Requests
  /\ ~Forbidden(request[c]) /\ ~BadTimes(request[c])
  /\ asked[c] = AskedFor(request[c])

\* The controller is asked once, and nothing is estimated before that.
AskedInv(c) ==
  /\ pc[c] \in Control
  /\ pc[c] # "idle" => request[c] \in Requests
  /\ pc[c] \in {"idle", "sent", "handler"} => asked[c] = None /\ estimated[c] = {}
  /\ pc[c] = "controller" => AskedOf(c)
  /\ asked[c] = None \/ AskedOf(c)
  /\ pc[c] = "controller" => estimated[c] \subseteq DOMAIN asked[c].ids

\* What a response with status 200 holds.
Answered(c) ==
  /\ AskedOf(c)
  /\ \/ response[c].body = NoBody /\ HasProcesses(asked[c])
     \/ /\ response[c].body = Body(c)
        /\ asked[c].op \in ImportOps => estimated[c] = DOMAIN asked[c].ids

ResponseInv(c) ==
  pc[c] = "written" =>
    response[c].status \in {400, 500} \/ (response[c].status = 200 /\ Answered(c))

\* A result comes last.
ResultInv(c) == pc[c] # "returned" => result[c] = None

\* ResultIsTheAnswer for one call.
ResultIsTheAnswerOf(c) ==
  result[c] \notin {None, Error, Panic} =>
    /\ asked[c] # None
    /\ asked[c].op # "GetFlowEstimation"
    /\ \/ /\ result[c].kind = "value"
          /\ result[c].body.of = asked[c]
          /\ asked[c].op # "GetSubTree"
          /\ asked[c].op \in ImportOps =>
               result[c].body.estimated = DOMAIN asked[c].ids
       \/ result[c] = Zero /\ HasProcesses(asked[c])
       \/ result[c] = Hollow /\ asked[c].op = "GetSubTree"

CallInv(c) ==
  AskedInv(c) /\ ResponseInv(c) /\ ResultInv(c) /\ ResultIsTheAnswerOf(c)

IInv == Entries /\ \A c \in Calls : CallInv(c)

-----------------------------------------------------------------------------
(* The proofs                                                              *)

\* What the controller is called with is what was asked, and is not None.
LEMMA AskedForIsFaithful ==
  ASSUME NEW a \in Requests, ~Forbidden(a), ~BadTimes(a)
  PROVE  /\ AskedFor(a) # None
         /\ AskedFor(a).op = a.op /\ AskedFor(a).op \in Ops
         /\ AskedFor(a).ids = a.ids
         /\ AskedFor(a).costType = a.costType
         /\ AskedFor(a).skipEstimation = a.skipEstimation
         /\ AskedFor(a).start = a.start /\ AskedFor(a).end = a.end
         /\ AskedFor(a).user = IF a.forUser = None THEN a.token ELSE a.forUser
         /\ AskedFor(a).user = "other" => AskedFor(a).admin
  <1>1. a \in Argument
    BY RequestsAssumption
  <1>2. Parsed(a.start) = a.start /\ Parsed(a.end) = a.end
    BY DEF BadTimes, Parsed, Received
  <1>3. UserId(a) \in {"user", "admin", "other"}
    BY <1>1 DEF UserId, Forbidden, Argument
  <1>4. UserId(a) = "other" => a.token = "admin"
    BY <1>1 DEF UserId, Forbidden, Argument
  <1>5. AskedFor(a) \in Asked
    BY <1>1, <1>2, <1>3 DEF AskedFor, Asked, Argument
  <1>6. AskedFor(a) # None
    BY <1>5, NoneAssumption
  <1> QED
    BY <1>1, <1>2, <1>4, <1>6 DEF AskedFor, UserId, Argument

\* The invariant holds at the beginning.
LEMMA InitInvariant == Init => IInv
  <1> SUFFICES ASSUME Init PROVE IInv
    OBVIOUS
  <1>1. Entries
    BY DEF Init, Entries
  <1>2. ASSUME NEW c \in Calls PROVE CallInv(c)
    BY DEF Init, CallInv, AskedInv, ResponseInv, ResultInv, ResultIsTheAnswerOf,
           Control
  <1> QED
    BY <1>1, <1>2 DEF IInv

\* The state of a call that is not touched stays as it was.
LEMMA Untouched ==
  ASSUME NEW c, CallInv(c),
         pc'[c] = pc[c], request'[c] = request[c], asked'[c] = asked[c],
         estimated'[c] = estimated[c], response'[c] = response[c],
         result'[c] = result[c]
  PROVE  CallInv(c)'
  BY DEF CallInv, AskedInv, AskedOf, ResponseInv, Answered, Body, ResultInv,
         ResultIsTheAnswerOf

\* A step that touches one call only has to keep that call's invariant.
LEMMA OnlyTouches ==
  ASSUME IInv, NEW c \in Calls, CallInv(c)', Entries',
         \A d \in Calls \ {c} :
           /\ pc'[d] = pc[d] /\ request'[d] = request[d] /\ asked'[d] = asked[d]
           /\ estimated'[d] = estimated[d] /\ response'[d] = response[d]
           /\ result'[d] = result[d]
  PROVE  IInv'
  <1>1. ASSUME NEW d \in Calls, d # c PROVE CallInv(d)'
    BY <1>1, Untouched DEF IInv
  <1> QED
    BY <1>1 DEF IInv

\* Requests are built and sent, or not.
LEMMA RequestStep ==
  ASSUME IInv, NEW c \in Calls,
         Call(c) \/ CallPanics(c) \/ NoConnection(c) \/ Accept(c)
  PROVE  IInv'
  <1> USE DEF IInv, Entries, Goto, Returns
  <1>1. CallInv(c)
    OBVIOUS
  <1>2. CASE Call(c)
    <2>1. PICK a \in Requests : request' = [request EXCEPT ![c] = a]
      BY <1>2 DEF Call
    <2>2. pc'[c] = "sent" /\ request'[c] \in Requests /\ asked'[c] = None
            /\ estimated'[c] = {} /\ result'[c] = None
      BY <1>1, <1>2, <2>1 DEF Call, CallInv, AskedInv, ResultInv
    <2>3. CallInv(c)'
      BY <2>2 DEF CallInv, AskedInv, ResponseInv, ResultInv,
         ResultIsTheAnswerOf, Control
    <2> QED
      BY <1>2, <2>1, <2>3, OnlyTouches DEF Call
  <1>3. CASE CallPanics(c)
    <2>1. PICK a \in Requests : request' = [request EXCEPT ![c] = a]
      BY <1>3 DEF CallPanics
    <2>2. pc'[c] = "returned" /\ request'[c] \in Requests /\ asked'[c] = None
            /\ result'[c] = Panic
      BY <1>1, <1>3, <2>1 DEF CallPanics, CallInv, AskedInv
    <2>3. CallInv(c)'
      BY <2>2 DEF CallInv, AskedInv, ResponseInv, ResultInv,
         ResultIsTheAnswerOf, Control
    <2> QED
      BY <1>3, <2>1, <2>3, OnlyTouches DEF CallPanics
  <1>4. CASE NoConnection(c)
    <2>1. pc'[c] = "returned" /\ request'[c] \in Requests /\ asked'[c] = None
            /\ result'[c] = Error
      BY <1>1, <1>4 DEF NoConnection, CallInv, AskedInv
    <2>2. CallInv(c)'
      BY <2>1 DEF CallInv, AskedInv, ResponseInv, ResultInv,
         ResultIsTheAnswerOf, Control
    <2> QED
      BY <1>4, <2>2, OnlyTouches DEF NoConnection
  <1>5. CASE Accept(c)
    <2>1. pc'[c] = "handler" /\ request'[c] \in Requests /\ asked'[c] = None
            /\ estimated'[c] = {} /\ result'[c] = None
      BY <1>1, <1>5 DEF Accept, CallInv, AskedInv, ResultInv
    <2>2. CallInv(c)'
      BY <2>1 DEF CallInv, AskedInv, ResponseInv, ResultInv,
         ResultIsTheAnswerOf, Control
    <2> QED
      BY <1>5, <2>2, OnlyTouches DEF Accept
  <1> QED
    BY <1>2, <1>3, <1>4, <1>5

\* The endpoint refuses the request or calls the controller.
LEMMA EndpointStep ==
  ASSUME IInv, NEW c \in Calls, BadRequest(c) \/ BodyLate(c) \/ CallController(c)
  PROVE  IInv'
  <1> USE DEF IInv, Entries, Goto
  <1>1. CallInv(c)
    OBVIOUS
  <1>2. CASE BadRequest(c) \/ BodyLate(c)
    <2>1. pc'[c] = "written" /\ request'[c] \in Requests /\ asked'[c] = None
            /\ response'[c].status = 400 /\ result'[c] = None
      BY <1>1, <1>2
      DEF BadRequest, BodyLate, Respond, CallInv, AskedInv, ResultInv
    <2>2. CallInv(c)'
      BY <2>1 DEF CallInv, AskedInv, ResponseInv, ResultInv,
         ResultIsTheAnswerOf, Control
    <2> QED
      BY <1>2, <2>2, OnlyTouches DEF BadRequest, BodyLate, Respond
  <1>3. CASE CallController(c)
    <2>1. pc'[c] = "controller" /\ request'[c] = request[c] /\ result'[c] = None
            /\ asked'[c] = AskedFor(request[c]) /\ estimated'[c] = {}
      BY <1>1, <1>3 DEF CallController, CallInv, AskedInv, ResultInv
    <2>2. AskedOf(c)'
      BY <1>1, <1>3, <2>1 DEF CallController, CallInv, AskedInv, AskedOf
    <2>3. CallInv(c)'
      BY <2>1, <2>2 DEF CallInv, AskedInv, AskedOf, ResponseInv, ResultInv,
         ResultIsTheAnswerOf, Control
    <2> QED
      BY <1>3, <2>3, OnlyTouches DEF CallController
  <1> QED
    BY <1>2, <1>3

\* A failure is written with a status that is an error.
LEMMA FailsStep ==
  ASSUME IInv, NEW c \in Calls, Fails(c)
  PROVE  IInv'
  <1> USE DEF IInv, Entries, Goto, Fails, Respond
  <1>1. CallInv(c)
    OBVIOUS
  <1>2. pc'[c] = "written" /\ request'[c] = request[c] /\ asked'[c] = asked[c]
          /\ response'[c].status = 500 /\ result'[c] = None
    BY <1>1 DEF CallInv, ResultInv
  <1>3. AskedOf(c)'
    BY <1>1, <1>2 DEF CallInv, AskedInv, AskedOf
  <1>4. CallInv(c)'
    BY <1>2, <1>3 DEF CallInv, AskedInv, AskedOf, ResponseInv, ResultInv,
       ResultIsTheAnswerOf, Control
  <1> QED
    BY <1>4, OnlyTouches

\* An answer is written with the body of this call, complete if its
\* operation estimates imports, or with none if costs may be no numbers.
LEMMA AnswersStep ==
  ASSUME IInv, NEW c \in Calls, NEW body, Answers(c, body),
         \/ body = NoBody /\ HasProcesses(asked[c])
         \/ /\ body = Body(c)
            /\ asked[c].op \in ImportOps => estimated[c] = DOMAIN asked[c].ids
  PROVE  IInv'
  <1> USE DEF IInv, Entries, Goto, Answers, Respond
  <1>1. CallInv(c)
    OBVIOUS
  <1>2. pc'[c] = "written" /\ request'[c] = request[c] /\ asked'[c] = asked[c]
          /\ estimated'[c] = estimated[c]
          /\ response'[c].status = 200 /\ response'[c].body = body
          /\ result'[c] = None
    BY <1>1 DEF CallInv, ResultInv
  <1>3. AskedOf(c)'
    BY <1>1, <1>2 DEF CallInv, AskedInv, AskedOf
  <1>4. Answered(c)'
    BY <1>2, <1>3 DEF Answered, Body
  <1>5. CallInv(c)'
    BY <1>2, <1>3, <1>4 DEF CallInv, AskedInv, AskedOf, ResponseInv, ResultInv,
       ResultIsTheAnswerOf, Control
  <1> QED
    BY <1>5, OnlyTouches

\* The controller estimates imports, fails or answers, or panics.
LEMMA ControllerStep ==
  ASSUME IInv, NEW c \in Calls,
         \/ TreeFails(c) \/ TreeAnswers(c) \/ TreeIsNaN(c) \/ HandlerPanics(c)
         \/ FlowDenied(c) \/ FlowFails(c) \/ FlowAnswers(c)
         \/ ImportEstimated(c) \/ ImportFails(c) \/ ImportsAnswered(c)
  PROVE  IInv'
  <1>1. CallInv(c)
    BY DEF IInv
  <1>2. CASE TreeFails(c) \/ FlowDenied(c) \/ FlowFails(c) \/ ImportFails(c)
    BY <1>2, FailsStep DEF TreeFails, FlowDenied, FlowFails, ImportFails
  <1>3. CASE TreeAnswers(c) \/ FlowAnswers(c)
    <2>1. asked[c].op \notin ImportOps
      BY <1>3 DEF TreeAnswers, FlowAnswers, InController, TreeOps, FlowOps,
         ImportOps
    <2> QED
      BY <1>3, <2>1, AnswersStep DEF TreeAnswers, FlowAnswers
  <1>4. CASE TreeIsNaN(c)
    BY <1>4, AnswersStep DEF TreeIsNaN
  <1>5. CASE HandlerPanics(c)
    <2> USE DEF IInv, Entries, Goto, Returns
    <2>1. pc'[c] = "returned" /\ request'[c] = request[c] /\ asked'[c] = asked[c]
            /\ result'[c] = Error /\ AskedOf(c)
      BY <1>1, <1>5 DEF HandlerPanics, InController, CallInv, AskedInv
    <2>2. CallInv(c)'
      BY <2>1 DEF CallInv, AskedInv, AskedOf, ResponseInv, ResultInv,
         ResultIsTheAnswerOf, Control
    <2> QED
      BY <1>5, <2>2, OnlyTouches DEF HandlerPanics
  <1>6. CASE ImportEstimated(c)
    <2> USE DEF IInv, Entries
    <2>1. pc'[c] = "controller" /\ request'[c] = request[c] /\ asked'[c] = asked[c]
            /\ result'[c] = None /\ AskedOf(c)
      BY <1>1, <1>6
      DEF ImportEstimated, InController, CallInv, AskedInv, ResultInv
    <2>2. estimated'[c] \subseteq DOMAIN asked[c].ids
      <3>1. estimated[c] \subseteq DOMAIN asked[c].ids
        BY <1>1, <1>6 DEF ImportEstimated, InController, CallInv, AskedInv
      <3>2. PICK next \in Left(c) :
              estimated' = [estimated EXCEPT ![c] = @ \cup {next}]
        BY <1>6 DEF ImportEstimated
      <3> QED
        BY <3>1, <3>2 DEF Left
    <2>3. CallInv(c)'
      BY <2>1, <2>2 DEF CallInv, AskedInv, AskedOf, ResponseInv, ResultInv,
         ResultIsTheAnswerOf, Control
    <2>4. \A d \in Calls \ {c} : estimated'[d] = estimated[d]
      BY <1>6 DEF ImportEstimated
    <2>5. DOMAIN estimated' = Calls
      BY <1>6 DEF ImportEstimated
    <2> QED
      BY <1>6, <2>3, <2>4, <2>5, OnlyTouches DEF ImportEstimated
  <1>7. CASE ImportsAnswered(c)
    <2>1. estimated[c] \subseteq DOMAIN asked[c].ids
      BY <1>1, <1>7 DEF ImportsAnswered, InController, CallInv, AskedInv
    <2>2. estimated[c] = DOMAIN asked[c].ids
      BY <1>7, <2>1 DEF ImportsAnswered, Left
    <2> QED
      BY <1>7, <2>2, AnswersStep DEF ImportsAnswered
  <1> QED
    BY <1>2, <1>3, <1>4, <1>5, <1>6, <1>7

\* A crash gives those an error whose response is not there yet.
LEMMA CrashStep ==
  ASSUME IInv, NEW c \in Calls, Crash(c)
  PROVE  IInv'
  <1> USE DEF IInv, Entries
  <1>1. PICK undelivered \in SUBSET {d \in Calls : pc[d] = "written"} :
          LET handled == {d \in Calls : pc[d] \in {"handler", "controller"}}
              lost == handled \cup undelivered
          IN /\ pc' = [d \in Calls |-> IF d \in lost THEN "returned" ELSE pc[d]]
             /\ result' = [d \in Calls |-> IF d \in lost THEN Error ELSE result[d]]
    BY DEF Crash
  <1>2. ASSUME NEW d \in Calls PROVE CallInv(d)'
    <2>1. CASE pc'[d] = pc[d] /\ result'[d] = result[d]
      BY <2>1, Untouched DEF Crash
    <2>2. CASE /\ pc[d] \in {"handler", "controller", "written"}
               /\ pc'[d] = "returned" /\ result'[d] = Error
      BY <2>2 DEF Crash, CallInv, AskedInv, AskedOf, ResponseInv, ResultInv,
         ResultIsTheAnswerOf, Control
    <2> QED
      BY <1>1, <2>1, <2>2
  <1>3. Entries'
    BY <1>1 DEF Crash
  <1> QED
    BY <1>2, <1>3

\* The caller gets what the response says, or an error.
LEMMA ResultStep ==
  ASSUME IInv, NEW c \in Calls, Receive(c) \/ ReceiveNothing(c)
  PROVE  IInv'
  <1> USE DEF IInv, Entries, Goto, Returns
  <1>1. CallInv(c) /\ pc[c] = "written" /\ pc'[c] = "returned"
    BY DEF Receive, ReceiveNothing
  <1>2. request[c] \in Requests
    BY <1>1 DEF CallInv, AskedInv
  <1>3. UNCHANGED <<request, asked, estimated, response>>
    BY DEF Receive, ReceiveNothing
  <1>4. CASE result'[c] = Error
    <2>1. CallInv(c)'
      BY <1>1, <1>3, <1>4 DEF CallInv, AskedInv, AskedOf, ResponseInv, ResultInv,
         ResultIsTheAnswerOf, Control
    <2> QED
      BY <2>1, OnlyTouches DEF Receive, ReceiveNothing
  <1>5. CASE /\ Receive(c) /\ response[c].status = 200
             /\ result'[c] = Decoded(request[c].op, response[c].body)
             /\ result'[c] # Error
    <2>1. Answered(c) /\ asked[c] = AskedFor(request[c])
      BY <1>1, <1>5 DEF CallInv, ResponseInv, Answered, AskedOf
    <2>2. asked[c] # None /\ asked[c].op \in Ops /\ asked[c].op = request[c].op
      BY <2>1, AskedForIsFaithful DEF Answered, AskedOf
    <2>3. ASSUME response[c].body = NoBody, HasProcesses(asked[c])
          PROVE  ResultIsTheAnswerOf(c)'
      <3>1. result'[c] = Zero /\ asked[c].op # "GetFlowEstimation"
        BY <1>5, <2>2, <2>3
        DEF Decoded, HasProcesses, NoBody, ResultType, Ops, TreeOps, FlowOps,
            ImportOps, SingleOps, ListOps
      <3> QED
        BY <1>3, <2>2, <2>3, <3>1 DEF ResultIsTheAnswerOf, HasProcesses
    <2>4. ASSUME response[c].body = Body(c),
                 asked[c].op \in ImportOps => estimated[c] = DOMAIN asked[c].ids
          PROVE  ResultIsTheAnswerOf(c)'
      <3>1. /\ response[c].body.type = BodyType(asked[c].op)
            /\ response[c].body.of = asked[c]
            /\ response[c].body.estimated = estimated[c]
        BY <2>4 DEF Body
      <3>2. response[c].body # NoBody
        BY <2>2, <3>1 DEF NoBody, BodyType, Ops, TreeOps, FlowOps, ImportOps
      <3>3. \/ /\ result'[c] = Value(response[c].body)
               /\ BodyType(asked[c].op) = ResultType(asked[c].op)
            \/ result'[c] = Hollow /\ BodyType(asked[c].op) = "CostWithChildren"
        BY <1>5, <2>2, <3>1, <3>2 DEF Decoded
      <3>4. CASE result'[c] = Hollow /\ BodyType(asked[c].op) = "CostWithChildren"
        <4>1. asked[c].op = "GetSubTree"
          BY <2>2, <3>4 DEF BodyType, Ops, TreeOps, FlowOps, ImportOps
        <4> QED
          BY <1>3, <2>2, <3>4, <4>1 DEF ResultIsTheAnswerOf
      <3>5. CASE /\ result'[c] = Value(response[c].body)
                 /\ BodyType(asked[c].op) = ResultType(asked[c].op)
        <4>1. asked[c].op \notin {"GetSubTree", "GetFlowEstimation"}
          BY <2>2, <3>5 DEF BodyType, ResultType, Ops, TreeOps, FlowOps,
             ImportOps, SingleOps, ListOps
        <4>2. result'[c].kind = "value" /\ result'[c].body = response[c].body
          BY <3>5 DEF Value
        <4> QED
          BY <1>3, <2>2, <2>4, <3>1, <4>1, <4>2 DEF ResultIsTheAnswerOf
      <3> QED
        BY <3>3, <3>4, <3>5
    <2>5. ResultIsTheAnswerOf(c)'
      BY <2>1, <2>3, <2>4 DEF Answered
    <2>6. CallInv(c)'
      BY <1>1, <1>3, <2>5 DEF CallInv, AskedInv, AskedOf, ResponseInv, ResultInv,
         Control
    <2> QED
      BY <1>5, <2>6, OnlyTouches DEF Receive
  <1> QED
    BY <1>1, <1>4, <1>5 DEF Receive, ReceiveNothing, CallInv, ResponseInv

\* Every step keeps the invariant.
LEMMA NextInvariant == IInv /\ [Next]_vars => IInv'
  <1> SUFFICES ASSUME IInv, [Next]_vars PROVE IInv'
    OBVIOUS
  <1>1. ASSUME NEW c \in Calls,
               \/ Call(c) \/ CallPanics(c) \/ Handler(c) \/ Caller(c)
               \/ Crash(c) \/ WriteTimeout(c)
        PROVE  IInv'
    <2>1. CASE Call(c) \/ CallPanics(c)
      BY <2>1, RequestStep
    <2>2. CASE Handler(c)
      BY <2>2, RequestStep, EndpointStep, ControllerStep DEF Handler
    <2>3. CASE Caller(c)
      BY <2>3, RequestStep, ResultStep DEF Caller
    <2>4. CASE Crash(c)
      BY <2>4, CrashStep
    <2>5. CASE WriteTimeout(c)
      BY <2>5, Untouched DEF WriteTimeout, IInv, Entries
    <2> QED
      BY <1>1, <2>1, <2>2, <2>3, <2>4, <2>5
  <1>2. CASE Restart
    BY <1>2, Untouched DEF Restart, IInv, Entries
  <1>3. CASE UNCHANGED vars
    BY <1>3, Untouched DEF vars, IInv, Entries
  <1> QED
    BY <1>1, <1>2, <1>3 DEF Next

\* The inductive invariant holds in every reachable state.
THEOREM Invariant == Spec => []IInv
  BY InitInvariant, NextInvariant, PTL DEF Spec

\* The controller is asked for exactly what the caller asked the client for,
\* as the token's user or, by an admin, as the user named.
THEOREM AskedAsRequestedHolds == Spec => []AskedAsRequested
  <1>1. IInv => AskedAsRequested
    <2> SUFFICES ASSUME IInv, NEW c \in Calls, asked[c] # None
        PROVE  LET a == request[c]
               IN /\ asked[c].op = a.op /\ asked[c].ids = a.ids
                  /\ asked[c].costType = a.costType
                  /\ asked[c].skipEstimation = a.skipEstimation
                  /\ asked[c].start = a.start /\ asked[c].end = a.end
                  /\ asked[c].user = IF a.forUser = None THEN a.token ELSE a.forUser
                  /\ asked[c].user = "other" => asked[c].admin
      BY DEF AskedAsRequested
    <2>1. AskedOf(c)
      BY DEF IInv, CallInv, AskedInv
    <2> QED
      BY <2>1, AskedForIsFaithful DEF AskedOf
  <1> QED
    BY <1>1, Invariant, PTL

\* A result without an error is the controller's complete answer to this
\* call, but for the zero value and the hollow sub tree.
THEOREM ResultIsTheAnswerHolds == Spec => []ResultIsTheAnswer
  <1>1. IInv => ResultIsTheAnswer
    BY DEF IInv, CallInv, ResultIsTheAnswerOf, ResultIsTheAnswer
  <1> QED
    BY <1>1, Invariant, PTL

-----------------------------------------------------------------------------
(* The process: its inductive invariant                                    *)

\* While main waits, the wait group counts the server's shutdown goroutine
\* until that is done, which takes a signal and handlers that have returned.
WaitGroupInv ==
  /\ main = "starting" => wg = 0 /\ server = "down" /\ Active = {}
  /\ main = "waiting" =>
       (wg = 1 /\ server # "closed")
         \/ (wg = 0 /\ server = "closed" /\ Active = {})
  /\ main = "waiting" /\ server \in {"draining", "closed"} => cancelled

\* Handlers are cut off by the process's end only.
CutInv == Alive => \A c \in Connections : handler[c] # "cut"

ProcessInv ==
  /\ TypeOK
  /\ WaitGroupInv
  /\ CutInv
  /\ NobodyCutOff
  /\ ExitOnlyWhenCancelled

-----------------------------------------------------------------------------
(* The process: its proofs                                                 *)

\* The inductive invariant holds at the beginning.
LEMMA ProcessInitInvariant == ProcessInit => ProcessInv
  <1> SUFFICES ASSUME ProcessInit PROVE ProcessInv
    OBVIOUS
  <1>1. TypeOK
    <2>1. cancelled \in BOOLEAN /\ signalled \in BOOLEAN
      BY Zenon DEF ProcessInit
    <2>2. handler \in [Connections ->
            {"unsent", "running", "stuck", "answered", "refused", "cut"}]
      BY DEF ProcessInit
    <2> QED
      BY <2>1, <2>2 DEF ProcessInit, TypeOK
  <1>2. Active = {}
    BY DEF ProcessInit, Active
  <1>3. WaitGroupInv
    BY <1>2 DEF ProcessInit, WaitGroupInv
  <1>4. CutInv
    BY DEF ProcessInit, CutInv
  <1> QED
    BY <1>1, <1>3, <1>4 DEF ProcessInit, ProcessInv, NobodyCutOff, ExitOnlyWhenCancelled

\* The process's end, by whatever way, keeps the types.
LEMMA EndTyped ==
  ASSUME TypeOK, NEW how \in {"exited", "killed"}, End(how)
  PROVE  /\ main' = how
         /\ main' \in {"starting", "waiting", "exited", "killed"}
         /\ server' = "down"
         /\ handler' \in [Connections ->
              {"unsent", "running", "stuck", "answered", "refused", "cut"}]
         /\ \A c \in Connections :
              handler[c] \notin {"running", "stuck"} => handler'[c] = handler[c]
  BY DEF TypeOK, End

\* Being killed keeps the invariant: it says nothing of killed processes.
LEMMA KilledStep ==
  ASSUME ProcessInv, End("killed"), UNCHANGED <<wg, cancelled, signalled>>
  PROVE  ProcessInv'
  <1>1. /\ main' = "killed" /\ server' = "down"
        /\ handler' \in [Connections ->
             {"unsent", "running", "stuck", "answered", "refused", "cut"}]
    BY EndTyped DEF ProcessInv
  <1> QED
    BY <1>1 DEF ProcessInv, TypeOK, WaitGroupInv, CutInv, NobodyCutOff,
                ExitOnlyWhenCancelled, Alive

\* Every step keeps the invariant.
LEMMA ProcessNextInvariant == ProcessInv /\ [ProcessNext]_processVars => ProcessInv'
  <1> SUFFICES ASSUME ProcessInv, [ProcessNext]_processVars PROVE ProcessInv'
    OBVIOUS
  <1> USE DEF ProcessInv, TypeOK, WaitGroupInv, CutInv, NobodyCutOff,
              ExitOnlyWhenCancelled, Active, Alive
  <1>1. CASE Start
    BY <1>1 DEF Start
  <1>2. CASE Listen
    BY <1>2 DEF Listen
  <1>3. CASE Shutdown
    BY <1>3 DEF Shutdown
  <1>4. CASE Drained
    BY <1>4 DEF Drained
  <1>5. CASE Exit
    <2>1. main' = "exited" /\ server' = "down"
      BY <1>5 DEF Exit, End
    <2>2. wg = 0 /\ server = "closed" /\ Active = {} /\ cancelled
      BY <1>5 DEF Exit
    <2>3. handler' = handler
      BY <1>5, <2>2 DEF Exit, End
    <2> QED
      BY <1>5, <2>1, <2>2, <2>3 DEF Exit
  <1>6. CASE StartFails \/ ListenFails
    BY <1>6, KilledStep DEF StartFails, ListenFails
  <1>7. CASE Signal
    BY <1>7 DEF Signal
  <1>8. ASSUME NEW c \in Connections, AcceptRequest(c) PROVE ProcessInv'
    BY <1>8 DEF AcceptRequest
  <1>9. ASSUME NEW c \in Connections, Refuse(c) PROVE ProcessInv'
    BY <1>9 DEF Refuse
  <1>10. ASSUME NEW c \in Connections, Answer(c) PROVE ProcessInv'
    BY <1>10 DEF Answer
  <1>11. ASSUME NEW c \in Connections, Stick(c) PROVE ProcessInv'
    BY <1>11 DEF Stick
  <1>12. ASSUME NEW c \in Connections, HandlerCrashes(c) PROVE ProcessInv'
    BY <1>12, KilledStep DEF HandlerCrashes
  <1>13. CASE UNCHANGED processVars
    BY <1>13 DEF processVars
  <1> QED
    BY <1>1, <1>2, <1>3, <1>4, <1>5, <1>6, <1>7, <1>8, <1>9, <1>10, <1>11,
       <1>12, <1>13 DEF ProcessNext, Process

\* What the other theorems are conjuncts of.
THEOREM ProcessInvariant == ProcessSpec => []ProcessInv
  BY ProcessInitInvariant, ProcessNextInvariant, PTL DEF ProcessSpec

\* Type correctness: the wait group's counter, above all, is never negative,
\* which would be a panic.
THEOREM ProcessTypeCorrect == ProcessSpec => []TypeOK
  BY ProcessInvariant, PTL DEF ProcessInv

\* An orderly exit cuts off no request, however many there are.
THEOREM OrderlyExit == ProcessSpec => []NobodyCutOff
  BY ProcessInvariant, PTL DEF ProcessInv

\* The process never exits of its own accord.
THEOREM ExitCause == ProcessSpec => []ExitOnlyWhenCancelled
  BY ProcessInvariant, PTL DEF ProcessInv

-----------------------------------------------------------------------------
(* Induction over the naturals                                             *)

\* A set that has zero, and with a number the next one, has them all.
LEMMA EveryNat ==
  ASSUME NEW G, 0 \in G, \A n \in Nat : n \in G => n + 1 \in G
  PROVE  \A n \in Nat : n \in G
  <1> SUFFICES ASSUME NEW n \in Nat PROVE n \in G
    OBVIOUS
  <1> DEFINE H == {T \in SUBSET (1..n) : Cardinality(T) \in G}
  <1>1. IsFiniteSet(1..n) /\ Cardinality(1..n) = n
    BY FS_Interval
  <1>2. {} \in H
    BY FS_EmptySet
  <1>3. ASSUME NEW T \in SUBSET (1..n), T # {}, \A x \in T : T \ {x} \in H
        PROVE  T \in H
    <2>1. PICK x \in T : T \ {x} \in H
      BY <1>3
    <2>2. IsFiniteSet(T) /\ Cardinality(T) \in Nat
      BY <1>1, FS_Subset, FS_CardinalityType
    <2>3. IsFiniteSet(T \ {x}) /\ Cardinality(T \ {x}) = Cardinality(T) - 1
      BY <2>2, FS_RemoveElement
    <2>4. Cardinality(T \ {x}) \in Nat
      BY <2>3, FS_CardinalityType
    <2>5. Cardinality(T) = Cardinality(T \ {x}) + 1
      BY <2>2, <2>3
    <2> QED
      BY <2>1, <2>4, <2>5
  <1>4. 1..n \in H
    <2> HIDE DEF H
    <2> QED
      BY <1>1, <1>2, <1>3, SubsetInduction
  <1> QED
    BY <1>1, <1>4

-----------------------------------------------------------------------------
(* The calendar                                                            *)

days(m) == Window!DaysIn(m \div 12, (m % 12) + 1)

\* A month of 28 to 31 days is added to the days before it.
LEMMA DaysStep ==
  /\ Window!daysBefore(0) = 0
  /\ \A n \in Nat : /\ Window!daysBefore(n) \in Nat
                    /\ Window!daysBefore(n + 1) = Window!daysBefore(n) + days(n)
                    /\ days(n) \in 28..31
  <1>1. \A n \in Nat : days(n) \in 28..31
    BY DEF days, Window!DaysIn
  <1>2. ASSUME NEW n \in Nat
        PROVE  /\ IsFiniteSet(0..n - 1)
               /\ Window!daysBefore(n) = SumFunctionOnSet([m \in 0..n - 1 |-> days(m)], 0..n - 1)
    BY FS_Interval DEF Window!daysBefore, Window!SumFunction, Window!SumFunctionOnSet, Window!FoldFunctionOnSet, Window!MapThenFoldSet, SumFunction, SumFunctionOnSet, FoldFunctionOnSet, MapThenFoldSet, days
  <1>3. Window!daysBefore(0) = 0
    <2>1. 0..0 - 1 = {}
      OBVIOUS
    <2> QED
      BY <1>2, <2>1, SumEmpty
  <1>4. ASSUME NEW n \in Nat
        PROVE  Window!daysBefore(n) \in Nat
    <2> DEFINE f == [m \in 0..n - 1 |-> days(m)]
    <2>1. \A m \in 0..n - 1 : f[m] \in Nat
      BY <1>1
    <2> HIDE DEF f
    <2>2. SumFunctionOnSet(f, 0..n - 1) \in Nat
      BY <1>2, <2>1, SumNat
    <2> QED
      BY <1>2, <2>2 DEF f
  <1>5. ASSUME NEW n \in Nat
        PROVE  Window!daysBefore(n + 1) = Window!daysBefore(n) + days(n)
    <2> DEFINE f == [m \in 0..n - 1 |-> days(m)]
               g == [m \in 0..n |-> days(m)]
    <2>1. /\ \A m \in 0..n - 1 : f[m] = g[m]
          /\ \A m \in (0..n - 1) \cup {n} : g[m] \in Int
          /\ g[n] = days(n)
      BY <1>1
    <2>2. 0..(n + 1) - 1 = 0..n /\ n + 1 \in Nat
      OBVIOUS
    <2>3. Window!daysBefore(n + 1) = SumFunctionOnSet(g, 0..n)
      BY <1>2, <2>2
    <2>4. n \notin 0..n - 1 /\ 0..n = (0..n - 1) \cup {n}
      OBVIOUS
    <2>9. IsFiniteSet(0..n - 1)
      BY <1>2
    <2> HIDE DEF f, g
    <2>5. SumFunctionOnSet(g, (0..n - 1) \cup {n}) = g[n] + SumFunctionOnSet(g, 0..n - 1)
      BY <2>9, <2>1, <2>4, SumAdd
    <2>6. SumFunctionOnSet(f, 0..n - 1) = SumFunctionOnSet(g, 0..n - 1)
      BY <2>9, <2>1, SumEqual
    <2>7. Window!daysBefore(n) = SumFunctionOnSet(f, 0..n - 1)
      BY <1>2 DEF f
    <2>8. days(n) \in Int /\ Window!daysBefore(n) \in Int
      BY <1>1, <1>4
    <2>10. Window!daysBefore(n + 1) = g[n] + SumFunctionOnSet(g, 0..n - 1)
      BY ONLY <2>3, <2>4, <2>5, Zenon
    <2>11. Window!daysBefore(n + 1) = days(n) + Window!daysBefore(n)
      BY ONLY <2>1, <2>6, <2>7, <2>10, Zenon
    <2> QED
      BY <2>8, <2>11
  <1> QED
    BY <1>1, <1>3, <1>4, <1>5

\* Months begin in the order of their numbers, and not before 28 days for
\* each.
LEMMA DaysMonotone ==
  /\ \A n \in Nat : \A m \in 0..n : Window!daysBefore(m) <= Window!daysBefore(n)
  /\ \A n \in Nat : 28 * n <= Window!daysBefore(n)
  <1> DEFINE G == {n \in Nat : /\ \A m \in 0..n : Window!daysBefore(m) <= Window!daysBefore(n)
                               /\ 28 * n <= Window!daysBefore(n)}
  <1>1. 0 \in G
    BY DaysStep
  <1>2. ASSUME NEW n \in Nat, n \in G PROVE n + 1 \in G
    <2>1. /\ Window!daysBefore(n) \in Nat /\ days(n) \in 28..31
          /\ Window!daysBefore(n + 1) = Window!daysBefore(n) + days(n)
      BY DaysStep
    <2>2. ASSUME NEW m \in 0..n + 1
          PROVE  Window!daysBefore(m) <= Window!daysBefore(n + 1)
      <3>1. CASE m = n + 1
        BY <2>1, <3>1
      <3>2. CASE m \in 0..n
        <4>1. Window!daysBefore(m) <= Window!daysBefore(n) /\ Window!daysBefore(m) \in Nat
          BY <1>2, <3>2, DaysStep
        <4> QED
          BY <2>1, <4>1
      <3> QED
        BY <3>1, <3>2
    <2>3. 28 * (n + 1) <= Window!daysBefore(n + 1)
      BY <1>2, <2>1
    <2> QED
      BY <2>2, <2>3
  <1>3. \A n \in Nat : n \in G
    <2> HIDE DEF G
    <2> QED
      BY <1>1, <1>2, EveryNat
  <1> QED
    BY <1>3

\* hour is in month n.
InMonth(hour, n) ==
  24 * Window!daysBefore(n) <= hour /\ hour < 24 * Window!daysBefore(n + 1)

\* MonthsAt finds the one month that an hour is in.
LEMMA MonthsAtType ==
  ASSUME NEW hour \in Nat
  PROVE  Window!MonthsAt(hour) \in Nat /\ InMonth(hour, Window!MonthsAt(hour))
  <1> DEFINE G == {n \in Nat : hour < 24 * Window!daysBefore(n) =>
                                 \E k \in 0..n : InMonth(hour, k)}
  <1>1. 0 \in G
    BY DaysStep
  <1>2. ASSUME NEW n \in Nat, n \in G PROVE n + 1 \in G
    <2>1. Window!daysBefore(n) \in Nat
      BY DaysStep
    <2>2. CASE hour < 24 * Window!daysBefore(n)
      BY <1>2, <2>2
    <2>3. CASE 24 * Window!daysBefore(n) <= hour
      BY <2>3 DEF InMonth
    <2> QED
      BY <2>1, <2>2, <2>3
  <1>3. hour + 1 \in G
    <2> HIDE DEF G
    <2> QED
      BY <1>1, <1>2, EveryNat
  <1>4. /\ 28 * (hour + 1) <= Window!daysBefore(hour + 1)
        /\ Window!daysBefore(hour + 1) \in Nat
    <2>1. hour + 1 \in Nat
      OBVIOUS
    <2> QED
      BY <2>1, DaysStep, DaysMonotone
  <1>5. PICK k \in 0..hour + 1 : InMonth(hour, k)
    BY <1>3, <1>4
  <1>6. k \in 0..(hour \div (24 * 28))
    <2>0. k \in Nat
      OBVIOUS
    <2>1. 28 * k <= Window!daysBefore(k) /\ Window!daysBefore(k) \in Nat
      BY <2>0, DaysStep, DaysMonotone
    <2>2. 672 * k <= hour
      BY <1>5, <2>1 DEF InMonth
    <2> QED
      BY <2>2
  <1>7. \E n \in 0..(hour \div (24 * 28)) :
          24 * Window!daysBefore(n) <= hour /\ hour < 24 * Window!daysBefore(n + 1)
    BY <1>5, <1>6 DEF InMonth
  <1>8. Window!MonthsAt(hour) \in 0..(hour \div (24 * 28)) /\ InMonth(hour, Window!MonthsAt(hour))
    BY <1>7 DEF Window!MonthsAt, InMonth
  <1> QED
    BY <1>8

\* No hour is in two months.
LEMMA OneMonth ==
  ASSUME NEW hour \in Nat, NEW m \in Nat, InMonth(hour, m),
         NEW n \in Nat, InMonth(hour, n)
  PROVE  m = n
  <1>1. ASSUME NEW j \in Nat, NEW k \in Nat, InMonth(hour, j), InMonth(hour, k)
        PROVE  ~(j < k)
    <2> SUFFICES ASSUME j < k PROVE FALSE
      OBVIOUS
    <2>1. j + 1 \in 0..k
      OBVIOUS
    <2>2. Window!daysBefore(j + 1) <= Window!daysBefore(k)
      BY <2>1, DaysMonotone
    <2>3. Window!daysBefore(j + 1) \in Nat /\ Window!daysBefore(k) \in Nat
      BY DaysStep
    <2> QED
      BY <1>1, <2>2, <2>3 DEF InMonth
  <1> QED
    BY <1>1

\* The day 0, or 1, of the n-th month or the one after, by its year and month.
LEMMA DateOfMonth ==
  ASSUME NEW n \in Nat, NEW day \in 0..1
  PROVE  /\ Window!Date(n \div 12, (n % 12) + 1, day) =
              24 * (Window!daysBefore(n) + day - 1)
         /\ Window!Date(n \div 12, (n % 12) + 1 + 1, day) =
              24 * (Window!daysBefore(n + 1) + day - 1)
  <1> DEFINE y == n \div 12
             m == n % 12
  <1>1. y \in Nat /\ m \in 0..11 /\ n = 12 * y + m
    OBVIOUS
  <1>2. /\ ((m + 1) - 1) \div 12 = 0 /\ ((m + 1) - 1) % 12 = m
        /\ 12 * (y + 0) + (m + 1) - 1 = n
    BY <1>1
  <1>3. 12 * (y + ((m + 1 + 1) - 1) \div 12) + ((((m + 1 + 1) - 1) % 12) + 1) - 1 = n + 1
    BY <1>1
  <1> QED
    BY <1>2, <1>3 DEF Window!Date, Window!YearOf, Window!MonthOf

-----------------------------------------------------------------------------
(* The window                                                              *)

\* The clock has started in the second month at the earliest.
WindowInv == now \in Nat /\ now >= FirstHour /\ zone \in Zones

LEMMA WindowInvariant == CalculationsSpec => []WindowInv
  <1>1. CalculationsInit => WindowInv
    BY HoursAssumption DEF CalculationsInit, Window!Init, WindowInv
  <1>2. WindowInv /\ [CalculationsNext]_calculationsVars => WindowInv'
    <2> SUFFICES ASSUME WindowInv, [CalculationsNext]_calculationsVars
                 PROVE  WindowInv'
      OBVIOUS
    <2>1. CASE TimeGoesBy
      BY <2>1, HoursAssumption DEF TimeGoesBy, Window!Next, Window!Tick, WindowInv
    <2>2. CASE UNCHANGED windowVars
      BY <2>2 DEF windowVars, WindowInv
    <2> QED
      BY <2>1, <2>2 DEF CalculationsNext, CostOfSample, TreeOfStats,
                        EstimationOfStats, TreeOfRequests, calculationsVars
  <1> QED
    BY <1>1, <1>2, PTL DEF CalculationsSpec

\* The zone's hour is in its month, by whose number the windows are made.
LEMMA LocalMonthType ==
  ASSUME WindowInv
  PROVE  LET hour == now + zone
             n == Window!MonthsAt(hour)
         IN /\ now \in Nat /\ zone \in -12..14 /\ hour \in Nat
            /\ n \in Nat /\ InMonth(hour, n) /\ Window!daysBefore(n) \in Nat
            /\ Window!daysBefore(n + 1) \in Nat
            /\ Window!Start = 24 * (Window!daysBefore(n) - 1)
            /\ Window!endOfMonth = 24 * (Window!daysBefore(n + 1) - 1)
            /\ Window!LocalMonth = (n % 12) + 1
  <1> DEFINE hour == now + zone
             n == Window!MonthsAt(hour)
  <1>1. now \in Nat /\ zone \in -12..14 /\ hour \in Nat
    BY HoursAssumption, ZonesAssumption DEF WindowInv
  <1>2. n \in Nat /\ InMonth(hour, n)
    BY <1>1, MonthsAtType
  <1>3. Window!LocalYear = n \div 12 /\ Window!LocalMonth = (n % 12) + 1
    BY DEF Window!LocalYear, Window!LocalMonth, Window!Year, Window!Month
  <1>4. Window!daysBefore(n) \in Nat /\ Window!daysBefore(n + 1) \in Nat
    BY <1>2, DaysStep
  <1> HIDE DEF n
  <1>5. /\ Window!Start = 24 * (Window!daysBefore(n) + 0 - 1)
        /\ Window!endOfMonth = 24 * (Window!daysBefore(n + 1) + 0 - 1)
    BY <1>2, <1>3, DateOfMonth DEF Window!Start, Window!endOfMonth
  <1> QED
    BY <1>1, <1>2, <1>3, <1>4, <1>5 DEF n

\* Windows are never empty, in any zone, and span the zone's month up to now,
\* starting not more than a day and the zone's offset before, at every hour
\* (defaultStartEnd).
THEOREM WindowCovers == CalculationsSpec => []WindowCoversMonth
  <1>1. WindowInv => WindowCoversMonth
    <2> SUFFICES ASSUME WindowInv PROVE WindowCoversMonth
      OBVIOUS
    <2> DEFINE n == Window!MonthsAt(now + zone)
    <2>1. /\ now \in Nat /\ zone \in -12..14 /\ now + zone \in Nat
          /\ InMonth(now + zone, n) /\ Window!daysBefore(n) \in Nat
          /\ Window!Start = 24 * (Window!daysBefore(n) - 1)
      BY LocalMonthType
    <2> HIDE DEF n
    <2>2. 24 * Window!daysBefore(n) <= now + zone
      BY <2>1 DEF InMonth
    <2> QED
      BY <2>1, <2>2 DEF WindowCoversMonth, Window!WindowCoversMonth,
                        Window!durationPassed, Window!End, n
  <1> QED
    BY <1>1, WindowInvariant, PTL

\* What remains of the month is negative only when it is over a day and a
\* half later: an extrapolation never falls below its month before
\* (endOfMonth in queryCpuRam, getStorageStats and the trees).
THEOREM ShrinksAtEnd == CalculationsSpec => []ShrinksAtMonthsEndOnly
  <1>1. WindowInv => ShrinksAtMonthsEndOnly
    <2> SUFFICES ASSUME WindowInv, Window!durationRemaining < 0
                 PROVE  Window!Month(now + zone + 24 + 12) # Window!LocalMonth
      BY DEF ShrinksAtMonthsEndOnly, Window!ShrinksAtMonthsEndOnly
    <2> DEFINE n == Window!MonthsAt(now + zone)
               later == now + zone + 24 + 12
    <2>1. /\ now \in Nat /\ zone \in -12..14 /\ now + zone \in Nat
          /\ n \in Nat /\ InMonth(now + zone, n) /\ Window!daysBefore(n + 1) \in Nat
          /\ Window!endOfMonth = 24 * (Window!daysBefore(n + 1) - 1)
          /\ Window!LocalMonth = (n % 12) + 1
      BY LocalMonthType
    <2> HIDE DEF n
    <2>2. now > 24 * (Window!daysBefore(n + 1) - 1)
      BY <2>1 DEF Window!durationRemaining
    <2>3. /\ Window!daysBefore(n + 1 + 1) = Window!daysBefore(n + 1) + days(n + 1)
          /\ days(n + 1) \in 28..31 /\ n + 1 \in Nat
      BY <2>1, DaysStep
    <2>4. InMonth(later, n + 1) /\ later \in Nat
      BY <2>1, <2>2, <2>3 DEF InMonth
    <2>5. Window!MonthsAt(later) = n + 1
      BY <2>3, <2>4, MonthsAtType, OneMonth
    <2>6. Window!Month(later) = ((n + 1) % 12) + 1
      BY <2>5 DEF Window!Month
    <2>7. (n + 1) % 12 # n % 12
      BY <2>1
    <2> QED
      BY <2>1, <2>6, <2>7
  <1> QED
    BY <1>1, WindowInvariant, PTL

-----------------------------------------------------------------------------
(* The tree of API calls                                                   *)

Sample ==
  [series : ApiCalls!Series,
   names : UNION {ApiCalls!LabelsRead(series) : series \in ApiCalls!Series},
   value : Values]

\* What TreeMatchesAnswer says of any samples a, and of any tree, but for
\* RoundingStaysSmall.
RequestsAt(a, places) == SumFunctionOnSet([i \in places |-> a[i].value], places)
EstimatedAt(a, places) ==
  SumFunctionOnSet([i \in places |-> ApiCalls!Estimate(a[i].value)], places)
Last(a, places) == ApiCalls!Estimate(a[ApiCalls!Max(places)].value)
Client(a, client) == {i \in DOMAIN a : a[i].names.client = client}
Service(a, client, service) ==
  {i \in Client(a, client) : a[i].names.service = service}

NodeMatches(node, a, places) ==
  node.month = RequestsAt(a, places) /\ node.estimation = Last(a, places)

ServiceMatches(node, a, client, service) ==
  NodeMatches(node, a, Service(a, client, service))

ClientMatches(node, a, client) ==
  /\ NodeMatches(node, a, Client(a, client))
  /\ DOMAIN node.children = {a[i].names.service : i \in Client(a, client)}
  /\ \A service \in DOMAIN node.children :
       ServiceMatches(node.children[service], a, client, service)

Matches(root, a) ==
  /\ root.month = RequestsAt(a, DOMAIN a)
  /\ root.estimation = EstimatedAt(a, DOMAIN a)
  /\ DOMAIN root.children = {a[i].names.client : i \in DOMAIN a}
  /\ \A client \in DOMAIN root.children :
       ClientMatches(root.children[client], a, client)

IsNode(x) ==
  \E month, estimation, children :
    x = [month |-> month, estimation |-> estimation, children |-> children]

IsTree(root) ==
  /\ IsNode(root)
  /\ \A client \in DOMAIN root.children :
       /\ IsNode(root.children[client])
       /\ \A service \in DOMAIN root.children[client].children :
            IsNode(root.children[client].children[service])

LEMMA MatchesIsTreeMatchesAnswer ==
  TreeMatchesAnswer <=>
    Matches(requests, answer) /\ ApiCalls!RoundingStaysSmall
  <1>1. \A f : ApiCalls!SumFunction(f) = SumFunctionOnSet(f, DOMAIN f)
    BY DEF ApiCalls!SumFunction, ApiCalls!SumFunctionOnSet,
           ApiCalls!FoldFunctionOnSet, ApiCalls!MapThenFoldSet,
           SumFunctionOnSet, FoldFunctionOnSet, MapThenFoldSet
  <1>2. \A places : /\ ApiCalls!ValuesAt(places) = RequestsAt(answer, places)
                   /\ ApiCalls!EstimatesAt(places) = EstimatedAt(answer, places)
    BY <1>1 DEF ApiCalls!ValuesAt, RequestsAt, ApiCalls!EstimatesAt, EstimatedAt
  <1> QED
    BY <1>2 DEF TreeMatchesAnswer, ApiCalls!TreeMatchesAnswer, Matches,
                ClientMatches, ServiceMatches, NodeMatches, Client, Service, Last,
                ApiCalls!OfClient, ApiCalls!OfService, ApiCalls!LastEstimate

\* A finite set of numbers has a largest one.
LEMMA MaxType ==
  ASSUME NEW S \in SUBSET Int, IsFiniteSet(S), S # {}
  PROVE  ApiCalls!Max(S) \in S /\ \A x \in S : ApiCalls!Max(S) >= x
  <1> DEFINE G == {T \in SUBSET S : T # {} => \E x \in T : \A y \in T : x >= y}
  <1>1. {} \in G
    OBVIOUS
  <1>2. ASSUME NEW T \in SUBSET S, T # {}, \A x \in T : T \ {x} \in G
        PROVE  T \in G
    <2>1. PICK x \in T : T \ {x} \in G
      BY <1>2
    <2>2. CASE T \ {x} = {}
      <3>1. \A y \in T : x >= y
        BY <2>2
      <3> QED
        BY <3>1
    <2>3. CASE T \ {x} # {}
      <3>1. PICK y \in T \ {x} : \A z \in T \ {x} : y >= z
        BY <2>1, <2>3
      <3>2. x \in Int /\ y \in Int /\ T \subseteq Int
        OBVIOUS
      <3>3. CASE x >= y
        <4>1. \A z \in T : x >= z
          BY <3>1, <3>2, <3>3
        <4> QED
          BY <4>1
      <3>4. CASE y >= x
        <4>1. \A z \in T : y >= z
          BY <3>1, <3>2, <3>4
        <4> QED
          BY <4>1
      <3> QED
        BY <3>2, <3>3, <3>4
    <2> QED
      BY <2>2, <2>3
  <1>3. S \in G
    <2> HIDE DEF G
    <2> QED
      BY <1>1, <1>2, SubsetInduction
  <1> QED
    BY <1>3 DEF ApiCalls!Max

\* The last of the samples is read.
LEMMA SampleRead ==
  ASSUME NEW a \in Seq(Sample), NEW e \in Sample,
         NEW places \in SUBSET DOMAIN a
  PROVE  LET b == Append(a, e)
             grown == places \cup {Len(a) + 1}
         IN /\ RequestsAt(b, grown) = RequestsAt(a, places) + e.value
            /\ RequestsAt(b, places) = RequestsAt(a, places)
            /\ RequestsAt(a, places) \in Nat
            /\ Last(b, grown) = ApiCalls!Estimate(e.value)
            /\ places # {} => Last(b, places) = Last(a, places)
  <1> DEFINE b == Append(a, e)
             n == Len(a) + 1
             grown == places \cup {n}
             f == [i \in places |-> a[i].value]
             g == [i \in grown |-> b[i].value]
             h == [i \in places |-> b[i].value]
  <1>1. /\ DOMAIN a = 1..Len(a) /\ Len(a) \in Nat /\ n \notin places /\ b[n] = e
        /\ \A i \in places : b[i] = a[i] /\ a[i] \in Sample
    OBVIOUS
  <1>2. IsFiniteSet(places) /\ IsFiniteSet(grown) /\ grown \in SUBSET Int
    <2>1. IsFiniteSet(DOMAIN a)
      BY <1>1, FS_Interval
    <2> QED
      BY <1>1, <2>1, FS_Subset, FS_AddElement
  <1>3. e.value \in Nat /\ \A i \in places : a[i].value \in Nat
    BY <1>1, ValuesAssumption DEF Sample
  <1>4. /\ \A i \in places : f[i] = h[i] /\ f[i] = g[i] /\ f[i] \in Nat
        /\ g[n] = e.value /\ \A i \in grown : g[i] \in Int
    BY <1>1, <1>3
  <1> HIDE DEF f, g, h, n, b, grown
  <1>5. SumFunctionOnSet(g, grown) = g[n] + SumFunctionOnSet(g, places)
    BY <1>1, <1>2, <1>4, SumAdd DEF grown
  <1>6. /\ SumFunctionOnSet(f, places) = SumFunctionOnSet(g, places)
        /\ SumFunctionOnSet(f, places) = SumFunctionOnSet(h, places)
        /\ SumFunctionOnSet(f, places) \in Nat
    BY <1>2, <1>4, SumEqual, SumNat
  <1>7. /\ RequestsAt(a, places) = SumFunctionOnSet(f, places)
        /\ RequestsAt(b, places) = SumFunctionOnSet(h, places)
        /\ RequestsAt(b, grown) = SumFunctionOnSet(g, grown)
    BY DEF RequestsAt, f, g, h
  <1>8. RequestsAt(b, grown) = RequestsAt(a, places) + e.value
    <2>1. RequestsAt(b, grown) = g[n] + RequestsAt(a, places)
      BY ONLY <1>5, <1>6, <1>7, Zenon
    <2> QED
      BY <1>3, <1>4, <1>6, <1>7, <2>1
  <1>9. ApiCalls!Max(grown) = n
    <2>1. n \in Int /\ n \in grown /\ \A i \in grown : i <= n
      BY <1>1 DEF grown, n
    <2>2. ApiCalls!Max(grown) \in grown /\ ApiCalls!Max(grown) >= n
      BY <1>2, <2>1, MaxType
    <2>3. ApiCalls!Max(grown) \in Int /\ ApiCalls!Max(grown) <= n
      BY <1>2, <2>1, <2>2
    <2> QED
      BY <2>1, <2>2, <2>3
  <1>10. ASSUME places # {} PROVE ApiCalls!Max(places) \in places
    BY <1>1, <1>2, <1>10, MaxType
  <1>11. Last(b, grown) = ApiCalls!Estimate(e.value)
    BY <1>1, <1>9 DEF Last
  <1>12. places # {} => Last(b, places) = Last(a, places)
    BY <1>1, <1>10 DEF Last
  <1> QED
    BY <1>6, <1>7, <1>8, <1>11, <1>12 DEF b, n, grown

\* The multiple of a number next below another one.
LEMMA Division ==
  ASSUME NEW x \in Nat, NEW y \in Nat \ {0}
  PROVE  LET q == x \div y
         IN q \in Nat /\ q * y <= x /\ x < q * y + y
  <1>1. x \div y \in Int /\ x \div y >= 0
    OBVIOUS
  <1>2. ASSUME NEW q \in Int, x \div y = q
        PROVE  q * y <= x /\ x < q * y + y
    BY <1>2
  <1> QED
    BY <1>1, <1>2

\* A rounded fraction is no more than a half away.
LEMMA RoundHalf ==
  ASSUME NEW n \in Nat, NEW d \in Nat \ {0}
  PROVE  LET r == ApiCalls!Round(n, d)
         IN /\ r \in Nat
            /\ -d <= 2 * (r * d - n) /\ 2 * (r * d - n) <= d
  <1> DEFINE x == 2 * n + d
             y == 2 * d
             r == x \div y
             p == r * d
  <1>1. r \in Nat /\ r * y <= x /\ x < r * y + y
    <2>1. x \in Nat /\ y \in Nat \ {0}
      OBVIOUS
    <2> HIDE DEF x, y
    <2> QED
      BY <2>1, Division
  <1> HIDE DEF r
  <1>2. p \in Int /\ r * y = 2 * p
    BY <1>1
  <1> HIDE DEF p
  <1>3. -d <= 2 * (p - n) /\ 2 * (p - n) <= d
    BY <1>1, <1>2
  <1> QED
    BY <1>1, <1>3 DEF ApiCalls!Round, r, p

LEMMA EstimateType ==
  ASSUME multiplier \in Multipliers, NEW value \in Values
  PROVE  ApiCalls!Estimate(value) \in Nat
  <1>1. /\ value \in Nat /\ multiplier.num \in Nat
        /\ multiplier.den \in Nat \ {0}
    BY ValuesAssumption
  <1>2. value * multiplier.num \in Nat
    BY <1>1
  <1> QED
    BY <1>1, <1>2, RoundHalf DEF ApiCalls!Estimate

\* Its estimate is added at the root.
LEMMA SampleEstimated ==
  ASSUME multiplier \in Multipliers,
         NEW a \in Seq(Sample), NEW e \in Sample
  PROVE  LET b == Append(a, e)
         IN /\ EstimatedAt(a, DOMAIN a) \in Int
            /\ EstimatedAt(b, DOMAIN b) =
                 EstimatedAt(a, DOMAIN a) + ApiCalls!Estimate(e.value)
  <1> DEFINE b == Append(a, e)
             n == Len(a) + 1
             f == [i \in DOMAIN a |-> ApiCalls!Estimate(a[i].value)]
             g == [i \in DOMAIN b |-> ApiCalls!Estimate(b[i].value)]
  <1>1. /\ DOMAIN a = 1..Len(a) /\ DOMAIN b = DOMAIN a \cup {n}
        /\ n \notin DOMAIN a /\ b[n] = e
        /\ \A i \in DOMAIN a : b[i] = a[i] /\ a[i] \in Sample
    OBVIOUS
  <1>2. IsFiniteSet(DOMAIN a)
    BY <1>1, FS_Interval
  <1>3. \A x \in Sample : ApiCalls!Estimate(x.value) \in Nat
    BY EstimateType DEF Sample
  <1>4. /\ \A i \in DOMAIN a : f[i] = g[i] /\ f[i] \in Int
        /\ g[n] = ApiCalls!Estimate(e.value) /\ \A i \in DOMAIN b : g[i] \in Int
    BY <1>1, <1>3
  <1>5. EstimatedAt(a, DOMAIN a) = SumFunctionOnSet(f, DOMAIN a)
        /\ EstimatedAt(b, DOMAIN b) = SumFunctionOnSet(g, DOMAIN b)
    BY DEF EstimatedAt
  <1> HIDE DEF f, g, n, b
  <1>6. SumFunctionOnSet(g, DOMAIN b) = g[n] + SumFunctionOnSet(g, DOMAIN a)
    BY <1>1, <1>2, <1>4, SumAdd
  <1>7. SumFunctionOnSet(f, DOMAIN a) = SumFunctionOnSet(g, DOMAIN a)
        /\ SumFunctionOnSet(f, DOMAIN a) \in Int
    BY <1>2, <1>4, SumEqual, SumInt
  <1>8. EstimatedAt(b, DOMAIN b) =
          ApiCalls!Estimate(e.value) + EstimatedAt(a, DOMAIN a)
    BY <1>4, <1>5, <1>6, <1>7, Zenon
  <1>9. ApiCalls!Estimate(e.value) \in Int /\ EstimatedAt(a, DOMAIN a) \in Int
    BY <1>3, <1>5, <1>7
  <1> QED
    BY <1>8, <1>9 DEF b

\* A sample is counted at a node that is new or has counted its samples.
LEMMA CountedMatches ==
  ASSUME NEW a \in Seq(Sample), NEW e \in Sample,
         NEW places \in SUBSET DOMAIN a,
         NEW node, IsNode(node),
         IF places = {} THEN node = ApiCalls!Node ELSE NodeMatches(node, a, places)
  PROVE  LET counted == ApiCalls!Counted(node, e.value)
         IN /\ NodeMatches(counted, Append(a, e), places \cup {Len(a) + 1})
            /\ IsNode(counted)
            /\ counted.children = node.children
  <1> DEFINE counted == ApiCalls!Counted(node, e.value)
  <1>1. /\ IsNode(counted)
        /\ counted.month = node.month + e.value
        /\ counted.estimation = ApiCalls!Estimate(e.value)
        /\ counted.children = node.children
    <2>1. PICK m, s, c : node = [month |-> m, estimation |-> s, children |-> c]
      BY DEF IsNode
    <2>2. counted = [month |-> m + e.value,
                     estimation |-> ApiCalls!Estimate(e.value),
                     children |-> c]
      <3> DEFINE x == [node EXCEPT !.month = node.month + e.value]
      <3>1. x = [month |-> m + e.value, estimation |-> s, children |-> c]
        BY <2>1
      <3>2. counted = [x EXCEPT !.estimation = ApiCalls!Estimate(e.value)]
        BY Zenon DEF ApiCalls!Counted
      <3> HIDE DEF x, counted
      <3> QED
        BY <3>1, <3>2
    <2> HIDE DEF counted
    <2>3. node.month = m /\ node.children = c
      BY <2>1
    <2> QED
      BY <2>2, <2>3 DEF IsNode
  <1>2. node.month = RequestsAt(a, places)
    <2>1. CASE places = {}
      <3>1. RequestsAt(a, {}) = 0
        BY SumEmpty DEF RequestsAt
      <3> QED
        BY <2>1, <3>1 DEF ApiCalls!Node
    <2> QED
      BY <2>1 DEF NodeMatches
  <1> QED
    BY <1>1, <1>2, SampleRead, ZenonT(30) DEF NodeMatches

\* A node stays as it is while samples of others are read.
LEMMA StillMatches ==
  ASSUME NEW a \in Seq(Sample), NEW e \in Sample,
         NEW places \in SUBSET DOMAIN a, places # {},
         NEW node, NodeMatches(node, a, places)
  PROVE  NodeMatches(node, Append(a, e), places)
  BY SampleRead DEF NodeMatches

LEMMA NodeType == IsNode(ApiCalls!Node) /\ DOMAIN ApiCalls!Node.children = {}
  <1>1. /\ ApiCalls!Node = [month |-> 0, estimation |-> 0, children |-> <<>>]
        /\ ApiCalls!Node.children = <<>>
    BY DEF ApiCalls!Node
  <1>2. IsNode(ApiCalls!Node)
    BY <1>1, Zenon DEF IsNode
  <1> QED
    BY <1>1, <1>2

LEMMA WithChildType ==
  ASSUME NEW node, IsNode(node), NEW name, NEW child
  PROVE  LET with == ApiCalls!WithChild(node, name, child)
         IN /\ IsNode(with)
            /\ with.month = node.month
            /\ with.estimation = node.estimation
            /\ DOMAIN with.children = DOMAIN node.children \cup {name}
            /\ with.children[name] = child
            /\ \A other \in DOMAIN node.children \ {name} :
                 with.children[other] = node.children[other]
  <1>1. PICK m, s, c : node = [month |-> m, estimation |-> s, children |-> c]
    BY DEF IsNode
  <1> DEFINE d == [other \in DOMAIN c \cup {name} |->
                     IF other = name THEN child ELSE c[other]]
  <1>2. ApiCalls!WithChild(node, name, child) =
          [month |-> m, estimation |-> s, children |-> d]
    BY <1>1 DEF ApiCalls!WithChild
  <1>3. node.month = m /\ node.estimation = s /\ node.children = c
    BY <1>1
  <1>4. /\ DOMAIN d = DOMAIN c \cup {name}
        /\ d[name] = child
        /\ \A other \in DOMAIN c \ {name} : d[other] = c[other]
    OBVIOUS
  <1> HIDE DEF d
  <1> QED
    <2> DEFINE with == ApiCalls!WithChild(node, name, child)
    <2>1. with = [month |-> m, estimation |-> s, children |-> d]
      BY <1>2
    <2> HIDE DEF with
    <2>2. with.month = m /\ with.estimation = s /\ with.children = d /\ IsNode(with)
      BY <2>1 DEF IsNode
    <2>3. /\ IsNode(with)
          /\ with.month = node.month
          /\ with.estimation = node.estimation
          /\ DOMAIN with.children = DOMAIN node.children \cup {name}
          /\ with.children[name] = child
          /\ \A other \in DOMAIN node.children \ {name} :
               with.children[other] = node.children[other]
      BY <1>3, <1>4, <2>2
    <2> QED
      BY <2>3 DEF with

\* The last sample is one more of its client and of its service.
LEMMA PlacesGrow ==
  ASSUME NEW a \in Seq(Sample), NEW e \in Sample
  PROVE  LET b == Append(a, e)
             n == Len(a) + 1
         IN /\ DOMAIN b = DOMAIN a \cup {n}
            /\ {b[i].names.client : i \in DOMAIN b} =
                 {a[i].names.client : i \in DOMAIN a} \cup {e.names.client}
            /\ \A client :
                 /\ Client(a, client) \subseteq DOMAIN a
                 /\ Client(b, client) = Client(a, client) \cup
                      (IF client = e.names.client THEN {n} ELSE {})
                 /\ {b[i].names.service : i \in Client(b, client)} =
                      {a[i].names.service : i \in Client(a, client)} \cup
                      (IF client = e.names.client THEN {e.names.service} ELSE {})
  <1> DEFINE b == Append(a, e)
             n == Len(a) + 1
  <1>1. /\ DOMAIN b = DOMAIN a \cup {n} /\ n \notin DOMAIN a /\ b[n] = e
        /\ \A i \in DOMAIN a : b[i] = a[i]
    OBVIOUS
  <1> HIDE DEF b, n
  <1>2. {b[i].names.client : i \in DOMAIN b} =
          {a[i].names.client : i \in DOMAIN a} \cup {e.names.client}
    BY <1>1
  <1>3. ASSUME NEW client
        PROVE  /\ Client(a, client) \subseteq DOMAIN a
               /\ Client(b, client) = Client(a, client) \cup
                    (IF client = e.names.client THEN {n} ELSE {})
    BY <1>1 DEF Client
  <1>4. ASSUME NEW client
        PROVE  {b[i].names.service : i \in Client(b, client)} =
                 {a[i].names.service : i \in Client(a, client)} \cup
                 (IF client = e.names.client THEN {e.names.service} ELSE {})
    BY <1>1, <1>3
  <1> QED
    BY <1>1, <1>2, <1>3, <1>4 DEF b, n

LEMMA ServicePlacesGrow ==
  ASSUME NEW a \in Seq(Sample), NEW e \in Sample, NEW client, NEW service
  PROVE  /\ Service(a, client, service) \subseteq DOMAIN a
         /\ Service(Append(a, e), client, service) =
              Service(a, client, service) \cup
              (IF client = e.names.client /\ service = e.names.service
               THEN {Len(a) + 1} ELSE {})
  <1> DEFINE b == Append(a, e)
             n == Len(a) + 1
  <1>1. /\ DOMAIN b = DOMAIN a \cup {n} /\ n \notin DOMAIN a /\ b[n] = e
        /\ \A i \in DOMAIN a : b[i] = a[i]
    OBVIOUS
  <1>2. Client(a, client) \subseteq DOMAIN a
    BY DEF Client
  <1> HIDE DEF b, n
  <1>3. Client(b, client) = Client(a, client) \cup
          (IF client = e.names.client THEN {n} ELSE {})
    BY <1>1 DEF Client
  <1> QED
    BY <1>1, <1>2, <1>3 DEF Service, b, n

\* One more sample is counted on each level.
LEMMA AddedMatches ==
  ASSUME multiplier \in Multipliers,
         NEW a \in Seq(Sample), NEW e \in Sample,
         NEW root, IsTree(root), Matches(root, a)
  PROVE  LET added == ApiCalls!Added(root, e.names, e.value)
         IN IsTree(added) /\ Matches(added, Append(a, e))
  <1> DEFINE b == Append(a, e)
             cn == e.names.client
             sn == e.names.service
             oldClient == ApiCalls!Child(root, cn)
             counted == ApiCalls!Counted(oldClient, e.value)
             oldService == ApiCalls!Child(counted, sn)
             service == ApiCalls!Counted(oldService, e.value)
             client == ApiCalls!WithChild(counted, sn, service)
             sums == ApiCalls!CountedAtRoot(root, e.value)
             added == ApiCalls!WithChild(sums, cn, client)
  <1>1. added = ApiCalls!Added(root, e.names, e.value)
    BY DEF ApiCalls!Added
  <1>2. /\ IsNode(root)
        /\ \A c \in DOMAIN root.children :
             /\ IsNode(root.children[c])
             /\ \A s \in DOMAIN root.children[c].children :
                  IsNode(root.children[c].children[s])
        /\ DOMAIN root.children = {a[i].names.client : i \in DOMAIN a}
        /\ \A c \in DOMAIN root.children : ClientMatches(root.children[c], a, c)
        /\ root.month = RequestsAt(a, DOMAIN a)
        /\ root.estimation = EstimatedAt(a, DOMAIN a)
    BY DEF IsTree, Matches
  <1>3. IsNode(ApiCalls!Node) /\ DOMAIN ApiCalls!Node.children = {}
    BY NodeType
  <1>4. /\ IsNode(oldClient)
        /\ \A s \in DOMAIN oldClient.children :
             /\ IsNode(oldClient.children[s])
             /\ ServiceMatches(oldClient.children[s], a, cn, s)
        /\ DOMAIN oldClient.children = {a[i].names.service : i \in Client(a, cn)}
        /\ IF Client(a, cn) = {} THEN oldClient = ApiCalls!Node
           ELSE NodeMatches(oldClient, a, Client(a, cn))
    <2>1. CASE cn \in DOMAIN root.children
      <3>1. oldClient = root.children[cn]
        BY <2>1 DEF ApiCalls!Child
      <3>2. Client(a, cn) # {}
        BY <1>2, <2>1 DEF Client
      <3> QED
        BY <1>2, <2>1, <3>1, <3>2 DEF ClientMatches
    <2>2. CASE cn \notin DOMAIN root.children
      <3>1. oldClient = ApiCalls!Node
        BY <2>2 DEF ApiCalls!Child
      <3>2. Client(a, cn) = {}
        BY <1>2, <2>2 DEF Client
      <3> QED
        BY <1>3, <3>1, <3>2
    <2> QED
      BY <2>1, <2>2
  <1> HIDE DEF oldClient
  <1>5. /\ Client(a, cn) \subseteq DOMAIN a
        /\ Client(b, cn) = Client(a, cn) \cup {Len(a) + 1}
        /\ Service(a, cn, sn) \subseteq DOMAIN a
        /\ Service(b, cn, sn) = Service(a, cn, sn) \cup {Len(a) + 1}
        /\ {b[i].names.service : i \in Client(b, cn)} =
             {a[i].names.service : i \in Client(a, cn)} \cup {sn}
    BY PlacesGrow, ServicePlacesGrow
  <1>6. /\ NodeMatches(counted, b, Client(b, cn))
        /\ IsNode(counted)
        /\ counted.children = oldClient.children
    <2>1. /\ NodeMatches(counted, b, Client(a, cn) \cup {Len(a) + 1})
          /\ IsNode(counted)
          /\ counted.children = oldClient.children
      <3>1. Client(a, cn) \in SUBSET DOMAIN a /\ IsNode(oldClient)
        BY <1>4, <1>5
      <3> HIDE DEF cn
      <3> QED
        BY <1>4, <3>1, CountedMatches, ZenonT(30)
    <2> QED
      BY <1>5, <2>1
  <1> HIDE DEF counted
  <1>7. /\ IsNode(oldService)
        /\ IF Service(a, cn, sn) = {} THEN oldService = ApiCalls!Node
           ELSE NodeMatches(oldService, a, Service(a, cn, sn))
    <2>1. CASE sn \in DOMAIN counted.children
      <3>1. oldService = oldClient.children[sn]
        BY <1>6, <2>1 DEF ApiCalls!Child
      <3>2. Service(a, cn, sn) # {}
        BY <1>4, <1>6, <2>1 DEF Service
      <3> QED
        BY <1>4, <1>6, <2>1, <3>1, <3>2 DEF ServiceMatches
    <2>2. CASE sn \notin DOMAIN counted.children
      <3>1. oldService = ApiCalls!Node
        BY <2>2 DEF ApiCalls!Child
      <3>2. Service(a, cn, sn) = {}
        BY <1>4, <1>6, <2>2 DEF Service
      <3> QED
        BY <1>3, <3>1, <3>2
    <2> QED
      BY <2>1, <2>2
  <1> HIDE DEF oldService
  <1>8. IsNode(service) /\ ServiceMatches(service, b, cn, sn)
    <2>1. IsNode(service) /\ NodeMatches(service, b, Service(a, cn, sn) \cup {Len(a) + 1})
      BY <1>5, <1>7, CountedMatches
    <2> QED
      BY <1>5, <2>1 DEF ServiceMatches
  <1> HIDE DEF service
  <1>9. /\ IsNode(client)
        /\ client.month = counted.month
        /\ client.estimation = counted.estimation
        /\ DOMAIN client.children = DOMAIN counted.children \cup {sn}
        /\ client.children[sn] = service
        /\ \A s \in DOMAIN counted.children \ {sn} :
             client.children[s] = counted.children[s]
    BY <1>6, WithChildType
  <1> HIDE DEF client
  \* Entries of services that are not the sample's are left as they are.
  <1>10. ASSUME NEW c \in DOMAIN root.children \cup {cn}, NEW s, NEW node,
                c # cn \/ s # sn,
                s \in {a[i].names.service : i \in Client(a, c)},
                ServiceMatches(node, a, c, s)
         PROVE  ServiceMatches(node, b, c, s)
    <2>1. Service(a, c, s) # {}
      BY <1>10 DEF Service
    <2>2. Service(a, c, s) \subseteq DOMAIN a /\ Service(b, c, s) = Service(a, c, s)
      <3>1. /\ Service(a, c, s) \subseteq DOMAIN a
            /\ Service(b, c, s) = Service(a, c, s) \cup
                 (IF c = cn /\ s = sn THEN {Len(a) + 1} ELSE {})
        BY ServicePlacesGrow
      <3> HIDE DEF b, cn, sn
      <3> QED
        BY <1>10, <3>1
    <2>3. NodeMatches(node, b, Service(a, c, s))
      BY <1>10, <2>1, <2>2, StillMatches DEF ServiceMatches
    <2> QED
      BY <2>2, <2>3 DEF ServiceMatches
  <1>11. ClientMatches(client, b, cn)
    <2>1. NodeMatches(client, b, Client(b, cn))
      BY <1>6, <1>9 DEF NodeMatches
    <2>2. DOMAIN client.children = {b[i].names.service : i \in Client(b, cn)}
      BY <1>4, <1>5, <1>6, <1>9
    <2>3. ASSUME NEW s \in DOMAIN client.children
          PROVE  ServiceMatches(client.children[s], b, cn, s)
      <3>1. CASE s = sn
        BY <1>8, <1>9, <3>1
      <3>2. CASE s # sn
        <4>1. s \in DOMAIN oldClient.children /\ client.children[s] = oldClient.children[s]
          BY <1>6, <1>9, <3>2
        <4>2. ServiceMatches(oldClient.children[s], a, cn, s)
          BY <1>4, <4>1
        <4> QED
          BY <1>4, <1>10, <3>2, <4>1, <4>2
      <3> QED
        BY <3>1, <3>2
    <2> HIDE DEF b
    <2> QED
      BY <2>1, <2>2, <2>3 DEF ClientMatches
  <1>12. ASSUME NEW c \in DOMAIN root.children, c # cn
         PROVE  ClientMatches(root.children[c], b, c)
    <2> DEFINE node == root.children[c]
    <2>1. ClientMatches(node, a, c) /\ Client(a, c) # {}
      BY <1>2 DEF Client
    <2>2. /\ Client(a, c) \subseteq DOMAIN a /\ Client(b, c) = Client(a, c)
          /\ {b[i].names.service : i \in Client(b, c)} =
               {a[i].names.service : i \in Client(a, c)}
      <3>1. /\ Client(a, c) \subseteq DOMAIN a
            /\ Client(b, c) = Client(a, c) \cup
                 (IF c = cn THEN {Len(a) + 1} ELSE {})
            /\ {b[i].names.service : i \in Client(b, c)} =
                 {a[i].names.service : i \in Client(a, c)} \cup
                 (IF c = cn THEN {sn} ELSE {})
        BY PlacesGrow, SMTT(30)
      <3> HIDE DEF b, cn, sn
      <3> QED
        BY <1>12, <3>1
    <2> HIDE DEF node
    <2>3. NodeMatches(node, b, Client(b, c))
      <3>1. NodeMatches(node, a, Client(a, c))
        BY <2>1 DEF ClientMatches
      <3>2. NodeMatches(node, b, Client(a, c))
        BY <2>1, <2>2, <3>1, StillMatches
      <3> QED
        BY <2>2, <3>2
    <2>4. ASSUME NEW s \in DOMAIN node.children
          PROVE  ServiceMatches(node.children[s], b, c, s)
      <3>1. /\ ServiceMatches(node.children[s], a, c, s)
            /\ s \in {a[i].names.service : i \in Client(a, c)}
        BY <2>1 DEF ClientMatches
      <3> QED
        BY <1>10, <1>12, <3>1
    <2>5. DOMAIN node.children = {b[i].names.service : i \in Client(b, c)}
      BY <2>1, <2>2 DEF ClientMatches
    <2> HIDE DEF b
    <2>6. ClientMatches(node, b, c)
      BY <2>3, <2>4, <2>5 DEF ClientMatches
    <2> QED
      BY <2>6 DEF node
  <1>13. /\ IsNode(sums)
         /\ sums.month = root.month + e.value
         /\ sums.estimation = root.estimation + ApiCalls!Estimate(e.value)
         /\ sums.children = root.children
    <2>1. PICK m, s, c : root = [month |-> m, estimation |-> s, children |-> c]
      BY <1>2 DEF IsNode
    <2> DEFINE x == [root EXCEPT !.month = root.month + e.value]
    <2>2. x = [month |-> m + e.value, estimation |-> s, children |-> c]
      BY <2>1
    <2>3. sums = [x EXCEPT !.estimation = root.estimation + ApiCalls!Estimate(e.value)]
      BY Zenon DEF ApiCalls!CountedAtRoot
    <2>4. root.estimation = s /\ root.month = m /\ root.children = c
      BY <2>1
    <2> HIDE DEF x, sums
    <2>5. sums = [month |-> m + e.value,
                  estimation |-> s + ApiCalls!Estimate(e.value),
                  children |-> c]
      BY <2>2, <2>3, <2>4
    <2> QED
      BY <2>4, <2>5 DEF IsNode
  <1> HIDE DEF sums
  <1>14. /\ IsNode(added)
         /\ added.month = sums.month
         /\ added.estimation = sums.estimation
         /\ DOMAIN added.children = DOMAIN root.children \cup {cn}
         /\ added.children[cn] = client
         /\ \A c \in DOMAIN root.children \ {cn} :
              added.children[c] = root.children[c]
    <2>1. /\ IsNode(added)
          /\ added.month = sums.month
          /\ added.estimation = sums.estimation
          /\ DOMAIN added.children = DOMAIN sums.children \cup {cn}
          /\ added.children[cn] = client
          /\ \A c \in DOMAIN sums.children \ {cn} :
               added.children[c] = sums.children[c]
      BY <1>13, WithChildType
    <2> QED
      BY <1>13, <2>1
  <1> HIDE DEF added
  <1>15. /\ added.month = RequestsAt(b, DOMAIN b)
         /\ added.estimation = EstimatedAt(b, DOMAIN b)
    <2>1. DOMAIN b = DOMAIN a \cup {Len(a) + 1}
      BY PlacesGrow
    <2>2. /\ RequestsAt(b, DOMAIN a \cup {Len(a) + 1}) = RequestsAt(a, DOMAIN a) + e.value
          /\ RequestsAt(a, DOMAIN a) \in Nat
      BY SampleRead
    <2>3. RequestsAt(b, DOMAIN b) = root.month + e.value
      BY <1>2, <2>1, <2>2
    <2>4. EstimatedAt(b, DOMAIN b) =
            EstimatedAt(a, DOMAIN a) + ApiCalls!Estimate(e.value)
      BY SampleEstimated
    <2> QED
      BY <1>2, <1>13, <1>14, <2>3, <2>4
  <1>16. IsTree(added)
    <2>1. ASSUME NEW c \in DOMAIN added.children
          PROVE  /\ IsNode(added.children[c])
                 /\ \A s \in DOMAIN added.children[c].children :
                      IsNode(added.children[c].children[s])
      <3>1. CASE c = cn
        <4>1. ASSUME NEW s \in DOMAIN client.children
              PROVE  IsNode(client.children[s])
          BY <1>4, <1>6, <1>8, <1>9
        <4> QED
          BY <1>9, <1>14, <3>1, <4>1
      <3>2. CASE c # cn
        BY <1>2, <1>14, <3>2
      <3> QED
        BY <3>1, <3>2
    <2> QED
      BY <1>14, <2>1 DEF IsTree
  <1>17. Matches(added, b)
    <2>1. DOMAIN added.children = {b[i].names.client : i \in DOMAIN b}
      BY <1>2, <1>14, PlacesGrow
    <2>2. ASSUME NEW c \in DOMAIN added.children
          PROVE  ClientMatches(added.children[c], b, c)
      <3>1. CASE c = cn
        BY <1>11, <1>14, <3>1
      <3>2. CASE c # cn
        BY <1>12, <1>14, <3>2
      <3> QED
        BY <3>1, <3>2
    <2> HIDE DEF b
    <2> QED
      BY <1>15, <2>1, <2>2 DEF Matches
  <1> QED
    BY <1>1, <1>16, <1>17

\* The samples are of the query's answer, and the tree is of entries.
RequestsInv ==
  /\ multiplier \in Multipliers
  /\ answer \in Seq(Sample)
  /\ IsTree(requests)
  /\ Matches(requests, answer)

LEMMA RequestsInvariant == CalculationsSpec => []RequestsInv
  <1>1. CalculationsInit => RequestsInv
    <2> SUFFICES ASSUME CalculationsInit PROVE RequestsInv
      OBVIOUS
    <2>1. /\ answer = <<>> /\ requests = ApiCalls!Node
          /\ multiplier \in Multipliers
      BY DEF CalculationsInit, ApiCalls!Init
    <2>2. answer \in Seq(Sample) /\ DOMAIN answer = {}
      BY <2>1
    <2>3. IsNode(ApiCalls!Node) /\ DOMAIN ApiCalls!Node.children = {}
      BY NodeType
    <2>4. RequestsAt(answer, {}) = 0 /\ EstimatedAt(answer, {}) = 0
      BY SumEmpty DEF RequestsAt, EstimatedAt
    <2>5. Matches(requests, answer)
      BY <2>1, <2>2, <2>4 DEF Matches, ApiCalls!Node
    <2> QED
      BY <2>1, <2>2, <2>3, <2>5 DEF RequestsInv, IsTree
  <1>2. RequestsInv /\ [CalculationsNext]_calculationsVars => RequestsInv'
    <2> SUFFICES ASSUME RequestsInv, [CalculationsNext]_calculationsVars
                 PROVE  RequestsInv'
      OBVIOUS
    <2>1. CASE TreeOfRequests
      <3>1. PICK series \in ApiCalls!Series, value \in Values :
              \E names \in ApiCalls!LabelsRead(series) :
                /\ answer' = Append(answer,
                     [series |-> series, names |-> names, value |-> value])
                /\ requests' = ApiCalls!Added(requests, names, value)
        BY <2>1 DEF TreeOfRequests, ApiCalls!Next, ApiCalls!AddSample
      <3>2. PICK names \in ApiCalls!LabelsRead(series) :
              /\ answer' = Append(answer,
                   [series |-> series, names |-> names, value |-> value])
              /\ requests' = ApiCalls!Added(requests, names, value)
        BY <3>1
      <3> DEFINE e == [series |-> series, names |-> names, value |-> value]
      <3>3. e \in Sample /\ e.names = names /\ e.value = value
        BY DEF Sample
      <3>4. skipEstimation' = skipEstimation /\ multiplier' = multiplier
        BY <2>1 DEF TreeOfRequests, ApiCalls!Next, ApiCalls!AddSample
      <3> HIDE DEF e
      <3>5. answer' = Append(answer, e) /\ requests' = ApiCalls!Added(requests, e.names, e.value)
        BY <3>2, <3>3 DEF e
      <3>6. /\ answer' \in Seq(Sample) /\ IsTree(requests')
            /\ Matches(requests', answer')
        BY <3>3, <3>5, AddedMatches DEF RequestsInv
      <3>7. Matches(requests, answer)'
        BY <3>4, <3>6 DEF Matches, ClientMatches, ServiceMatches, NodeMatches, Last,
                          RequestsAt, EstimatedAt, Client, Service, ApiCalls!Estimate
      <3> QED
        BY <3>4, <3>6, <3>7 DEF RequestsInv
    <2>2. CASE UNCHANGED apiCallsVars
      BY <2>2 DEF apiCallsVars, RequestsInv, Matches, ClientMatches, ServiceMatches,
                  NodeMatches, Last, EstimatedAt, ApiCalls!Estimate
    <2> QED
      BY <2>1, <2>2 DEF CalculationsNext, CostOfSample, TreeOfStats,
                        EstimationOfStats, TimeGoesBy, calculationsVars
  <1> QED
    BY <1>1, <1>2, PTL DEF CalculationsSpec

\* What RoundingStaysSmall says of any samples a.
NearMonth(a) ==
  LET missed == EstimatedAt(a, DOMAIN a) * multiplier.den -
                  RequestsAt(a, DOMAIN a) * multiplier.num
      bound == Len(a) * multiplier.den
  IN ~skipEstimation => -bound <= 2 * missed /\ 2 * missed <= bound

\* What is missed of two sums is missed of their parts.
LEMMA MissedAdds ==
  ASSUME NEW k \in Int, NEW d \in Int, NEW s \in Int, NEW r \in Int,
         NEW t \in Int, NEW v \in Int, NEW l \in Int,
         -(l * d) <= 2 * (s * d - r * k), 2 * (s * d - r * k) <= l * d,
         -d <= 2 * (t * d - v * k), 2 * (t * d - v * k) <= d
  PROVE  LET missed == (s + t) * d - (r + v) * k
             bound == (l + 1) * d
         IN -bound <= 2 * missed /\ 2 * missed <= bound
  <1> DEFINE sd == s * d
             td == t * d
             rk == r * k
             vk == v * k
             ld == l * d
  <1>1. /\ (s + t) * d = sd + td /\ (r + v) * k = rk + vk
        /\ (l + 1) * d = ld + d
    OBVIOUS
  <1>2. {sd, td, rk, vk, ld} \subseteq Int
    OBVIOUS
  <1>3. /\ -ld <= 2 * (sd - rk) /\ 2 * (sd - rk) <= ld
        /\ -d <= 2 * (td - vk) /\ 2 * (td - vk) <= d
    OBVIOUS
  <1> HIDE DEF sd, td, rk, vk, ld
  <1>4. /\ -(ld + d) <= 2 * ((sd + td) - (rk + vk))
        /\ 2 * ((sd + td) - (rk + vk)) <= ld + d
    BY <1>2, <1>3
  <1> QED
    BY <1>1, <1>4

\* One more sample is missed by half a request at most.
LEMMA StillNear ==
  ASSUME multiplier \in Multipliers,
         NEW a \in Seq(Sample), NEW e \in Sample, NearMonth(a)
  PROVE  NearMonth(Append(a, e))
  <1> DEFINE b == Append(a, e)
             k == multiplier.num
             d == multiplier.den
             s == EstimatedAt(a, DOMAIN a)
             r == RequestsAt(a, DOMAIN a)
             t == ApiCalls!Estimate(e.value)
             v == e.value
  <1> SUFFICES ASSUME ~skipEstimation PROVE NearMonth(b)
    BY DEF NearMonth
  <1>1. k \in Nat /\ d \in Nat \ {0} /\ v \in Nat /\ v * k \in Nat /\ t \in Nat
    <2>1. k \in Nat /\ d \in Nat \ {0} /\ v \in Nat /\ v \in Values
      BY ValuesAssumption DEF Sample
    <2> QED
      BY <2>1, EstimateType
  <1>2. EstimatedAt(b, DOMAIN b) = s + t /\ s \in Int
    BY SampleEstimated
  <1>3. RequestsAt(b, DOMAIN b) = r + v /\ r \in Int
    <2>1. DOMAIN b = DOMAIN a \cup {Len(a) + 1}
      BY PlacesGrow
    <2> QED
      BY <2>1, SampleRead
  <1>4. Len(b) = Len(a) + 1 /\ Len(a) \in Int
    OBVIOUS
  <1>5. -d <= 2 * (t * d - v * k) /\ 2 * (t * d - v * k) <= d
    <2>1. t = ApiCalls!Round(v * k, d)
      BY DEF ApiCalls!Estimate
    <2> HIDE DEF t, v, k, d
    <2> QED
      BY <1>1, <2>1, RoundHalf
  <1>6. /\ -(Len(a) * d) <= 2 * (s * d - r * k)
        /\ 2 * (s * d - r * k) <= Len(a) * d
    BY DEF NearMonth
  <1> HIDE DEF b, k, d, s, r, t, v
  <1>7. /\ -((Len(a) + 1) * d) <= 2 * ((s + t) * d - (r + v) * k)
        /\ 2 * ((s + t) * d - (r + v) * k) <= (Len(a) + 1) * d
    <2> DEFINE l == Len(a)
    <2>1. l \in Int /\ k \in Int /\ d \in Int /\ s \in Int /\ r \in Int
          /\ t \in Int /\ v \in Int
      BY <1>1, <1>2, <1>3, <1>4
    <2>2. /\ -(l * d) <= 2 * (s * d - r * k) /\ 2 * (s * d - r * k) <= l * d
          /\ -d <= 2 * (t * d - v * k) /\ 2 * (t * d - v * k) <= d
      BY <1>5, <1>6
    <2> HIDE DEF l
    <2>3. /\ -((l + 1) * d) <= 2 * ((s + t) * d - (r + v) * k)
          /\ 2 * ((s + t) * d - (r + v) * k) <= (l + 1) * d
      BY <2>1, <2>2, MissedAdds
    <2> QED
      BY <2>3 DEF l
  <1> QED
    BY <1>2, <1>3, <1>4, <1>7 DEF NearMonth, k, d

\* However many samples are rounded, the root's estimation is near the user's
\* month extrapolated: half a request off per sample.
LEMMA RoundingSmall == CalculationsSpec => []ApiCalls!RoundingStaysSmall
  <1>1. CalculationsInit => NearMonth(answer)
    <2> SUFFICES ASSUME CalculationsInit PROVE NearMonth(answer)
      OBVIOUS
    <2>1. answer = <<>> /\ multiplier \in Multipliers
      BY DEF CalculationsInit, ApiCalls!Init
    <2>2. multiplier.num \in Nat /\ multiplier.den \in Nat /\ Len(answer) = 0
      BY <2>1, ValuesAssumption
    <2>3. RequestsAt(answer, DOMAIN answer) = 0 /\ EstimatedAt(answer, DOMAIN answer) = 0
      BY <2>1, SumEmpty DEF RequestsAt, EstimatedAt
    <2> QED
      BY <2>2, <2>3 DEF NearMonth
  <1>2. RequestsInv /\ NearMonth(answer) /\ [CalculationsNext]_calculationsVars
          => NearMonth(answer)'
    <2> SUFFICES ASSUME RequestsInv, NearMonth(answer), [CalculationsNext]_calculationsVars
                 PROVE  NearMonth(answer)'
      OBVIOUS
    <2>1. CASE TreeOfRequests
      <3>1. PICK series \in ApiCalls!Series, value \in Values :
              \E names \in ApiCalls!LabelsRead(series) :
                answer' = Append(answer,
                  [series |-> series, names |-> names, value |-> value])
        BY <2>1 DEF TreeOfRequests, ApiCalls!Next, ApiCalls!AddSample
      <3>2. PICK e \in Sample : answer' = Append(answer, e)
        BY <3>1 DEF Sample
      <3>3. skipEstimation' = skipEstimation /\ multiplier' = multiplier
        BY <2>1 DEF TreeOfRequests, ApiCalls!Next, ApiCalls!AddSample
      <3>4. NearMonth(answer')
        BY <3>2, StillNear DEF RequestsInv
      <3> QED
        BY <3>3, <3>4 DEF NearMonth, RequestsAt, EstimatedAt, ApiCalls!Estimate
    <2>2. CASE UNCHANGED apiCallsVars
      BY <2>2 DEF apiCallsVars, NearMonth, RequestsAt, EstimatedAt, ApiCalls!Estimate
    <2> QED
      BY <2>1, <2>2 DEF CalculationsNext, CostOfSample, TreeOfStats,
                        EstimationOfStats, TimeGoesBy, calculationsVars
  <1>3. RequestsInv /\ NearMonth(answer) => ApiCalls!RoundingStaysSmall
    BY DEF RequestsInv, Matches, NearMonth, ApiCalls!RoundingStaysSmall
  <1> QED
    BY <1>1, <1>2, <1>3, RequestsInvariant, PTL DEF CalculationsSpec

\* However many samples are read, in whatever order, the root and every client
\* and service count the requests of exactly their samples; the root's
\* estimation is the sum of what each of them is rounded to, and at most half a
\* request per sample off the month extrapolated (GetApiCallsTree).
THEOREM ApiCallsMatch == CalculationsSpec => []TreeMatchesAnswer
  <1>1. RequestsInv /\ ApiCalls!RoundingStaysSmall => TreeMatchesAnswer
    BY MatchesIsTreeMatchesAnswer DEF RequestsInv
  <1> QED
    BY <1>1, RequestsInvariant, RoundingSmall, PTL

-----------------------------------------------------------------------------
(* Sorting and searching predictions                                       *)

Word == CpuRam!Fingerprints
Pred == [series : Nat, fingerprint : Word, value : Nat]

NotHalfApart(S) == \A p, q \in S : 2 * CpuRam!Distance(p, q) # Words
Near(S) == \A p, q \in S : 2 * CpuRam!Distance(p, q) < Words

LEMMA PredType == \A p \in Pred : p.fingerprint \in Int
  BY DEF Pred, Word, CpuRam!Fingerprints

\* The comparator tells a difference, as long as it does not overflow.
LEMMA CompareType ==
  ASSUME NEW p \in Pred, NEW q \in Pred
  PROVE  /\ CpuRam!Compare(p, q) \in Int
         /\ CpuRam!Compare(p, q) = 0 <=> p.fingerprint = q.fingerprint
         /\ 2 * CpuRam!Distance(p, q) # Words =>
              (CpuRam!Compare(p, q) < 0 <=> CpuRam!Compare(q, p) > 0)
         /\ 2 * CpuRam!Distance(p, q) < Words =>
              CpuRam!Compare(p, q) = p.fingerprint - q.fingerprint
  <1> DEFINE x == p.fingerprint
             y == q.fingerprint
  <1>1. x \in 0..Words - 1 /\ y \in 0..Words - 1 /\ Words \in Nat /\ Words > 0
    BY WordsAssumption DEF Pred, Word, CpuRam!Fingerprints
  <1>2. /\ CpuRam!Compare(p, q) = CpuRam!ToInt(CpuRam!Minus(x, y))
        /\ CpuRam!Compare(q, p) = CpuRam!ToInt(CpuRam!Minus(y, x))
        /\ CpuRam!Distance(p, q) = IF x < y THEN y - x ELSE x - y
    BY DEF CpuRam!Compare, CpuRam!Distance
  <1> HIDE DEF x, y
  <1>3. /\ CpuRam!ToInt(CpuRam!Minus(x, y)) \in Int
        /\ CpuRam!ToInt(CpuRam!Minus(x, y)) = 0 <=> x = y
    BY <1>1 DEF CpuRam!ToInt, CpuRam!Minus
  <1> DEFINE d == IF x < y THEN y - x ELSE x - y
  <1>4. 2 * d # Words =>
          (CpuRam!ToInt(CpuRam!Minus(x, y)) < 0 <=> CpuRam!ToInt(CpuRam!Minus(y, x)) > 0)
    BY <1>1 DEF CpuRam!ToInt, CpuRam!Minus
  <1>5. 2 * d < Words => CpuRam!ToInt(CpuRam!Minus(x, y)) = x - y
    BY <1>1 DEF CpuRam!ToInt, CpuRam!Minus
  <1> QED
    BY <1>2, <1>3, <1>4, <1>5 DEF x, y

\* One more prediction moves to the left up to one that is not above it.
LEMMA InsertedAt ==
  ASSUME NEW s \in Seq(Pred), NEW x \in Pred
  PROVE  LET t == CpuRam!InsertSorted(s, x)
         IN /\ t \in Seq(Pred) /\ Len(t) = Len(s) + 1
            /\ \E n \in 0..Len(s) :
                 /\ n = 0 \/ CpuRam!Compare(x, s[n]) >= 0
                 /\ \A i \in n + 1..Len(s) : CpuRam!Compare(x, s[i]) < 0
                 /\ \A i \in 1..n : t[i] = s[i]
                 /\ t[n + 1] = x
                 /\ \A i \in n + 1..Len(s) : t[i + 1] = s[i]
  <1> DEFINE IsPlace(n, k) == /\ n = 0 \/ CpuRam!Compare(x, s[n]) >= 0
                              /\ \A i \in n + 1..k : CpuRam!Compare(x, s[i]) < 0
             G == {k \in Nat : k <= Len(s) => \E n \in 0..k : IsPlace(n, k)}
  <1>1. Len(s) \in Nat /\ \A i \in 1..Len(s) : s[i] \in Pred
    OBVIOUS
  <1>2. 0 \in G
    OBVIOUS
  <1>3. ASSUME NEW k \in Nat, k \in G PROVE k + 1 \in G
    <2> SUFFICES ASSUME k + 1 <= Len(s) PROVE \E n \in 0..k + 1 : IsPlace(n, k + 1)
      OBVIOUS
    <2>1. CpuRam!Compare(x, s[k + 1]) \in Int
      BY <1>1, CompareType
    <2>2. CASE CpuRam!Compare(x, s[k + 1]) >= 0
      <3>1. IsPlace(k + 1, k + 1)
        BY <2>2
      <3> QED
        BY <3>1
    <2>3. CASE CpuRam!Compare(x, s[k + 1]) < 0
      <3>1. PICK n \in 0..k : IsPlace(n, k)
        BY <1>1, <1>3
      <3>2. IsPlace(n, k + 1)
        <4>1. \A i \in n + 1..k + 1 : i \in n + 1..k \/ i = k + 1
          OBVIOUS
        <4> QED
          BY <2>3, <3>1, <4>1
      <3> HIDE DEF IsPlace
      <3> QED
        BY <3>2
    <2> QED
      BY <2>1, <2>2, <2>3
  <1>4. \A k \in Nat : k \in G
    <2> HIDE DEF G
    <2> QED
      BY <1>2, <1>3, EveryNat
  <1>5. \E n \in 0..Len(s) : IsPlace(n, Len(s))
    BY <1>1, <1>4
  <1> DEFINE n == CHOOSE n \in 0..Len(s) : IsPlace(n, Len(s))
             t == CpuRam!InsertSorted(s, x)
  <1>6. t = SubSeq(s, 1, n) \o <<x>> \o SubSeq(s, n + 1, Len(s))
    <2> DEFINE k == n + 1
    <2>1. t = CpuRam!InsertAt(s, k, x)
      BY DEF CpuRam!InsertSorted
    <2>2. n \in Nat
      BY <1>5
    <2> HIDE DEF n, t
    <2>3. k - 1 = n /\ k \in Nat
      BY <2>2
    <2> HIDE DEF k
    <2>4. t = SubSeq(s, 1, k - 1) \o <<x>> \o SubSeq(s, k, Len(s))
      BY <2>1 DEF CpuRam!InsertAt
    <2>5. t = SubSeq(s, 1, n) \o <<x>> \o SubSeq(s, k, Len(s))
      BY <2>3, <2>4
    <2> QED
      BY <2>5 DEF k
  <1>7. n \in 0..Len(s) /\ IsPlace(n, Len(s))
    BY <1>5
  <1> HIDE DEF n, t, IsPlace
  <1>8. /\ t \in Seq(Pred) /\ Len(t) = Len(s) + 1
        /\ \A i \in 1..n : t[i] = s[i]
        /\ t[n + 1] = x
        /\ \A i \in n + 1..Len(s) : t[i + 1] = s[i]
    <2> DEFINE left == SubSeq(s, 1, n)
               right == SubSeq(s, n + 1, Len(s))
    <2>1. /\ left \in Seq(Pred) /\ Len(left) = n
          /\ \A i \in 1..n : left[i] = s[i]
      BY <1>1, <1>7
    <2>2. /\ right \in Seq(Pred) /\ Len(right) = Len(s) - n
          /\ \A i \in 1..Len(s) - n : right[i] = s[n + i]
      BY <1>1, <1>7
    <2> HIDE DEF left, right
    <2> DEFINE u == left \o <<x>>
    <2>3. /\ u \in Seq(Pred) /\ Len(u) = n + 1 /\ u[n + 1] = x
          /\ \A i \in 1..n : u[i] = left[i]
      BY <1>1, <1>7, <2>1
    <2> HIDE DEF u
    <2>4. t = u \o right
      BY <1>6 DEF u, left, right
    <2>5. /\ t \in Seq(Pred) /\ Len(t) = Len(s) + 1
          /\ \A i \in 1..n + 1 : t[i] = u[i]
          /\ \A i \in 1..Len(s) - n : t[n + 1 + i] = right[i]
      BY <1>1, <1>7, <2>2, <2>3, <2>4
    <2>6. ASSUME NEW i \in n + 1..Len(s) PROVE t[i + 1] = s[i]
      <3>1. i - n \in 1..Len(s) - n /\ n + 1 + (i - n) = i + 1 /\ n + (i - n) = i
        BY <1>1, <1>7
      <3> QED
        BY <2>2, <2>5, <3>1
    <2>7. n + 1 \in 1..n + 1 /\ \A i \in 1..n : i \in 1..n + 1
      BY <1>1, <1>7
    <2> QED
      BY <2>1, <2>3, <2>5, <2>6, <2>7
  <1> QED
    BY <1>7, <1>8 DEF IsPlace, t

Elements(s) == {s[i] : i \in 1..Len(s)}

\* No prediction is above the next one, as far as the comparator tells.
Adjacent(s) ==
  \A i \in 1..Len(s) - 1 : CpuRam!Compare(s[i + 1], s[i]) >= 0

Ascending(s) ==
  \A i, j \in 1..Len(s) : i <= j => s[i].fingerprint <= s[j].fingerprint

LEMMA InsertedKeepsOrder ==
  ASSUME NEW s \in Seq(Pred), NEW x \in Pred
  PROVE  LET t == CpuRam!InsertSorted(s, x)
         IN /\ Elements(t) = Elements(s) \cup {x}
            /\ NotHalfApart(Elements(s) \cup {x}) /\ Adjacent(s) => Adjacent(t)
            /\ Near(Elements(s) \cup {x}) /\ Ascending(s) => Ascending(t)
  <1> DEFINE t == CpuRam!InsertSorted(s, x)
  <1>1. /\ t \in Seq(Pred) /\ Len(t) = Len(s) + 1
        /\ \E n \in 0..Len(s) :
             /\ n = 0 \/ CpuRam!Compare(x, s[n]) >= 0
             /\ \A i \in n + 1..Len(s) : CpuRam!Compare(x, s[i]) < 0
             /\ \A i \in 1..n : t[i] = s[i]
             /\ t[n + 1] = x
             /\ \A i \in n + 1..Len(s) : t[i + 1] = s[i]
    BY InsertedAt
  <1> HIDE DEF t
  <1>2. PICK n \in 0..Len(s) :
             /\ n = 0 \/ CpuRam!Compare(x, s[n]) >= 0
             /\ \A i \in n + 1..Len(s) : CpuRam!Compare(x, s[i]) < 0
             /\ \A i \in 1..n : t[i] = s[i]
             /\ t[n + 1] = x
             /\ \A i \in n + 1..Len(s) : t[i + 1] = s[i]
    BY <1>1
  <1>3. /\ Len(s) \in Nat /\ n \in Nat /\ n <= Len(s)
        /\ \A i \in 1..Len(s) : s[i] \in Pred
    BY <1>2
  \* Where an element of t comes from.
  <1>4. ASSUME NEW i \in 1..Len(t)
        PROVE  \/ i \in 1..n /\ t[i] = s[i]
               \/ i = n + 1 /\ t[i] = x
               \/ i - 1 \in n + 1..Len(s) /\ t[i] = s[i - 1]
    <2>1. CASE i > n + 1
      <3>1. i - 1 \in n + 1..Len(s) /\ (i - 1) + 1 = i
        BY <1>1, <1>3, <2>1
      <3> QED
        BY <1>2, <3>1
    <2>2. CASE i <= n
      BY <1>2, <1>3, <2>2
    <2>3. CASE i = n + 1
      BY <1>2, <2>3
    <2> QED
      BY <1>3, <2>1, <2>2, <2>3
  <1>5. Elements(t) = Elements(s) \cup {x}
    <2>1. ASSUME NEW i \in 1..Len(t) PROVE t[i] \in Elements(s) \cup {x}
      BY <1>3, <1>4, SMTT(30) DEF Elements
    <2>2. n + 1 \in 1..Len(t)
      BY <1>1, <1>3
    <2>3. x \in Elements(t)
      BY <1>2, <2>2 DEF Elements
    <2>4. ASSUME NEW i \in 1..Len(s) PROVE s[i] \in Elements(t)
      <3>1. i \in 1..Len(t) /\ i + 1 \in 1..Len(t)
        BY <1>1, <1>3
      <3>2. i \in 1..n \/ i \in n + 1..Len(s)
        BY <1>3
      <3> QED
        BY <1>2, <3>1, <3>2 DEF Elements
    <2> QED
      BY <2>1, <2>3, <2>4 DEF Elements
  <1>6. ASSUME NotHalfApart(Elements(s) \cup {x}), Adjacent(s),
               NEW i \in 1..Len(t) - 1
        PROVE  CpuRam!Compare(t[i + 1], t[i]) >= 0
    <2>1. i \in 1..Len(t) /\ i + 1 \in 1..Len(t) /\ (i + 1) - 1 = i
      BY <1>1, <1>3
    <2>2. CASE i + 1 <= n
      <3>1. i \in 1..Len(s) - 1 /\ i \in 1..n /\ i + 1 \in 1..n
        BY <1>3, <2>2
      <3> QED
        BY <1>2, <1>6, <3>1 DEF Adjacent
    <2>3. CASE i = n
      <3>1. t[i] = s[n] /\ t[i + 1] = x /\ n # 0
        BY <1>2, <1>3, <2>3
      <3> QED
        BY <1>2, <3>1
    <2>4. CASE i = n + 1
      <3>1. n + 1 \in n + 1..Len(s) /\ n + 1 \in 1..Len(s)
        BY <1>1, <1>3, <2>4
      <3>2. t[i] = x /\ t[i + 1] = s[n + 1] /\ CpuRam!Compare(x, s[n + 1]) < 0
        BY <1>2, <2>4, <3>1
      <3>3. s[n + 1] \in Pred /\ 2 * CpuRam!Distance(x, s[n + 1]) # Words
        BY <1>3, <1>6, <3>1 DEF NotHalfApart, Elements
      <3>4. CpuRam!Compare(s[n + 1], x) > 0 /\ CpuRam!Compare(s[n + 1], x) \in Int
        BY <3>2, <3>3, CompareType
      <3> QED
        BY <3>2, <3>4
    <2>5. CASE i > n + 1
      <3>1. /\ i - 1 \in 1..Len(s) - 1 /\ i - 1 \in n + 1..Len(s)
            /\ i \in n + 1..Len(s) /\ (i - 1) + 1 = i
        BY <1>1, <1>3, <2>5
      <3>2. t[i] = s[i - 1] /\ t[i + 1] = s[i]
        BY <1>2, <3>1
      <3>3. CpuRam!Compare(s[(i - 1) + 1], s[i - 1]) >= 0
        BY <1>6, <3>1 DEF Adjacent
      <3> QED
        BY <3>1, <3>2, <3>3
    <2> QED
      BY <1>3, <2>2, <2>3, <2>4, <2>5
  <1>7. ASSUME Near(Elements(s) \cup {x}), Ascending(s),
               NEW i \in 1..Len(t), NEW j \in 1..Len(t), i <= j
        PROVE  t[i].fingerprint <= t[j].fingerprint
    <2>1. ASSUME NEW k \in 1..Len(s)
          PROVE  /\ s[k] \in Pred /\ s[k].fingerprint \in Int
                 /\ CpuRam!Compare(x, s[k]) = x.fingerprint - s[k].fingerprint
      <3>1. s[k] \in Pred /\ 2 * CpuRam!Distance(x, s[k]) < Words
        BY <1>3, <1>7 DEF Near, Elements
      <3> QED
        <4>1. CpuRam!Compare(x, s[k]) = x.fingerprint - s[k].fingerprint
          <5>1. 2 * CpuRam!Distance(x, s[k]) < Words =>
                  CpuRam!Compare(x, s[k]) = x.fingerprint - s[k].fingerprint
            BY <3>1, CompareType
          <5> QED
            BY <3>1, <5>1
        <4>2. s[k].fingerprint \in Int
          BY <3>1, PredType
        <4> QED
          BY <3>1, <4>1, <4>2
    <2>2. x.fingerprint \in Int
      BY DEF Pred, Word, CpuRam!Fingerprints
    <2>3. \A k \in 1..n : s[k].fingerprint <= x.fingerprint
      <3> SUFFICES ASSUME NEW k \in 1..n PROVE s[k].fingerprint <= x.fingerprint
        OBVIOUS
      <3>1. k \in 1..Len(s) /\ n \in 1..Len(s) /\ k <= n /\ n # 0
        BY <1>3
      <3>2. s[k].fingerprint <= s[n].fingerprint
        BY <1>7, <3>1 DEF Ascending
      <3>3. x.fingerprint - s[n].fingerprint >= 0
        BY <1>2, <2>1, <3>1
      <3>4. s[k].fingerprint \in Int /\ s[n].fingerprint \in Int
        BY <2>1, <3>1
      <3> QED
        BY <2>2, <3>2, <3>3, <3>4
    <2>4. \A k \in n + 1..Len(s) : x.fingerprint <= s[k].fingerprint
      <3> SUFFICES ASSUME NEW k \in n + 1..Len(s) PROVE x.fingerprint <= s[k].fingerprint
        OBVIOUS
      <3>1. k \in 1..Len(s)
        BY <1>3
      <3>2. x.fingerprint - s[k].fingerprint < 0 /\ s[k].fingerprint \in Int
        BY <1>2, <2>1, <3>1
      <3> QED
        BY <2>2, <3>2
    <2>5. \A k, l \in 1..Len(s) : k <= l => s[k].fingerprint <= s[l].fingerprint
      BY <1>7 DEF Ascending
    <2>6. CASE i \in 1..n /\ t[i] = s[i]
      <3>1. CASE j \in 1..n /\ t[j] = s[j]
        BY <1>3, <1>7, <2>5, <2>6, <3>1
      <3>2. CASE j = n + 1 /\ t[j] = x
        BY <2>3, <2>6, <3>2
      <3>3. CASE j - 1 \in n + 1..Len(s) /\ t[j] = s[j - 1]
        <4>1. i \in 1..Len(s) /\ j - 1 \in 1..Len(s) /\ i <= j - 1
          BY <1>3, <2>6, <3>3
        <4> QED
          BY <2>5, <2>6, <3>3, <4>1
      <3> QED
        BY <1>4, <3>1, <3>2, <3>3
    <2>7. CASE i = n + 1 /\ t[i] = x
      <3>1. CASE j = n + 1 /\ t[j] = x
        BY <2>2, <2>7, <3>1
      <3>2. CASE j - 1 \in n + 1..Len(s) /\ t[j] = s[j - 1]
        BY <2>4, <2>7, <3>2
      <3>3. j \notin 1..n
        BY <1>3, <1>7, <2>7
      <3> QED
        BY <1>4, <3>1, <3>2, <3>3
    <2>8. CASE i - 1 \in n + 1..Len(s) /\ t[i] = s[i - 1]
      <3>1. j \notin 1..n /\ j # n + 1
        BY <1>3, <1>7, <2>8
      <3>2. j - 1 \in n + 1..Len(s) /\ t[j] = s[j - 1]
        BY <1>4, <3>1
      <3>3. i - 1 \in 1..Len(s) /\ j - 1 \in 1..Len(s) /\ i - 1 <= j - 1
        BY <1>3, <1>7, <2>8, <3>2
      <3> QED
        BY <2>5, <2>8, <3>2, <3>3
    <2> QED
      BY <1>4, <2>6, <2>7, <2>8
  <1> QED
    BY <1>5, <1>6, <1>7 DEF Adjacent, Ascending, t

\* Sorted takes one prediction after the other.
LEMMA SortedRecursion ==
  ASSUME NEW p \in Seq(Pred)
  PROVE  \E f : /\ CpuRam!Sorted(p) = f[Len(p)]
                /\ f[0] = <<>>
                /\ \A n \in 1..Len(p) : f[n] = CpuRam!InsertSorted(f[n - 1], p[n])
  <1> DEFINE Upto(f, n) == /\ f[0] = <<>>
                           /\ \A m \in 1..n : f[m] = CpuRam!InsertSorted(f[m - 1], p[m])
             IsSorted(f) ==
               f = [n \in 0..Len(p) |->
                      IF n = 0 THEN <<>> ELSE CpuRam!InsertSorted(f[n - 1], p[n])]
             G == {n \in Nat : \E f : Upto(f, n)}
  <1>1. 0 \in G
    <2>1. Upto([m \in 0..0 |-> <<>>], 0)
      OBVIOUS
    <2> HIDE DEF Upto
    <2> QED
      BY <2>1
  <1>2. ASSUME NEW n \in Nat, n \in G PROVE n + 1 \in G
    <2>1. PICK f : Upto(f, n)
      BY <1>2
    <2> DEFINE g == [m \in 0..n + 1 |-> IF m <= n THEN f[m]
                                        ELSE CpuRam!InsertSorted(f[n], p[n + 1])]
    <2>2. \A m \in 0..n : g[m] = f[m]
      OBVIOUS
    <2>3. g[n + 1] = CpuRam!InsertSorted(f[n], p[n + 1])
      OBVIOUS
    <2> HIDE DEF g
    <2>4. ASSUME NEW m \in 1..n + 1 PROVE g[m] = CpuRam!InsertSorted(g[m - 1], p[m])
      <3>1. CASE m \in 1..n
        <4>1. m - 1 \in 0..n /\ m \in 0..n
          BY <3>1
        <4> QED
          BY <2>1, <2>2, <3>1, <4>1
      <3>2. CASE m = n + 1
        <4>1. m - 1 = n /\ n \in 0..n
          BY <3>2
        <4> QED
          BY <2>2, <2>3, <3>2, <4>1
      <3> QED
        BY <3>1, <3>2
    <2>5. Upto(g, n + 1)
      BY <2>1, <2>2, <2>4
    <2> HIDE DEF Upto
    <2> QED
      BY <2>5
  <1>3. \A n \in Nat : n \in G
    <2> HIDE DEF G
    <2> QED
      BY <1>1, <1>2, EveryNat
  <1>4. PICK f : Upto(f, Len(p))
    <2>1. Len(p) \in G
      <3>1. Len(p) \in Nat
        OBVIOUS
      <3> HIDE DEF G
      <3> QED
        BY <1>3, <3>1
    <2> HIDE DEF Upto
    <2> QED
      BY <2>1
  <1> DEFINE g == [n \in 0..Len(p) |-> f[n]]
             h == CHOOSE h : IsSorted(h)
  <1>5. IsSorted(g)
    <2>1. ASSUME NEW n \in 0..Len(p)
          PROVE  g[n] = IF n = 0 THEN <<>> ELSE CpuRam!InsertSorted(g[n - 1], p[n])
      <3>1. CASE n = 0
        BY <1>4, <3>1
      <3>2. CASE n # 0
        <4>1. n \in 1..Len(p) /\ n - 1 \in 0..Len(p)
          BY <3>2
        <4> QED
          BY <1>4, <3>2, <4>1
      <3> QED
        BY <3>1, <3>2
    <2> QED
      BY <2>1
  <1>6. IsSorted(h)
    <2> HIDE DEF IsSorted
    <2> QED
      BY <1>5
  <1>7. CpuRam!Sorted(p) = h[Len(p)]
    BY DEF CpuRam!Sorted
  <1> HIDE DEF h
  <1>8. h[0] = <<>> /\ \A n \in 1..Len(p) : h[n] = CpuRam!InsertSorted(h[n - 1], p[n])
    BY <1>6
  <1> QED
    BY <1>7, <1>8

\* Predictions are neither lost nor made up, and are in order as far as their
\* comparator is one.
LEMMA SortedType ==
  ASSUME NEW p \in Seq(Pred)
  PROVE  LET s == CpuRam!Sorted(p)
         IN /\ s \in Seq(Pred) /\ Len(s) = Len(p) /\ Elements(s) = Elements(p)
            /\ NotHalfApart(Elements(p)) => Adjacent(s)
            /\ Near(Elements(p)) => Ascending(s)
  <1>1. PICK f : /\ CpuRam!Sorted(p) = f[Len(p)]
                 /\ f[0] = <<>>
                 /\ \A n \in 1..Len(p) : f[n] = CpuRam!InsertSorted(f[n - 1], p[n])
    BY SortedRecursion
  <1> DEFINE First(n) == {p[i] : i \in 1..n}
             Good(s, n) == /\ s \in Seq(Pred) /\ Len(s) = n /\ Elements(s) = First(n)
                           /\ NotHalfApart(Elements(p)) => Adjacent(s)
                           /\ Near(Elements(p)) => Ascending(s)
             G == {n \in Nat : n <= Len(p) => Good(f[n], n)}
  <1>2. 0 \in G
    <2>1. f[0] \in Seq(Pred) /\ Len(f[0]) = 0
      BY <1>1
    <2>2. Elements(f[0]) = {} /\ First(0) = {}
      BY <2>1 DEF Elements
    <2>3. Adjacent(f[0]) /\ Ascending(f[0])
      BY <2>1 DEF Adjacent, Ascending
    <2> QED
      BY <2>1, <2>2, <2>3
  <1>3. ASSUME NEW n \in Nat, n \in G PROVE n + 1 \in G
    <2> SUFFICES ASSUME n + 1 <= Len(p) PROVE Good(f[n + 1], n + 1)
      OBVIOUS
    <2>1. Len(p) \in Nat /\ n + 1 \in 1..Len(p) /\ n <= Len(p) /\ (n + 1) - 1 = n
      OBVIOUS
    <2>2. Good(f[n], n)
      BY <1>3, <2>1
    <2>3. p[n + 1] \in Pred
      BY <2>1
    <2> DEFINE s == f[n]
               x == p[n + 1]
    <2>4. f[n + 1] = CpuRam!InsertSorted(s, x)
      BY <1>1, <2>1
    <2>5. First(n + 1) = First(n) \cup {x}
      <3>1. 1..n + 1 = (1..n) \cup {n + 1}
        OBVIOUS
      <3> QED
        BY <3>1
    <2>6. Elements(s) \cup {x} \subseteq Elements(p)
      <3>1. Elements(s) = First(n)
        BY <2>2
      <3>2. \A i \in 1..n : i \in 1..Len(p)
        BY <2>1
      <3>3. x \in Elements(p) /\ First(n) \subseteq Elements(p)
        BY <2>1, <3>2 DEF Elements
      <3> HIDE DEF s, x, First
      <3> QED
        BY <3>1, <3>3
    <2>10. s \in Seq(Pred) /\ x \in Pred
      BY <2>2, <2>3
    <2> HIDE DEF First, s, x
    <2>7. f[n + 1] \in Seq(Pred) /\ Len(f[n + 1]) = Len(s) + 1
      BY <2>4, <2>10, InsertedAt
    <2>8. /\ Elements(f[n + 1]) = Elements(s) \cup {x}
          /\ NotHalfApart(Elements(s) \cup {x}) /\ Adjacent(s) => Adjacent(f[n + 1])
          /\ Near(Elements(s) \cup {x}) /\ Ascending(s) => Ascending(f[n + 1])
      BY <2>4, <2>10, InsertedKeepsOrder
    <2>9. /\ NotHalfApart(Elements(p)) => NotHalfApart(Elements(s) \cup {x})
          /\ Near(Elements(p)) => Near(Elements(s) \cup {x})
      BY <2>6 DEF NotHalfApart, Near
    <2> QED
      BY <2>2, <2>5, <2>7, <2>8, <2>9 DEF s
  <1>4. \A n \in Nat : n \in G
    <2> HIDE DEF G
    <2> QED
      BY <1>2, <1>3, EveryNat
  <1>5. Good(f[Len(p)], Len(p))
    BY <1>4
  <1> QED
    BY <1>1, <1>5 DEF Elements

\* What SearchPlace's function f is at i and j, by its value at fewer elements.
SearchStep(f, s, target, i, j) ==
  IF i >= j THEN i
  ELSE LET half == (i + j) \div 2
       IN IF CpuRam!Compare(s[half + 1], target) < 0 THEN f[<<half + 1, j>>]
                                                     ELSE f[<<i, half>>]

LEMMA Half ==
  ASSUME NEW i \in Nat, NEW j \in Nat, i < j
  PROVE  LET half == (i + j) \div 2 IN half \in i..j - 1
  OBVIOUS

LEMMA SearchRecursion ==
  ASSUME NEW s \in Seq(Pred), NEW target
  PROVE  \E f : /\ CpuRam!SearchPlace(s, target) = f[<<0, Len(s)>>]
                /\ \A i, j \in 0..Len(s) : f[<<i, j>>] = SearchStep(f, s, target, i, j)
  <1> DEFINE L == Len(s)
             Step(f, i, j) == SearchStep(f, s, target, i, j)
             Upto(f, n) == \A i, j \in 0..L : j - i <= n => f[<<i, j>>] = Step(f, i, j)
             Spans == (0..L) \X (0..L)
             IsSearch(f) == f = [span \in Spans |-> Step(f, span[1], span[2])]
             G == {n \in Nat : \E f : Upto(f, n)}
  <1>1. L \in Nat
    OBVIOUS
  <1> HIDE DEF L
  <1>2. ASSUME NEW f, NEW g, NEW i \in 0..L, NEW j \in 0..L,
               \A k, l \in 0..L : l - k < j - i => f[<<k, l>>] = g[<<k, l>>]
        PROVE  Step(f, i, j) = Step(g, i, j)
    <2>1. CASE i >= j
      BY <2>1 DEF SearchStep
    <2>2. CASE i < j
      <3> DEFINE half == (i + j) \div 2
      <3>1. i \in Nat /\ j \in Nat /\ half \in i..j - 1
        BY <1>1, <2>2, Half
      <3> HIDE DEF half
      <3>2. half \in 0..L /\ half + 1 \in 0..L /\ half - i < j - i /\ j - (half + 1) < j - i
        BY <1>1, <3>1
      <3>3. f[<<half + 1, j>>] = g[<<half + 1, j>>] /\ f[<<i, half>>] = g[<<i, half>>]
        BY <1>2, <3>2
      <3> QED
        BY <2>2, <3>1, <3>3 DEF SearchStep, half
    <2> QED
      BY <1>1, <2>1, <2>2
  <1>3. 0 \in G
    <2> DEFINE f == [span \in Spans |-> span[1]]
    <2>1. ASSUME NEW i \in 0..L, NEW j \in 0..L, j - i <= 0
          PROVE  f[<<i, j>>] = Step(f, i, j)
      <3>1. i >= j /\ f[<<i, j>>] = i
        BY <1>1, <2>1
      <3> HIDE DEF f
      <3> QED
        BY <3>1 DEF SearchStep
    <2> HIDE DEF f, Step
    <2> QED
      BY <2>1
  <1>4. ASSUME NEW n \in Nat, n \in G PROVE n + 1 \in G
    <2>1. PICK f : Upto(f, n)
      BY <1>4
    <2> DEFINE g == [span \in Spans |->
                       IF span[2] - span[1] <= n THEN f[span]
                       ELSE Step(f, span[1], span[2])]
    <2>2. \A i, j \in 0..L : g[<<i, j>>] = IF j - i <= n THEN f[<<i, j>>] ELSE Step(f, i, j)
      OBVIOUS
    <2> HIDE DEF g, Step
    <2>3. ASSUME NEW i \in 0..L, NEW j \in 0..L, j - i <= n + 1
          PROVE  g[<<i, j>>] = Step(g, i, j)
      <3>1. g[<<i, j>>] = Step(f, i, j)
        BY <2>1, <2>2
      <3>2. ASSUME NEW k \in 0..L, NEW l \in 0..L, l - k < j - i
            PROVE  f[<<k, l>>] = g[<<k, l>>]
        <4>1. l - k <= n
          BY <1>1, <2>3, <3>2
        <4> QED
          BY <2>2, <4>1
      <3>3. Step(f, i, j) = Step(g, i, j)
        BY <1>2, <3>2
      <3> QED
        BY <3>1, <3>3
    <2>4. Upto(g, n + 1)
      BY <2>3
    <2> HIDE DEF Upto
    <2> QED
      BY <2>4
  <1>5. \A n \in Nat : n \in G
    <2> HIDE DEF G
    <2> QED
      BY <1>3, <1>4, EveryNat
  <1>6. PICK f : Upto(f, L)
    <2>1. L \in G
      BY <1>1, <1>5
    <2> HIDE DEF Upto
    <2> QED
      BY <2>1
  <1> DEFINE g == [span \in Spans |-> f[span]]
  <1>7. \A i, j \in 0..L : g[<<i, j>>] = f[<<i, j>>]
    OBVIOUS
  <1>8. IsSearch(g)
    <2>1. ASSUME NEW i \in 0..L, NEW j \in 0..L
          PROVE  f[<<i, j>>] = Step(g, i, j)
      <3>1. j - i <= L
        BY <1>1
      <3>2. f[<<i, j>>] = Step(f, i, j)
        BY <1>6, <3>1
      <3> HIDE DEF g, Step
      <3> QED
        BY <1>2, <1>7, <3>2
    <2> HIDE DEF Step
    <2>2. ASSUME NEW span \in Spans
          PROVE  g[span] = Step(g, span[1], span[2])
      <3>1. span = <<span[1], span[2]>> /\ span[1] \in 0..L /\ span[2] \in 0..L
        OBVIOUS
      <3>2. g[span] = f[span]
        OBVIOUS
      <3> HIDE DEF g
      <3>3. f[<<span[1], span[2]>>] = Step(g, span[1], span[2])
        BY <2>1, <3>1
      <3> QED
        BY <3>1, <3>2, <3>3
    <2>3. DOMAIN g = Spans /\ g = [span \in Spans |-> g[span]]
      OBVIOUS
    <2> HIDE DEF g
    <2> QED
      BY <2>2, <2>3
  <1> DEFINE h == CHOOSE h : IsSearch(h)
  <1>9. IsSearch(h)
    <2> HIDE DEF IsSearch
    <2> QED
      BY <1>8
  <1>10. CpuRam!SearchPlace(s, target) = h[<<0, L>>]
    BY DEF CpuRam!SearchPlace, SearchStep, L
  <1> HIDE DEF h
  <1>11. \A i, j \in 0..L : h[<<i, j>>] = Step(h, i, j)
    <2> HIDE DEF Step
    <2> QED
      BY <1>9
  <1> QED
    BY <1>10, <1>11 DEF L

\* The place is one where the comparison with the target turns.
LEMMA SearchBorder ==
  ASSUME NEW s \in Seq(Pred), NEW target \in Pred
  PROVE  LET r == CpuRam!SearchPlace(s, target)
         IN /\ r \in 0..Len(s)
            /\ r > 0 => CpuRam!Compare(s[r], target) < 0
            /\ r < Len(s) => CpuRam!Compare(s[r + 1], target) >= 0
  <1>1. PICK f : /\ CpuRam!SearchPlace(s, target) = f[<<0, Len(s)>>]
                 /\ \A i, j \in 0..Len(s) : f[<<i, j>>] = SearchStep(f, s, target, i, j)
    BY SearchRecursion
  <1> DEFINE Border(r, i, j) == /\ r \in i..j
                                /\ r > i => CpuRam!Compare(s[r], target) < 0
                                /\ r < j => CpuRam!Compare(s[r + 1], target) >= 0
             G == {n \in Nat : \A i, j \in 0..Len(s) :
                     i <= j /\ j - i <= n => Border(f[<<i, j>>], i, j)}
  <1>2. Len(s) \in Nat
    OBVIOUS
  <1>3. ASSUME NEW i \in 0..Len(s) PROVE Border(f[<<i, i>>], i, i)
    <2>1. f[<<i, i>>] = SearchStep(f, s, target, i, i) /\ i >= i
      BY <1>1, <1>2
    <2>2. f[<<i, i>>] = i
      BY <2>1 DEF SearchStep
    <2> QED
      BY <1>2, <2>2
  <1>4. 0 \in G
    <2>1. ASSUME NEW i \in 0..Len(s), NEW j \in 0..Len(s), i <= j, j - i <= 0
          PROVE  Border(f[<<i, j>>], i, j)
      <3>1. i = j
        BY <1>2, <2>1
      <3> HIDE DEF Border
      <3> QED
        BY <1>3, <3>1
    <2> HIDE DEF Border
    <2> QED
      BY <2>1
  <1>5. ASSUME NEW n \in Nat, n \in G PROVE n + 1 \in G
    <2> SUFFICES ASSUME NEW i \in 0..Len(s), NEW j \in 0..Len(s), i <= j, j - i <= n + 1
                 PROVE  Border(f[<<i, j>>], i, j)
      <3> HIDE DEF Border
      <3> QED
        OBVIOUS
    <2>1. CASE i = j
      <3> HIDE DEF Border
      <3> QED
        BY <1>3, <2>1
    <2>2. CASE i < j
      <3> DEFINE half == (i + j) \div 2
      <3>1. half \in i..j - 1
        BY <1>2, <2>2, Half
      <3>2. f[<<i, j>>] = IF CpuRam!Compare(s[half + 1], target) < 0
                      THEN f[<<half + 1, j>>] ELSE f[<<i, half>>]
        <4>1. f[<<i, j>>] = SearchStep(f, s, target, i, j)
          BY <1>1
        <4>2. ~(i >= j)
          BY <1>2, <2>2
        <4> QED
          BY <4>1, <4>2 DEF SearchStep
      <3> HIDE DEF half
      <3>3. /\ half \in 0..Len(s) /\ half + 1 \in 0..Len(s)
            /\ i <= half /\ half - i <= n /\ half + 1 <= j /\ j - (half + 1) <= n
        BY <1>2, <3>1
      <3>4. s[half + 1] \in Pred /\ CpuRam!Compare(s[half + 1], target) \in Int
        <4>1. half + 1 \in 1..Len(s)
          BY <1>2, <3>1
        <4>2. s[half + 1] \in Pred
          BY <4>1
        <4> QED
          BY <4>2, CompareType
      <3>5. Border(f[<<half + 1, j>>], half + 1, j) /\ Border(f[<<i, half>>], i, half)
        <4> HIDE DEF Border
        <4> QED
          BY <1>5, <3>3
      <3>6. CASE CpuRam!Compare(s[half + 1], target) < 0
        <4> DEFINE r == f[<<half + 1, j>>]
        <4>1. f[<<i, j>>] = r
          BY <3>2, <3>6
        <4>2. Border(r, half + 1, j)
          BY <3>5
        <4> HIDE DEF r
        <4>3. Border(r, i, j)
          <5>1. CASE r = half + 1
            BY <1>2, <3>1, <3>6, <4>2, <5>1
          <5>2. CASE r > half + 1
            BY <1>2, <3>1, <4>2, <5>2
          <5> QED
            BY <1>2, <3>1, <4>2, <5>1, <5>2
        <4> QED
          BY <4>1, <4>3
      <3>7. CASE CpuRam!Compare(s[half + 1], target) >= 0
        <4> DEFINE r == f[<<i, half>>]
        <4>1. f[<<i, j>>] = r
          BY <3>2, <3>4, <3>7
        <4>2. Border(r, i, half)
          BY <3>5
        <4> HIDE DEF r
        <4>3. Border(r, i, j)
          <5>1. CASE r = half
            BY <1>2, <3>1, <3>7, <4>2, <5>1
          <5>2. CASE r < half
            BY <1>2, <3>1, <4>2, <5>2
          <5> QED
            BY <1>2, <3>1, <4>2, <5>1, <5>2
        <4> QED
          BY <4>1, <4>3
      <3> QED
        BY <3>4, <3>6, <3>7
    <2> QED
      BY <1>2, <2>1, <2>2
  <1>6. \A n \in Nat : n \in G
    <2> HIDE DEF G
    <2> QED
      BY <1>4, <1>5, EveryNat
  <1>7. Border(f[<<0, Len(s)>>], 0, Len(s))
    <2>1. Len(s) \in G
      BY <1>2, <1>6
    <2> HIDE DEF Border
    <2> QED
      BY <1>2, <2>1
  <1> QED
    BY <1>1, <1>7

Found(s, target) ==
  LET r == CpuRam!SearchPlace(s, target)
  IN r < Len(s) /\ CpuRam!Compare(s[r + 1], target) = 0

\* Predictions in the order of their fingerprints are searched as they should.
LEMMA FoundInOrder ==
  ASSUME NEW s \in Seq(Pred), NEW target \in Pred, NEW k \in 1..Len(s),
         s[k].fingerprint = target.fingerprint,
         Near(Elements(s)), Ascending(s)
  PROVE  Found(s, target)
  <1> DEFINE r == CpuRam!SearchPlace(s, target)
             C(i) == CpuRam!Compare(s[i], target)
  <1>1. Len(s) \in Nat /\ \A i \in 1..Len(s) : s[i] \in Pred
    OBVIOUS
  <1>2. ASSUME NEW i \in 1..Len(s)
        PROVE  /\ s[i].fingerprint \in Int
               /\ C(i) = s[i].fingerprint - target.fingerprint
    <2>1. s[i].fingerprint \in Int
      BY <1>1, PredType
    <2>2. 2 * CpuRam!Distance(s[i], s[k]) < Words
      BY DEF Near, Elements
    <2>3. 2 * CpuRam!Distance(s[i], target) < Words
      BY <2>2 DEF CpuRam!Distance
    <2>4. 2 * CpuRam!Distance(s[i], target) < Words =>
            CpuRam!Compare(s[i], target) = s[i].fingerprint - target.fingerprint
      BY <1>1, CompareType
    <2> QED
      BY <2>1, <2>3, <2>4
  <1>3. target.fingerprint \in Int
    BY DEF Pred, Word, CpuRam!Fingerprints
  <1>4. \A i, j \in 1..Len(s) : i <= j => s[i].fingerprint <= s[j].fingerprint
    BY DEF Ascending
  <1>5. r \in 0..Len(s) /\ (r > 0 => C(r) < 0) /\ (r < Len(s) => C(r + 1) >= 0)
    BY SearchBorder
  <1> HIDE DEF r, C
  <1>6. ~(k <= r)
    <2> SUFFICES ASSUME k <= r PROVE FALSE
      OBVIOUS
    <2>1. r \in 1..Len(s) /\ r > 0
      BY <1>1, <1>5
    <2>2. C(r) = s[r].fingerprint - target.fingerprint /\ s[r].fingerprint \in Int
      BY <1>2, <2>1
    <2>3. s[k].fingerprint <= s[r].fingerprint
      BY <1>4, <2>1
    <2> QED
      BY <1>3, <1>5, <2>1, <2>2, <2>3
  <1>7. r < Len(s) /\ r + 1 \in 1..Len(s) /\ r + 1 <= k
    BY <1>1, <1>5, <1>6
  <1>8. C(r + 1) = 0
    <2>1. /\ C(r + 1) = s[r + 1].fingerprint - target.fingerprint
          /\ s[r + 1].fingerprint \in Int
      BY <1>2, <1>7
    <2>2. s[r + 1].fingerprint <= s[k].fingerprint
      BY <1>4, <1>7
    <2> QED
      BY <1>3, <1>5, <1>7, <2>1, <2>2
  <1> QED
    BY <1>7, <1>8 DEF Found, r, C

\* Three of them are compared with their neighbours only, or with the target.
LEMMA FoundOfThree ==
  ASSUME NEW s \in Seq(Pred), NEW target \in Pred, NEW k \in 1..Len(s),
         s[k].fingerprint = target.fingerprint,
         NotHalfApart(Elements(s)), Adjacent(s), Len(s) <= 3
  PROVE  Found(s, target)
  <1> DEFINE C(i) == CpuRam!Compare(s[i], target)
  <1>1. Len(s) \in 1..3 /\ \A i \in 1..Len(s) : s[i] \in Pred
    <2> DEFINE n == Len(s)
    <2>1. n \in Nat /\ n <= 3 /\ k \in Int /\ 1 <= k /\ k <= n
      OBVIOUS
    <2> HIDE DEF n
    <2>3. n \in 1..3
      BY <2>1
    <2>2. Len(s) \in 1..3
      BY <2>3 DEF n
    <2> QED
      BY <2>2
  <1>2. ASSUME NEW i \in 1..Len(s)
        PROVE  C(i) \in Int /\ (C(i) = 0 <=> s[i].fingerprint = target.fingerprint)
    BY <1>1, CompareType
  <1>3. ASSUME NEW i \in 1..Len(s) - 1
        PROVE  /\ C(i) = 0 => C(i + 1) >= 0
               /\ C(i + 1) = 0 => C(i) <= 0
    <2>1. /\ i \in 1..Len(s) /\ i + 1 \in 1..Len(s)
          /\ s[i] \in Pred /\ s[i + 1] \in Pred
      BY <1>1
    <2>2. CpuRam!Compare(s[i + 1], s[i]) >= 0
      BY DEF Adjacent
    <2>3. ~(CpuRam!Compare(s[i], s[i + 1]) > 0)
      <3>1. 2 * CpuRam!Distance(s[i + 1], s[i]) # Words
        BY <2>1 DEF NotHalfApart, Elements
      <3>2. CpuRam!Compare(s[i + 1], s[i]) < 0 <=> CpuRam!Compare(s[i], s[i + 1]) > 0
        BY <2>1, <3>1, CompareType
      <3>3. CpuRam!Compare(s[i + 1], s[i]) \in Int
        BY <2>1, CompareType
      <3> QED
        BY <2>2, <3>2, <3>3
    <2>4. CpuRam!Compare(s[i], s[i + 1]) \in Int
      BY <2>1, CompareType
    <2>5. C(i) = 0 => C(i + 1) = CpuRam!Compare(s[i + 1], s[i])
      BY <1>2, <2>1 DEF CpuRam!Compare
    <2>6. C(i + 1) = 0 => C(i) = CpuRam!Compare(s[i], s[i + 1])
      BY <1>2, <2>1 DEF CpuRam!Compare
    <2> QED
      BY <2>2, <2>3, <2>4, <2>5, <2>6
  <1>4. PICK f : /\ CpuRam!SearchPlace(s, target) = f[<<0, Len(s)>>]
                 /\ \A i, j \in 0..Len(s) : f[<<i, j>>] = SearchStep(f, s, target, i, j)
    BY SearchRecursion
  <1>5. ASSUME NEW i \in 0..Len(s), NEW j \in 0..Len(s), NEW half \in 0..Len(s),
               i < j, half = (i + j) \div 2
        PROVE  f[<<i, j>>] = IF C(half + 1) < 0 THEN f[<<half + 1, j>>]
                                                ELSE f[<<i, half>>]
    <2>1. ~(i >= j)
      BY <1>1, <1>5
    <2>2. f[<<i, j>>] = SearchStep(f, s, target, i, j)
      BY <1>4
    <2> QED
      BY <1>5, <2>1, <2>2 DEF SearchStep
  <1>6. ASSUME NEW i \in 0..Len(s) PROVE f[<<i, i>>] = i
    <2>1. i >= i /\ f[<<i, i>>] = SearchStep(f, s, target, i, i)
      BY <1>1, <1>4
    <2> QED
      BY <2>1 DEF SearchStep
  <1> DEFINE r == CpuRam!SearchPlace(s, target)
  <1> HIDE DEF C
  <1>7. f[<<0, 0>>] = 0 /\ f[<<1, 1>>] = 1
    BY <1>1, <1>6
  <1>8. f[<<0, 1>>] = IF C(1) < 0 THEN 1 ELSE 0
    <2>1. f[<<0, 1>>] = IF C(0 + 1) < 0 THEN f[<<0 + 1, 1>>] ELSE f[<<0, 0>>]
      BY <1>1, <1>5
    <2> QED
      BY <1>7, <2>1
  <1>9. C(k) = 0 /\ C(1) \in Int
    BY <1>1, <1>2
  <1>10. CASE Len(s) = 1
    <2>1. r = 0 /\ C(0 + 1) = 0
      BY <1>4, <1>8, <1>9, <1>10
    <2> QED
      BY <1>10, <2>1 DEF Found, C
  \* The second is the target, or the first is.
  <1>11. ASSUME Len(s) \in 2..3, C(1) = 0 \/ C(2) = 0, r = f[<<0, 1>>]
         PROVE  Found(s, target)
    <2>1. C(2) = 0 => C(1) <= 0
      <3>1. 1 \in 1..Len(s) - 1
        <4> DEFINE n == Len(s)
        <4>1. n \in 2..3
          BY <1>11
        <4> HIDE DEF n
        <4>2. 1 \in 1..n - 1
          BY <4>1
        <4> QED
          BY <4>2 DEF n
      <3>2. C(1 + 1) = 0 => C(1) <= 0
        BY <1>3, <3>1
      <3> QED
        BY <3>2
    <2>2. CASE C(1) < 0
      <3>1. r = 1 /\ C(1 + 1) = 0
        BY <1>8, <1>11, <2>2
      <3> QED
        BY <1>11, <3>1 DEF Found, C
    <2>3. CASE C(1) = 0
      <3>1. r = 0 /\ C(0 + 1) = 0
        BY <1>8, <1>11, <2>3
      <3> QED
        BY <1>11, <3>1 DEF Found, C
    <2> QED
      BY <1>9, <1>11, <2>1, <2>2, <2>3
  <1>12. ASSUME Len(s) \in 2..3, C(1) = 0 PROVE C(2) >= 0
    <2>1. 1 \in 1..Len(s) - 1
      <3> DEFINE n == Len(s)
      <3>1. n \in 2..3
        BY <1>12
      <3> HIDE DEF n
      <3>2. 1 \in 1..n - 1
        BY <3>1
      <3> QED
        BY <3>2 DEF n
    <2>2. C(1) = 0 => C(1 + 1) >= 0
      BY <1>3, <2>1
    <2> QED
      BY <1>12, <2>2
  <1>13. CASE Len(s) = 2
    <2>1. r = IF C(1 + 1) < 0 THEN f[<<1 + 1, 2>>] ELSE f[<<0, 1>>]
      BY <1>4, <1>5, <1>13
    <2>2. C(1) = 0 \/ C(2) = 0
      <3>1. k = 1 \/ k = 2
        BY <1>13
      <3> QED
        BY <1>9, <3>1
    <2>3. C(2) >= 0 /\ C(2) \in Int
      BY <1>2, <1>12, <1>13, <2>2
    <2>4. r = f[<<0, 1>>]
      BY <2>1, <2>3
    <2> QED
      BY <1>11, <1>13, <2>2, <2>4
  <1>14. CASE Len(s) = 3
    <2>1. r = IF C(1 + 1) < 0 THEN f[<<1 + 1, 3>>] ELSE f[<<0, 1>>]
      BY <1>4, <1>5, <1>14
    <2>2. f[<<2, 3>>] = IF C(2 + 1) < 0 THEN f[<<2 + 1, 3>>] ELSE f[<<2, 2>>]
      BY <1>5, <1>14
    <2>3. f[<<2, 2>>] = 2 /\ C(2) \in Int
      BY <1>2, <1>6, <1>14
    <2>4. CASE C(1) = 0 \/ C(2) = 0
      <3>1. C(2) >= 0
        BY <1>12, <1>14, <2>3, <2>4
      <3>2. r = f[<<0, 1>>]
        BY <2>1, <2>3, <3>1
      <3> QED
        BY <1>11, <1>14, <2>4, <3>2
    <2>5. CASE C(3) = 0 /\ C(2) # 0
      <3>1. C(2) < 0
        <4>1. 2 \in 1..Len(s) - 1 /\ 2 + 1 = 3
          BY <1>14
        <4>2. C(2) <= 0
          BY <1>3, <2>5, <4>1
        <4> QED
          BY <2>3, <2>5, <4>2
      <3>2. r = 2 /\ C(2 + 1) = 0
        BY <2>1, <2>2, <2>3, <2>5, <3>1
      <3> QED
        BY <1>14, <3>2 DEF Found, C
    <2>6. k = 1 \/ k = 2 \/ k = 3
      BY <1>14
    <2> QED
      BY <1>9, <2>4, <2>5, <2>6
  <1> QED
    BY <1>1, <1>10, <1>13, <1>14

-----------------------------------------------------------------------------
(* The estimation                                                          *)

\* A statistic's estimation is made of what its sample's search finds.
PredictionInv ==
  /\ predictions \in Seq(Pred)
  /\ sought # NoStat =>
       /\ sought \in Pred
       /\ stat # NoStat
       /\ stat.estimation =
            CpuRam!Estimation(CpuRam!BinarySearch(CpuRam!Sorted(predictions), sought))

\* What is found is a prediction of the sought fingerprint.
LEMMA FoundType ==
  ASSUME NEW p \in Seq(Pred), NEW target \in Pred
  PROVE  LET s == CpuRam!Sorted(p)
             found == CpuRam!BinarySearch(s, target)
         IN /\ ~Found(s, target) => found = {}
            /\ Found(s, target) =>
                 \E q \in Elements(p) : found = {q} /\ q.fingerprint = target.fingerprint
  <1> DEFINE s == CpuRam!Sorted(p)
             r == CpuRam!SearchPlace(s, target)
  <1>1. s \in Seq(Pred) /\ Elements(s) = Elements(p)
    BY SortedType
  <1> HIDE DEF s
  <1>2. CpuRam!BinarySearch(s, target) = IF Found(s, target) THEN {s[r + 1]} ELSE {}
    BY DEF CpuRam!BinarySearch, Found
  <1>3. r \in 0..Len(s)
    BY <1>1, SearchBorder
  <1>4. ASSUME Found(s, target)
        PROVE  s[r + 1] \in Elements(p) /\ s[r + 1].fingerprint = target.fingerprint
    <2>1. r < Len(s) /\ CpuRam!Compare(s[r + 1], target) = 0
      BY <1>4 DEF Found
    <2> HIDE DEF r
    <2>2. r + 1 \in 1..Len(s)
      BY <1>1, <1>3, <2>1
    <2>3. s[r + 1] \in Pred /\ s[r + 1] \in Elements(s)
      BY <1>1, <2>2 DEF Elements
    <2> QED
      BY <1>1, <2>1, <2>3, CompareType
  <1> HIDE DEF r
  <1> QED
    BY <1>2, <1>4 DEF s

LEMMA EstimationType ==
  /\ CpuRam!Month \in Int
  /\ CpuRam!Estimation({}) = CpuRam!Month
  /\ \A q : CpuRam!Estimation({q}) = CpuRam!EstimationBy(q)
  /\ \A q \in Pred : CpuRam!Estimation({q}) \in Int
  <1>1. Price \in Int /\ Average \in Int /\ Passed \in Int /\ Remaining \in Int
    BY PricesAssumption
  <1>2. CpuRam!Month \in Int
    BY <1>1 DEF CpuRam!Month
  <1>3. ASSUME NEW q PROVE CpuRam!Estimation({q}) = CpuRam!EstimationBy(q)
    <2>1. (CHOOSE x \in {q} : TRUE) = q /\ {q} # {}
      OBVIOUS
    <2> QED
      BY <2>1 DEF CpuRam!Estimation, CpuRam!EstimationBy
  <1>4. CpuRam!Estimation({}) = CpuRam!Month
    BY DEF CpuRam!Estimation
  <1>5. ASSUME NEW q \in Pred PROVE CpuRam!EstimationBy(q) \in Int
    <2>1. q.value \in Int
      BY DEF Pred
    <2> QED
      BY <1>1, <1>2, <2>1 DEF CpuRam!EstimationBy
  <1> QED
    BY <1>2, <1>3, <1>4, <1>5

LEMMA PredictionInvariant == CalculationsSpec => []PredictionInv
  <1>1. CalculationsInit => PredictionInv
    <2> SUFFICES ASSUME CalculationsInit PROVE PredictionInv
      OBVIOUS
    <2>1. predictions = <<>> /\ sought = NoStat
      BY DEF CalculationsInit, CpuRam!Init
    <2> QED
      BY <2>1 DEF PredictionInv
  <1>2. PredictionInv /\ [CalculationsNext]_calculationsVars => PredictionInv'
    <2> SUFFICES ASSUME PredictionInv, [CalculationsNext]_calculationsVars
                 PROVE  PredictionInv'
      OBVIOUS
    <2>1. CASE CostOfSample
      <3>1. CASE CpuRam!Predict
        <4>1. PICK f \in Word :
                predictions' = Append(predictions,
                  CpuRam!Prediction(Len(predictions) + 1, f))
          BY <3>1 DEF CpuRam!Predict, Word
        <4>2. CpuRam!Prediction(Len(predictions) + 1, f) \in Pred
          BY DEF CpuRam!Prediction, Pred, PredictionInv
        <4>3. predictions' \in Seq(Pred)
          BY <4>1, <4>2 DEF PredictionInv
        <4>4. stat = NoStat /\ sought' = sought
          BY <3>1 DEF CpuRam!Predict
        <4> QED
          BY <4>3, <4>4 DEF PredictionInv
      <3>2. CASE CpuRam!Estimate
        <4>1. PICK sample \in CpuRam!Samples :
                /\ sought' = sample
                /\ stat' = [month |-> CpuRam!Month,
                            estimation |-> CpuRam!Estimation(
                              CpuRam!BinarySearch(CpuRam!Sorted(predictions), sample))]
          BY <3>2 DEF CpuRam!Estimate
        <4>2. predictions' = predictions /\ predictions \in Seq(Pred)
          BY <3>2 DEF CpuRam!Estimate, PredictionInv
        <4>3. sample \in Pred
          <5>1. \A f \in Word : CpuRam!Prediction(0, f) \in Pred
            BY DEF CpuRam!Prediction, Pred
          <5>2. CpuRam!ToSet(predictions) \subseteq Pred
            BY <4>2 DEF CpuRam!ToSet
          <5> QED
            BY <5>1, <5>2 DEF CpuRam!Samples, Word
        <4> DEFINE found == CpuRam!BinarySearch(CpuRam!Sorted(predictions), sample)
        <4>4. found = {} \/ \E q \in Pred : found = {q}
          <5>1. Elements(predictions) \subseteq Pred
            BY <4>2 DEF Elements
          <5>2. found = {} \/ \E q \in Elements(predictions) : found = {q}
            BY <4>2, <4>3, FoundType
          <5> QED
            BY <5>1, <5>2
        <4>5. CpuRam!Estimation(found) \in Int /\ CpuRam!Month \in Int
          BY <4>4, EstimationType
        <4>6. stat' = [month |-> CpuRam!Month, estimation |-> CpuRam!Estimation(found)]
          BY <4>1
        <4> HIDE DEF found
        <4>7. /\ stat' \in [month : Int, estimation : Int]
              /\ stat'.estimation = CpuRam!Estimation(found)
          BY <4>5, <4>6
        <4>8. stat' # NoStat
          BY <4>7, NoStatAssumption
        <4> QED
          BY <4>1, <4>2, <4>3, <4>7, <4>8 DEF PredictionInv, found
      <3>3. CASE CpuRam!NoEstimate
        BY <3>3 DEF CpuRam!NoEstimate, PredictionInv
      <3> QED
        BY <2>1, <3>1, <3>2, <3>3 DEF CostOfSample, CpuRam!Next
    <2>2. CASE UNCHANGED cpuRamVars
      BY <2>2 DEF cpuRamVars, PredictionInv
    <2> QED
      BY <2>1, <2>2 DEF CalculationsNext, TimeGoesBy, TreeOfStats,
                        EstimationOfStats, TreeOfRequests, calculationsVars
  <1> QED
    BY <1>1, <1>2, PTL DEF CalculationsSpec

LEMMA CandidatesType ==
  /\ CpuRam!ToSet(predictions) = Elements(predictions)
  /\ CpuRam!Candidates =
       {p \in Elements(predictions) : p.fingerprint = sought.fingerprint}
  <1>1. CpuRam!ToSet(predictions) = Elements(predictions)
    BY DEF CpuRam!ToSet, Elements
  <1> QED
    BY <1>1 DEF CpuRam!Candidates

\* However badly predictions are sorted, none of another fingerprint is taken
\* (queryCpuRam), for words of any size.
THEOREM NoOthers == CalculationsSpec => []NoOthersPrediction
  <1>1. PredictionInv => NoOthersPrediction
    <2> SUFFICES ASSUME PredictionInv, sought # NoStat
                 PROVE  stat.estimation \in {CpuRam!Month} \cup
                          {CpuRam!EstimationBy(p) : p \in CpuRam!Candidates}
      BY DEF NoOthersPrediction, CpuRam!NoOthersPrediction, CpuRam!Estimated
    <2> DEFINE found == CpuRam!BinarySearch(CpuRam!Sorted(predictions), sought)
    <2>1. /\ predictions \in Seq(Pred) /\ sought \in Pred
          /\ stat.estimation = CpuRam!Estimation(found)
      BY DEF PredictionInv
    <2>2. \/ found = {}
          \/ \E q \in Elements(predictions) :
               found = {q} /\ q.fingerprint = sought.fingerprint
      BY <2>1, FoundType
    <2> HIDE DEF found
    <2>3. CASE found = {}
      BY <2>1, <2>3, EstimationType
    <2>4. ASSUME NEW q \in Elements(predictions),
                 found = {q}, q.fingerprint = sought.fingerprint
          PROVE  stat.estimation \in {CpuRam!EstimationBy(p) : p \in CpuRam!Candidates}
      <3>1. q \in CpuRam!Candidates
        BY <2>4, CandidatesType
      <3>2. stat.estimation = CpuRam!EstimationBy(q)
        BY <2>1, <2>4, EstimationType
      <3> QED
        BY <3>1, <3>2
    <2> QED
      BY <2>2, <2>3, <2>4
  <1> QED
    BY <1>1, PredictionInvariant, PTL

\* Without an overflow any prediction is found, however many there are, and
\* of three it is found with one, unless two are half the range of words
\* apart (queryCpuRam), for words of any size.
THEOREM FoundIfAny == CalculationsSpec => []PredictionFound
  <1>1. PredictionInv => PredictionFound
    <2> DEFINE all == CpuRam!ToSet(predictions)
    <2> SUFFICES ASSUME PredictionInv, sought # NoStat, CpuRam!Candidates # {},
                        \/ Near(all)
                        \/ Len(predictions) <= 3 /\ NotHalfApart(all)
                 PROVE  stat.estimation \in
                          {CpuRam!EstimationBy(p) : p \in CpuRam!Candidates}
      BY DEF PredictionFound, CpuRam!PredictionFound, CpuRam!Estimated,
             Near, NotHalfApart
    <2> DEFINE s == CpuRam!Sorted(predictions)
               found == CpuRam!BinarySearch(s, sought)
    <2>1. /\ predictions \in Seq(Pred) /\ sought \in Pred
          /\ stat.estimation = CpuRam!Estimation(found)
      BY DEF PredictionInv
    <2>2. /\ s \in Seq(Pred) /\ Len(s) = Len(predictions)
          /\ Elements(s) = Elements(predictions)
          /\ NotHalfApart(Elements(predictions)) => Adjacent(s)
          /\ Near(Elements(predictions)) => Ascending(s)
      BY <2>1, SortedType
    <2>3. /\ ~Found(s, sought) => found = {}
          /\ Found(s, sought) =>
               \E q \in Elements(predictions) :
                 found = {q} /\ q.fingerprint = sought.fingerprint
      BY <2>1, FoundType
    <2>4. /\ all = Elements(predictions)
          /\ CpuRam!Candidates =
               {p \in Elements(predictions) : p.fingerprint = sought.fingerprint}
      BY CandidatesType
    <2> HIDE DEF s, found, all
    <2>5. PICK k \in 1..Len(s) : s[k].fingerprint = sought.fingerprint
      <3>1. PICK p \in Elements(s) : p.fingerprint = sought.fingerprint
        BY <2>2, <2>4
      <3> QED
        BY <3>1 DEF Elements
    <2>6. Found(s, sought)
      <3>1. CASE Near(all)
        BY <2>1, <2>2, <2>4, <2>5, <3>1, FoundInOrder
      <3>2. CASE Len(predictions) <= 3 /\ NotHalfApart(all)
        BY <2>1, <2>2, <2>4, <2>5, <3>2, FoundOfThree
      <3> QED
        BY <3>1, <3>2
    <2>7. PICK q \in Elements(predictions) :
            found = {q} /\ q.fingerprint = sought.fingerprint
      BY <2>3, <2>6
    <2>8. q \in CpuRam!Candidates
      BY <2>4, <2>7
    <2>9. stat.estimation = CpuRam!EstimationBy(q)
      BY <2>1, <2>7, EstimationType
    <2> QED
      BY <2>8, <2>9
  <1> QED
    BY <1>1, PredictionInvariant, PTL

-----------------------------------------------------------------------------
(* The tree of statistics                                                  *)

\* The operators of the community modules are those that the lemmas are about.
LEMMA TreeOperators ==
  /\ \A S : Tree!Cardinality(S) = Cardinality(S)
  /\ \A f : Tree!SumFunction(f) = SumFunctionOnSet(f, DOMAIN f)
  <1>1. \A S : Tree!Cardinality(S) = Cardinality(S)
    BY DEF Tree!Cardinality, Cardinality
  <1>2. \A f : Tree!SumFunction(f) = SumFunctionOnSet(f, DOMAIN f)
    BY DEF Tree!SumFunction, Tree!SumFunctionOnSet,
           Tree!FoldFunctionOnSet, Tree!MapThenFoldSet,
           SumFunctionOnSet, FoldFunctionOnSet, MapThenFoldSet
  <1> QED
    BY <1>1, <1>2

\* Statistics are finitely many, and cost something.
Costing(s) == IsFiniteSet(s) /\ \A x \in s : x.cost \in Int

\* The costs of statistics with a label and of those without it are all.
LEMMA LevelCosts ==
  ASSUME NEW s, Costing(s), NEW label
  PROVE  Tree!LevelCost(s, label) = Tree!CostOfAll(s)
  <1> DEFINE with == Tree!Labelled(s, label)
             without == Tree!Unlabelled(s, label)
             f(t) == [x \in t |-> x.cost]
             cost == f(s)
  <1>1. s = with \cup without /\ with \cap without = {}
    BY DEF Tree!Labelled, Tree!Unlabelled
  <1> HIDE DEF with, without
  <1>2. IsFiniteSet(s) /\ IsFiniteSet(with) /\ IsFiniteSet(without)
    BY <1>1, FS_Subset DEF Costing
  <1>3. ASSUME NEW t \in SUBSET s
        PROVE  Tree!CostOfAll(t) = SumFunctionOnSet(cost, t)
    <2>1. IsFiniteSet(t) /\ \A x \in t : f(t)[x] = cost[x]
      BY <1>2, FS_Subset
    <2>2. Tree!CostOfAll(t) = SumFunctionOnSet(f(t), t)
      BY TreeOperators DEF Tree!CostOfAll
    <2> HIDE DEF f
    <2> QED
      BY <2>1, <2>2, SumEqual
  <1>4. \A x \in s : cost[x] \in Int
    BY DEF Costing
  <1> HIDE DEF f, cost
  <1>5. SumFunctionOnSet(cost, s) = SumFunctionOnSet(cost, with) + SumFunctionOnSet(cost, without)
    BY <1>1, <1>2, <1>4, SumDisjoint
  <1> QED
    BY <1>1, <1>3, <1>5 DEF Tree!LevelCost, with, without

\* What the tree of the statistics t is, by the trees of one label less.
BuildStep(build, n, t) ==
  IF n = 0
  THEN [cost |-> Tree!CostOfAll(t), children |-> <<>>]
  ELSE LET label == Labels[Len(Labels) - n + 1]
       IN [cost     |-> Tree!LevelCost(t, label),
           children |-> [value \in Tree!LabelValues(t, label) |->
                           build[n - 1][Tree!ChildStats(t, label, value)]]]

LEMMA ChildOfSubset ==
  ASSUME NEW s, NEW t \in SUBSET s, NEW label, NEW value
  PROVE  Tree!ChildStats(t, label, value) \in SUBSET s
  BY DEF Tree!ChildStats, Tree!Group, Tree!Labelled

\* BuildTree takes one label after the other, from the last.
LEMMA BuildRecursion ==
  ASSUME NEW s
  PROVE  \E build :
           /\ Tree!BuildTree(s, Labels) = build[Len(Labels)][s]
           /\ \A n \in 0..Len(Labels) : \A t \in SUBSET s :
                build[n][t] = BuildStep(build, n, t)
  <1> DEFINE L == Len(Labels)
             Step(f, n) == [t \in SUBSET s |-> BuildStep(f, n, t)]
             Upto(f, n) == \A m \in 0..n : f[m] = Step(f, m)
             IsBuild(f) == f = [n \in 0..L |-> Step(f, n)]
             G == {n \in Nat : \E f : Upto(f, n)}
  <1>1. L \in Nat
    BY LabelsAssumption
  <1>2. ASSUME NEW n \in Nat, NEW f, NEW g, n # 0 => f[n - 1] = g[n - 1]
        PROVE  Step(f, n) = Step(g, n)
    <2>1. \A t \in SUBSET s : BuildStep(f, n, t) = BuildStep(g, n, t)
      BY <1>2 DEF BuildStep
    <2> QED
      BY <2>1
  <1>3. 0 \in G
    <2> DEFINE f == [m \in 0..0 |-> Step(<<>>, 0)]
    <2>1. f[0] = Step(<<>>, 0)
      OBVIOUS
    <2> HIDE DEF f
    <2>2. f[0] = Step(f, 0)
      BY <1>2, <2>1
    <2> HIDE DEF Step
    <2>3. Upto(f, 0)
      BY <2>2
    <2> HIDE DEF Upto
    <2> QED
      BY <2>3
  <1>4. ASSUME NEW n \in Nat, n \in G PROVE n + 1 \in G
    <2>1. PICK f : Upto(f, n)
      BY <1>4
    <2> DEFINE g == [m \in 0..n + 1 |-> IF m <= n THEN f[m] ELSE Step(f, n + 1)]
    <2> HIDE DEF Step
    <2>2. \A m \in 0..n : g[m] = f[m]
      OBVIOUS
    <2>3. g[n + 1] = Step(f, n + 1)
      OBVIOUS
    <2> HIDE DEF g
    <2>4. ASSUME NEW m \in 0..n + 1 PROVE g[m] = Step(g, m)
      <3>1. CASE m \in 0..n
        <4>1. m # 0 => m - 1 \in 0..n
          BY <3>1
        <4>2. g[m] = Step(f, m) /\ (m # 0 => g[m - 1] = f[m - 1])
          BY <2>1, <2>2, <3>1, <4>1
        <4> QED
          BY <1>2, <3>1, <4>2
      <3>2. CASE m = n + 1
        <4>1. g[m] = Step(f, m) /\ g[m - 1] = f[m - 1]
          BY <2>2, <2>3, <3>2
        <4> QED
          BY <1>2, <3>2, <4>1
      <3> QED
        BY <3>1, <3>2
    <2>5. Upto(g, n + 1)
      BY <2>4
    <2> HIDE DEF Upto
    <2> QED
      BY <2>5
  <1>5. \A n \in Nat : n \in G
    <2> HIDE DEF G
    <2> QED
      BY <1>3, <1>4, EveryNat
  <1>6. PICK f : Upto(f, L)
    <2>1. L \in G
      BY <1>1, <1>5
    <2> HIDE DEF Upto, L
    <2> QED
      BY <2>1
  <1> DEFINE g == [n \in 0..L |-> f[n]]
             h == CHOOSE h : IsBuild(h)
  <1>7. IsBuild(g)
    <2> HIDE DEF L, Step
    <2>1. ASSUME NEW n \in 0..L PROVE g[n] = Step(g, n)
      <3>1. g[n] = Step(f, n) /\ n \in Nat
        BY <1>6
      <3>2. n # 0 => n - 1 \in 0..L
        BY <1>1
      <3>3. n # 0 => g[n - 1] = f[n - 1]
        BY <3>2
      <3> HIDE DEF g
      <3> QED
        BY <1>2, <3>1, <3>3
    <2> QED
      BY <2>1
  <1>8. IsBuild(h)
    <2> HIDE DEF IsBuild
    <2> QED
      BY <1>7
  <1>9. Tree!BuildTree(s, Labels) = h[L][s]
    BY DEF Tree!BuildTree, BuildStep
  <1> HIDE DEF h
  <1>10. \A n \in 0..L : h[n] = Step(h, n)
    <2> HIDE DEF Step, L
    <2> QED
      BY <1>8
  <1>11. \A n \in 0..L : \A t \in SUBSET s : h[n][t] = BuildStep(h, n, t)
    BY <1>10
  <1> QED
    BY <1>9, <1>11

\* NodeAt follows the path one value after the other.
LEMMA NodeRecursion ==
  ASSUME NEW node, NEW path, Len(path) \in Nat
  PROVE  \E at : /\ Tree!NodeAt(node, path) = at[Len(path)]
                 /\ at[0] = node
                 /\ \A n \in 1..Len(path) : at[n] = at[n - 1].children[path[n]]
  <1> DEFINE L == Len(path)
             Step(f, n) == IF n = 0 THEN node ELSE f[n - 1].children[path[n]]
             Upto(f, n) == \A m \in 0..n : f[m] = Step(f, m)
             IsAt(f) == f = [n \in 0..L |-> Step(f, n)]
             G == {n \in Nat : \E f : Upto(f, n)}
  <1>1. 0 \in G
    <2>1. Upto([m \in 0..0 |-> node], 0)
      OBVIOUS
    <2> HIDE DEF Upto
    <2> QED
      BY <2>1
  <1>2. ASSUME NEW n \in Nat, n \in G PROVE n + 1 \in G
    <2>1. PICK f : Upto(f, n)
      BY <1>2
    <2> DEFINE g == [m \in 0..n + 1 |-> IF m <= n THEN f[m]
                                        ELSE f[n].children[path[n + 1]]]
    <2>2. \A m \in 0..n : g[m] = f[m]
      OBVIOUS
    <2>3. g[n + 1] = f[n].children[path[n + 1]]
      OBVIOUS
    <2> HIDE DEF g
    <2>4. ASSUME NEW m \in 0..n + 1 PROVE g[m] = Step(g, m)
      <3>1. CASE m = 0
        BY <2>1, <2>2, <3>1
      <3>2. CASE m \in 1..n
        <4>1. m - 1 \in 0..n /\ m \in 0..n /\ m # 0
          BY <3>2
        <4>2. f[m] = Step(f, m)
          BY <2>1, <4>1
        <4> QED
          BY <2>2, <4>1, <4>2
      <3>3. CASE m = n + 1
        <4>1. m - 1 = n /\ n \in 0..n /\ m # 0
          BY <3>3
        <4> QED
          BY <2>2, <2>3, <3>3, <4>1
      <3> QED
        BY <3>1, <3>2, <3>3
    <2>5. Upto(g, n + 1)
      BY <2>4
    <2> HIDE DEF Upto
    <2> QED
      BY <2>5
  <1>3. \A n \in Nat : n \in G
    <2> HIDE DEF G
    <2> QED
      BY <1>1, <1>2, EveryNat
  <1>4. PICK f : Upto(f, L)
    <2>1. L \in G
      BY <1>3
    <2> HIDE DEF Upto, L
    <2> QED
      BY <2>1
  <1> DEFINE g == [n \in 0..L |-> f[n]]
             h == CHOOSE h : IsAt(h)
  <1>5. IsAt(g)
    <2>1. ASSUME NEW n \in 0..L PROVE g[n] = Step(g, n)
      <3>1. f[n] = Step(f, n)
        BY <1>4
      <3>2. CASE n = 0
        BY <3>1, <3>2
      <3>3. CASE n # 0
        <4>1. n - 1 \in 0..L
          BY <3>3
        <4>2. g[n] = f[n] /\ g[n - 1] = f[n - 1]
          BY <4>1
        <4> HIDE DEF g
        <4> QED
          BY <3>1, <3>3, <4>2
      <3> QED
        BY <3>2, <3>3
    <2> QED
      BY <2>1
  <1>6. IsAt(h)
    <2> HIDE DEF IsAt
    <2> QED
      BY <1>5
  <1>7. Tree!NodeAt(node, path) = h[L]
    BY DEF Tree!NodeAt
  <1> HIDE DEF h
  <1>8. \A n \in 0..L : h[n] = Step(h, n)
    <2> HIDE DEF Step, L
    <2> QED
      BY <1>6
  <1>9. h[0] = node /\ \A n \in 1..L : h[n] = h[n - 1].children[path[n]]
    BY <1>8
  <1> QED
    BY <1>7, <1>9

\* The statistics whose first k labels have the values of the path.
Below(s, path, k) ==
  {x \in s : \A i \in 1..k :
     Tree!HasLabel(x, Labels[i]) /\ x.labels[Labels[i]] = path[i]}

\* A path is a sequence of values of some statistic's first labels.
LEMMA PathFacts ==
  ASSUME NEW path \in Tree!NodePaths
  PROVE  /\ Len(path) \in 0..Len(Labels)
         /\ path = [i \in 1..Len(path) |-> path[i]]
         /\ Len(path) # 0 => \E x \in treeStats : x \in Below(treeStats, path, Len(path))
  <1>1. Len(Labels) \in Nat
    BY LabelsAssumption
  <1>2. CASE path = <<>>
    BY <1>1, <1>2
  <1>3. CASE \E x \in treeStats : path \in Tree!PathsOf(x)
    <2>1. PICK x \in treeStats : path \in Tree!PathsOf(x)
      BY <1>3
    <2>2. PICK n \in 0..Len(Labels) :
            /\ \A i \in 1..n : Tree!HasLabel(x, Labels[i])
            /\ path = [i \in 1..n |-> x.labels[Labels[i]]]
      BY <2>1 DEF Tree!PathsOf
    <2>3. Len(path) = n /\ \A i \in 1..n : path[i] = x.labels[Labels[i]]
      BY <1>1, <2>2
    <2>4. path = [i \in 1..Len(path) |-> path[i]]
      BY <2>2, <2>3
    <2>5. x \in Below(treeStats, path, Len(path))
      BY <2>1, <2>2, <2>3 DEF Below
    <2> QED
      BY <2>1, <2>3, <2>4, <2>5
  <1> QED
    BY <1>2, <1>3 DEF Tree!NodePaths

\* A path is one of a statistic if the statistic is below its end.
LEMMA PathBelow ==
  ASSUME NEW s, NEW x \in s, NEW path, Len(path) \in 0..Len(Labels),
         path = [i \in 1..Len(path) |-> path[i]]
  PROVE  path \in Tree!PathsOf(x) <=> x \in Below(s, path, Len(path))
  <1> DEFINE m == Len(path)
             of(n) == [i \in 1..n |-> x.labels[Labels[i]]]
  <1>1. Len(Labels) \in Nat /\ m \in Nat
    BY LabelsAssumption
  <1>2. ASSUME path \in Tree!PathsOf(x) PROVE x \in Below(s, path, m)
    <2>1. PICK n \in 0..Len(Labels) :
            /\ \A i \in 1..n : Tree!HasLabel(x, Labels[i])
            /\ path = of(n)
      BY <1>2 DEF Tree!PathsOf
    <2>2. m = n /\ \A i \in 1..n : path[i] = x.labels[Labels[i]]
      BY <1>1, <2>1
    <2> QED
      BY <2>1, <2>2 DEF Below
  <1>3. ASSUME x \in Below(s, path, m) PROVE path \in Tree!PathsOf(x)
    <2>1. \A i \in 1..m : Tree!HasLabel(x, Labels[i]) /\ x.labels[Labels[i]] = path[i]
      BY <1>3 DEF Below
    <2>2. path = of(m)
      BY <2>1
    <2> QED
      BY <2>1, <2>2 DEF Tree!PathsOf
  <1> QED
    BY <1>2, <1>3

\* A value further along the path leads to the child of the statistics that
\* have it.
LEMMA BelowChild ==
  ASSUME NEW s, NEW path, NEW k \in Nat
  PROVE  Tree!ChildStats(Below(s, path, k), Labels[k + 1], path[k + 1]) =
           Below(s, path, k + 1)
  <1>1. 1..k + 1 = (1..k) \cup {k + 1}
    OBVIOUS
  <1> QED
    BY <1>1 DEF Tree!ChildStats, Tree!Group, Tree!Labelled, Below

\* The numbers up to one are among those up to a larger one.
LEMMA FirstNumbers ==
  ASSUME NEW k \in Nat, NEW m \in Nat, k <= m
  PROVE  \A i \in 1..k : i \in 1..m
  OBVIOUS

\* What is at the end of a path.
LEMMA NodeOfPath ==
  ASSUME NEW path \in Tree!NodePaths, NEW build, NEW node,
         node = build[Len(Labels)][treeStats],
         \A n \in 0..Len(Labels) : \A t \in SUBSET treeStats :
           build[n][t] = BuildStep(build, n, t)
  PROVE  Tree!NodeAt(node, path) =
           build[Len(Labels) - Len(path)][Below(treeStats, path, Len(path))]
  <1> DEFINE L == Len(Labels)
             m == Len(path)
             below(k) == Below(treeStats, path, k)
  <1>1. L \in Nat /\ m \in 0..L /\ (m # 0 => \E x \in treeStats : x \in below(m))
    BY LabelsAssumption, PathFacts
  <1>2. PICK at : /\ Tree!NodeAt(node, path) = at[m]
                  /\ at[0] = node
                  /\ \A n \in 1..m : at[n] = at[n - 1].children[path[n]]
    BY <1>1, NodeRecursion
  <1> DEFINE G == {k \in Nat : k <= m => at[k] = build[L - k][below(k)]}
  <1>3. 0 \in G
    <2>1. below(0) = treeStats /\ L - 0 = L
      BY <1>1 DEF Below
    <2> QED
      BY <1>2, <2>1
  <1>4. ASSUME NEW k \in Nat, k \in G PROVE k + 1 \in G
    <2> SUFFICES ASSUME k + 1 <= m PROVE at[k + 1] = build[L - (k + 1)][below(k + 1)]
      OBVIOUS
    <2> DEFINE n == L - k
               label == Labels[k + 1]
               t == below(k)
               value == path[k + 1]
    <2>1. /\ n \in 0..L /\ n # 0 /\ n - 1 = L - (k + 1) /\ L - n + 1 = k + 1
          /\ k + 1 \in 1..m /\ (k + 1) - 1 = k /\ k <= m /\ m # 0
      BY <1>1
    <2>2. \A i \in 1..k : i \in 1..m
      <3>1. k <= m
        OBVIOUS
      <3>2. m \in Nat
        BY <1>1, SMTT(30)
      <3> HIDE DEF m
      <3> QED
        BY <3>1, <3>2, FirstNumbers
    <2>3. at[k] = build[n][t] /\ at[k + 1] = at[k].children[value]
      BY <1>2, <1>4, <2>1
    <2>4. t \in SUBSET treeStats
      BY ZenonT(30) DEF Below
    <2>5. build[n][t] = BuildStep(build, n, t)
      BY <2>1, <2>4
    <2>6. build[n][t].children = [v \in Tree!LabelValues(t, label) |->
                                    build[n - 1][Tree!ChildStats(t, label, v)]]
      <3>1. Labels[L - n + 1] = label
        BY <2>1
      <3> HIDE DEF n, t, label
      <3>2. BuildStep(build, n, t) =
              [cost     |-> Tree!LevelCost(t, label),
               children |-> [v \in Tree!LabelValues(t, label) |->
                               build[n - 1][Tree!ChildStats(t, label, v)]]]
        BY <2>1, <3>1 DEF BuildStep
      <3> QED
        BY <2>5, <3>2, SMTT(30)
    <2>7. value \in Tree!LabelValues(t, label)
      <3>1. PICK x \in treeStats : x \in below(m)
        BY <1>1, <2>1
      <3>2. x \in t /\ Tree!HasLabel(x, label) /\ x.labels[label] = value
        BY <2>1, <2>2, <3>1 DEF Below
      <3> HIDE DEF t, label, value
      <3> QED
        BY <3>2, ZenonT(30) DEF Tree!LabelValues, Tree!Labelled
    <2>8. Tree!ChildStats(t, label, value) = below(k + 1)
      BY BelowChild
    <2> HIDE DEF n, t, label, value
    <2> QED
      BY <2>1, <2>3, <2>6, <2>7, <2>8
  <1>5. \A k \in Nat : k \in G
    <2> HIDE DEF G
    <2> QED
      BY <1>3, <1>4, EveryNat
  <1> QED
    BY <1>1, <1>2, <1>5

\* The last values of longer paths are those of the next label of the
\* statistics below the end of this one.
LEMMA OnwardOfPath ==
  ASSUME NEW path \in Tree!NodePaths
  PROVE  LET m == Len(path)
         IN Tree!Onward(path) =
              IF m = Len(Labels) THEN {}
              ELSE Tree!LabelValues(Below(treeStats, path, m), Labels[m + 1])
  <1> DEFINE L == Len(Labels)
             m == Len(path)
             t == Below(treeStats, path, m)
             Longer == {p \in Tree!NodePaths :
                          Len(p) = m + 1 /\ Tree!Restrict(p, DOMAIN path) = path}
             last == Tree!LabelValues(t, Labels[m + 1])
  <1>1. L \in Nat /\ m \in 0..L /\ path = [i \in 1..m |-> path[i]] /\ DOMAIN path = 1..m
    BY LabelsAssumption, PathFacts
  <1>2. Tree!Onward(path) = {p[Len(p)] : p \in Longer}
    BY DEF Tree!Onward
  <1>3. ASSUME NEW p \in Longer
        PROVE  m # L /\ p[Len(p)] \in last
    <2>1. /\ p \in Tree!NodePaths /\ Len(p) = m + 1
          /\ \A i \in 1..m : p[i] = path[i]
      BY <1>1 DEF Tree!Restrict
    <2>2. Len(p) \in 0..L /\ \E x \in treeStats : x \in Below(treeStats, p, Len(p))
      BY <1>1, <2>1, PathFacts
    <2>3. PICK x \in treeStats : x \in Below(treeStats, p, m + 1)
      BY <2>1, <2>2
    <2>4. \A i \in 1..m : i \in 1..m + 1
      BY <1>1
    <2>5. /\ x \in t /\ Tree!HasLabel(x, Labels[m + 1])
          /\ x.labels[Labels[m + 1]] = p[m + 1]
      BY <1>1, <2>1, <2>3, <2>4 DEF Below
    <2> HIDE DEF t
    <2>6. p[m + 1] \in last
      BY <2>5 DEF Tree!LabelValues, Tree!Labelled
    <2> QED
      BY <1>1, <2>1, <2>2, <2>6
  <1>4. ASSUME m # L, NEW value \in last
        PROVE  \E p \in Longer : value = p[Len(p)]
    <2>1. PICK x \in t : Tree!HasLabel(x, Labels[m + 1]) /\ value = x.labels[Labels[m + 1]]
      BY <1>4 DEF Tree!LabelValues, Tree!Labelled
    <2> DEFINE p == [i \in 1..m + 1 |-> x.labels[Labels[i]]]
    <2>2. x \in treeStats /\ \A i \in 1..m : Tree!HasLabel(x, Labels[i])
                                           /\ x.labels[Labels[i]] = path[i]
      BY DEF Below
    <2>3. \A i \in 1..m + 1 : Tree!HasLabel(x, Labels[i])
      BY <1>1, <2>1, <2>2
    <2>4. p \in Tree!PathsOf(x)
      <3>1. m + 1 \in 0..L
        BY <1>1, <1>4
      <3> HIDE DEF m
      <3> QED
        BY <2>3, <3>1 DEF Tree!PathsOf
    <2>5. p \in Tree!NodePaths
      BY <2>2, <2>4 DEF Tree!NodePaths
    <2>6. Len(p) = m + 1 /\ p[m + 1] = value
      BY <1>1, <2>1
    <2>7. Tree!Restrict(p, DOMAIN path) = path
      <3>1. \A i \in 1..m : p[i] = path[i]
        BY <1>1, <2>2
      <3> HIDE DEF p
      <3>2. Tree!Restrict(p, DOMAIN path) = [i \in 1..m |-> p[i]]
        BY <1>1 DEF Tree!Restrict
      <3> QED
        BY <1>1, <3>1, <3>2
    <2> HIDE DEF p
    <2> QED
      BY <2>5, <2>6, <2>7
  <1> HIDE DEF Longer, last, L, m
  <1>5. CASE m = L
    <2>1. Longer = {}
      BY <1>3, <1>5
    <2> QED
      BY <1>2, <1>5, <2>1 DEF m, L
  <1>6. CASE m # L
    <2>1. {p[Len(p)] : p \in Longer} = last
      BY <1>3, <1>4, <1>6
    <2> QED
      BY <1>2, <1>6, <2>1 DEF m, L, last
  <1> QED
    BY <1>5, <1>6

\* The tree is built of the statistics collected, which cost something.
TreeInv ==
  /\ Costing(treeStats)
  /\ tree = NoTree \/ tree = Tree!BuildTree(treeStats, Labels)

LEMMA TreeInvInit == CalculationsInit => TreeInv
  BY FS_EmptySet DEF CalculationsInit, Tree!Init, TreeInv, Costing

LEMMA TreeInvNext ==
  TreeInv /\ [CalculationsNext]_calculationsVars => TreeInv'
  <1> SUFFICES ASSUME TreeInv, [CalculationsNext]_calculationsVars
               PROVE  TreeInv'
    OBVIOUS
  <1>1. CASE TreeOfStats
    <2>1. CASE Tree!Collect
      <3> DEFINE key == Tree!Cardinality(treeStats) + 1
      <3>1. PICK l \in LabelSets :
              treeStats' = treeStats \cup
                {[key |-> key, labels |-> l, cost |-> StatCosts[key]]}
        BY <2>1 DEF Tree!Collect
      <3>2. key \in 1..Len(StatCosts)
        BY <2>1, StatCostsAssumption, TreeOperators, FS_CardinalityType
           DEF Tree!Collect, TreeInv, Costing
      <3>3. StatCosts[key] \in Int
        BY <3>2, StatCostsAssumption
      <3> HIDE DEF key
      <3>4. Costing(treeStats')
        <4> DEFINE x == [key |-> key, labels |-> l, cost |-> StatCosts[key]]
        <4>1. x.cost \in Int
          BY <3>3
        <4>2. treeStats' = treeStats \cup {x}
          BY <3>1
        <4> HIDE DEF x
        <4>3. IsFiniteSet(treeStats')
          BY <4>2, FS_AddElement DEF TreeInv, Costing
        <4> QED
          BY <4>1, <4>2, <4>3 DEF TreeInv, Costing
      <3>5. tree' = NoTree
        BY <2>1 DEF Tree!Collect
      <3> QED
        BY <3>4, <3>5 DEF TreeInv
    <2>2. CASE Tree!Build
      BY <2>2 DEF Tree!Build, TreeInv, Costing
    <2> QED
      BY <1>1, <2>1, <2>2 DEF TreeOfStats, Tree!Next
  <1>2. CASE UNCHANGED treeVars
    BY <1>2 DEF treeVars, TreeInv, Costing
  <1> QED
    BY <1>1, <1>2 DEF CalculationsNext, TimeGoesBy, CostOfSample, EstimationOfStats,
                      TreeOfRequests, calculationsVars

LEMMA TreeInvariant == CalculationsSpec => []TreeInv
  BY TreeInvInit, TreeInvNext, PTL DEF CalculationsSpec

\* A node costs what the statistics below it do, for any labels, and as many
\* statistics as there may be.
THEOREM NodesCost == CalculationsSpec => []NodesCostTheirStats
  <1>1. TreeInv => NodesCostTheirStats
    <2> SUFFICES ASSUME TreeInv, tree # NoTree, NEW path \in Tree!NodePaths
                 PROVE  LET node == Tree!NodeAt(tree, path)
                        IN /\ DOMAIN node.children = Tree!Onward(path)
                           /\ node.cost =
                                Tree!CostOfAll({x \in treeStats : path \in Tree!PathsOf(x)})
      BY DEF NodesCostTheirStats, Tree!NodesCostTheirStats
    <2> DEFINE L == Len(Labels)
               m == Len(path)
               t == Below(treeStats, path, m)
               node == Tree!NodeAt(tree, path)
               n == L - m
    <2>1. L \in Nat /\ m \in 0..L /\ path = [i \in 1..m |-> path[i]]
      BY LabelsAssumption, PathFacts
    <2>2. PICK build : /\ Tree!BuildTree(treeStats, Labels) = build[L][treeStats]
                       /\ \A k \in 0..L : \A s \in SUBSET treeStats :
                            build[k][s] = BuildStep(build, k, s)
      BY BuildRecursion, ZenonT(30)
    <2>3. t \in SUBSET treeStats
      BY DEF Below
    <2>4. node = BuildStep(build, n, t)
      <3>1. tree = build[L][treeStats]
        BY <2>2 DEF TreeInv
      <3>2. node = build[n][t]
        BY <2>2, <3>1, NodeOfPath
      <3>3. n \in 0..L
        BY <2>1
      <3> QED
        BY <2>2, <2>3, <3>2, <3>3
    <2>5. t = {x \in treeStats : path \in Tree!PathsOf(x)}
      <3>1. \A x \in treeStats : path \in Tree!PathsOf(x) <=> x \in t
        BY <2>1, PathBelow
      <3> QED
        BY <2>3, <3>1
    <2>6. Costing(t)
      BY <2>3, FS_Subset DEF TreeInv, Costing
    <2>7. CASE m = L
      <3>1. node = [cost |-> Tree!CostOfAll(t), children |-> <<>>]
        BY <2>1, <2>4, <2>7 DEF BuildStep
      <3>2. Tree!Onward(path) = {}
        BY <2>7, OnwardOfPath
      <3> QED
        BY <2>5, <3>1, <3>2
    <2>8. CASE m # L
      <3> DEFINE label == Labels[m + 1]
      <3>1. n # 0 /\ L - n + 1 = m + 1
        BY <2>1, <2>8
      <3>2. /\ node.cost = Tree!LevelCost(t, label)
            /\ DOMAIN node.children = Tree!LabelValues(t, label)
        <4>1. Labels[L - n + 1] = label
          BY <3>1
        <4> HIDE DEF n, t, label, node
        <4>2. node = [cost     |-> Tree!LevelCost(t, label),
                      children |-> [v \in Tree!LabelValues(t, label) |->
                                      build[n - 1][Tree!ChildStats(t, label, v)]]]
          BY <2>4, <3>1, <4>1 DEF BuildStep
        <4> QED
          BY <4>2
      <3>3. Tree!Onward(path) = Tree!LabelValues(t, label)
        BY <2>8, OnwardOfPath
      <3>4. Tree!LevelCost(t, label) = Tree!CostOfAll(t)
        BY <2>6, LevelCosts
      <3> QED
        BY <2>5, <3>2, <3>3, <3>4
    <2> QED
      BY <2>7, <2>8
  <1> QED
    BY <1>1, TreeInvariant, PTL

-----------------------------------------------------------------------------
(* Estimations: the operators of the community modules they are built from *)

\* They are those that the lemmas are about.
LEMMA EstimationOperators ==
  /\ \A S : Estimation!Cardinality(S) = Cardinality(S)
  /\ \A f : Estimation!SumFunction(f) = SumFunctionOnSet(f, DOMAIN f)
  <1>1. \A S : Estimation!Cardinality(S) = Cardinality(S)
    BY DEF Estimation!Cardinality, Cardinality
  <1>2. \A f : Estimation!SumFunction(f) = SumFunctionOnSet(f, DOMAIN f)
    BY DEF Estimation!SumFunction, Estimation!SumFunctionOnSet,
           Estimation!FoldFunctionOnSet, Estimation!MapThenFoldSet,
           SumFunctionOnSet, FoldFunctionOnSet, MapThenFoldSet
  <1> QED
    BY <1>1, <1>2

-----------------------------------------------------------------------------
(* Sorted lists of costs                                                   *)

\* A list without repetition of its places is in order: each place has as
\* many before it as it is behind the first, and no two places as many.
LEMMA PlacesBefore ==
  ASSUME NEW n \in Nat, NEW list \in [1..n -> Int]
  PROVE  [i \in 1..n |-> Cardinality(Estimation!Before(list, i)) + 1]
           \in Bijection(1..n, 1..n)
  <1> DEFINE before(i) == Estimation!Before(list, i)
             place == [i \in 1..n |-> Cardinality(before(i)) + 1]
  <1>1. IsFiniteSet(1..n) /\ Cardinality(1..n) = n
    BY FS_Interval
  <1>2. DOMAIN list = 1..n /\ \A i \in 1..n : list[i] \in Int
    OBVIOUS
  <1>3. \A i \in 1..n : before(i) =
          {j \in 1..n : list[j] < list[i] \/ (list[j] = list[i] /\ j < i)}
    BY <1>2 DEF Estimation!Before
  <1> HIDE DEF before
  <1>4. ASSUME NEW i \in 1..n
        PROVE  IsFiniteSet(before(i)) /\ Cardinality(before(i)) \in 0..n - 1
    <2>1. before(i) \subseteq (1..n) \ {i}
      BY <1>2, <1>3
    <2>2. IsFiniteSet((1..n) \ {i}) /\ Cardinality((1..n) \ {i}) = n - 1
      BY <1>1, FS_RemoveElement
    <2>3. IsFiniteSet(before(i)) /\ Cardinality(before(i)) <= n - 1
      BY <2>1, <2>2, FS_Subset
    <2> QED
      BY <2>3, FS_CardinalityType
  <1>5. ASSUME NEW i \in 1..n, NEW j \in 1..n, i \in before(j)
        PROVE  Cardinality(before(i)) < Cardinality(before(j))
    <2>1. before(i) \subseteq before(j) /\ i \notin before(i)
      <3>1. \A k \in before(i) : k \in before(j)
        BY <1>2, <1>3, <1>5
      <3> QED
        BY <1>2, <1>3, <3>1
    <2>2. before(i) # before(j)
      BY <1>5, <2>1
    <2>3. /\ Cardinality(before(i)) <= Cardinality(before(j))
          /\ Cardinality(before(i)) # Cardinality(before(j))
      BY <1>4, <2>1, <2>2, FS_Subset
    <2> QED
      BY <1>4, <2>3
  <1>6. place \in [1..n -> 1..n]
    BY <1>4
  <1>7. ASSUME NEW i \in 1..n, NEW j \in 1..n, place[i] = place[j]
        PROVE  i = j
    <2>1. Cardinality(before(i)) = Cardinality(before(j))
      BY <1>4, <1>7
    <2>2. i \notin before(j) /\ j \notin before(i)
      BY <1>4, <1>5, <2>1
    <2> QED
      BY <1>2, <1>3, <2>2
  <1> HIDE DEF place
  <1>8. place \in Injection(1..n, 1..n)
    BY <1>6, <1>7 DEF Injection, IsInjective
  <1>9. place \in Surjection(1..n, 1..n)
    BY <1>1, <1>8, FS_Injection
  <1> QED
    BY <1>8, <1>9 DEF Bijection, place, before

\* A sorted list has the elements of the list in an order that ascends.
LEMMA SortedOrder ==
  ASSUME NEW n \in Nat, NEW list \in [1..n -> Int]
  PROVE  \E order \in Bijection(1..n, 1..n) :
           /\ Estimation!SortedCosts(list) = [k \in 1..n |-> list[order[k]]]
           /\ \A k, l \in 1..n : k <= l => list[order[k]] <= list[order[l]]
  <1> DEFINE before(i) == Estimation!Before(list, i)
             place == [i \in 1..n |-> Cardinality(before(i)) + 1]
             order == [k \in 1..n |->
                         CHOOSE i \in DOMAIN list :
                           Estimation!Cardinality(before(i)) = k - 1]
  <1>1. /\ place \in [1..n -> 1..n]
        /\ \A i, j \in 1..n : place[i] = place[j] => i = j
        /\ \A k \in 1..n : \E i \in 1..n : place[i] = k
    <2>1. place \in Bijection(1..n, 1..n)
      BY PlacesBefore
    <2> HIDE DEF place
    <2> DEFINE I == 1..n
    <2>2. place \in Bijection(I, I)
      BY <2>1
    <2> HIDE DEF I
    <2>3. /\ place \in [I -> I]
          /\ \A i, j \in I : place[i] = place[j] => i = j
          /\ \A k \in I : \E i \in I : place[i] = k
      BY <2>2, BijectionFacts
    <2> QED
      BY <2>3 DEF I
  <1>2. \A i \in 1..n : IsFiniteSet(before(i)) /\ Cardinality(before(i)) \in Nat
    <2>1. \A i \in 1..n : before(i) \subseteq 1..n
      BY DEF Estimation!Before
    <2>2. \A i \in 1..n : IsFiniteSet(before(i))
      BY <2>1, FS_Interval, FS_Subset
    <2> QED
      BY <2>2, FS_CardinalityType
  <1> HIDE DEF before
  <1>3. \A i, k \in 1..n : Cardinality(before(i)) = k - 1 <=> place[i] = k
    <2> SUFFICES ASSUME NEW i \in 1..n, NEW k \in 1..n
                 PROVE  Cardinality(before(i)) = k - 1 <=> place[i] = k
      OBVIOUS
    <2>1. place[i] = Cardinality(before(i)) + 1
      OBVIOUS
    <2> HIDE DEF place
    <2> QED
      BY <1>2, <2>1
  <1> HIDE DEF place
  <1>4. ASSUME NEW k \in 1..n
        PROVE  order[k] \in 1..n /\ place[order[k]] = k
    <2>1. \E i \in 1..n : Cardinality(before(i)) = k - 1
      BY <1>1, <1>3
    <2>2. order[k] \in 1..n /\ Cardinality(before(order[k])) = k - 1
      BY <2>1, EstimationOperators
    <2> HIDE DEF order
    <2> QED
      BY <1>3, <2>2
  <1>5. order \in Bijection(1..n, 1..n)
    <2>1. order \in [1..n -> 1..n]
      BY <1>4
    <2> HIDE DEF order
    <2>2. \A k, l \in 1..n : order[k] = order[l] => k = l
      BY <1>4
    <2>3. ASSUME NEW i \in 1..n PROVE \E k \in 1..n : order[k] = i
      <3>1. /\ place[i] \in 1..n /\ order[place[i]] \in 1..n
            /\ place[order[place[i]]] = place[i]
        BY <1>1, <1>4
      <3>2. order[place[i]] = i
        BY <1>1, <1>4, <3>1
      <3> QED
        BY <3>1, <3>2
    <2> QED
      BY <2>1, <2>2, <2>3, IsBijection
  <1>6. Estimation!SortedCosts(list) = [k \in 1..n |-> list[order[k]]]
    <2>1. DOMAIN list = 1..n
      OBVIOUS
    <2> QED
      BY <2>1 DEF Estimation!SortedCosts, before
  <1>7. ASSUME NEW k \in 1..n, NEW l \in 1..n, k <= l
        PROVE  list[order[k]] <= list[order[l]]
    <2> DEFINE i == order[k]
               j == order[l]
    <2>1. i \in 1..n /\ j \in 1..n /\ place[i] = k /\ place[j] = l
      BY <1>4
    <2> HIDE DEF order, i, j
    <2>2. Cardinality(before(i)) <= Cardinality(before(j))
      <3>1. Cardinality(before(i)) = k - 1 /\ Cardinality(before(j)) = l - 1
        BY <1>3, <2>1
      <3> QED
        BY <1>7, <3>1
    <2>3. SUFFICES ASSUME list[j] < list[i] PROVE FALSE
      <3>1. list[i] \in Int /\ list[j] \in Int
        BY <2>1
      <3> QED
        BY <3>1 DEF i, j
    <2>4. \A m \in 1..n : list[m] \in Int
      OBVIOUS
    <2>5. before(j) \subseteq before(i)
      BY <2>1, <2>3, <2>4 DEF before, Estimation!Before
    <2>6. j \in before(i) /\ j \notin before(j)
      BY <2>1, <2>3, <2>4 DEF before, Estimation!Before
    <2>7. before(i) = before(j)
      <3> DEFINE A == before(i)
                 B == before(j)
      <3>1. /\ IsFiniteSet(A) /\ B \in SUBSET A
            /\ Cardinality(A) \in Nat /\ Cardinality(B) \in Nat
            /\ Cardinality(A) <= Cardinality(B)
        BY <1>2, <2>1, <2>2, <2>5
      <3> HIDE DEF A, B
      <3>2. Cardinality(B) <= Cardinality(A)
        BY <3>1, FS_Subset
      <3>3. Cardinality(A) = Cardinality(B)
        BY <3>1, <3>2
      <3>4. A = B
        BY <3>1, <3>3, FS_Subset
      <3> QED
        BY <3>4 DEF A, B
    <2> QED
      BY <2>6, <2>7
  <1> HIDE DEF order
  <1> QED
    BY <1>5, <1>6, <1>7

-----------------------------------------------------------------------------
(* Figures of the statistics at some places                                *)

\* A statistic's cost is a natural number.
LEMMA StatCost ==
  ASSUME NEW s \in Seq(Estimation!Stat), NEW i \in DOMAIN s
  PROVE  s[i].cost \in Costs /\ s[i].cost \in Nat
  <1>1. s[i] \in Estimation!Stat
    OBVIOUS
  <1> QED
    BY <1>1, CostsAssumption DEF Estimation!Stat

\* Places are finitely many.
LEMMA PlacesFinite ==
  ASSUME NEW s \in Seq(Estimation!Stat)
  PROVE  /\ DOMAIN s = 1..Len(s) /\ Len(s) \in Nat
         /\ \A places \in SUBSET DOMAIN s :
              IsFiniteSet(places) /\ Cardinality(places) \in Nat
  <1>1. DOMAIN s = 1..Len(s) /\ Len(s) \in Nat
    OBVIOUS
  <1>2. IsFiniteSet(DOMAIN s)
    BY <1>1, FS_Interval
  <1> QED
    BY <1>1, <1>2, FS_Subset, FS_CardinalityType

\* The numbers up to n are n.
LEMMA CountUpto ==
  ASSUME NEW n \in Nat
  PROVE  IsFiniteSet(1..n) /\ Cardinality(1..n) = n
  BY FS_Interval

\* There is one k-th smallest cost.
LEMMA RankUnique ==
  ASSUME NEW s \in Seq(Estimation!Stat), NEW places \in SUBSET DOMAIN s,
         NEW k \in Nat, NEW x \in Costs, NEW y \in Costs,
         Estimation!IsRanked(x, k, s, places), Estimation!IsRanked(y, k, s, places)
  PROVE  x = y
  <1> DEFINE below(z) == {i \in places : s[i].cost < z}
             upto(z) == {i \in places : s[i].cost <= z}
  <1>1. ASSUME NEW z \in Costs, Estimation!IsRanked(z, k, s, places)
        PROVE  /\ Cardinality(below(z)) \in Nat /\ Cardinality(below(z)) < k
               /\ Cardinality(upto(z)) \in Nat /\ k <= Cardinality(upto(z))
    <2>1. below(z) \in SUBSET DOMAIN s /\ upto(z) \in SUBSET DOMAIN s
      OBVIOUS
    <2>2. Cardinality(below(z)) < k /\ k <= Cardinality(upto(z))
      BY <1>1, EstimationOperators DEF Estimation!IsRanked
    <2> QED
      BY <2>1, <2>2, PlacesFinite
  <1>2. ASSUME NEW z \in Costs, Estimation!IsRanked(z, k, s, places),
               NEW w \in Costs, Estimation!IsRanked(w, k, s, places)
        PROVE  ~(z < w)
    <2> SUFFICES ASSUME z < w PROVE FALSE
      OBVIOUS
    <2>1. upto(z) \subseteq below(w)
      <3> SUFFICES ASSUME NEW i \in places, s[i].cost <= z PROVE s[i].cost < w
        OBVIOUS
      <3>1. s[i].cost \in Nat
        BY StatCost
      <3>2. z \in Nat /\ w \in Nat
        BY CostsAssumption
      <3> QED
        BY <3>1, <3>2
    <2>2. below(w) \in SUBSET DOMAIN s
      OBVIOUS
    <2>3. IsFiniteSet(below(w))
      BY <2>2, PlacesFinite
    <2>4. Cardinality(upto(z)) <= Cardinality(below(w))
      BY <2>1, <2>3, FS_Subset
    <2>5. Cardinality(below(w)) \in Nat /\ Cardinality(below(w)) < k
      BY <1>1, <1>2
    <2>6. Cardinality(upto(z)) \in Nat /\ k <= Cardinality(upto(z))
      BY <1>1, <1>2
    <2> QED
      BY <2>4, <2>5, <2>6
  <1> QED
    BY <1>2, CostsAssumption

\* In an order that ascends, the k-th place has the k-th smallest cost.
LEMMA RankOfSorted ==
  ASSUME NEW s \in Seq(Estimation!Stat), NEW places \in SUBSET DOMAIN s,
         NEW n \in Nat, NEW q \in Bijection(1..n, places),
         \A k, l \in 1..n : k <= l => s[q[k]].cost <= s[q[l]].cost,
         NEW k \in 1..n
  PROVE  Estimation!Ranked(k, s, places) = s[q[k]].cost
  <1> DEFINE x == s[q[k]].cost
             below == {i \in places : s[i].cost < x}
             upto == {i \in places : s[i].cost <= x}
             below1 == {j \in 1..n : s[q[j]].cost < x}
             upto1 == {j \in 1..n : s[q[j]].cost <= x}
             I == 1..n
  <1>1. q \in [1..n -> places]
    <2>1. q \in Bijection(I, places)
      OBVIOUS
    <2> HIDE DEF I
    <2>2. q \in [I -> places]
      BY <2>1, BijectionFacts
    <2> QED
      BY <2>2 DEF I
  <1>2. \A j \in 1..n : q[j] \in places /\ s[q[j]].cost \in Costs /\ s[q[j]].cost \in Nat
    BY <1>1, StatCost
  <1>3. Cardinality(below1) = Cardinality(below) /\ Cardinality(upto1) = Cardinality(upto)
    <2>1. IsFiniteSet(I) /\ q \in Bijection(I, places)
      BY CountUpto
    <2>2. /\ below1 \in SUBSET I /\ upto1 \in SUBSET I
          /\ below \in SUBSET places /\ upto \in SUBSET places
      OBVIOUS
    <2>3. \A j \in I : /\ j \in below1 <=> q[j] \in below
                       /\ j \in upto1 <=> q[j] \in upto
      BY <1>2
    <2> HIDE DEF I, below1, below, upto1, upto
    <2> QED
      BY <2>1, <2>2, <2>3, CountBijection
  <1>4. Cardinality(below) < k
    <2>1. below1 \subseteq 1..k - 1
      <3> SUFFICES ASSUME NEW j \in 1..n, s[q[j]].cost < x PROVE j \in 1..k - 1
        OBVIOUS
      <3>1. ~(k <= j)
        BY <1>2
      <3> QED
        BY <3>1
    <2>2. IsFiniteSet(1..k - 1) /\ Cardinality(1..k - 1) = k - 1
      BY CountUpto
    <2>3. Cardinality(below1) <= k - 1 /\ Cardinality(below1) \in Nat
      BY <2>1, <2>2, FS_Subset, FS_CardinalityType
    <2> HIDE DEF below1, below
    <2> QED
      BY <1>3, <2>3
  <1>5. k <= Cardinality(upto)
    <2>1. 1..k \subseteq upto1
      BY <1>2
    <2>2. Cardinality(1..k) = k
      BY CountUpto
    <2>3. upto1 \subseteq 1..n /\ IsFiniteSet(1..n)
      BY CountUpto
    <2> HIDE DEF upto1, upto
    <2>4. IsFiniteSet(upto1)
      BY <2>3, FS_Subset
    <2> DEFINE K == 1..k
    <2>5. K \subseteq upto1 /\ Cardinality(K) = k
      BY <2>1, <2>2
    <2> HIDE DEF K
    <2>6. k <= Cardinality(upto1)
      BY <2>4, <2>5, FS_Subset
    <2> QED
      BY <1>3, <2>6
  <1>6. x \in Costs /\ Estimation!IsRanked(x, k, s, places)
    BY <1>2, <1>4, <1>5, EstimationOperators DEF Estimation!IsRanked
  <1> DEFINE r == CHOOSE z \in Costs : Estimation!IsRanked(z, k, s, places)
  <1> HIDE DEF x
  <1>7. r \in Costs /\ Estimation!IsRanked(r, k, s, places)
    BY <1>6
  <1> HIDE DEF r
  <1>8. r = x
    BY <1>6, <1>7, RankUnique
  <1> QED
    BY <1>8 DEF r, x, Estimation!Ranked

\* The list is of the costs of the statistics at these places.
ListOf(list, s, places) ==
  \E b \in Bijection(1..Len(list), places) :
    \A j \in 1..Len(list) : list[j] = s[b[j]].cost

\* The figures of the list are then those of the statistics at the places.
LEMMA FiguresOfList ==
  ASSUME NEW s \in Seq(Estimation!Stat), NEW places \in SUBSET DOMAIN s,
         NEW list \in Seq(Nat), ListOf(list, s, places),
         NEW figure \in DOMAIN Estimation!Zero
  PROVE  Estimation!calcMinMaxMeanMedian(list)[figure] =
           Estimation!Figure(figure, s, places)
  <1> DEFINE n == Len(list)
             I == 1..n
  <1>1. n \in Nat /\ list \in [I -> Nat]
    OBVIOUS
  <1>2. PICK b \in Bijection(I, places) : \A j \in I : list[j] = s[b[j]].cost
    BY DEF ListOf
  <1>3. IsFiniteSet(I) /\ Cardinality(I) = n
    BY <1>1, CountUpto
  <1>4. Cardinality(places) = n
    <2> HIDE DEF I, n
    <2>1. b \in [I -> places]
      BY <1>2, BijectionFacts
    <2>2. Cardinality(places) = Cardinality(I)
      BY <1>2, <1>3, <2>1, CountBijection
    <2> QED
      BY <1>3, <2>2
  <1>5. figure \in {"min", "max", "mean", "median"}
    BY DEF Estimation!Zero
  <1>6. CASE n = 0
    <2>1. list = <<>>
      BY <1>6
    <2>2. Estimation!calcMinMaxMeanMedian(list)[figure] = 0
      BY <1>5, <2>1 DEF Estimation!calcMinMaxMeanMedian, Estimation!Zero
    <2>3. Estimation!Figure(figure, s, places) = 0
      BY <1>4, <1>6, EstimationOperators DEF Estimation!Figure
    <2> QED
      BY <2>2, <2>3
  <1>7. CASE n # 0
    <2>1. PICK order \in Bijection(I, I) :
            /\ Estimation!SortedCosts(list) = [k \in I |-> list[order[k]]]
            /\ \A k, l \in I : k <= l => list[order[k]] <= list[order[l]]
      <3>1. list \in [1..n -> Int]
        BY <1>1
      <3> HIDE DEF n
      <3> QED
        BY <1>1, <3>1, SortedOrder
    <2> DEFINE q == [k \in I |-> b[order[k]]]
               sorted == Estimation!SortedCosts(list)
               Rank(k) == Estimation!Ranked(k, s, places)
    <2>2. q \in Bijection(I, places) /\ order \in [I -> I]
      <3> HIDE DEF I
      <3> QED
        BY <1>2, <2>1, BijectionsCompose, BijectionFacts
    <2>3. \A k \in I : sorted[k] = s[q[k]].cost /\ sorted[k] \in Nat
      BY <1>1, <1>2, <2>1, <2>2
    <2>4. \A k, l \in I : k <= l => s[q[k]].cost <= s[q[l]].cost
      BY <1>1, <1>2, <2>1, <2>2
    <2>5. sorted \in Seq(Nat) /\ Len(sorted) = n /\ DOMAIN sorted = I
      BY <1>1, <2>1, <2>3
    <2> HIDE DEF q, sorted
    <2>6. \A k \in I : sorted[k] = Rank(k)
      <3> SUFFICES ASSUME NEW k \in I PROVE sorted[k] = Rank(k)
        OBVIOUS
      <3>1. n \in Nat /\ q \in Bijection(1..n, places) /\ k \in 1..n
        BY <1>1, <2>2
      <3>2. \A j, l \in 1..n : j <= l => s[q[j]].cost <= s[q[l]].cost
        BY <2>4
      <3> HIDE DEF n
      <3>3. Rank(k) = s[q[k]].cost
        BY <3>1, <3>2, RankOfSorted
      <3> QED
        BY <2>3, <3>3
    <2>7. SumFunctionOnSet(sorted, I) =
            SumFunctionOnSet([i \in places |-> s[i].cost], places)
      <3> DEFINE g == [i \in places |-> s[i].cost]
      <3>1. \A k \in I : sorted[k] \in Int /\ sorted[k] = g[q[k]]
        <4>1. q \in [I -> places]
          <5> HIDE DEF I
          <5> QED
            BY <2>2, BijectionFacts
        <4>2. \A i \in places : g[i] = s[i].cost
          OBVIOUS
        <4> HIDE DEF g, I
        <4> QED
          BY <2>3, <4>1, <4>2
      <3> HIDE DEF g, I
      <3>2. SumFunctionOnSet(sorted, I) = SumFunctionOnSet(g, places)
        BY <1>3, <2>2, <3>1, SumBijection
      <3> QED
        BY <3>2 DEF g
    <2>8. list # <<>>
      BY <1>7
    <2>9. Estimation!calcMinMaxMeanMedian(list) =
            [min    |-> sorted[1],
             max    |-> sorted[n],
             mean   |-> SumFunctionOnSet(sorted, I) \div n,
             median |-> Estimation!Median(sorted)]
      BY <2>5, <2>8, EstimationOperators DEF Estimation!calcMinMaxMeanMedian, sorted
    <2>10. CASE figure = "min"
      <3>1. 1 \in I
        BY <1>1, <1>7
      <3>2. Estimation!Figure("min", s, places) = Rank(1)
        BY <1>4, <1>7, EstimationOperators DEF Estimation!Figure
      <3> QED
        BY <2>6, <2>9, <2>10, <3>1, <3>2
    <2>11. CASE figure = "max"
      <3>1. n \in I
        BY <1>1, <1>7
      <3>2. Estimation!Figure("max", s, places) = Rank(n)
        BY <1>4, <1>7, EstimationOperators DEF Estimation!Figure
      <3> QED
        BY <2>6, <2>9, <2>11, <3>1, <3>2
    <2>12. CASE figure = "mean"
      <3>1. Estimation!Figure("mean", s, places) =
              SumFunctionOnSet([i \in places |-> s[i].cost], places) \div n
        BY <1>4, <1>7, EstimationOperators DEF Estimation!Figure
      <3> QED
        BY <2>7, <2>9, <2>12, <3>1
    <2>13. CASE figure = "median"
      <3> DEFINE half == n \div 2
      <3>1. Estimation!Figure("median", s, places) =
              (Rank((n + 1) \div 2) + Rank(half + 1)) \div 2
        BY <1>4, <1>7, EstimationOperators DEF Estimation!Figure
      <3>2. /\ half \in Nat /\ half + 1 \in I
            /\ n % 2 = 0 => half \in I /\ (n + 1) \div 2 = half
            /\ n % 2 # 0 => (n + 1) \div 2 = half + 1
        <4> HIDE DEF n
        <4> QED
          BY <1>1, <1>7
      <3>3. Estimation!Median(sorted) =
              IF n % 2 = 0 THEN (sorted[half] + sorted[half + 1]) \div 2
                           ELSE sorted[half + 1]
        BY <2>5 DEF Estimation!Median
      <3> HIDE DEF half, Rank, n
      <3>4. CASE n % 2 = 0
        BY <2>6, <2>9, <2>13, <3>1, <3>2, <3>3, <3>4
      <3>5. CASE n % 2 # 0
        <4>1. sorted[half + 1] \in Nat /\ Rank(half + 1) = sorted[half + 1]
          BY <2>3, <2>6, <3>2
        <4>2. (Rank(half + 1) + Rank(half + 1)) \div 2 = sorted[half + 1]
          BY <4>1
        <4>3. Estimation!Figure("median", s, places) = sorted[half + 1]
          BY <3>1, <3>2, <3>5, <4>2
        <4> QED
          BY <2>9, <2>13, <3>3, <3>5, <4>3
      <3> QED
        BY <3>4, <3>5
    <2> QED
      BY <1>5, <2>10, <2>11, <2>12, <2>13
  <1> QED
    BY <1>6, <1>7

-----------------------------------------------------------------------------
(* The lists that statistics are grouped into                              *)

\* Lists takes one statistic after the other.
LEMMA ListsRecursion ==
  ASSUME NEW s \in Seq(Estimation!Stat)
  PROVE  \E f : /\ Estimation!Lists(s) = f[Len(s)]
                /\ f[0] = Estimation!NoStats
                /\ \A n \in 1..Len(s) : f[n] = Estimation!Grouped(f[n - 1], s[n])
  <1> DEFINE Step(f, n) == IF n = 0 THEN Estimation!NoStats
                           ELSE Estimation!Grouped(f[n - 1], s[n])
             Upto(f, n) == \A m \in 0..n : f[m] = Step(f, m)
             AreLists(f) == f = [n \in 0..Len(s) |-> Step(f, n)]
             G == {n \in Nat : \E f : Upto(f, n)}
  <1>1. 0 \in G
    <2>1. Upto([m \in 0..0 |-> Estimation!NoStats], 0)
      OBVIOUS
    <2> HIDE DEF Upto
    <2> QED
      BY <2>1
  <1>2. ASSUME NEW n \in Nat, n \in G PROVE n + 1 \in G
    <2>1. PICK f : Upto(f, n)
      BY <1>2
    <2> DEFINE g == [m \in 0..n + 1 |-> IF m <= n THEN f[m]
                                        ELSE Estimation!Grouped(f[n], s[n + 1])]
    <2>2. \A m \in 0..n : g[m] = f[m]
      OBVIOUS
    <2>3. g[n + 1] = Estimation!Grouped(f[n], s[n + 1])
      OBVIOUS
    <2> HIDE DEF g
    <2>4. ASSUME NEW m \in 0..n + 1 PROVE g[m] = Step(g, m)
      <3>1. CASE m = 0
        BY <2>1, <2>2, <3>1
      <3>2. CASE m \in 1..n
        <4>1. m - 1 \in 0..n /\ m \in 0..n /\ m # 0
          BY <3>2
        <4>2. f[m] = Step(f, m)
          BY <2>1, <4>1
        <4> QED
          BY <2>2, <4>1, <4>2
      <3>3. CASE m = n + 1
        <4>1. m - 1 = n /\ n \in 0..n /\ m # 0
          BY <3>3
        <4> QED
          BY <2>2, <2>3, <3>3, <4>1
      <3> QED
        BY <3>1, <3>2, <3>3
    <2>5. Upto(g, n + 1)
      BY <2>4
    <2> HIDE DEF Upto
    <2> QED
      BY <2>5
  <1>3. \A n \in Nat : n \in G
    <2> HIDE DEF G
    <2> QED
      BY <1>1, <1>2, EveryNat
  <1>4. PICK f : Upto(f, Len(s))
    <2>1. Len(s) \in G
      <3>1. Len(s) \in Nat
        OBVIOUS
      <3> HIDE DEF G
      <3> QED
        BY <1>3, <3>1
    <2> HIDE DEF Upto
    <2> QED
      BY <2>1
  <1> DEFINE g == [n \in 0..Len(s) |-> f[n]]
             h == CHOOSE h : AreLists(h)
  <1>5. AreLists(g)
    <2>1. ASSUME NEW n \in 0..Len(s) PROVE g[n] = Step(g, n)
      <3>1. f[n] = Step(f, n)
        BY <1>4
      <3>2. CASE n = 0
        BY <3>1, <3>2
      <3>3. CASE n # 0
        <4>1. n - 1 \in 0..Len(s)
          BY <3>3
        <4>2. g[n] = f[n] /\ g[n - 1] = f[n - 1]
          BY <4>1
        <4> HIDE DEF g
        <4> QED
          BY <3>1, <3>3, <4>2
      <3> QED
        BY <3>2, <3>3
    <2> QED
      BY <2>1
  <1>6. AreLists(h)
    <2> HIDE DEF AreLists
    <2> QED
      BY <1>5
  <1>7. Estimation!Lists(s) = h[Len(s)]
    BY DEF Estimation!Lists
  <1> HIDE DEF h
  <1>8. /\ h[0] = Estimation!NoStats
        /\ \A n \in 1..Len(s) : h[n] = Estimation!Grouped(h[n - 1], s[n])
    BY <1>6
  <1> QED
    BY <1>7, <1>8

\* Lists of no and of one more statistic.
LEMMA ListOfNone ==
  ASSUME NEW s
  PROVE  ListOf(<<>>, s, {})
  <1> DEFINE none == [j \in {} |-> 0]
  <1>1. 1..Len(<<>>) = {}
    OBVIOUS
  <1>2. none \in Bijection({}, {})
    BY IsBijection
  <1> QED
    BY <1>1, <1>2 DEF ListOf

LEMMA ListOfOneMore ==
  ASSUME NEW s, NEW places, NEW list \in Seq(Nat), ListOf(list, s, places),
         NEW e, e \notin places, s[e].cost \in Nat
  PROVE  ListOf(Append(list, s[e].cost), s, places \cup {e})
  <1> DEFINE n == Len(list)
             I == 1..n
             J == 1..n + 1
             longer == Append(list, s[e].cost)
  <1>1. PICK b \in Bijection(I, places) : \A j \in I : list[j] = s[b[j]].cost
    BY DEF ListOf
  <1> DEFINE c == [j \in J |-> IF j = n + 1 THEN e ELSE b[j]]
  <1>2. /\ b \in [I -> places]
        /\ \A i, j \in I : b[i] = b[j] => i = j
        /\ \A i \in places : \E j \in I : b[j] = i
    <2> HIDE DEF I
    <2> QED
      BY <1>1, BijectionFacts
  <1>3. n \in Nat /\ J = I \cup {n + 1} /\ n + 1 \notin I
    OBVIOUS
  <1>4. Len(longer) = n + 1
    OBVIOUS
  <1>5. longer[n + 1] = s[e].cost /\ \A j \in I : longer[j] = list[j]
    OBVIOUS
  <1>6. c[n + 1] = e /\ \A j \in I : c[j] = b[j]
    BY <1>3
  <1>7. c \in [J -> places \cup {e}]
    BY <1>2, <1>3
  <1> DEFINE end == n + 1
  <1> HIDE DEF c, J, I, longer, end, n
  <1>8. J = I \cup {end} /\ end \notin I /\ c[end] = e /\ longer[end] = s[e].cost
    BY <1>3, <1>5, <1>6 DEF end
  <1>9. \A i, j \in J : c[i] = c[j] => i = j
    BY <1>2, <1>6, <1>8
  <1>10. \A i \in places \cup {e} : \E j \in J : c[j] = i
    BY <1>2, <1>6, <1>8
  <1>11. c \in Bijection(J, places \cup {e})
    BY <1>7, <1>9, <1>10, IsBijection
  <1>12. \A j \in J : longer[j] = s[c[j]].cost
    BY <1>1, <1>5, <1>6, <1>8
  <1>13. J = 1..Len(longer)
    BY <1>4 DEF J
  <1> QED
    BY <1>11, <1>12, <1>13 DEF ListOf, longer

\* The places of the first n statistics: those of an operator, and the last
\* one of a flow's own.
OperatorUpto(s, id, n) == {i \in Estimation!OperatorStats(s, id) : i <= n}

OwnUpto(s, flow, n) == {i \in Estimation!OwnStats(s, flow) : i <= n}

LastUpto(s, flow, n) ==
  {i \in OwnUpto(s, flow, n) : \A j \in OwnUpto(s, flow, n) : j <= i}

\* What the lists hold after the first n statistics.
Listed(lists, s, n) ==
  /\ lists \in [operator : [Operators \cup Flows -> Seq(Nat)], flow : [Flows -> Seq(Nat)]]
  /\ \A id \in Operators : ListOf(lists.operator[id], s, OperatorUpto(s, id, n))
  /\ \A flow \in Flows : /\ lists.operator[flow] = <<>>
                         /\ ListOf(lists.flow[flow], s, LastUpto(s, flow, n))

\* A statistic that is grouped names an operator, or a flow.
LEMMA StatNames ==
  ASSUME NEW x \in Estimation!Stat
  PROVE  /\ x.cost \in Nat
         /\ Estimation!NamesOperator(x) => x.container[2] \in Operators
         /\ Estimation!NamesFlow(x) => x.flow \in Flows /\ ~Estimation!NamesOperator(x)
  BY CostsAssumption, ContainersAssumption
     DEF Estimation!Stat, Estimation!NamesOperator, Estimation!NamesFlow

\* One more statistic is listed where it belongs.
LEMMA GroupedListed ==
  ASSUME NEW s \in Seq(Estimation!Stat), ~Estimation!Malformed(s),
         NEW n \in Nat, n + 1 \in DOMAIN s, NEW lists, Listed(lists, s, n)
  PROVE  Listed(Estimation!Grouped(lists, s[n + 1]), s, n + 1)
  <1> DEFINE e == n + 1
             x == s[e]
             after == Estimation!Grouped(lists, x)
  <1>1. DOMAIN s \subseteq Nat /\ e \in DOMAIN s /\ x \in Estimation!Stat /\ x.cost \in Nat
    <2>1. x \in Estimation!Stat
      OBVIOUS
    <2> QED
      BY <2>1, StatNames
  <1>2. Estimation!NamesOperator(x) \/ Estimation!NamesFlow(x)
    BY <1>1 DEF Estimation!Malformed
  <1>3. \A i \in DOMAIN s : i <= e <=> i <= n \/ i = e
    BY <1>1
  <1>4. ~(e <= n)
    OBVIOUS
  <1>5. \A i \in DOMAIN s : ~(e <= i /\ i <= n)
    BY <1>1
  <1>6. /\ \A i \in DOMAIN s : i <= i
        /\ \A i \in DOMAIN s : i <= n => i <= e
    BY <1>1, SMTT(30)
  <1> HIDE DEF x, e
  <1>7. CASE Estimation!NamesOperator(x)
    <2> DEFINE id == x.container[2]
    <2>1. id \in Operators /\ id \notin Flows /\ ~Estimation!NamesFlow(x)
      BY <1>1, <1>7, StatNames, ContainersAssumption
    <2>2. after = [lists EXCEPT !.operator[id] = Append(@, x.cost)]
      BY <1>7, ZenonT(30) DEF Estimation!Grouped
    <2> HIDE DEF after
    <2>3. /\ after \in [operator : [Operators \cup Flows -> Seq(Nat)],
                        flow : [Flows -> Seq(Nat)]]
          /\ after.flow = lists.flow
          /\ after.operator[id] = Append(lists.operator[id], x.cost)
          /\ \A o \in Operators \cup Flows : o # id => after.operator[o] = lists.operator[o]
      <3> DEFINE L == lists.operator
                 list == Append(L[id], x.cost)
      <3>1. /\ L \in [Operators \cup Flows -> Seq(Nat)]
            /\ lists.flow \in [Flows -> Seq(Nat)]
            /\ lists = [operator |-> L, flow |-> lists.flow]
        BY DEF Listed
      <3>2. after = [operator |-> [L EXCEPT ![id] = list], flow |-> lists.flow]
        BY <2>2, <3>1
      <3>3. list \in Seq(Nat)
        BY <1>1, <2>1, <3>1
      <3> HIDE DEF L, list
      <3>4. /\ [L EXCEPT ![id] = list] \in [Operators \cup Flows -> Seq(Nat)]
            /\ [L EXCEPT ![id] = list][id] = list
            /\ \A o \in Operators \cup Flows : o # id => [L EXCEPT ![id] = list][o] = L[o]
        BY <2>1, <3>1, <3>3
      <3> QED
        BY <3>1, <3>2, <3>4 DEF L, list
    <2>4. ASSUME NEW o \in Operators
          PROVE  OperatorUpto(s, o, e) =
                   IF o = id THEN OperatorUpto(s, o, n) \cup {e} ELSE OperatorUpto(s, o, n)
      BY <1>1, <1>3, <1>7 DEF OperatorUpto, Estimation!OperatorStats, x
    <2>5. ASSUME NEW flow \in Flows PROVE LastUpto(s, flow, e) = LastUpto(s, flow, n)
      <3>1. OwnUpto(s, flow, e) = OwnUpto(s, flow, n)
        BY <1>3, <2>1 DEF OwnUpto, Estimation!OwnStats, x
      <3> QED
        BY <3>1 DEF LastUpto
    <2>6. ASSUME NEW o \in Operators
          PROVE  ListOf(after.operator[o], s, OperatorUpto(s, o, e))
      <3>1. ListOf(lists.operator[o], s, OperatorUpto(s, o, n)) /\ lists.operator[o] \in Seq(Nat)
        BY DEF Listed
      <3>2. CASE o = id
        <4>1. e \notin OperatorUpto(s, o, n)
          BY <1>4 DEF OperatorUpto
        <4> DEFINE places == OperatorUpto(s, o, n)
                   list == lists.operator[o]
        <4>2. ListOf(list, s, places) /\ list \in Seq(Nat) /\ e \notin places
          BY <3>1, <4>1
        <4> HIDE DEF places, list
        <4>3. ListOf(Append(list, x.cost), s, places \cup {e})
          BY <1>1, <4>2, ListOfOneMore DEF x
        <4> QED
          BY <2>3, <2>4, <3>2, <4>3 DEF places, list
      <3>3. CASE o # id
        BY <2>3, <2>4, <3>1, <3>3
      <3> QED
        BY <3>2, <3>3
    <2>7. ASSUME NEW flow \in Flows
          PROVE  /\ after.operator[flow] = <<>>
                 /\ ListOf(after.flow[flow], s, LastUpto(s, flow, e))
      BY <2>1, <2>3, <2>5 DEF Listed
    <2> QED
      BY <2>3, <2>6, <2>7 DEF Listed, after, x, e
  <1>8. CASE ~Estimation!NamesOperator(x)
    <2> DEFINE own == x.flow
    <2>1. own \in Flows /\ Estimation!NamesFlow(x)
      BY <1>1, <1>2, <1>8, StatNames
    <2>2. after = [lists EXCEPT !.flow[own] = Append(lists.operator[own], x.cost)]
      BY <1>8 DEF Estimation!Grouped
    <2> HIDE DEF after
    <2>3. /\ after \in [operator : [Operators \cup Flows -> Seq(Nat)],
                        flow : [Flows -> Seq(Nat)]]
          /\ after.operator = lists.operator
          /\ after.flow[own] = Append(<<>>, x.cost)
          /\ \A flow \in Flows : flow # own => after.flow[flow] = lists.flow[flow]
      <3> DEFINE F == lists.flow
                 list == Append(<<>>, x.cost)
      <3>1. /\ lists.operator \in [Operators \cup Flows -> Seq(Nat)]
            /\ F \in [Flows -> Seq(Nat)]
            /\ lists = [operator |-> lists.operator, flow |-> F]
        BY DEF Listed
      <3>2. lists.operator[own] = <<>>
        BY <2>1 DEF Listed
      <3>3. after = [operator |-> lists.operator, flow |-> [F EXCEPT ![own] = list]]
        BY <2>2, <3>1, <3>2
      <3>4. list \in Seq(Nat)
        BY <1>1
      <3> HIDE DEF F, list
      <3>5. /\ [F EXCEPT ![own] = list] \in [Flows -> Seq(Nat)]
            /\ [F EXCEPT ![own] = list][own] = list
            /\ \A flow \in Flows : flow # own => [F EXCEPT ![own] = list][flow] = F[flow]
        BY <2>1, <3>1, <3>4
      <3> QED
        BY <3>1, <3>3, <3>5 DEF F, list
    <2>4. ASSUME NEW o \in Operators PROVE OperatorUpto(s, o, e) = OperatorUpto(s, o, n)
      BY <1>3, <1>8 DEF OperatorUpto, Estimation!OperatorStats, x
    <2>5. LastUpto(s, own, e) = {e}
      <3>1. \A i \in OwnUpto(s, own, e) : i <= e
        BY DEF OwnUpto
      <3>2. e \in OwnUpto(s, own, e)
        BY <1>1, <1>6, <2>1 DEF OwnUpto, Estimation!OwnStats, x
      <3>3. \A i \in OwnUpto(s, own, e) : e <= i => i = e
        BY <1>3, <1>5 DEF OwnUpto, Estimation!OwnStats
      <3> QED
        BY <3>1, <3>2, <3>3 DEF LastUpto
    <2>6. ASSUME NEW flow \in Flows, flow # own
          PROVE  LastUpto(s, flow, e) = LastUpto(s, flow, n)
      <3>1. OwnUpto(s, flow, e) = OwnUpto(s, flow, n)
        BY <1>3, <2>6 DEF OwnUpto, Estimation!OwnStats, x
      <3> QED
        BY <3>1 DEF LastUpto
    <2>7. ListOf(Append(<<>>, x.cost), s, {e})
      <3>1. ListOf(<<>>, s, {}) /\ <<>> \in Seq(Nat) /\ e \notin {}
        BY ListOfNone
      <3>2. {} \cup {e} = {e}
        OBVIOUS
      <3>3. ListOf(Append(<<>>, x.cost), s, {} \cup {e})
        BY <1>1, <3>1, ListOfOneMore DEF x
      <3> QED
        BY <3>2, <3>3
    <2>8. ASSUME NEW flow \in Flows
          PROVE  ListOf(after.flow[flow], s, LastUpto(s, flow, e))
      <3>1. CASE flow = own
        BY <2>3, <2>5, <2>7, <3>1
      <3>2. CASE flow # own
        BY <2>3, <2>6, <3>2 DEF Listed
      <3> QED
        BY <3>1, <3>2
    <2>9. \A flow \in Flows : after.operator[flow] = <<>>
      BY <2>3 DEF Listed
    <2>10. \A o \in Operators : ListOf(after.operator[o], s, OperatorUpto(s, o, e))
      BY <2>3, <2>4 DEF Listed
    <2> QED
      BY <2>3, <2>8, <2>9, <2>10 DEF Listed, after, x, e
  <1> QED
    BY <1>7, <1>8

\* In the end the lists are of the statistics they are named for.
LEMMA ListsHoldStats ==
  ASSUME NEW s \in Seq(Estimation!Stat), ~Estimation!Malformed(s)
  PROVE  LET lists == Estimation!Lists(s)
         IN /\ \A id \in Operators :
                 /\ lists.operator[id] \in Seq(Nat)
                 /\ ListOf(lists.operator[id], s, Estimation!OperatorStats(s, id))
            /\ \A flow \in Flows :
                 /\ lists.flow[flow] \in Seq(Nat)
                 /\ ListOf(lists.flow[flow], s, Estimation!LastOwnStat(s, flow))
  <1>1. PICK f : /\ Estimation!Lists(s) = f[Len(s)]
                 /\ f[0] = Estimation!NoStats
                 /\ \A n \in 1..Len(s) : f[n] = Estimation!Grouped(f[n - 1], s[n])
    BY ListsRecursion
  <1>2. DOMAIN s = 1..Len(s) /\ Len(s) \in Nat
    OBVIOUS
  <1> DEFINE G == {n \in Nat : n <= Len(s) => Listed(f[n], s, n)}
  <1>3. 0 \in G
    <2>1. \A id : OperatorUpto(s, id, 0) = {}
      BY <1>2 DEF OperatorUpto, Estimation!OperatorStats
    <2>2. \A flow : LastUpto(s, flow, 0) = {}
      BY <1>2 DEF LastUpto, OwnUpto, Estimation!OwnStats
    <2>3. Listed(Estimation!NoStats, s, 0)
      <3> DEFINE L == [id \in Operators \cup Flows |-> <<>>]
                 F == [id \in Flows |-> <<>>]
      <3>1. Estimation!NoStats = [operator |-> L, flow |-> F]
        BY DEF Estimation!NoStats
      <3>2. /\ L \in [Operators \cup Flows -> Seq(Nat)] /\ F \in [Flows -> Seq(Nat)]
            /\ \A id \in Operators \cup Flows : L[id] = <<>>
            /\ \A id \in Flows : F[id] = <<>>
        OBVIOUS
      <3> HIDE DEF L, F
      <3> QED
        BY <2>1, <2>2, <3>1, <3>2, ListOfNone DEF Listed
    <2> QED
      BY <1>1, <2>3
  <1>4. ASSUME NEW n \in Nat, n \in G PROVE n + 1 \in G
    <2> SUFFICES ASSUME n + 1 <= Len(s) PROVE Listed(f[n + 1], s, n + 1)
      OBVIOUS
    <2>1. n + 1 \in DOMAIN s /\ n + 1 \in 1..Len(s) /\ n <= Len(s) /\ (n + 1) - 1 = n
      BY <1>2
    <2>2. Listed(f[n], s, n)
      BY <1>4, <2>1
    <2>3. f[n + 1] = Estimation!Grouped(f[n], s[n + 1])
      BY <1>1, <2>1
    <2> QED
      BY <2>1, <2>2, <2>3, GroupedListed
  <1>5. \A n \in Nat : n \in G
    <2> HIDE DEF G
    <2> QED
      BY <1>3, <1>4, EveryNat
  <1>6. Listed(f[Len(s)], s, Len(s))
    BY <1>2, <1>5
  <1>7. \A id : OperatorUpto(s, id, Len(s)) = Estimation!OperatorStats(s, id)
    BY <1>2 DEF OperatorUpto, Estimation!OperatorStats
  <1>8. \A flow : LastUpto(s, flow, Len(s)) = Estimation!LastOwnStat(s, flow)
    <2>1. \A flow : OwnUpto(s, flow, Len(s)) = Estimation!OwnStats(s, flow)
      BY <1>2 DEF OwnUpto, Estimation!OwnStats
    <2> QED
      BY <2>1 DEF LastUpto, Estimation!LastOwnStat
  <1> QED
    BY <1>1, <1>6, <1>7, <1>8 DEF Listed

-----------------------------------------------------------------------------
(* Estimations                                                             *)

FigureNames == {"min", "max", "mean", "median"}

LEMMA ZeroFigures == DOMAIN Estimation!Zero = FigureNames
  BY DEF Estimation!Zero, FigureNames

\* The figures of a list of costs are numbers.
LEMMA FiguresType ==
  ASSUME NEW list \in Seq(Nat)
  PROVE  Estimation!calcMinMaxMeanMedian(list) \in
           [min : Int, max : Int, mean : Int, median : Int]
  <1> DEFINE n == Len(list)
             I == 1..n
  <1>1. n \in Nat /\ list \in [I -> Nat]
    OBVIOUS
  <1>2. CASE n = 0
    <2>1. list = <<>>
      BY <1>2
    <2> QED
      BY <2>1 DEF Estimation!calcMinMaxMeanMedian, Estimation!Zero
  <1>3. CASE n # 0
    <2> DEFINE sorted == Estimation!SortedCosts(list)
               half == n \div 2
    <2>1. PICK order \in Bijection(I, I) : sorted = [k \in I |-> list[order[k]]]
      <3>1. list \in [1..n -> Int]
        BY <1>1
      <3> HIDE DEF n
      <3> QED
        BY <1>1, <3>1, SortedOrder
    <2>2. order \in [I -> I]
      <3> HIDE DEF I
      <3> QED
        BY BijectionFacts
    <2>3. sorted \in Seq(Nat) /\ Len(sorted) = n /\ DOMAIN sorted = I
      <3>1. \A k \in I : list[order[k]] \in Nat
        BY <1>1, <2>2
      <3> HIDE DEF sorted
      <3>2. sorted = [k \in 1..n |-> list[order[k]]]
        BY <2>1
      <3> QED
        BY <1>1, <3>1, <3>2
    <2> HIDE DEF sorted
    <2>4. \A k \in I : sorted[k] \in Int
      BY <2>3
    <2>5. SumFunctionOnSet(sorted, I) \in Int
      <3>1. IsFiniteSet(I)
        BY <1>1, CountUpto
      <3> HIDE DEF I
      <3> QED
        BY <2>4, <3>1, SumInt
    <2>6. half \in Nat /\ half + 1 \in I /\ (n % 2 = 0 => half \in I) /\ 1 \in I /\ n \in I
      <3> HIDE DEF n
      <3> QED
        BY <1>1, <1>3
    <2>7. Estimation!Median(sorted) =
            IF n % 2 = 0 THEN (sorted[half] + sorted[half + 1]) \div 2
                         ELSE sorted[half + 1]
      BY <2>3 DEF Estimation!Median
    <2> HIDE DEF half
    <2>8. Estimation!Median(sorted) \in Int
      <3>1. CASE n % 2 = 0
        <4>1. sorted[half] \in Int /\ sorted[half + 1] \in Int
          BY <2>4, <2>6, <3>1
        <4>2. (sorted[half] + sorted[half + 1]) \div 2 \in Int
          BY <4>1
        <4> QED
          BY <2>7, <3>1, <4>2
      <3>2. CASE n % 2 # 0
        BY <2>4, <2>6, <2>7, <3>2
      <3> QED
        BY <3>1, <3>2
    <2>9. list # <<>>
      BY <1>3
    <2>10. Estimation!calcMinMaxMeanMedian(list) =
             [min    |-> sorted[1],
              max    |-> sorted[n],
              mean   |-> SumFunctionOnSet(sorted, I) \div n,
              median |-> Estimation!Median(sorted)]
      BY <2>3, <2>9, EstimationOperators DEF Estimation!calcMinMaxMeanMedian, sorted
    <2>11. SumFunctionOnSet(sorted, I) \div n \in Int
      <3> DEFINE sum == SumFunctionOnSet(sorted, I)
      <3> HIDE DEF n, sum
      <3>1. sum \div n \in Int
        BY <1>1, <1>3, <2>5 DEF sum
      <3> QED
        BY <3>1 DEF sum
    <2> QED
      BY <2>4, <2>6, <2>8, <2>10, <2>11
  <1> QED
    BY <1>2, <1>3

\* The statistics at some places of t are those at places of s, in another
\* order.
Moved(t, J, s, I) ==
  \E m \in Bijection(J, I) : \A j \in J : t[j].cost = s[m[j]].cost

LEMMA ListOfMoved ==
  ASSUME NEW s, NEW t, NEW I, NEW J, NEW list, ListOf(list, t, J), Moved(t, J, s, I)
  PROVE  ListOf(list, s, I)
  <1> DEFINE K == 1..Len(list)
  <1>1. PICK b \in Bijection(K, J) : \A k \in K : list[k] = t[b[k]].cost
    BY DEF ListOf
  <1>2. PICK m \in Bijection(J, I) : \A j \in J : t[j].cost = s[m[j]].cost
    BY DEF Moved
  <1> DEFINE c == [k \in K |-> m[b[k]]]
  <1> HIDE DEF K
  <1>3. c \in Bijection(K, I) /\ b \in [K -> J]
    BY BijectionsCompose, BijectionFacts
  <1>4. \A k \in K : list[k] = s[c[k]].cost
    BY <1>1, <1>2, <1>3
  <1> HIDE DEF c
  <1> QED
    BY <1>3, <1>4 DEF ListOf, K

LEMMA NotMoved ==
  ASSUME NEW s, NEW I
  PROVE  Moved(s, I, s, I)
  <1> DEFINE m == [i \in I |-> i]
  <1>1. m \in Bijection(I, I)
    BY IsBijection
  <1> QED
    BY <1>1 DEF Moved

\* A flow's figures, by those of the statistics wherever they have been moved.
LEMMA FlowFigures ==
  ASSUME NEW s \in Seq(Estimation!Stat), NEW t \in Seq(Estimation!Stat),
         ~Estimation!Malformed(t), NEW flow \in Flows,
         \A id \in Operators : Moved(t, Estimation!OperatorStats(t, id),
                                     s, Estimation!OperatorStats(s, id)),
         Moved(t, Estimation!LastOwnStat(t, flow), s, Estimation!LastOwnStat(s, flow)),
         NEW figure \in DOMAIN Estimation!Zero
  PROVE  LET operators == Pipeline[flow]
         IN /\ Estimation!FlowEstimation(t, flow)[figure] \in Int
            /\ Estimation!FlowEstimation(t, flow)[figure] =
                 Estimation!SumFunction(
                     [i \in DOMAIN operators |->
                        Estimation!Figure(figure, s, Estimation!OperatorStats(s, operators[i]))])
                   + Estimation!Figure(figure, s, Estimation!LastOwnStat(s, flow))
  <1> DEFINE lists == Estimation!Lists(t)
             operators == Pipeline[flow]
             of(list) == Estimation!calcMinMaxMeanMedian(list)
             ofOperators == [i \in DOMAIN operators |-> of(lists.operator[operators[i]])]
             f == [i \in DOMAIN operators |-> ofOperators[i][figure]]
             g == [i \in DOMAIN operators |->
                     Estimation!Figure(figure, s, Estimation!OperatorStats(s, operators[i]))]
             own == of(lists.flow[flow])
  <1>1. ASSUME NEW list \in Seq(Nat), NEW I \in SUBSET DOMAIN s, ListOf(list, s, I)
        PROVE  of(list)[figure] \in Int /\ of(list)[figure] = Estimation!Figure(figure, s, I)
    <2>1. of(list) \in [min : Int, max : Int, mean : Int, median : Int]
      BY FiguresType
    <2> HIDE DEF of
    <2>2. of(list)[figure] \in Int
      BY <2>1, ZeroFigures DEF FigureNames
    <2> QED
      BY <1>1, <2>2, FiguresOfList DEF of
  <1> HIDE DEF of
  <1>2. ASSUME NEW id \in Operators
        PROVE  /\ of(lists.operator[id])[figure] \in Int
               /\ of(lists.operator[id])[figure] =
                    Estimation!Figure(figure, s, Estimation!OperatorStats(s, id))
    <2>1. /\ lists.operator[id] \in Seq(Nat)
          /\ ListOf(lists.operator[id], t, Estimation!OperatorStats(t, id))
      BY ListsHoldStats
    <2>2. ListOf(lists.operator[id], s, Estimation!OperatorStats(s, id))
      BY <2>1, ListOfMoved
    <2>3. Estimation!OperatorStats(s, id) \in SUBSET DOMAIN s
      BY DEF Estimation!OperatorStats
    <2> QED
      BY <1>1, <2>1, <2>2, <2>3
  <1>3. own[figure] \in Int /\ own[figure] = Estimation!Figure(figure, s, Estimation!LastOwnStat(s, flow))
    <2>1. /\ lists.flow[flow] \in Seq(Nat)
          /\ ListOf(lists.flow[flow], t, Estimation!LastOwnStat(t, flow))
      BY ListsHoldStats
    <2>2. ListOf(lists.flow[flow], s, Estimation!LastOwnStat(s, flow))
      BY <2>1, ListOfMoved
    <2>3. Estimation!LastOwnStat(s, flow) \in SUBSET DOMAIN s
      BY DEF Estimation!LastOwnStat, Estimation!OwnStats
    <2> QED
      BY <1>1, <2>1, <2>2, <2>3
  <1>4. operators \in Seq(Operators)
    BY PipelineAssumption
  <1>5. IsFiniteSet(DOMAIN operators) /\ \A i \in DOMAIN operators : operators[i] \in Operators
    <2>1. DOMAIN operators = 1..Len(operators) /\ Len(operators) \in Nat
      BY <1>4
    <2> QED
      BY <1>4, <2>1, CountUpto
  <1> HIDE DEF operators, lists
  <1>6. \A i \in DOMAIN operators : f[i] \in Int /\ f[i] = g[i]
    BY <1>2, <1>5
  <1>7. DOMAIN f = DOMAIN operators /\ DOMAIN g = DOMAIN operators /\ f = g
    BY <1>6
  <1>8. Estimation!FlowEstimation(t, flow)[figure] = Estimation!SumFunction(f) + own[figure]
    BY DEF Estimation!FlowEstimation, lists, operators, of
  <1> HIDE DEF f, g, own
  <1>9. Estimation!SumFunction(f) \in Int
    BY <1>5, <1>6, <1>7, EstimationOperators, SumInt
  <1> QED
    BY <1>3, <1>7, <1>8, <1>9 DEF g, operators

\* An import's figures, likewise.
LEMMA ImportFigures ==
  ASSUME NEW s \in Seq(Estimation!Stat), NEW t \in Seq(Estimation!Stat),
         Moved(t, DOMAIN t, s, DOMAIN s)
  PROVE  /\ Estimation!ImportEstimation(t) \in
              [min : Int, max : Int, mean : Int, median : Int]
         /\ \A figure \in DOMAIN Estimation!Zero :
              Estimation!ImportEstimation(t)[figure] =
                Estimation!Figure(figure, s, DOMAIN s)
  <1> DEFINE list == Estimation!CostsOf(t)
             n == Len(t)
             I == 1..n
  <1>1. n \in Nat /\ DOMAIN t = I
    OBVIOUS
  <1>2. \A i \in I : t[i].cost \in Nat
    BY <1>1, StatCost
  <1>3. list \in Seq(Nat) /\ Len(list) = n /\ \A i \in I : list[i] = t[i].cost
    BY <1>1, <1>2 DEF Estimation!CostsOf
  <1> HIDE DEF list
  <1>4. ListOf(list, t, DOMAIN t)
    <2> DEFINE m == [i \in I |-> i]
    <2>1. m \in Bijection(I, I)
      <3> HIDE DEF I
      <3> QED
        BY IsBijection
    <2>2. \A i \in I : list[i] = t[m[i]].cost
      BY <1>3
    <2>3. 1..Len(list) = I
      BY <1>3
    <2> HIDE DEF m, I, n
    <2> QED
      BY <1>1, <2>1, <2>2, <2>3 DEF ListOf
  <1>5. ListOf(list, s, DOMAIN s)
    BY <1>4, ListOfMoved
  <1>6. Estimation!ImportEstimation(t) = Estimation!calcMinMaxMeanMedian(list)
    BY DEF Estimation!ImportEstimation, list
  <1>7. list \in Seq(Nat) /\ DOMAIN s \in SUBSET DOMAIN s
    BY <1>3
  <1>8. \A figure \in DOMAIN Estimation!Zero :
          Estimation!calcMinMaxMeanMedian(list)[figure] =
            Estimation!Figure(figure, s, DOMAIN s)
    BY <1>5, <1>7, FiguresOfList
  <1> QED
    BY <1>6, <1>7, <1>8, FiguresType

\* Nothing is estimated but the statistics collected.
EstimationInv ==
  /\ stats \in Seq(Estimation!Stat)
  /\ \/ figures = NoResult
     \/ figures = [flows  |-> Estimation!FlowEstimations(stats),
                   import |-> Estimation!ImportEstimation(stats)]

LEMMA EstimationInvInit == CalculationsInit => EstimationInv
  BY DEF CalculationsInit, Estimation!Init, EstimationInv

LEMMA EstimationInvNext ==
  EstimationInv /\ [CalculationsNext]_calculationsVars => EstimationInv'
  <1> SUFFICES ASSUME EstimationInv, [CalculationsNext]_calculationsVars
               PROVE  EstimationInv'
    OBVIOUS
  <1>1. CASE EstimationOfStats
    <2>1. CASE Estimation!Collect
      BY <2>1 DEF Estimation!Collect, EstimationInv
    <2>2. CASE Estimation!Estimate
      BY <2>2 DEF Estimation!Estimate, EstimationInv
    <2> QED
      BY <1>1, <2>1, <2>2 DEF EstimationOfStats, Estimation!Next
  <1>2. CASE UNCHANGED estimationVars
    BY <1>2 DEF estimationVars, EstimationInv
  <1> QED
    BY <1>1, <1>2 DEF CalculationsNext, TimeGoesBy, CostOfSample, TreeOfStats,
                      TreeOfRequests, calculationsVars

LEMMA EstimationInvariant == CalculationsSpec => []EstimationInv
  BY EstimationInvInit, EstimationInvNext, PTL DEF CalculationsSpec

\* An estimation is not the error.
LEMMA NotFailed ==
  ASSUME NEW s \in Seq(Estimation!Stat)
  PROVE  Estimation!FlowEstimations(s) = Failed <=> Estimation!Malformed(s)
  <1> SUFFICES ASSUME ~Estimation!Malformed(s)
               PROVE  Estimation!FlowEstimations(s) # Failed
    BY DEF Estimation!FlowEstimations
  <1>1. ASSUME NEW flow \in Flows, NEW figure \in FigureNames
        PROVE  Estimation!FlowEstimation(s, flow)[figure] \in Int
    BY FlowFigures, NotMoved, ZeroFigures
  <1>2. \A flow \in Flows :
          /\ DOMAIN Estimation!FlowEstimation(s, flow) = FigureNames
          /\ Estimation!FlowEstimation(s, flow) =
               [figure \in FigureNames |-> Estimation!FlowEstimation(s, flow)[figure]]
    BY ZeroFigures DEF Estimation!FlowEstimation
  <1>3. \A flow \in Flows : Estimation!FlowEstimation(s, flow) \in [FigureNames -> Int]
    BY <1>1, <1>2
  <1>4. Estimation!FlowEstimations(s) =
          [flow \in Flows |-> Estimation!FlowEstimation(s, flow)]
    BY DEF Estimation!FlowEstimations
  <1>5. Estimation!FlowEstimations(s) \in [Flows -> [FigureNames -> Int]]
    BY <1>3, <1>4
  <1> QED
    BY <1>5, FailedAssumption DEF FigureNames

\* An estimation is exact, for any statistics, flows and their pipelines.
THEOREM FiguresExact == CalculationsSpec => []FiguresAreExact
  <1>1. EstimationInv => FiguresAreExact
    <2> SUFFICES ASSUME EstimationInv, figures # NoResult
                 PROVE  FiguresAreExact
      BY DEF FiguresAreExact, Estimation!FiguresAreExact, Estimation!Estimated
    <2>1. /\ stats \in Seq(Estimation!Stat)
          /\ figures.flows = Estimation!FlowEstimations(stats)
          /\ figures.import = Estimation!ImportEstimation(stats)
      BY DEF EstimationInv
    <2>2. \A figure \in DOMAIN Estimation!Zero :
            figures.import[figure] = Estimation!Figure(figure, stats, DOMAIN stats)
      BY <2>1, ImportFigures, NotMoved
    <2>3. figures.flows = Failed <=> Estimation!Malformed(stats)
      BY <2>1, NotFailed
    <2>4. ASSUME figures.flows # Failed, NEW flow \in Flows,
                 NEW figure \in DOMAIN Estimation!Zero
          PROVE  figures.flows[flow][figure] =
                   Estimation!SumFunction(
                       [i \in DOMAIN Pipeline[flow] |->
                          Estimation!Figure(figure, stats,
                            Estimation!OperatorStats(stats, Pipeline[flow][i]))])
                     + Estimation!Figure(figure, stats, Estimation!LastOwnStat(stats, flow))
      <3>1. ~Estimation!Malformed(stats)
        BY <2>3, <2>4
      <3>2. figures.flows[flow] = Estimation!FlowEstimation(stats, flow)
        BY <2>1, <3>1 DEF Estimation!FlowEstimations
      <3> QED
        BY <2>1, <3>1, <3>2, FlowFigures, NotMoved
    <2> QED
      BY <2>2, <2>3, <2>4 DEF FiguresAreExact, Estimation!FiguresAreExact
  <1> QED
    BY <1>1, EstimationInvariant, PTL

\* Where exchanging neighbours moves statistics to.
Turn(s, i) == [j \in DOMAIN s |-> IF j = i THEN i + 1 ELSE IF j = i + 1 THEN i ELSE j]

LEMMA TurnMoves ==
  ASSUME NEW s \in Seq(Estimation!Stat), NEW i \in 1..Len(s) - 1
  PROVE  LET t == Estimation!Swapped(s, i)
             u == Turn(s, i)
         IN /\ t \in Seq(Estimation!Stat) /\ DOMAIN t = DOMAIN s
            /\ u \in Bijection(DOMAIN s, DOMAIN s)
            /\ \A j \in DOMAIN s : u[j] \in DOMAIN s /\ t[j] = s[u[j]]
            /\ \A j, k \in DOMAIN s : {j, k} # {i, i + 1} => (j <= k <=> u[j] <= u[k])
            /\ \A I, J \in SUBSET DOMAIN s :
                 (\A j \in DOMAIN s : j \in J <=> u[j] \in I) => Moved(t, J, s, I)
  <1> DEFINE D == DOMAIN s
             t == Estimation!Swapped(s, i)
             u == Turn(s, i)
  <1>1. /\ D = 1..Len(s) /\ Len(s) \in Nat /\ D \subseteq Nat
        /\ i \in D /\ i + 1 \in D /\ i \in Nat
    OBVIOUS
  <1>2. t \in Seq(Estimation!Stat) /\ DOMAIN t = D
    <2>1. t = [s EXCEPT ![i] = s[i + 1], ![i + 1] = s[i]]
      BY DEF Estimation!Swapped
    <2>2. s[i] \in Estimation!Stat /\ s[i + 1] \in Estimation!Stat
      BY <1>1
    <2> DEFINE a == s[i]
               b == s[i + 1]
    <2>3. [s EXCEPT ![i] = b] \in Seq(Estimation!Stat) /\ DOMAIN [s EXCEPT ![i] = b] = D
      BY <1>1, <2>2
    <2> QED
      BY <1>1, <2>1, <2>2, <2>3
  <1>3. \A j \in D : t[j] = IF j = i + 1 THEN s[i] ELSE IF j = i THEN s[i + 1] ELSE s[j]
    BY <1>1 DEF Estimation!Swapped
  <1>4. u[i] = i + 1 /\ u[i + 1] = i /\ \A j \in D : j # i /\ j # i + 1 => u[j] = j
    BY <1>1 DEF Turn
  <1>5. u = [j \in D |-> u[j]]
    BY DEF Turn
  <1> HIDE DEF t, u, D
  <1>6. \A j \in D : u[j] \in D /\ t[j] = s[u[j]] /\ u[u[j]] = j
    BY <1>1, <1>3, <1>4
  <1>7. u \in [D -> D]
    BY <1>5, <1>6
  <1>8. u \in Bijection(D, D)
    BY <1>6, <1>7, IsBijection
  <1>9. ASSUME NEW j \in D, NEW k \in D, {j, k} # {i, i + 1}
        PROVE  j <= k <=> u[j] <= u[k]
    <2>1. j \in Nat /\ k \in Nat
      BY <1>1
    <2>2. ~(j = i /\ k = i + 1) /\ ~(j = i + 1 /\ k = i)
      BY <1>9
    <2> QED
      BY <1>1, <1>4, <2>1, <2>2
  <1>10. ASSUME NEW I \in SUBSET D, NEW J \in SUBSET D, \A j \in D : j \in J <=> u[j] \in I
         PROVE  Moved(t, J, s, I)
    <2> DEFINE m == [j \in J |-> u[j]]
    <2>1. m \in [J -> I] /\ \A j \in J : m[j] = u[j]
      BY <1>10
    <2> HIDE DEF m
    <2>2. \A j, k \in J : m[j] = m[k] => j = k
      BY <1>6, <2>1
    <2>3. \A k \in I : \E j \in J : m[j] = k
      BY <1>6, <1>10, <2>1
    <2>4. m \in Bijection(J, I)
      BY <2>1, <2>2, <2>3, IsBijection
    <2>5. \A j \in J : t[j].cost = s[m[j]].cost
      BY <1>6, <2>1
    <2> QED
      BY <2>4, <2>5 DEF Moved
  <1> QED
    BY <1>2, <1>6, <1>8, <1>9, <1>10 DEF t, u, D

\* An exchange of neighbours that are not of one flow's own changes nothing.
LEMMA TurnChangesNothing ==
  ASSUME NEW s \in Seq(Estimation!Stat), NEW i \in 1..Len(s) - 1,
         ~ /\ Estimation!NamesFlow(s[i])
           /\ Estimation!NamesFlow(s[i + 1])
           /\ s[i].flow = s[i + 1].flow
  PROVE  LET t == Estimation!Swapped(s, i)
         IN /\ Estimation!FlowEstimations(t) = Estimation!FlowEstimations(s)
            /\ Estimation!ImportEstimation(t) = Estimation!ImportEstimation(s)
  <1> DEFINE D == DOMAIN s
             t == Estimation!Swapped(s, i)
             u == Turn(s, i)
  <1>1. /\ t \in Seq(Estimation!Stat) /\ DOMAIN t = D
        /\ u \in Bijection(D, D)
        /\ \A j \in D : u[j] \in D /\ t[j] = s[u[j]]
        /\ \A j, k \in D : {j, k} # {i, i + 1} => (j <= k <=> u[j] <= u[k])
        /\ \A I, J \in SUBSET D :
             (\A j \in D : j \in J <=> u[j] \in I) => Moved(t, J, s, I)
    BY TurnMoves
  <1> HIDE DEF t, u
  <1>2. \A k \in D : \E j \in D : u[j] = k
    <2> HIDE DEF D
    <2> QED
      BY <1>1, BijectionFacts
  <1>3. Estimation!Malformed(t) <=> Estimation!Malformed(s)
    <2> DEFINE Bad(x) == ~Estimation!NamesOperator(x) /\ ~Estimation!NamesFlow(x)
    <2>1. /\ Estimation!Malformed(t) <=> \E j \in D : Bad(t[j])
          /\ Estimation!Malformed(s) <=> \E j \in D : Bad(s[j])
      BY <1>1 DEF Estimation!Malformed
    <2>2. \A j \in D : u[j] \in D /\ t[j] = s[u[j]]
      BY <1>1
    <2> HIDE DEF Bad, D
    <2> QED
      BY <1>2, <2>1, <2>2
  <1>4. ASSUME NEW id \in Operators
        PROVE  Moved(t, Estimation!OperatorStats(t, id), s, Estimation!OperatorStats(s, id))
    BY <1>1 DEF Estimation!OperatorStats
  <1>5. ASSUME NEW flow \in Flows
        PROVE  Moved(t, Estimation!LastOwnStat(t, flow), s, Estimation!LastOwnStat(s, flow))
    <2> DEFINE before == Estimation!OwnStats(s, flow)
               after == Estimation!OwnStats(t, flow)
               I == Estimation!LastOwnStat(s, flow)
               J == Estimation!LastOwnStat(t, flow)
    <2>1. /\ before \subseteq D /\ after \subseteq D
          /\ \A j \in D : j \in after <=> u[j] \in before
      BY <1>1 DEF Estimation!OwnStats
    <2>2. ~(i \in before /\ i + 1 \in before)
      BY DEF Estimation!OwnStats
    <2>3. u[i] = i + 1 /\ u[i + 1] = i
      BY DEF Turn, u
    <2>4. ASSUME NEW j \in after, NEW k \in after PROVE j <= k <=> u[j] <= u[k]
      <3>1. j \in D /\ k \in D /\ u[j] \in before /\ u[k] \in before
        BY <2>1
      <3>2. ~(j = i /\ k = i + 1) /\ ~(j = i + 1 /\ k = i)
        BY <2>2, <2>3, <3>1
      <3>3. i # i + 1
        OBVIOUS
      <3>4. {j, k} # {i, i + 1}
        BY <3>2, <3>3
      <3> QED
        BY <1>1, <3>1, <3>4
    <2>5. I = {k \in before : \A j \in before : j <= k} /\ J = {k \in after : \A j \in after : j <= k}
      BY DEF Estimation!LastOwnStat
    <2> HIDE DEF before, after, I, J
    <2> DEFINE NotAfter(j, k) == j <= k
    <2>8. \A j, k \in after : NotAfter(j, k) <=> NotAfter(u[j], u[k])
      BY <2>4
    <2>9. /\ I = {k \in before : \A j \in before : NotAfter(j, k)}
          /\ J = {k \in after : \A j \in after : NotAfter(j, k)}
      BY <2>5
    <2>10. \A j \in D : u[j] \in D
      BY <1>1
    <2> HIDE DEF NotAfter, D
    <2>6. \A k \in D : k \in J <=> u[k] \in I
      <3> SUFFICES ASSUME NEW k \in D PROVE k \in J <=> u[k] \in I
        OBVIOUS
      <3>1. ASSUME k \in J PROVE u[k] \in I
        <4>1. k \in after /\ \A j \in after : NotAfter(j, k)
          BY <2>9, <3>1
        <4>2. ASSUME NEW l \in before PROVE NotAfter(l, u[k])
          <5>1. PICK j \in D : u[j] = l
            BY <1>2, <2>1
          <5> QED
            BY <2>1, <2>8, <4>1, <5>1
        <4> QED
          BY <2>1, <2>9, <4>1, <4>2
      <3>2. ASSUME u[k] \in I PROVE k \in J
        <4>1. u[k] \in before /\ \A j \in before : NotAfter(j, u[k])
          BY <2>9, <3>2
        <4>2. ASSUME NEW l \in after PROVE NotAfter(l, k)
          BY <2>1, <2>8, <4>1
        <4> QED
          BY <2>1, <2>9, <4>1, <4>2
      <3> QED
        BY <3>1, <3>2
    <2>7. I \in SUBSET D /\ J \in SUBSET D
      BY <2>1, <2>5
    <2> QED
      BY <1>1, <2>6, <2>7 DEF I, J
  <1>6. Estimation!FlowEstimations(t) = Estimation!FlowEstimations(s)
    <2>1. CASE Estimation!Malformed(s)
      BY <1>3, <2>1 DEF Estimation!FlowEstimations
    <2>2. CASE ~Estimation!Malformed(s)
      <3>1. ASSUME NEW flow \in Flows
            PROVE  Estimation!FlowEstimation(t, flow) = Estimation!FlowEstimation(s, flow)
        <4>1. ASSUME NEW figure \in DOMAIN Estimation!Zero
              PROVE  Estimation!FlowEstimation(t, flow)[figure] =
                       Estimation!FlowEstimation(s, flow)[figure]
          <5> DEFINE exact == Estimation!SumFunction(
                                  [k \in DOMAIN Pipeline[flow] |->
                                     Estimation!Figure(figure, s,
                                       Estimation!OperatorStats(s, Pipeline[flow][k]))])
                                + Estimation!Figure(figure, s, Estimation!LastOwnStat(s, flow))
          <5>1. Estimation!FlowEstimation(s, flow)[figure] = exact
            BY <2>2, FlowFigures, NotMoved
          <5>2. t \in Seq(Estimation!Stat) /\ ~Estimation!Malformed(t)
            BY <1>1, <1>3, <2>2
          <5>3. Estimation!FlowEstimation(t, flow)[figure] = exact
            BY <1>4, <1>5, <5>2, FlowFigures
          <5> QED
            BY <5>1, <5>3
        <4> QED
          BY <4>1 DEF Estimation!FlowEstimation
      <3> QED
        BY <1>3, <2>2, <3>1 DEF Estimation!FlowEstimations
    <2> QED
      BY <2>1, <2>2
  <1>7. Estimation!ImportEstimation(t) = Estimation!ImportEstimation(s)
    <2>1. Moved(t, DOMAIN t, s, DOMAIN s)
      BY <1>1
    <2>2. \A figure \in FigureNames :
            Estimation!ImportEstimation(t)[figure] = Estimation!ImportEstimation(s)[figure]
      <3>1. t \in Seq(Estimation!Stat)
        BY <1>1
      <3>2. \A figure \in FigureNames :
              /\ Estimation!ImportEstimation(t)[figure] =
                   Estimation!Figure(figure, s, DOMAIN s)
              /\ Estimation!ImportEstimation(s)[figure] =
                   Estimation!Figure(figure, s, DOMAIN s)
        BY <2>1, <3>1, ImportFigures, NotMoved, ZeroFigures
      <3> QED
        BY <3>2
    <2>3. /\ Estimation!ImportEstimation(t) \in [min : Int, max : Int, mean : Int, median : Int]
          /\ Estimation!ImportEstimation(s) \in [min : Int, max : Int, mean : Int, median : Int]
      BY <1>1, <2>1, ImportFigures, NotMoved
    <2> QED
      BY <2>2, <2>3 DEF FigureNames
  <1> QED
    BY <1>6, <1>7 DEF t

\* The order of statistics matters for a flow's own ones only, for any number
\* of them.
THEOREM OrderMatters == CalculationsSpec => []OrderMattersForOwnStatsOnly
  <1>1. EstimationInv => OrderMattersForOwnStatsOnly
    BY TurnChangesNothing
       DEF EstimationInv, OrderMattersForOwnStatsOnly,
           Estimation!OrderMattersForOwnStatsOnly, Estimation!Estimated
  <1> QED
    BY <1>1, EstimationInvariant, PTL
=============================================================================
