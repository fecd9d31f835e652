-------------------------------- MODULE Rest --------------------------------
(***************************************************************************)
(* Calls of the client package, from the caller's arguments to what the    *)
(* caller gets: the request that is built of them, the endpoint that       *)
(* handles it, the controller's outcome, the response, and its decoding.   *)
(* Calls share one process: it may crash under all of them, and the        *)
(* flow estimation's mutex may be leaked by one of them.                   *)
(*                                                                         *)
(* What the controller computes is abstracted to which call of it the      *)
(* answer belongs to; FlowEstimation, CostTree and the trees' modules say  *)
(* which outcomes there are.                                               *)
(***************************************************************************)
EXTENDS Naturals, Sequences, FiniteSets

CONSTANTS
  Calls,     \* the calls made
  Requests,  \* the arguments they may have (see Argument)
  None       \* no value: nil, or nothing so far

TreeOps == {"GetTree", "GetSubTree"}
FlowOps == {"GetFlowEstimation", "GetFlowEstimations"}
ImportOps == {"GetImportEstimation", "GetImportEstimations"}
Ops == TreeOps \cup FlowOps \cup ImportOps

\* Calls of one id have it in their path, those of a list in their body.
SingleOps == {"GetFlowEstimation", "GetImportEstimation"}
ListOps == {"GetFlowEstimations", "GetImportEstimations"}

\* A time is told by its zone: UTC, or to the west or the east of it.
Times == {"utc", "west", "east", None}

\* An id of a path may be one no URL can have.
Argument ==
  [op : Ops, token : {"user", "admin", "invalid"}, forUser : {"other", None},
   costType : {"process", "devices", "unknown", None}, skipEstimation : BOOLEAN,
   start : Times, end : Times, ids : Seq({"id", "unparsable"})]

\* What the controller may be called with.
Asked ==
  [op : Ops, user : {"user", "admin", "other"}, admin : BOOLEAN,
   costType : {"process", "devices", "unknown", None}, skipEstimation : BOOLEAN,
   start : Times, end : Times, ids : Seq({"id", "unparsable"})]

ASSUME RequestsAssumption ==
  /\ Requests \subseteq Argument
  /\ \A a \in Requests :
       /\ a.op \in SingleOps => Len(a.ids) = 1
       /\ a.op \in TreeOps => a.ids = <<>>
       /\ a.op \notin TreeOps => a.forUser = None
ASSUME NoneAssumption == None \notin Requests \cup Asked

VARIABLES
  process,     \* "up" or "down"
  leaked,      \* flowCacheMux is locked for good
  pc,          \* where each call is
  request,     \* its arguments
  asked,       \* what the controller was called with
  estimated,   \* the import types estimated so far
  late,        \* the server's WriteTimeout has passed
  response,    \* status and body of the response
  result,      \* what the caller got
  denied       \* history: the calls denied access to a flow

vars == <<process, leaked, pc, request, asked, estimated, late, response,
          result, denied>>

Control == {"idle", "sent", "handler", "controller", "written", "returned"}

Init ==
  /\ process = "up"
  /\ leaked = FALSE
  /\ pc = [c \in Calls |-> "idle"]
  /\ request = [c \in Calls |-> None]
  /\ asked = [c \in Calls |-> None]
  /\ estimated = [c \in Calls |-> {}]
  /\ late = [c \in Calls |-> FALSE]
  /\ response = [c \in Calls |-> None]
  /\ result = [c \in Calls |-> None]
  /\ denied = {}

Goto(c, from, to) ==
  /\ pc[c] = from
  /\ pc' = [pc EXCEPT ![c] = to]

\* The caller gets an error, or panics, or gets what was decoded of a body:
\* the type's zero value if there is none, or, of a sub tree, its fields
\* taken for types of cost, without their content.
Error == [kind |-> "error"]
Panic == [kind |-> "panic"]
Zero == [kind |-> "zero"]
Hollow == [kind |-> "hollow"]
Value(body) == [kind |-> "value", body |-> body]

Returns(c, from, r) ==
  /\ Goto(c, from, "returned")
  /\ result' = [result EXCEPT ![c] = r]

-----------------------------------------------------------------------------
(* The request                                                             *)

\* The method, path, query and body are built, and the request is sent.
Call(c) ==
  /\ Goto(c, "idle", "sent")
  /\ \E a \in Requests :
       /\ a.op \in SingleOps => a.ids[1] # "unparsable"
       /\ request' = [request EXCEPT ![c] = a]
  /\ UNCHANGED <<process, leaked, asked, estimated, late, response, result,
                 denied>>

\* http.NewRequest fails, and the header of the request it did not make is
\* set before the error is looked at.
CallPanics(c) ==
  /\ Returns(c, "idle", Panic)
  /\ \E a \in Requests :
       /\ a.op \in SingleOps /\ a.ids[1] = "unparsable"
       /\ request' = [request EXCEPT ![c] = a]
  /\ UNCHANGED <<process, leaked, asked, estimated, late, response, denied>>

NoConnection(c) ==
  /\ process = "down"
  /\ Returns(c, "sent", Error)
  /\ UNCHANGED <<process, leaked, request, asked, estimated, late, response,
                 denied>>

Accept(c) ==
  /\ process = "up"
  /\ Goto(c, "sent", "handler")
  /\ UNCHANGED <<process, leaked, request, asked, estimated, late, response,
                 result, denied>>

-----------------------------------------------------------------------------
(* The endpoint                                                            *)

\* The "+" of a zone to the east is not escaped, and a query's "+" is a
\* space.
Received(time) == IF time = "east" THEN "garbled" ELSE time

\* Bug: a time that cannot be parsed is left out.
ParsedLeniently(time) == IF Received(time) = "garbled" THEN None ELSE time

\* time.Parse of the query's value; an empty one is nil.
Parsed(time) == Received(time)

\* getUserId
Forbidden(a) ==
  a.token = "invalid" \/ (a.forUser # None /\ a.token # "admin")
UserId(a) == IF a.forUser # None THEN a.forUser ELSE a.token

\* parseStartEnd
BadTimes(a) == "garbled" \in {Parsed(a.start), Parsed(a.end)}

NoBody == [type |-> "none"]
ErrorText == [type |-> "text"]

Respond(c, status, body) ==
  response' = [response EXCEPT ![c] = [status |-> status, body |-> body]]

\* An id, a token or a time is refused before the controller is called.
BadRequest(c) ==
  /\ Goto(c, "handler", "written")
  /\ Forbidden(request[c]) \/ BadTimes(request[c])
  /\ Respond(c, 400, ErrorText)
  /\ UNCHANGED <<process, leaked, request, asked, estimated, late, result,
                 denied>>

\* The body did not arrive within the server's ReadTimeout.
BodyLate(c) ==
  /\ Goto(c, "handler", "written")
  /\ request[c].op \in ListOps
  /\ Respond(c, 400, ErrorText)
  /\ UNCHANGED <<process, leaked, request, asked, estimated, late, result,
                 denied>>

AskedFor(a) ==
  [op |-> a.op, user |-> UserId(a), admin |-> a.token = "admin",
   costType |-> a.costType, skipEstimation |-> a.skipEstimation,
   start |-> Parsed(a.start), end |-> Parsed(a.end), ids |-> a.ids]

CallController(c) ==
  /\ Goto(c, "handler", "controller")
  /\ ~Forbidden(request[c]) /\ ~BadTimes(request[c])
  /\ asked' = [asked EXCEPT ![c] = AskedFor(request[c])]
  /\ UNCHANGED <<process, leaked, request, estimated, late, response, result,
                 denied>>

-----------------------------------------------------------------------------
(* The controller and the response                                         *)

\* What the endpoint encodes, which for a flow is a list of one.
BodyType(op) ==
  CASE op = "GetTree" -> "CostTree"
    [] op = "GetSubTree" -> "CostWithChildren"
    [] op \in FlowOps \cup {"GetImportEstimations"} -> "[]Estimation"
    [] op = "GetImportEstimation" -> "Estimation"

Body(c) ==
  [type |-> BodyType(asked[c].op), of |-> asked[c], estimated |-> estimated[c]]

InController(c, ops) == pc[c] = "controller" /\ asked[c].op \in ops

Fails(c) ==
  /\ Goto(c, "controller", "written")
  /\ Respond(c, 500, ErrorText)
  /\ UNCHANGED <<process, request, asked, estimated, late, result>>

Answers(c, body) ==
  /\ Goto(c, "controller", "written")
  /\ Respond(c, 200, body)
  /\ UNCHANGED <<process, leaked, request, asked, estimated, late, result,
                 denied>>

BadRange(a) ==
  \/ (a.start = None) # (a.end = None)
  \/ (a.start # None /\ ~a.skipEstimation)

Rejected(a) == a.costType = "unknown" \/ BadRange(a)

\* A query fails, or the range or the type of cost is rejected.
TreeFails(c) ==
  /\ InController(c, TreeOps)
  /\ Fails(c)
  /\ UNCHANGED <<leaked, denied>>

TreeAnswers(c) ==
  /\ InController(c, TreeOps)
  /\ ~Rejected(asked[c])
  /\ Answers(c, Body(c))

\* A tree with processes may have costs that are no numbers, and end in a
\* panic.
HasProcesses(a) ==
  a.op = "GetTree" \/ (a.op = "GetSubTree" /\ a.costType = "process")

\* Encode fails before anything is written: the status is 200, and the body
\* empty.
TreeIsNaN(c) ==
  /\ InController(c, TreeOps)
  /\ ~Rejected(asked[c]) /\ HasProcesses(asked[c])
  /\ Answers(c, NoBody)

\* A sub tree is computed in the goroutine of its handler: a panic there is
\* recovered by the server, which closes the connection.
HandlerPanics(c) ==
  /\ InController(c, {"GetSubTree"})
  /\ ~Rejected(asked[c]) /\ HasProcesses(asked[c])
  /\ Returns(c, "controller", Error)
  /\ UNCHANGED <<process, leaked, request, asked, estimated, late, response,
                 denied>>

\* A whole tree is computed in goroutines of its own: a panic there, or
\* concurrent map writes (CostTree), end the process.  All connections are
\* lost, and with them those responses that have not arrived yet.
Crash(c) ==
  /\ InController(c, {"GetTree"})
  /\ ~Rejected(asked[c])
  /\ process' = "down"
  /\ \E undelivered \in SUBSET {d \in Calls : pc[d] = "written"} :
       LET handled == {d \in Calls : pc[d] \in {"handler", "controller"}}
           lost == handled \cup undelivered
       IN /\ pc' = [d \in Calls |-> IF d \in lost THEN "returned" ELSE pc[d]]
          /\ result' = [d \in Calls |-> IF d \in lost THEN Error ELSE result[d]]
  /\ UNCHANGED <<leaked, request, asked, estimated, late, response, denied>>

\* The parser denies a flow: the mutex stays locked (FlowEstimation).
FlowDenied(c) ==
  /\ InController(c, FlowOps) /\ asked[c].ids # <<>>
  /\ ~leaked
  /\ leaked' = TRUE
  /\ denied' = denied \cup {c}
  /\ Fails(c)

\* Bug: a failed query leaves the mutex locked.
FlowFailsLocked(c) ==
  /\ InController(c, FlowOps)
  /\ ~leaked
  /\ leaked' = TRUE
  /\ Fails(c)
  /\ UNCHANGED denied

\* The statistics cannot be had, when the mutex is free again.
FlowFails(c) ==
  /\ InController(c, FlowOps)
  /\ ~leaked
  /\ Fails(c)
  /\ UNCHANGED <<leaked, denied>>

\* With a leaked mutex the handler waits, whatever the client does.
FlowAnswers(c) ==
  /\ InController(c, FlowOps)
  /\ ~leaked
  /\ Answers(c, Body(c))

\* The import types that are left, in the order of the list.
Left(c) == DOMAIN asked[c].ids \ estimated[c]

ImportEstimated(c) ==
  /\ InController(c, ImportOps)
  /\ \E next \in Left(c) :
       /\ \A i \in Left(c) : next <= i
       /\ estimated' = [estimated EXCEPT ![c] = @ \cup {next}]
  /\ UNCHANGED <<process, leaked, pc, request, asked, late, response, result,
                 denied>>

\* Bug: an import type that fails is left out.
ImportFailsAlone(c) ==
  /\ InController(c, ImportOps)
  /\ Left(c) # {}
  /\ Answers(c, Body(c))

\* One of them fails, and the estimations before it are dropped.
ImportFails(c) ==
  /\ InController(c, ImportOps)
  /\ Left(c) # {}
  /\ Fails(c)
  /\ UNCHANGED <<leaked, denied>>

ImportsAnswered(c) ==
  /\ InController(c, ImportOps)
  /\ Left(c) = {}
  /\ Answers(c, Body(c))

\* WriteTimeout passes before the handler returns; nothing tells the handler.
WriteTimeout(c) ==
  /\ pc[c] \in {"handler", "controller"} /\ ~late[c]
  /\ late' = [late EXCEPT ![c] = TRUE]
  /\ UNCHANGED <<process, leaked, pc, request, asked, estimated, response,
                 result, denied>>

-----------------------------------------------------------------------------
(* The result                                                              *)

\* What the client decodes the body into.
ResultType(op) ==
  CASE op \in TreeOps -> "CostTree"
    [] op \in SingleOps -> "Estimation"
    [] op \in ListOps -> "[]Estimation"

Decoded(op, body) ==
  CASE body = NoBody -> Zero
    [] body.type = ResultType(op) -> Value(body)
    [] body.type = "CostWithChildren" -> Hollow
    [] OTHER -> Error

Receive(c) ==
  /\ ~late[c]
  /\ Returns(c, "written",
       IF response[c].status > 299 THEN Error
       ELSE Decoded(request[c].op, response[c].body))
  /\ UNCHANGED <<process, leaked, request, asked, estimated, late, response,
                 denied>>

\* The response could not be written, and the connection is closed.
ReceiveNothing(c) ==
  /\ late[c]
  /\ Returns(c, "written", Error)
  /\ UNCHANGED <<process, leaked, request, asked, estimated, late, response,
                 denied>>

\* The platform starts the process again; the new one has a free mutex.
Restart ==
  /\ process = "down"
  /\ process' = "up"
  /\ leaked' = FALSE
  /\ UNCHANGED <<pc, request, asked, estimated, late, response, result, denied>>

-----------------------------------------------------------------------------
(* The specification                                                       *)

Handler(c) ==
  \/ Accept(c)
  \/ BadRequest(c)
  \/ BodyLate(c)
  \/ CallController(c)
  \/ TreeFails(c)
  \/ TreeAnswers(c)
  \/ TreeIsNaN(c)
  \/ HandlerPanics(c)
  \/ FlowDenied(c)
  \/ FlowFails(c)
  \/ FlowAnswers(c)
  \/ ImportEstimated(c)
  \/ ImportFails(c)
  \/ ImportsAnswered(c)

Caller(c) ==
  \/ NoConnection(c)
  \/ Receive(c)
  \/ ReceiveNothing(c)

Next ==
  \/ \E c \in Calls :
       \/ Call(c)
       \/ CallPanics(c)
       \/ Handler(c)
       \/ Caller(c)
       \/ Crash(c)
       \/ WriteTimeout(c)
  \/ Restart

Spec == Init /\ [][Next]_vars

\* Handlers run on, the services they ask answer or fail, and responses
\* arrive; neither a deadline nor a crash nor a restart has to come.
FairSpec ==
  /\ Spec
  /\ \A c \in Calls : WF_vars(Handler(c) \/ Caller(c))

-----------------------------------------------------------------------------
(* Properties                                                              *)

\* The controller is asked for exactly what the caller asked the client for:
\* the same operation, ids and range, for the token's user or, by an admin,
\* for the user named.  A range that does not survive the query is refused,
\* never replaced by the default.
AskedAsRequested ==
  \A c \in Calls : asked[c] # None =>
    LET a == request[c]
    IN /\ asked[c].op = a.op /\ asked[c].ids = a.ids
       /\ asked[c].costType = a.costType
       /\ asked[c].skipEstimation = a.skipEstimation
       /\ asked[c].start = a.start /\ asked[c].end = a.end
       /\ asked[c].user = IF a.forUser = None THEN a.token ELSE a.forUser
       /\ asked[c].user = "other" => asked[c].admin

\* A result without an error is the controller's answer to this call, with an
\* estimation for each id, save two that a caller cannot tell from it: the
\* zero value, if costs are no numbers, and a sub tree's fields without their
\* content.  The estimation of a single flow never arrives.
ResultIsTheAnswer ==
  \A c \in Calls : result[c] \notin {None, Error, Panic} =>
    /\ asked[c] # None
    /\ asked[c].op # "GetFlowEstimation"
    /\ \/ /\ result[c].kind = "value"
          /\ result[c].body.of = asked[c]
          /\ asked[c].op # "GetSubTree"
          /\ asked[c].op \in ImportOps =>
               result[c].body.estimated = DOMAIN asked[c].ids
       \/ result[c] = Zero /\ HasProcesses(asked[c])
       \/ result[c] = Hollow /\ asked[c].op = "GetSubTree"

\* Every call returns, crashes, deadlines and restarts or not, unless some
\* call was denied a flow: there is no timeout that would end it otherwise.
ReturnsUnlessDenied ==
  \A c \in Calls : pc[c] = "sent" ~> pc[c] = "returned" \/ denied # {}
=============================================================================
