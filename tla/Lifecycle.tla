------------------------------ MODULE Lifecycle ------------------------------
(***************************************************************************)
(* The process: main, pkg.Start and api.Start set up a server whose        *)
(* handlers run concurrently; a signal cancels the context, upon which the *)
(* server is shut down, and the process exits when that is over.           *)
(*                                                                         *)
(* A handler may get stuck: GetFlowEstimations waits for a mutex without a *)
(* limit, and the mutex may have been leaked (see FlowEstimation).         *)
(*                                                                         *)
(* No name here is one of Rest, so that both can be extended.              *)
(***************************************************************************)
EXTENDS Integers, FiniteSets

CONSTANTS
  Connections,  \* requests that clients may send
  MayStick      \* those of them that may wait for a mutex nobody unlocks

ASSUME ConnectionsAssumption ==
  IsFiniteSet(Connections) /\ MayStick \subseteq Connections

VARIABLES
  main,       \* "starting", "waiting" in wg.Wait, "exited" or "killed"
  wg,         \* the wait group's counter
  cancelled,  \* ctx is done
  signalled,  \* the signal goroutine has returned
  server,     \* "down", "listening", "draining" in Shutdown, "closed"
  handler     \* what has become of each request

processVars == <<main, wg, cancelled, signalled, server, handler>>

TypeOK ==
  /\ main \in {"starting", "waiting", "exited", "killed"}
  /\ wg \in 0..1
  /\ cancelled \in BOOLEAN /\ signalled \in BOOLEAN
  /\ server \in {"down", "listening", "draining", "closed"}
  /\ handler \in [Connections ->
       {"unsent", "running", "stuck", "answered", "refused", "cut"}]

ProcessInit ==
  /\ main = "starting"
  /\ wg = 0
  /\ cancelled = FALSE /\ signalled = FALSE
  /\ server = "down"
  /\ handler = [c \in Connections |-> "unsent"]

Alive == main \in {"starting", "waiting"}

\* The process ends: what its handlers were doing is cut off.
End(how) ==
  /\ main' = how
  /\ server' = "down"
  /\ handler' = [c \in Connections |->
       IF handler[c] \in {"running", "stuck"} THEN "cut" ELSE handler[c]]

-----------------------------------------------------------------------------
(* main and the server                                                     *)

\* The configuration cannot be loaded or the controller not be made:
\* log.Fatal.
StartFails ==
  /\ main = "starting"
  /\ End("killed")
  /\ UNCHANGED <<wg, cancelled, signalled>>

\* Bug: wg.Add is left to the goroutine that shuts the server down.
StartWithoutAdd ==
  /\ main = "starting"
  /\ main' = "waiting"
  /\ UNCHANGED <<wg, cancelled, signalled, server, handler>>

\* pkg.Start adds to the wait group and starts the server's goroutines; main
\* starts that of the signals, and waits.
Start ==
  /\ main = "starting"
  /\ wg' = wg + 1
  /\ main' = "waiting"
  /\ UNCHANGED <<cancelled, signalled, server, handler>>

Listen ==
  /\ main = "waiting"
  /\ server = "down"
  /\ server' = "listening"
  /\ UNCHANGED <<main, wg, cancelled, signalled, handler>>

\* ListenAndServe fails: log.Fatal.  (After a Shutdown, it just returns.)
ListenFails ==
  /\ main = "waiting"
  /\ server = "down"
  /\ End("killed")
  /\ UNCHANGED <<wg, cancelled, signalled>>

\* SIGINT or SIGTERM; the goroutine that waits for it receives one only.
Signal ==
  /\ main = "waiting"
  /\ ~signalled
  /\ signalled' = TRUE
  /\ cancelled' = TRUE
  /\ UNCHANGED <<main, wg, server, handler>>

\* server.Shutdown: the listener is closed.
Shutdown ==
  /\ main = "waiting"
  /\ cancelled
  /\ server \in {"down", "listening"}
  /\ server' = "draining"
  /\ UNCHANGED <<main, wg, cancelled, signalled, handler>>

Active == {c \in Connections : handler[c] \in {"running", "stuck"}}

\* Bug: the server is closed instead of being shut down.
CloseServer ==
  /\ main = "waiting"
  /\ server = "draining"
  /\ server' = "closed"
  /\ wg' = wg - 1
  /\ UNCHANGED <<main, cancelled, signalled, handler>>

\* Bug: wg.Done is not reached.
DrainedNotDone ==
  /\ main = "waiting"
  /\ server = "draining"
  /\ Active = {}
  /\ server' = "closed"
  /\ UNCHANGED <<main, wg, cancelled, signalled, handler>>

\* Shutdown returns when no connection is active; its context, Background,
\* never ends.  Then wg.Done.
Drained ==
  /\ main = "waiting"
  /\ server = "draining"
  /\ Active = {}
  /\ server' = "closed"
  /\ wg' = wg - 1
  /\ UNCHANGED <<main, cancelled, signalled, handler>>

\* wg.Wait returns: os.Exit.
Exit ==
  /\ main = "waiting"
  /\ wg = 0
  /\ End("exited")
  /\ UNCHANGED <<wg, cancelled, signalled>>

-----------------------------------------------------------------------------
(* Clients and handlers                                                    *)

AcceptRequest(c) ==
  /\ Alive
  /\ server = "listening"
  /\ handler[c] = "unsent"
  /\ handler' = [handler EXCEPT ![c] = "running"]
  /\ UNCHANGED <<main, wg, cancelled, signalled, server>>

Refuse(c) ==
  /\ server # "listening"
  /\ handler[c] = "unsent"
  /\ handler' = [handler EXCEPT ![c] = "refused"]
  /\ UNCHANGED <<main, wg, cancelled, signalled, server>>

Answer(c) ==
  /\ Alive
  /\ handler[c] = "running"
  /\ handler' = [handler EXCEPT ![c] = "answered"]
  /\ UNCHANGED <<main, wg, cancelled, signalled, server>>

\* The handler waits for the leaked mutex; the server's WriteTimeout ends
\* the connection's writes, not the handler.
Stick(c) ==
  /\ Alive
  /\ c \in MayStick
  /\ handler[c] = "running"
  /\ handler' = [handler EXCEPT ![c] = "stuck"]
  /\ UNCHANGED <<main, wg, cancelled, signalled, server>>

\* A goroutine that the handler has started panics, or the runtime notices
\* concurrent map writes (see CostTree): the whole process dies.
HandlerCrashes(c) ==
  /\ Alive
  /\ handler[c] = "running"
  /\ End("killed")
  /\ UNCHANGED <<wg, cancelled, signalled>>

Process == Start \/ Listen \/ Shutdown \/ Drained \/ Exit

ProcessNext ==
  \/ Process
  \/ StartFails
  \/ ListenFails
  \/ Signal
  \/ \E c \in Connections :
       AcceptRequest(c) \/ Refuse(c) \/ Answer(c) \/ Stick(c) \/ HandlerCrashes(c)

ProcessSpec == ProcessInit /\ [][ProcessNext]_processVars

\* The process's goroutines run, and a running handler answers or sticks.
\* Nobody has to send a request or a signal.
FairProcessSpec ==
  /\ ProcessSpec
  /\ WF_processVars(Process)
  /\ \A c \in Connections : WF_processVars(Answer(c) \/ Stick(c))

-----------------------------------------------------------------------------
(* Properties                                                              *)

\* An orderly exit cuts off no request that was accepted: it takes a failed
\* start, a crash of another handler or the end of the listener to do so.
NobodyCutOff == main = "exited" => \A c \in Connections : handler[c] # "cut"

\* The process exits only after it was told to.
ExitOnlyWhenCancelled == main = "exited" => cancelled

\* After a signal the process ends, unless a handler is stuck.
ExitsUnlessStuck ==
  cancelled ~> ~Alive \/ \E c \in Connections : handler[c] = "stuck"
=============================================================================
