----------------------------- MODULE Deployment -----------------------------
(***************************************************************************)
(* The process of cmd/gateway: main reads the configuration, registers the *)
(* engines with both front-door instances, starts the three servers in     *)
(* goroutines of their own, waits for a signal and stops the servers one   *)
(* after the other, under one context of 15 seconds that starts with the   *)
(* signal.                                                                 *)
(*                                                                         *)
(* A call is what a front door is serving, from its arrival to its answer. *)
(* Calls have deadlines, except the open-ended ones: reflection streams of *)
(* the gRPC door, and calls of the gRPC and Connect doors whose client has *)
(* yet to send the request.  (The HTTP door has a ReadTimeout.)            *)
(***************************************************************************)
EXTENDS Integers, Sequences, FiniteSets

CONSTANTS
  HTTPCalls, GRPCCalls, ConnectCalls,   \* calls by front door
  OpenEnded,     \* the calls nothing but their client ends
  Configs,       \* possible values of GATEWAY_ENGINES, as lists of entries
  Blank, NoTarget, NoScheme, Empty   \* an entry of spaces; one without "=";
                                     \* a target without "://"; ""

Calls == HTTPCalls \cup GRPCCalls \cup ConnectCalls

ASSUME DeploymentAssumption ==
  /\ IsFiniteSet(Calls)
  /\ OpenEnded \subseteq GRPCCalls \cup ConnectCalls
  /\ HTTPCalls \cap GRPCCalls = {}
  /\ ConnectCalls \cap (HTTPCalls \cup GRPCCalls) = {}
  /\ \A raw \in Configs : Len(raw) \in Nat

Doors == {"http", "grpc", "connect"}

DoorOf(c) == IF c \in HTTPCalls THEN "http"
             ELSE IF c \in GRPCCalls THEN "grpc" ELSE "connect"

VARIABLES
  main,       \* where the main goroutine is
  serve,      \* per door, where the goroutine of its server is
  stopping,   \* the doors whose server was told to stop
  taken,      \* the doors whose port another process has
  call,       \* the calls
  expired,    \* shutdownCtx is done
  gaveUp,     \* history: doors whose Shutdown returned the context's error
  missed,     \* history: Gateway.Shutdown found no server
  registry,   \* per instance, the endpoints registered
  versions    \* per instance, the engines its resolver has a version of

vars == <<main, serve, stopping, taken, call, expired, gaveUp, missed,
          registry, versions>>

shutdownVars == <<stopping, expired, gaveUp, missed>>

Ends == {"exited", "fatal", "killed", "panicked"}

MainStages ==
  {"boot", "spawned", "waiting", "GracefulStop", "http.Shutdown",
   "http draining", "connect.Shutdown", "connect draining"} \cup Ends

ShutdownOf == [http |-> "http.Shutdown", connect |-> "connect.Shutdown"]

DrainingOf == [http |-> "http draining", connect |-> "connect draining"]

TypeOK ==
  /\ main \in MainStages
  /\ serve \in [Doors -> {"pending", "assigned", "serving", "returned"}]
  /\ \A d \in Doors : serve[d] = "assigned" => d = "http"
  /\ stopping \subseteq Doors
  /\ taken \subseteq Doors
  /\ call \in [Calls -> {"idle", "running", "answered", "aborted", "cut"}]
  /\ expired \in BOOLEAN
  /\ gaveUp \subseteq stopping \ {"grpc"}
  /\ missed \in BOOLEAN
  /\ main \in Ends => \A c \in Calls : call[c] # "running"

Instances == {"http", "grpc"}

Init ==
  /\ main = "boot"
  /\ serve = [d \in Doors |-> "pending"]
  /\ stopping = {}
  /\ taken \in SUBSET Doors
  /\ call = [c \in Calls |-> "idle"]
  /\ expired = FALSE
  /\ gaveUp = {}
  /\ missed = FALSE
  /\ registry = [i \in Instances |-> <<>>]
  /\ versions = [i \in Instances |-> {}]
-----------------------------------------------------------------------------
Alive == main \notin Ends

Spawned == Alive /\ main # "boot"

Running(d) == {c \in Calls : DoorOf(c) = d /\ call[c] = "running"}

\* The process ends, and with it every call it was serving.
End(how) ==
  /\ main' = how
  /\ call' = [c \in Calls |-> IF call[c] = "running" THEN "cut" ELSE call[c]]

KeepUnless(kept, e, skipped) == IF e \in skipped THEN kept ELSE Append(kept, e)

\* A loop that continues at some elements: what it has kept after i of them.
Without(list, skipped) ==
  LET kept[i \in 0 .. Len(list)] ==
        IF i = 0 THEN << >> ELSE KeepUnless(kept[i - 1], list[i], skipped)
  IN  kept[Len(list)]

\* Entries without a name and a target are skipped; the scheme of a target is
\* its protocol.
parseEngines(raw) ==
  LET entries == Without(raw, {Blank, NoTarget})
  IN  [i \in DOMAIN entries |->
         [name |-> entries[i].name,
          protocol |-> IF entries[i].scheme = NoScheme THEN "http"
                                                       ELSE entries[i].scheme,
          address |-> entries[i].address]]

\* Registry.Register accepts the endpoint, with the default protocol if the
\* scheme was empty.
Registrable(e) == e.name # Empty /\ e.address # Empty

Accepted(endpoints) ==
  LET refused == {i \in DOMAIN endpoints : ~Registrable(endpoints[i])}
  IN  Without(endpoints, {endpoints[i] : i \in refused})

Registered(endpoints) ==
  LET accepted == Accepted(endpoints)
  IN  [i \in DOMAIN accepted |->
         [accepted[i] EXCEPT !.protocol = IF @ = Empty THEN "grpc" ELSE @]]

Names(endpoints) == {endpoints[i].name : i \in DOMAIN endpoints}

\* Mutant: the loop for the gRPC instance ends at the first endpoint that is
\* not accepted.
RegisterEnginesUntilError(endpoints) ==
  LET bad == {i \in DOMAIN endpoints : ~Registrable(endpoints[i])}
      upTo == IF bad = {} THEN Len(endpoints)
              ELSE (CHOOSE i \in bad : \A j \in bad : i <= j) - 1
      first == SubSeq(endpoints, 1, upTo)
  IN  /\ registry' = [http |-> Registered(endpoints),
                      grpc |-> Registered(first)]
      /\ versions' = [http |-> Names(endpoints), grpc |-> Names(first)]

\* The two loops over cfg.Engines.  The one for the gRPC instance goes on to
\* the next entry when Register fails; the one for the HTTP gateway drops the
\* error and registers the version all the same.
RegisterEngines(endpoints) ==
  /\ registry' = [i \in Instances |-> Registered(endpoints)]
  /\ versions' = [http |-> Names(endpoints),
                  grpc |-> Names(Accepted(endpoints))]

\* main up to the three go statements.
Boot(raw) ==
  /\ main = "boot"
  /\ RegisterEngines(parseEngines(raw))
  /\ IF "grpc" \in taken THEN End("fatal")
     ELSE main' = "spawned" /\ UNCHANGED call
  /\ UNCHANGED <<serve, taken>> /\ UNCHANGED shutdownVars

\* signal.Notify.
Notify ==
  /\ main = "spawned"
  /\ main' = "waiting"
  /\ UNCHANGED <<serve, taken, call, registry, versions>>
  /\ UNCHANGED shutdownVars

\* A signal before Notify has its default effect.
SignalEarly ==
  /\ main \in {"boot", "spawned"}
  /\ End("killed")
  /\ UNCHANGED <<serve, taken, registry, versions>> /\ UNCHANGED shutdownVars

\* Gateway.Start assigns g.server, without synchronisation with main.
AssignServer ==
  /\ Spawned
  /\ serve["http"] = "pending"
  /\ serve' = [serve EXCEPT !["http"] = "assigned"]
  /\ UNCHANGED <<main, taken, call, registry, versions>>
  /\ UNCHANGED shutdownVars

\* Mutant: an error of the Connect server is never filtered.
ToleratedExceptConnect(d) == IF d = "http" THEN {"server closed"} ELSE {}

\* The errors of its server a goroutine returns on quietly; log.Fatalf ends
\* the process on any other.
Tolerated(d) ==
  IF d \in {"http", "connect"} THEN {"server closed"} ELSE {}

\* The goroutine of door d gets err from its server.
ServerReturns(d, err) ==
  IF err \in Tolerated(d) \cup {"nil"}
  THEN /\ serve' = [serve EXCEPT ![d] = "returned"]
       /\ UNCHANGED <<main, call>>
  ELSE End("fatal") /\ UNCHANGED serve

\* ListenAndServe and Serve: a server told to stop refuses to start, with an
\* error of its own kind, and a port that is taken is an error.
Serve(d) ==
  /\ Spawned
  /\ serve[d] = IF d = "http" THEN "assigned" ELSE "pending"
  /\ \/ /\ d \in stopping
        /\ ServerReturns(d, IF d = "grpc" THEN "server stopped"
                                          ELSE "server closed")
     \/ /\ d \notin stopping /\ d \in taken
        /\ ServerReturns(d, "address in use")
     \/ /\ d \notin stopping /\ d \notin taken
        /\ serve' = [serve EXCEPT ![d] = "serving"]
        /\ UNCHANGED <<main, call>>
  /\ UNCHANGED <<taken, registry, versions>> /\ UNCHANGED shutdownVars

\* A server told to stop returns: an HTTP server at once, with
\* ErrServerClosed, and the gRPC server when it has drained, without error.
StopServing(d) ==
  /\ Spawned
  /\ serve[d] = "serving" /\ d \in stopping
  /\ d = "grpc" => Running(d) = {}
  /\ ServerReturns(d, IF d = "grpc" THEN "nil" ELSE "server closed")
  /\ UNCHANGED <<taken, registry, versions>> /\ UNCHANGED shutdownVars
-----------------------------------------------------------------------------
Arrive(c) ==
  /\ Alive
  /\ call[c] = "idle"
  /\ serve[DoorOf(c)] = "serving" /\ DoorOf(c) \notin stopping
  /\ call' = [call EXCEPT ![c] = "running"]
  /\ UNCHANGED <<main, serve, taken, registry, versions>>
  /\ UNCHANGED shutdownVars

Answer(c) ==
  /\ Alive
  /\ call[c] = "running"
  /\ call' = [call EXCEPT ![c] = "answered"]
  /\ UNCHANGED <<main, serve, taken, registry, versions>>
  /\ UNCHANGED shutdownVars

\* A handler panics (RoundRobinLoadBalancer.Next, ensureScheme): net/http
\* recovers and drops the connection, the gRPC server does not recover.
Panic(c) ==
  /\ Alive
  /\ call[c] = "running" /\ c \notin OpenEnded
  /\ IF DoorOf(c) = "grpc" THEN End("panicked")
     ELSE call' = [call EXCEPT ![c] = "aborted"] /\ UNCHANGED main
  /\ UNCHANGED <<serve, taken, registry, versions>> /\ UNCHANGED shutdownVars
-----------------------------------------------------------------------------
\* The signal: shutdownCtx starts, and GracefulStop refuses new calls.
Signal ==
  /\ main = "waiting"
  /\ main' = "GracefulStop"
  /\ stopping' = stopping \cup {"grpc"}
  /\ UNCHANGED <<serve, taken, call, expired, gaveUp, missed, registry,
                 versions>>

\* GracefulStop returns when no gRPC call is left, however long that takes.
GracefulStopReturns ==
  /\ main = "GracefulStop"
  /\ Running("grpc") = {}
  /\ main' = "http.Shutdown"
  /\ UNCHANGED <<serve, taken, call, registry, versions>>
  /\ UNCHANGED shutdownVars

\* Gateway.Shutdown finds g.server nil.  The read races with Start: it may
\* miss an assignment that no later step of Start has followed.
ShutdownFindsNoServer ==
  /\ main = "http.Shutdown"
  /\ serve["http"] \in {"pending", "assigned"}
  /\ missed' = TRUE
  /\ main' = "connect.Shutdown"
  /\ UNCHANGED <<serve, stopping, taken, call, expired, gaveUp, registry,
                 versions>>

\* Mutant: the listener stays open until the calls have drained.
BeginShutdownListening(d) ==
  /\ main = ShutdownOf[d]
  /\ d = "http" => serve[d] # "pending"
  /\ main' = DrainingOf[d]
  /\ UNCHANGED <<serve, stopping, taken, call, expired, gaveUp, missed,
                 registry, versions>>

\* http.Server.Shutdown closes the listener first.
BeginShutdown(d) ==
  /\ main = ShutdownOf[d]
  /\ d = "http" => serve[d] # "pending"
  /\ main' = DrainingOf[d]
  /\ stopping' = stopping \cup {d}
  /\ UNCHANGED <<serve, taken, call, expired, gaveUp, missed, registry,
                 versions>>

AfterShutdown(d) ==
  IF d = "http" THEN main' = "connect.Shutdown" /\ UNCHANGED call
                ELSE End("exited")

\* Mutant: Shutdown is given a context that never ends.
ShutdownReturnsDrained(d) ==
  /\ main = DrainingOf[d]
  /\ Running(d) = {}
  /\ AfterShutdown(d)
  /\ UNCHANGED <<serve, taken, registry, versions>> /\ UNCHANGED shutdownVars

\* Then it waits until the calls are done or the context is.  After the
\* Connect server main returns.
ShutdownReturns(d) ==
  /\ main = DrainingOf[d]
  /\ \/ Running(d) = {} /\ UNCHANGED gaveUp
     \/ Running(d) # {} /\ expired /\ gaveUp' = gaveUp \cup {d}
  /\ AfterShutdown(d)
  /\ UNCHANGED <<serve, taken, stopping, expired, missed, registry, versions>>

\* The 15 seconds since the signal are over.
Expire ==
  /\ Alive /\ "grpc" \in stopping
  /\ ~expired
  /\ expired' = TRUE
  /\ UNCHANGED <<main, serve, stopping, taken, call, gaveUp, missed, registry,
                 versions>>

Shutdown ==
  \/ GracefulStopReturns
  \/ ShutdownFindsNoServer
  \/ \E d \in {"http", "connect"} : BeginShutdown(d) \/ ShutdownReturns(d)

Next ==
  \/ \E raw \in Configs : Boot(raw)
  \/ Notify
  \/ SignalEarly
  \/ AssignServer
  \/ \E d \in Doors : Serve(d) \/ StopServing(d)
  \/ \E c \in Calls : Arrive(c) \/ Answer(c) \/ Panic(c)
  \/ Signal
  \/ Shutdown
  \/ Expire

Spec == Init /\ [][Next]_vars

(***************************************************************************)
(* Fairness: main runs on, the timer fires, and a call with a deadline is  *)
(* answered.  Nothing is assumed of open-ended calls, nor that a goroutine *)
(* that was started gets to its server, nor that a signal ever comes.      *)
(***************************************************************************)
FairSpec ==
  /\ Spec
  /\ WF_vars(Shutdown)
  /\ WF_vars(Expire)
  /\ \A c \in Calls \ OpenEnded : WF_vars(Answer(c))
-----------------------------------------------------------------------------
\* main has stopped the gRPC server, or also the HTTP server, and gone on.
PastHTTP == {"connect.Shutdown", "connect draining", "exited"}

PastGRPC == {"http.Shutdown", "http draining"} \cup PastHTTP

\* main has stopped the server of door d and gone on.
Past(d) ==
  \/ d = "grpc" /\ main \in PastGRPC
  \/ d = "http" /\ main \in PastHTTP
  \/ d = "connect" /\ main = "exited"

(***************************************************************************)
(* A door that main has stopped is quiet and stays quiet: no call is left  *)
(* or arrives there, and none is cut when the process exits, unless        *)
(* Shutdown gave up at the end of the 15 seconds or, at the HTTP door,     *)
(* found that the server had not been made yet.  The gRPC door is never    *)
(* given up.                                                               *)
(***************************************************************************)
StoppedDoorsQuiet ==
  \A c \in Calls :
    LET d == DoorOf(c)
    IN  /\ Past(d)
        /\ d \notin gaveUp
        /\ ~(d = "http" /\ missed)
        => call[c] \notin {"running", "cut"}

(***************************************************************************)
(* log.Fatalf ends the process only on account of a server that never got  *)
(* to serve: its port was taken, or GracefulStop came before the goroutine *)
(* of the gRPC server called Serve.  In particular no server that shutdown *)
(* closes in the middle of its work takes the process down.                *)
(***************************************************************************)
FatalJustified ==
  main = "fatal" =>
    \E d \in Doors :
      /\ serve[d] \in {"pending", "assigned"}
      /\ d \in taken \/ (d = "grpc" /\ d \in stopping)

(***************************************************************************)
(* Both instances are given the same endpoints, whatever GATEWAY_ENGINES   *)
(* holds, and know a version of every engine they have an endpoint of; the *)
(* HTTP gateway also knows one of engines whose endpoint was refused.      *)
(***************************************************************************)
InstancesConfiguredAlike ==
  /\ registry["http"] = registry["grpc"]
  /\ versions["grpc"] = Names(registry["grpc"])
  /\ versions["grpc"] \subseteq versions["http"]

(***************************************************************************)
(* The process ends after a signal, whatever the HTTP and Connect clients  *)
(* do, provided that the clients of open-ended gRPC calls hang up, which   *)
(* GracefulStop waits for without a limit.                                 *)
(***************************************************************************)
ShutdownEnds ==
  <>[](\A c \in GRPCCalls \cap OpenEnded : call[c] # "running")
    => (main = "GracefulStop" ~> main \in Ends)
=============================================================================
