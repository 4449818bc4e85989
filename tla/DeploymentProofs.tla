-------------------------- MODULE DeploymentProofs --------------------------
(***************************************************************************)
(* Safety of Deployment, for any calls, any of them open-ended, and any    *)
(* configuration.                                                          *)
(***************************************************************************)
EXTENDS Deployment, SequenceTheorems, WellFoundedInduction, TLAPS

(***************************************************************************)
(* What main has done shows in the servers: none is past its start before  *)
(* the go statements, and those that main is past, or is waiting for, were *)
(* told to stop, unless the HTTP server was missed.                        *)
(***************************************************************************)
ProgressInv ==
  /\ main = "boot" => \A d \in Doors : serve[d] = "pending"
  /\ main \in PastGRPC \cup {"GracefulStop"} => "grpc" \in stopping
  /\ main = "http draining" => "http" \in stopping
  /\ main \in PastHTTP => "http" \in stopping \/ missed
  /\ main \in {"connect draining", "exited"} => "connect" \in stopping

\* Calls are cut only by the end of the process.
CutInv == Alive => \A c \in Calls : call[c] # "cut"

IInv ==
  /\ TypeOK
  /\ ProgressInv
  /\ CutInv
  /\ StoppedDoorsQuiet
  /\ FatalJustified

USE DEF Doors, PastGRPC, PastHTTP, Past, Ends, MainStages, Alive, Spawned

\* No server has started and no call has arrived.
LEMMA InitIInv == Init => IInv
<1> SUFFICES ASSUME Init PROVE IInv
  OBVIOUS
<1> USE DEF Init
<1>1. TypeOK
  BY DEF TypeOK
<1>2. ProgressInv /\ CutInv
  BY DEF ProgressInv, CutInv
<1>3. StoppedDoorsQuiet /\ FatalJustified
  BY DEF StoppedDoorsQuiet, FatalJustified
<1> QED
  BY <1>1, <1>2, <1>3 DEF IInv

(***************************************************************************)
(* The process dies in the middle of its work, by log.Fatalf with good     *)
(* reason or otherwise.                                                    *)
(***************************************************************************)
LEMMA EndIInv ==
  ASSUME IInv, NEW how \in {"fatal", "killed", "panicked"}, End(how),
         UNCHANGED <<serve, taken, stopping, expired, gaveUp, missed>>,
         how = "fatal" =>
           \E d \in Doors :
             /\ serve[d] \in {"pending", "assigned"}
             /\ d \in taken \/ (d = "grpc" /\ d \in stopping)
  PROVE  IInv'
<1> USE DEF IInv, End
<1>1. TypeOK'
  BY DEF TypeOK
<1>2. ProgressInv' /\ CutInv'
  BY DEF ProgressInv, CutInv
<1>3. StoppedDoorsQuiet' /\ FatalJustified'
  BY DEF StoppedDoorsQuiet, FatalJustified
<1> QED
  BY <1>1, <1>2, <1>3

(***************************************************************************)
(* The goroutine of a server goes on, and nothing else does.               *)
(***************************************************************************)
LEMMA ServerStepIInv ==
  ASSUME IInv, Spawned, NEW d \in Doors, NEW to \in {"serving", "returned"},
         serve[d] \in {"pending", "assigned", "serving"},
         serve' = [serve EXCEPT ![d] = to],
         UNCHANGED <<main, call, taken, stopping, expired, gaveUp, missed>>
  PROVE  IInv'
<1> USE DEF IInv
<1>1. TypeOK'
  BY DEF TypeOK
<1>2. ProgressInv' /\ CutInv'
  BY DEF ProgressInv, CutInv
<1>3. StoppedDoorsQuiet' /\ FatalJustified'
  BY DEF StoppedDoorsQuiet, FatalJustified
<1> QED
  BY <1>1, <1>2, <1>3

\* The invariant is preserved by every step of main, the servers' goroutines,
\* the calls and the timer.
LEMMA NextIInv == IInv /\ [Next]_vars => IInv'
<1> SUFFICES ASSUME IInv, [Next]_vars PROVE IInv'
  OBVIOUS
<1> USE DEF IInv, TypeOK, ProgressInv, CutInv, StoppedDoorsQuiet,
            FatalJustified, shutdownVars
<1>1. ASSUME NEW raw \in Configs, Boot(raw) PROVE IInv'
  <2>1. CASE "grpc" \in taken
    BY <1>1, <2>1, EndIInv DEF Boot
  <2>2. CASE "grpc" \notin taken
    BY <1>1, <2>2 DEF Boot
  <2> QED
    BY <2>1, <2>2
<1>2. CASE Notify
  BY <1>2 DEF Notify
<1>3. CASE SignalEarly
  BY <1>3 DEF SignalEarly, End
<1>4. CASE AssignServer
  BY <1>4 DEF AssignServer
<1>5. ASSUME NEW d \in Doors, Serve(d) PROVE IInv'
  <2> USE <1>5 DEF Serve, ServerReturns, Tolerated
  <2>1. CASE d \in stopping /\ d = "grpc"
    BY <2>1, EndIInv
  <2>2. CASE d \in stopping /\ d # "grpc"
    BY <2>2, ServerStepIInv
  <2>3. CASE d \notin stopping /\ d \in taken
    BY <2>3, EndIInv
  <2>4. CASE d \notin stopping /\ d \notin taken
    BY <2>4, ServerStepIInv
  <2> QED
    BY <2>1, <2>2, <2>3, <2>4
<1>6. ASSUME NEW d \in Doors, StopServing(d) PROVE IInv'
  BY <1>6, ServerStepIInv DEF StopServing, ServerReturns, Tolerated
<1>7. ASSUME NEW c \in Calls, Arrive(c) PROVE IInv'
  BY <1>7 DEF Arrive
<1>8. ASSUME NEW c \in Calls, Answer(c) PROVE IInv'
  BY <1>8 DEF Answer
<1>9. ASSUME NEW c \in Calls, Panic(c) PROVE IInv'
  <2>1. CASE DoorOf(c) = "grpc"
    BY <1>9, <2>1, EndIInv DEF Panic
  <2>2. CASE DoorOf(c) # "grpc"
    BY <1>9, <2>2 DEF Panic
  <2> QED
    BY <2>1, <2>2
<1>10. CASE Signal
  BY <1>10 DEF Signal
<1>11. CASE GracefulStopReturns
  BY <1>11 DEF GracefulStopReturns, Running
<1>12. CASE ShutdownFindsNoServer
  BY <1>12 DEF ShutdownFindsNoServer
<1>13. ASSUME NEW d \in {"http", "connect"}, BeginShutdown(d) PROVE IInv'
  <2>1. CASE d = "http"
    BY <1>13, <2>1 DEF BeginShutdown, ShutdownOf, DrainingOf
  <2>2. CASE d = "connect"
    BY <1>13, <2>2 DEF BeginShutdown, ShutdownOf, DrainingOf
  <2> QED
    BY <2>1, <2>2
<1>14. ASSUME NEW d \in {"http", "connect"}, ShutdownReturns(d) PROVE IInv'
  <2>1. CASE d = "http"
    BY <1>14, <2>1 DEF ShutdownReturns, DrainingOf, AfterShutdown, Running
  <2>2. CASE d = "connect"
    <3>1. /\ main = "connect draining" /\ main' = "exited"
          /\ call' = [c \in Calls |-> IF call[c] = "running" THEN "cut"
                                                             ELSE call[c]]
          /\ UNCHANGED <<serve, taken, stopping, expired, missed>>
          /\ gaveUp \subseteq gaveUp'
          /\ gaveUp' \subseteq gaveUp \cup {"connect"}
          /\ "connect" \notin gaveUp' => Running("connect") = {}
      BY <1>14, <2>2 DEF ShutdownReturns, DrainingOf, AfterShutdown, End
    <3>2. TypeOK'
      BY <3>1
    <3>3. ProgressInv' /\ CutInv' /\ FatalJustified'
      BY <3>1
    <3>4. StoppedDoorsQuiet'
      <4> SUFFICES ASSUME NEW c \in Calls, (Past(DoorOf(c)))',
                          DoorOf(c) \notin gaveUp',
                          ~(DoorOf(c) = "http" /\ missed')
                   PROVE  call'[c] \notin {"running", "cut"}
        BY DEF DoorOf
      <4>1. CASE DoorOf(c) = "connect"
        BY <3>1, <4>1 DEF Running
      <4>2. CASE DoorOf(c) # "connect"
        BY <3>1, <4>2 DEF DoorOf
      <4> QED
        BY <4>1, <4>2
    <3> QED
      BY <3>2, <3>3, <3>4
  <2> QED
    BY <2>1, <2>2
<1>15. CASE Expire
  BY <1>15 DEF Expire
<1>16. CASE UNCHANGED vars
  BY <1>16 DEF vars
<1> QED
  BY <1>1, <1>2, <1>3, <1>4, <1>5, <1>6, <1>7, <1>8, <1>9, <1>10, <1>11,
     <1>12, <1>13, <1>14, <1>15, <1>16 DEF Next, Shutdown

\* The inductive invariant holds throughout.
LEMMA Invariant == Spec => []IInv
  BY InitIInv, NextIInv, PTL DEF Spec

(***************************************************************************)
(* The types, for any calls and configurations; in particular nothing runs *)
(* on when the process has ended, and Shutdown gives up only on a server   *)
(* it had closed, and never on the gRPC server.                            *)
(***************************************************************************)
THEOREM TypeCorrect == Spec => []TypeOK
<1>1. IInv => TypeOK
  BY DEF IInv
<1> QED
  BY <1>1, Invariant, PTL

(***************************************************************************)
(* A door that main has stopped is quiet and stays quiet, for any number   *)
(* of calls at each door, with the exceptions that StoppedDoorsQuiet names *)
(* (Shutdown gave up, or it missed the HTTP server).                       *)
(***************************************************************************)
THEOREM DoorsStayQuiet == Spec => []StoppedDoorsQuiet
<1>1. IInv => StoppedDoorsQuiet
  BY DEF IInv
<1> QED
  BY <1>1, Invariant, PTL

(***************************************************************************)
(* log.Fatalf ends the process only on account of a server that never got  *)
(* to serve.                                                               *)
(***************************************************************************)
THEOREM FatalOnlyAtStart == Spec => []FatalJustified
<1>1. IInv => FatalJustified
  BY DEF IInv
<1> QED
  BY <1>1, Invariant, PTL
-----------------------------------------------------------------------------
(***************************************************************************)
(* Induction over the natural numbers, for a set: the least number outside *)
(* it would have a predecessor inside.                                     *)
(***************************************************************************)
LEMMA NatSetInduction ==
  ASSUME NEW S, 0 \in S, \A n \in Nat : n \in S => n + 1 \in S
  PROVE  Nat \subseteq S
<1> DEFINE T == Nat \ S
<1>1. SUFFICES ASSUME T # {} PROVE FALSE
  OBVIOUS
<1>2. PICK x \in T : \A y \in T : ~(<<y, x>> \in OpToRel(<, Nat))
  <2>1. T \subseteq Nat
    OBVIOUS
  <2> QED BY <1>1, <2>1, NatLessThanWellFounded, WFMin, Zenon
<1>3. x \in Nat /\ x # 0 /\ x \notin S
  OBVIOUS
<1>4. x - 1 \in Nat /\ x - 1 < x
  BY <1>3
<1>5. x - 1 \notin T
  <2> SUFFICES ASSUME x - 1 \in T PROVE FALSE
    OBVIOUS
  <2>1. <<x - 1, x>> \notin OpToRel(<, Nat)
    BY <1>2
  <2>2. <<x - 1, x>> \in OpToRel(<, Nat)
    BY <1>3, <1>4, Zenon DEF OpToRel
  <2> QED BY <2>1, <2>2
<1> QED
  BY <1>3, <1>4, <1>5

(***************************************************************************)
(* f is what a loop over list has kept after 0, 1, ..., n elements, when   *)
(* it skips those in a set.                                                *)
(***************************************************************************)
Loop(f, list, skipped, n) ==
  f = [i \in 0 .. n |->
        IF i = 0 THEN << >> ELSE KeepUnless(f[i - 1], list[i], skipped)]

\* The recursion of Without has a solution.
LEMMA LoopExists ==
  \A list, skipped : \A n \in Nat : \E f : Loop(f, list, skipped, n)
<1> TAKE list, skipped
<1> DEFINE S == {n \in Nat : \E f : Loop(f, list, skipped, n)}
<1>1. 0 \in S
  <2> DEFINE f == [i \in 0 .. 0 |-> << >>]
  <2>1. Loop(f, list, skipped, 0)
    BY DEF Loop
  <2> QED
    BY <2>1
<1>2. ASSUME NEW n \in Nat, n \in S PROVE n + 1 \in S
  <2>1. PICK f : Loop(f, list, skipped, n)
    BY <1>2
  <2> DEFINE g == [i \in 0 .. n + 1 |->
                    IF i = 0 THEN << >>
                    ELSE KeepUnless(f[i - 1], list[i], skipped)]
  <2>2. \A i \in 0 .. n : g[i] = f[i]
    BY <2>1 DEF Loop
  <2>3. \A i \in 0 .. n + 1 : i # 0 => i - 1 \in 0 .. n
    OBVIOUS
  <2>4. \A i \in 0 .. n + 1 : i # 0 => g[i - 1] = f[i - 1]
    BY <2>2, <2>3
  <2>5. Loop(g, list, skipped, n + 1)
    BY <2>4 DEF Loop
  <2> QED
    BY <2>5
<1> HIDE DEF S
<1>3. Nat \subseteq S
  BY <1>1, <1>2, NatSetInduction, Zenon
<1> QED
  BY <1>3 DEF S

\* A loop that skips elements makes a list of elements it has met.
LEMMA WithoutKeeps ==
  ASSUME NEW list, Len(list) \in Nat, NEW skipped
  PROVE  Without(list, skipped) \in Seq({list[i] : i \in 1 .. Len(list)})
<1> DEFINE n == Len(list)
           T == {list[i] : i \in 1 .. n}
           f == CHOOSE g : Loop(g, list, skipped, n)
<1>1. Loop(f, list, skipped, n)
  BY LoopExists
<1>2. Without(list, skipped) = f[n]
  BY DEF Without, Loop
<1> HIDE DEF f
<1> DEFINE S == {k \in Nat : k <= n => f[k] \in Seq(T)}
<1>3. 0 \in S
  <2>1. f[0] = << >>
    <3>1. n \in Nat /\ 0 \in 0 .. n
      OBVIOUS
    <3> HIDE DEF n
    <3> QED
      BY <1>1, <3>1 DEF Loop
  <2> HIDE DEF T
  <2>2. f[0] \in Seq(T)
    BY <2>1, EmptySeq, Zenon
  <2> QED
    BY <2>2
<1>4. ASSUME NEW k \in Nat, k \in S PROVE k + 1 \in S
  <2> SUFFICES ASSUME k + 1 <= n PROVE f[k + 1] \in Seq(T)
    OBVIOUS
  <2>1. f[k] \in Seq(T)
    BY <1>4
  <2>2. f[k + 1] = KeepUnless(f[k], list[k + 1], skipped)
    BY <1>1 DEF Loop
  <2>3. list[k + 1] \in T
    OBVIOUS
  <2> HIDE DEF T
  <2> QED
    BY <2>1, <2>2, <2>3 DEF KeepUnless
<1> HIDE DEF S
<1>5. Nat \subseteq S
  BY <1>3, <1>4, NatSetInduction, Zenon
<1> QED
  BY <1>2, <1>5 DEF S

(***************************************************************************)
(* What parseEngines makes of any GATEWAY_ENGINES: a list of records.      *)
(***************************************************************************)
LEMMA ParsedRecords ==
  ASSUME NEW raw \in Configs, NEW eps, eps = parseEngines(raw)
  PROVE  /\ Len(eps) \in Nat /\ DOMAIN eps = 1 .. Len(eps)
         /\ \A i \in DOMAIN eps :
              \E n, p, a :
                eps[i] = [name |-> n, protocol |-> p, address |-> a]
<1> DEFINE entries == Without(raw, {Blank, NoTarget})
<1>1. Len(raw) \in Nat
  BY DeploymentAssumption
<1>2. entries \in Seq({raw[i] : i \in 1 .. Len(raw)})
  BY <1>1, WithoutKeeps
<1>3. Len(entries) \in Nat /\ DOMAIN entries = 1 .. Len(entries)
  BY <1>2, LenProperties
<1>4. eps = [i \in DOMAIN entries |->
               [name |-> entries[i].name,
                protocol |-> IF entries[i].scheme = NoScheme THEN "http"
                                                   ELSE entries[i].scheme,
                address |-> entries[i].address]]
  BY DEF parseEngines
<1> HIDE DEF entries
<1>5. DOMAIN eps = 1 .. Len(entries)
  BY <1>3, <1>4
<1>6. Len(eps) = Len(entries)
  <2> DEFINE R == {eps[i] : i \in DOMAIN eps}
  <2>1. eps \in [1 .. Len(entries) -> R]
    BY <1>4, <1>5
  <2>2. eps \in Seq(R)
    BY <1>3, <2>1, SeqDef
  <2> HIDE DEF R
  <2>3. Len(eps) \in Nat /\ DOMAIN eps = 1 .. Len(eps)
    BY <2>2, LenProperties
  <2> QED
    BY <1>3, <1>5, <2>3
<1>7. \A i \in DOMAIN eps :
        \E n, p, a : eps[i] = [name |-> n, protocol |-> p, address |-> a]
  <2> TAKE i \in DOMAIN eps
  <2> DEFINE p == IF entries[i].scheme = NoScheme THEN "http"
                                                  ELSE entries[i].scheme
  <2>1. eps[i] = [name |-> entries[i].name, protocol |-> p,
                  address |-> entries[i].address]
    BY <1>3, <1>4, <1>5
  <2> HIDE DEF p
  <2> QED
    BY <2>1, Zenon
<1> QED
  BY <1>3, <1>5, <1>6, <1>7

(***************************************************************************)
(* The endpoints the registry accepts are some of those it was given, and  *)
(* it stores them under the names they were given.                         *)
(***************************************************************************)
LEMMA RegisteredNames ==
  ASSUME NEW eps, Len(eps) \in Nat, DOMAIN eps = 1 .. Len(eps),
         \A i \in DOMAIN eps :
           \E n, p, a : eps[i] = [name |-> n, protocol |-> p, address |-> a]
  PROVE  /\ Names(Registered(eps)) = Names(Accepted(eps))
         /\ Names(Accepted(eps)) \subseteq Names(eps)
<1> DEFINE acc == Accepted(eps)
           T == {eps[i] : i \in 1 .. Len(eps)}
           reg == Registered(eps)
<1>1. acc \in Seq(T)
  BY WithoutKeeps DEF Accepted
<1>2. reg = [i \in DOMAIN acc |->
               [acc[i] EXCEPT !.protocol = IF @ = Empty THEN "grpc" ELSE @]]
  BY DEF Registered
<1> HIDE DEF acc, reg
<1>3. DOMAIN acc = 1 .. Len(acc) /\ \A i \in DOMAIN acc : acc[i] \in T
  BY <1>1, LenProperties, ElementOfSeq
<1>4. \A i \in DOMAIN acc : \E m \in DOMAIN eps : acc[i] = eps[m]
  BY <1>3
<1>5. ASSUME NEW i \in DOMAIN acc PROVE reg[i].name = acc[i].name
  <2>1. PICK n, p, a : acc[i] = [name |-> n, protocol |-> p, address |-> a]
    BY <1>4
  <2>2. PICK q : reg[i] = [acc[i] EXCEPT !.protocol = q]
    BY <1>2
  <2> QED
    BY <2>1, <2>2
<1>6. DOMAIN reg = DOMAIN acc
  BY <1>2
<1>7. Names(reg) = Names(acc)
  BY <1>5, <1>6 DEF Names
<1>8. Names(acc) \subseteq Names(eps)
  BY <1>4 DEF Names
<1> QED
  BY <1>7, <1>8 DEF acc, reg

(***************************************************************************)
(* Both instances are given the same endpoints, whatever GATEWAY_ENGINES   *)
(* holds, and know a version of every engine they have an endpoint of.     *)
(***************************************************************************)
THEOREM ConfiguredAlike == Spec => []InstancesConfiguredAlike
<1>1. Init => InstancesConfiguredAlike
  <2> SUFFICES ASSUME Init PROVE InstancesConfiguredAlike
    OBVIOUS
  <2>1. /\ registry["http"] = << >> /\ registry["grpc"] = << >>
        /\ versions["http"] = {} /\ versions["grpc"] = {}
    BY DEF Init, Instances
  <2>2. Names(<< >>) = {}
    BY DEF Names
  <2> QED
    BY <2>1, <2>2 DEF InstancesConfiguredAlike
<1>2. ASSUME InstancesConfiguredAlike, NEW raw \in Configs, Boot(raw)
      PROVE  InstancesConfiguredAlike'
  <2>1. PICK eps : eps = parseEngines(raw)
    OBVIOUS
  <2>2. /\ registry' = [i \in Instances |-> Registered(eps)]
        /\ versions' = [http |-> Names(eps), grpc |-> Names(Accepted(eps))]
    BY <1>2, <2>1 DEF Boot, RegisterEngines
  <2>3. /\ Names(Registered(eps)) = Names(Accepted(eps))
        /\ Names(Accepted(eps)) \subseteq Names(eps)
    BY <2>1, ParsedRecords, RegisteredNames
  <2>4. /\ registry'["http"] = Registered(eps)
        /\ registry'["grpc"] = Registered(eps)
        /\ versions'["http"] = Names(eps)
        /\ versions'["grpc"] = Names(Accepted(eps))
    BY <2>2 DEF Instances
  <2> QED
    BY <2>3, <2>4 DEF InstancesConfiguredAlike, Names
<1>3. ASSUME InstancesConfiguredAlike, UNCHANGED <<registry, versions>>
      PROVE  InstancesConfiguredAlike'
  BY <1>3 DEF InstancesConfiguredAlike, Names
<1>4. ASSUME InstancesConfiguredAlike, [Next]_vars
      PROVE  InstancesConfiguredAlike'
  <2>1. \/ \E raw \in Configs : Boot(raw)
        \/ UNCHANGED <<registry, versions>>
    BY <1>4
       DEF Next, Shutdown, Notify, SignalEarly, AssignServer, Serve,
           StopServing, Arrive, Answer, Panic, Signal, GracefulStopReturns,
           ShutdownFindsNoServer, BeginShutdown, ShutdownReturns, Expire, vars
  <2> QED
    BY <1>2, <1>3, <1>4, <2>1
<1> QED
  BY <1>1, <1>4, PTL DEF Spec
=============================================================================
