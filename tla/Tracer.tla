------------------------------- MODULE Tracer -------------------------------
(***************************************************************************)
(* telemetry.Tracer as the HTTP door uses it: every request starts a span, *)
(* makes an ID for it (and one for the trace, if the client named none)    *)
(* and ends the span when it is answered.                                  *)
(*                                                                         *)
(* generateID increments a package variable without a lock, so its load    *)
(* and its store are steps of their own; the number that goes into the ID  *)
(* is the one stored or, if the compiler reads the variable again, the one *)
(* it holds by then.  An ID is the number and the time in milliseconds.    *)
(***************************************************************************)
EXTENDS Integers, Sequences

CONSTANTS
  Requests,
  TraceOf,     \* the trace ID each request brings, or NoTrace
  NoTrace,
  MaxClock     \* bound on the clock, in milliseconds

VARIABLES
  idCounter,   \* the package variable
  clock,       \* time.Now().UnixNano()/1000000
  pc,          \* where each request is
  loaded,      \* what its idCounter++ has loaded
  made,        \* the IDs it has made: of the trace, if it needs one, and span
  spans        \* Tracer.spans: per trace ID, the spans, by request and status

vars == <<idCounter, clock, pc, loaded, made, spans>>

Init ==
  /\ idCounter = 0
  /\ clock = 0
  /\ pc = [r \in Requests |-> "new"]
  /\ loaded = [r \in Requests |-> 0]
  /\ made = [r \in Requests |-> << >>]
  /\ spans = << >>

Goto(r, step) == pc' = [pc EXCEPT ![r] = step]

\* generateID: idCounter++ loads the counter ...
Load(r) ==
  /\ pc[r] = "new"
  /\ loaded' = [loaded EXCEPT ![r] = idCounter]
  /\ Goto(r, "store")
  /\ UNCHANGED <<idCounter, clock, made, spans>>

\* ... and stores its successor.
Store(r) ==
  /\ pc[r] = "store"
  /\ idCounter' = loaded[r] + 1
  /\ Goto(r, "make")
  /\ UNCHANGED <<clock, loaded, made, spans>>

\* StartSpan needs an ID for the span, and one for a trace that has none.
Needed(r) == IF TraceOf[r] = NoTrace THEN 2 ELSE 1

\* generateID returns.
MakeID(r) ==
  /\ pc[r] = "make"
  /\ \E n \in {loaded[r] + 1, idCounter} :
       made' = [made EXCEPT ![r] = Append(@, <<n, clock>>)]
  /\ Goto(r, IF Len(made[r]) + 1 < Needed(r) THEN "new" ELSE "append")
  /\ UNCHANGED <<idCounter, clock, loaded, spans>>

TraceID(r) == IF TraceOf[r] = NoTrace THEN made[r][1] ELSE TraceOf[r]

SpansOf(trace) == IF trace \in DOMAIN spans THEN spans[trace] ELSE << >>

\* StartSpan, under t.mu.
AppendSpan(r) ==
  /\ pc[r] = "append"
  /\ spans' = [t \in DOMAIN spans \cup {TraceID(r)} |->
                 IF t = TraceID(r)
                 THEN Append(SpansOf(t), [of |-> r, Status |-> "unset"])
                 ELSE spans[t]]
  /\ Goto(r, "serving")
  /\ UNCHANGED <<idCounter, clock, loaded, made>>

\* EndSpan(span, "ok"), deferred: whatever the request was answered.
EndSpan(r) ==
  /\ pc[r] = "serving"
  /\ spans' = [spans EXCEPT ![TraceID(r)] =
                 [i \in DOMAIN @ |-> IF @[i].of = r
                                     THEN [@[i] EXCEPT !.Status = "ok"]
                                     ELSE @[i]]]
  /\ Goto(r, "done")
  /\ UNCHANGED <<idCounter, clock, loaded, made>>

Tick ==
  /\ clock < MaxClock
  /\ clock' = clock + 1
  /\ UNCHANGED <<idCounter, pc, loaded, made, spans>>

Next ==
  \/ Tick
  \/ \E r \in Requests :
       Load(r) \/ Store(r) \/ MakeID(r) \/ AppendSpan(r) \/ EndSpan(r)

Spec == Init /\ [][Next]_vars
-----------------------------------------------------------------------------
(***************************************************************************)
(* What the comment on generateID says: it creates a unique ID, so no two  *)
(* requests have one in common.                                            *)
(***************************************************************************)
IdsUnique ==
  \A r, s \in Requests : r # s =>
    \A i \in DOMAIN made[r], j \in DOMAIN made[s] : made[r][i] # made[s][j]
=============================================================================
