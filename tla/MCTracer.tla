------------------------------ MODULE MCTracer ------------------------------
(***************************************************************************)
(* Tracer for TLC: two requests without a trace ID and one with.           *)
(***************************************************************************)
EXTENDS Tracer

CONSTANTS r1, r2, r3, trace1

MCTraceOf == [r \in Requests |-> IF r = r3 THEN trace1 ELSE NoTrace]
=============================================================================
