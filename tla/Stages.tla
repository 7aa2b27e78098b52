------------------------------- MODULE Stages -------------------------------
(***************************************************************************)
(* How a pipeline is put together before it starts (pipeline.c,            *)
(* ops/wrapper.c, ops/map.c): flows wrap its source or its sink, and when  *)
(* it is started the flows of the source wrap the sink too, one by one.    *)
(*                                                                         *)
(* The flows that there are map each element; a flow is its mapping.       *)
(***************************************************************************)
EXTENDS Naturals, Sequences, SequencesExt

CONSTANTS
  Mappings,
  MaxFlows   \* bound on the flows of a pipeline

Scheduler == "scheduler"   \* the logic that pipeline_sink puts in between

ASSUME StagesAssumption == MaxFlows \in Nat /\ Scheduler \notin Mappings

VARIABLES
  source,  \* the flows that wrap the source, the outermost first
  sink,    \* the flows that wrap the sink, the outermost first
  logics   \* the logics that an element passes on its way to the user's
           \* sink, or <<>> before the pipeline is started

stages == <<source, sink, logics>>

StagesInit == source = <<>> /\ sink = <<>> /\ logics = <<>>

Started == logics # <<>>

(* rxc_source_via and rxc_flow_to.                                         *)
Via(flow) ==
  /\ ~Started
  /\ Len(source) + Len(sink) < MaxFlows
  /\ source' = <<flow>> \o source
  /\ UNCHANGED <<sink, logics>>

FlowTo(flow) ==
  /\ ~Started
  /\ Len(source) + Len(sink) < MaxFlows
  /\ sink' = <<flow>> \o sink
  /\ UNCHANGED <<source, logics>>

(* connect of each wrapped source: it wraps the sink it is given and hands *)
(* that on to the source inside.                                           *)
(* Mutation: the sink is wrapped on its inner side.                        *)
ConnectedInside(flows, inner) ==
  LET wrapped[n \in 0..Len(flows)] ==
        IF n = 0 THEN inner ELSE wrapped[n - 1] \o <<flows[n]>>
  IN wrapped[Len(flows)]

Connected(flows, inner) ==
  LET wrapped[n \in 0..Len(flows)] ==
        IF n = 0 THEN inner ELSE <<flows[n]>> \o wrapped[n - 1]
  IN wrapped[Len(flows)]

(* rxc_pipeline_start, up to the sink's on_connect.                        *)
Starts ==
  /\ ~Started
  /\ logics' = Connected(source, <<Scheduler>> \o sink)
  /\ UNCHANGED <<source, sink>>

(* on_push of every logic in turn: what has become of an element.          *)
MappedBy ==
  LET by[n \in 0..Len(logics)] ==
        IF n = 0 THEN <<>>
        ELSE IF logics[n] = Scheduler THEN by[n - 1] ELSE Append(by[n - 1], logics[n])
  IN by[Len(logics)]

(* on_upstream_failure of a map takes its stage for its logic, and calls   *)
(* through what lies behind it in memory.                                  *)
FailureGoesAstray == \E i \in 1..Len(logics) : logics[i] \in Mappings
=============================================================================
