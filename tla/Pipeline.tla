------------------------------ MODULE Pipeline ------------------------------
(***************************************************************************)
(* A pipeline of rxc: a source that emits on demand (ops/count.c and       *)
(* formats/wav.c have the same loop) or never does (ops/empty.c), the      *)
(* connection that accounts for the demand (logic.c), flows that map the   *)
(* elements, and a sink whose pulls run on a trampoline (pipeline.c,       *)
(* schedulers/trampoline.c).                                               *)
(*                                                                         *)
(* It is all one thread of callbacks that call each other, so that the     *)
(* call stack is part of the state.  A frame of it is                      *)
(*   "loop"    the loop of worker_schedule,                                *)
(*   "source"  on_pull, with n elements left to emit,                      *)
(*   "sink"    a callback of the sink, which may pull and cancel.          *)
(* With an empty stack it is the user of the pipeline who may, the way the *)
(* session state machines do between two datagrams.                        *)
(***************************************************************************)
EXTENDS Stages, Integers, FiniteSets

CONSTANTS
  NumElements,  \* what the source has to emit
  SourceFails,  \* whether it may fail (a read error)
  LongMax,      \* LONG_MAX; a sink that pulls as many is not accounted for
  Pulls,        \* the amounts that the sink pulls
  MaxPulled     \* bound on their sum

ASSUME PipelineAssumption ==
  /\ NumElements \in Nat /\ MaxPulled \in Nat /\ SourceFails \in BOOLEAN
  /\ LongMax \in Nat \ {0} /\ Pulls \subseteq 1..LongMax

VARIABLES
  empty,      \* the source is rxc_source_empty
  stack,      \* the callbacks that run, the innermost first
  queue,      \* the pulls that wait on the trampoline
  wip,        \* the trampoline is active
  requested,  \* the demand of the connection, or Closed
  parent,     \* FALSE once the sink's inlet has lost its parent
  emitted,    \* what the source has emitted, or tried to
  pulled,     \* the sum of what the sink has pulled: a history
  pushed,     \* what the sink was pushed: a history
  ends,       \* how often the sink was told of the end: a history
  crashed     \* a wild or null pointer was followed

vars == <<stages, empty, stack, queue, wip, requested, parent, emitted, pulled,
          pushed, ends, crashed>>

(* What every action on a pipeline that has been started leaves alone.     *)
shape == <<stages, empty>>

Closed == -LongMax - 1   \* LONG_MIN

Frame(kind, n) == [kind |-> kind, n |-> n]

Init ==
  /\ StagesInit
  /\ empty \in BOOLEAN
  /\ stack = <<>>
  /\ queue = <<>>
  /\ wip = FALSE
  /\ requested = 0
  /\ parent = TRUE
  /\ emitted = 0
  /\ pulled = 0
  /\ pushed = <<>>
  /\ ends = 0
  /\ crashed = FALSE

Running(kind) == ~crashed /\ stack # <<>> /\ stack[1].kind = kind
Return == stack' = Tail(stack)

SinkActs == Started /\ ~crashed /\ (stack = <<>> \/ Running("sink"))

(* rxc_pipeline_start, which the user calls, up to the call of the sink's  *)
(* on_connect.                                                             *)
PipelineStarts ==
  /\ stack = <<>>
  /\ Starts
  /\ stack' = <<Frame("sink", 0)>>
  /\ UNCHANGED <<empty, queue, wip, requested, parent, emitted, pulled, pushed, ends, crashed>>

PipelineGrows ==
  /\ \E flow \in Mappings : Via(flow) \/ FlowTo(flow)
  /\ UNCHANGED <<empty, stack, queue, wip, requested, parent, emitted, pulled, pushed, ends,
                 crashed>>

(* rxc_inlet_pull: a pull is queued; the trampoline is entered unless one  *)
(* of the callbacks below runs on it.                                      *)
(* Mutations: it is entered anyway; the pull is dropped while it is        *)
(* active.                                                                 *)
SinkPullsNested(n) ==
  /\ SinkActs
  /\ parent
  /\ pulled + n <= MaxPulled
  /\ pulled' = pulled + n
  /\ queue' = Append(queue, n)
  /\ wip' = TRUE
  /\ stack' = <<Frame("loop", 0)>> \o stack
  /\ UNCHANGED <<shape, requested, parent, emitted, pushed, ends, crashed>>

SinkPullsIdle(n) ==
  /\ SinkActs
  /\ parent
  /\ pulled + n <= MaxPulled
  /\ pulled' = pulled + n
  /\ queue' = IF wip THEN queue ELSE Append(queue, n)
  /\ wip' = TRUE
  /\ stack' = IF wip THEN stack ELSE <<Frame("loop", 0)>> \o stack
  /\ UNCHANGED <<shape, requested, parent, emitted, pushed, ends, crashed>>

SinkPulls(n) ==
  /\ SinkActs
  /\ parent
  /\ pulled + n <= MaxPulled
  /\ pulled' = pulled + n
  /\ queue' = Append(queue, n)
  /\ wip' = TRUE
  /\ stack' = IF wip THEN stack ELSE <<Frame("loop", 0)>> \o stack
  /\ UNCHANGED <<shape, requested, parent, emitted, pushed, ends, crashed>>

(* rxc_inlet_cancel.  A second one follows a null pointer.                 *)
SinkCancels ==
  /\ SinkActs
  /\ parent
  /\ parent' = FALSE
  /\ requested' = Closed
  /\ UNCHANGED <<shape, stack, queue, wip, emitted, pulled, pushed, ends, crashed>>

SinkCancelsAgain ==
  /\ SinkActs
  /\ ~parent
  /\ crashed' = TRUE
  /\ UNCHANGED <<shape, stack, queue, wip, requested, parent, emitted, pulled, pushed, ends>>

SinkReturns ==
  /\ Running("sink")
  /\ Return
  /\ UNCHANGED <<shape, queue, wip, requested, parent, emitted, pulled, pushed, ends, crashed>>

(* The trampoline runs a pull: a connection that is open adds it to the    *)
(* demand and calls the source.                                            *)
(* The sum is of signed longs: one that is too large has become negative,  *)
(* and is capped.                                                          *)
(* Mutations: it is not; the pull is left in the queue once.               *)
TrampolineWraps ==
  LET n == queue[1]
      sum == IF requested + n > LongMax THEN requested + n + 2 * Closed ELSE requested + n
  IN /\ Running("loop")
     /\ queue # <<>>
     /\ queue' = Tail(queue)
     /\ requested' = IF requested = Closed THEN Closed ELSE sum
     /\ stack' = IF requested = Closed THEN stack ELSE <<Frame("source", n)>> \o stack
     /\ UNCHANGED <<shape, wip, parent, emitted, pulled, pushed, ends, crashed>>

TrampolineRepeats ==
  LET n == queue[1]
  IN /\ Running("loop")
     /\ queue # <<>>
     /\ queue' = IF requested = 0 THEN queue ELSE Tail(queue)
     /\ requested' = IF requested = Closed THEN Closed ELSE requested + n
     /\ stack' = IF requested = Closed THEN stack ELSE <<Frame("source", n)>> \o stack
     /\ UNCHANGED <<shape, wip, parent, emitted, pulled, pushed, ends, crashed>>

TrampolinePulls ==
  LET n == queue[1]
      sum == IF requested + n > LongMax THEN LongMax ELSE requested + n
  IN /\ Running("loop")
     /\ queue # <<>>
     /\ queue' = Tail(queue)
     /\ requested' = IF requested = Closed THEN Closed ELSE sum
     /\ stack' = IF requested = Closed THEN stack ELSE <<Frame("source", n)>> \o stack
     /\ UNCHANGED <<shape, wip, parent, emitted, pulled, pushed, ends, crashed>>

(* It leaves its loop when there is nothing left to run.                   *)
TrampolineStops ==
  /\ Running("loop")
  /\ queue = <<>>
  /\ wip' = FALSE
  /\ Return
  /\ UNCHANGED <<shape, queue, requested, parent, emitted, pulled, pushed, ends, crashed>>

(* One turn of the source's loop: an element is emitted.  It is lost when  *)
(* the connection was closed, which the source does not look at.           *)
Emitting ==
  /\ Running("source")
  /\ ~empty
  /\ stack[1].n > 0
  /\ emitted < NumElements

AfterTurn == <<Frame("source", stack[1].n - 1)>> \o Tail(stack)

(* Mutations: the connection does not look either; the source tries again  *)
(* to emit an element that was not taken.                                  *)
SourceEmitsAnyway ==
  /\ Emitting
  /\ emitted' = emitted + 1
  /\ requested' = IF requested \in {Closed, 0, LongMax} THEN requested ELSE requested - 1
  /\ pushed' = Append(pushed, [n |-> emitted + 1, by |-> MappedBy])
  /\ stack' = <<Frame("sink", 0)>> \o AfterTurn
  /\ UNCHANGED <<shape, queue, wip, parent, pulled, ends, crashed>>

SourceRetries ==
  /\ Emitting
  /\ IF requested > 0
     THEN /\ emitted' = emitted + 1
          /\ requested' = IF requested = LongMax THEN LongMax ELSE requested - 1
          /\ pushed' = Append(pushed, [n |-> emitted + 1, by |-> MappedBy])
          /\ stack' = <<Frame("sink", 0)>> \o AfterTurn
     ELSE UNCHANGED <<emitted, requested, pushed, stack>>
  /\ UNCHANGED <<shape, queue, wip, parent, pulled, ends, crashed>>

SourceEmits ==
  /\ Emitting
  /\ emitted' = emitted + 1
  /\ \/ /\ requested > 0
        /\ requested' = IF requested = LongMax THEN LongMax ELSE requested - 1
        /\ pushed' = Append(pushed, [n |-> emitted + 1, by |-> MappedBy])
        /\ stack' = <<Frame("sink", 0)>> \o AfterTurn
     \/ /\ requested <= 0
        /\ stack' = AfterTurn
        /\ UNCHANGED <<requested, pushed>>
  /\ UNCHANGED <<shape, queue, wip, parent, pulled, ends, crashed>>

(* rxc_outlet_complete and rxc_outlet_fail tell a sink that the stream has *)
(* ended unless its connection is closed.  The source completes when it    *)
(* has nothing left to emit, and may fail at any time before; of a failure *)
(* the sink is told only when there is no map on the way.                  *)
Ends ==
  /\ Running("source")
  /\ ~empty
  /\ stack[1].n > 0
  /\ \/ /\ requested # Closed
        /\ requested' = Closed
        /\ ends' = ends + 1
        /\ stack' = <<Frame("sink", 0)>> \o Tail(stack)
     \/ /\ requested = Closed
        /\ Return
        /\ UNCHANGED <<requested, ends>>
  /\ UNCHANGED <<shape, queue, wip, parent, emitted, pulled, pushed, crashed>>

SourceCompletes == emitted = NumElements /\ Ends

SourceBreaks ==
  /\ SourceFails
  /\ emitted < NumElements
  /\ FailureGoesAstray => requested = Closed
  /\ Ends

SourceBreaksMap ==
  /\ SourceFails
  /\ Emitting
  /\ FailureGoesAstray
  /\ requested # Closed
  /\ requested' = Closed
  /\ crashed' = TRUE
  /\ UNCHANGED <<shape, stack, queue, wip, parent, emitted, pulled, pushed, ends>>

SourceReturns ==
  /\ Running("source")
  /\ stack[1].n = 0 \/ empty
  /\ Return
  /\ UNCHANGED <<shape, queue, wip, requested, parent, emitted, pulled, pushed, ends, crashed>>

Library ==
  \/ TrampolinePulls
  \/ TrampolineStops
  \/ SourceEmits
  \/ SourceCompletes
  \/ SourceReturns

Next ==
  \/ \E n \in Pulls : SinkPulls(n)
  \/ SinkCancels
  \/ SinkCancelsAgain
  \/ SinkReturns
  \/ SourceBreaks
  \/ SourceBreaksMap
  \/ PipelineStarts
  \/ PipelineGrows
  \/ Library

Spec == Init /\ [][Next]_vars

(* The thread runs, and callbacks return.  No read has to fail.            *)
FairSpec == Spec /\ WF_vars(Library) /\ WF_vars(SinkReturns)

----------------------------------------------------------------------------
Frames(kind) == {i \in 1..Len(stack) : stack[i].kind = kind}

(* However the sink pulls from its callbacks, the source is never called   *)
(* while it is being called, and the stack does not grow with the demand   *)
(* (trampoline.c:87-96).                                                   *)
NotReentrant == Cardinality(Frames("loop")) <= 1 /\ Cardinality(Frames("source")) <= 1

(* When the callbacks have returned, a stream that goes on has pushed      *)
(* exactly what was pulled: no pull made in the midst of others is         *)
(* forgotten or served twice.  Only the empty source leaves them waiting   *)
(* (empty.c:9-10).                                                         *)
DemandIsMet == stack = <<>> /\ requested # Closed /\ ~empty => Len(pushed) = pulled

(* No element is lost while the connection is open, though the source      *)
(* emits whether it is or not (count.c:27-37, logic.c:28-33, 73-89).       *)
NothingIsLost == requested # Closed => Len(pushed) = emitted

(* pipeline.h:140-141, 175-176: "concatenating the processing steps of     *)
(* both".  An element passes the flows of the source in the order in which *)
(* they were attached, and those of the sink from the last to the first,   *)
(* however connect and create_logic nest them (wrapper.c:37-44,            *)
(* map.c:34-40, pipeline.c:215-224).                                       *)
MappedInOrder == \A i \in 1..Len(pushed) : pushed[i].by = Reverse(source) \o sink

Demand == INSTANCE OnDemand WITH
  Amounts <- Pulls,
  demanded <- pulled,
  delivered <- [i \in DOMAIN pushed |-> pushed[i].n],
  open <- requested # Closed

(* Back-pressure: through pulls queued in callbacks, demand that is capped *)
(* and a source that emits unasked, the sink gets elements in order and    *)
(* never more than it has pulled (logic.c:73-89, trampoline.c:78-97).      *)
ImplementsOnDemand == Demand!Spec

(* A sink hears nothing more after the end, a failure or its own           *)
(* cancellation, which may come from within a callback (logic.c:78, 96,    *)
(* 109).                                                                   *)
SilentWhenClosed ==
  [][requested = Closed => UNCHANGED <<pushed, ends, requested>>]_vars

(* The thread always gets back to where it may receive the next datagram.  *)
CallbacksReturn == []<>(stack = <<>> \/ crashed)
=============================================================================
