--------------------------- MODULE PipelineProofs ---------------------------
(***************************************************************************)
(* Proofs about Pipeline, for any number of elements, any amounts pulled   *)
(* and any LONG_MAX, however flows are put together.                       *)
(***************************************************************************)
EXTENDS Pipeline, SequenceTheorems, FiniteSetTheorems, TLAPS

FrameSet == [kind : {"loop", "source", "sink"}, n : Nat]

TypeInv ==
  /\ stack \in Seq(FrameSet)
  /\ queue \in Seq(Pulls)
  /\ wip \in BOOLEAN
  /\ requested \in {Closed} \cup 0..LongMax
  /\ emitted \in Nat
  /\ \E Elements : pushed \in Seq(Elements)

(* Who calls whom: the trampoline the source, the source and the           *)
(* connection the sink, and the sink, once, the trampoline.                *)
Calls(s) ==
  \A i \in 1..Len(s) :
    /\ s[i].kind = "source" => i < Len(s) /\ s[i + 1].kind = "loop"
    /\ s[i].kind = "loop" => i + 1 >= Len(s) /\ (i < Len(s) => s[i + 1].kind = "sink")
    /\ s[i].kind = "sink" => i = Len(s) \/ s[i + 1].kind # "sink"

(* The trampoline is on the stack.                                         *)
HasLoop(s) == \E i \in 1..Len(s) : s[i].kind = "loop"

(* What the source has left to emit is covered by the demand, so that it   *)
(* does not emit an element that no one takes.                             *)
DemandInv ==
  requested # Closed =>
    /\ \A i \in 1..Len(stack) : stack[i].kind = "source" => stack[i].n <= requested
    /\ Len(pushed) = emitted
    /\ \A i \in 1..Len(pushed) : pushed[i].n = i

Inv == TypeInv /\ Calls(stack) /\ (wip <=> HasLoop(stack)) /\ DemandInv

----------------------------------------------------------------------------
LEMMA ClosedIsNegative == Closed \in Int /\ Closed < 0 /\ Closed \notin 0..LongMax
BY PipelineAssumption DEF Closed

LEMMA FrameType ==
  ASSUME NEW kind \in {"loop", "source", "sink"}, NEW n \in Nat
  PROVE  Frame(kind, n) \in FrameSet /\ Frame(kind, n).kind = kind /\ Frame(kind, n).n = n
BY DEF Frame, FrameSet

(* Pushing a frame and popping one.                                        *)
LEMMA PushFrame ==
  ASSUME NEW s \in Seq(FrameSet), NEW f \in FrameSet
  PROVE  /\ <<f>> \o s \in Seq(FrameSet)
         /\ Len(<<f>> \o s) = Len(s) + 1
         /\ (<<f>> \o s)[1] = f
         /\ \A i \in 1..Len(s) : (<<f>> \o s)[i + 1] = s[i]
OBVIOUS

LEMMA PopFrame ==
  ASSUME NEW s \in Seq(FrameSet), s # <<>>
  PROVE  /\ Tail(s) \in Seq(FrameSet)
         /\ Len(s) >= 1 /\ Len(Tail(s)) = Len(s) - 1
         /\ \A i \in 1..Len(Tail(s)) : Tail(s)[i] = s[i + 1]
OBVIOUS

LEMMA FramesAreCounted ==
  ASSUME NEW s \in Seq(FrameSet), NEW i \in 1..Len(s) PROVE s[i] \in FrameSet /\ s[i].n \in Nat
<1>1. s[i] \in FrameSet
  OBVIOUS
<1> QED
  BY <1>1 DEF FrameSet

(* The stack has one trampoline at most, and one call of the source.       *)
LEMMA OneOfEach ==
  ASSUME NEW s \in Seq(FrameSet), Calls(s), NEW i \in 1..Len(s), NEW j \in 1..Len(s), i < j
  PROVE  /\ ~(s[i].kind = "loop" /\ s[j].kind = "loop")
         /\ ~(s[i].kind = "source" /\ s[j].kind = "source")
<1>1. ASSUME s[i].kind = "loop", s[j].kind = "loop" PROVE FALSE
  <2>1. j = i + 1
    BY <1>1 DEF Calls
  <2> QED
    BY <1>1, <2>1 DEF Calls
<1>2. ASSUME s[i].kind = "source", s[j].kind = "source" PROVE FALSE
  <2>1. i + 1 \in 1..Len(s) /\ s[i + 1].kind = "loop"
    BY <1>2 DEF Calls
  <2>2. j = i + 2
    BY <1>2, <2>1 DEF Calls
  <2> QED
    BY <1>2, <2>1, <2>2 DEF Calls
<1> QED
  BY <1>1, <1>2

LEMMA InitInv == Init => Inv
<1> SUFFICES ASSUME Init PROVE Inv
  OBVIOUS
<1>1. pushed \in Seq({})
  BY DEF Init
<1>2. TypeInv
  <2>1. \E Elements : pushed \in Seq(Elements)
    BY <1>1
  <2>2. stack \in Seq(FrameSet) /\ queue \in Seq(Pulls)
    BY DEF Init
  <2>3. requested \in {Closed} \cup 0..LongMax /\ emitted \in Nat
    BY PipelineAssumption DEF Init
  <2>4. wip \in BOOLEAN
    BY DEF Init
  <2> QED
    BY <2>1, <2>2, <2>3, <2>4 DEF TypeInv
<1>3. Calls(stack) /\ (wip <=> HasLoop(stack)) /\ DemandInv
  BY DEF Init, Calls, HasLoop, DemandInv
<1> QED
  BY <1>2, <1>3 DEF Inv

----------------------------------------------------------------------------
(* A callback may call another, and return.                                *)
LEMMA CallKeepsShape ==
  ASSUME NEW s \in Seq(FrameSet), Calls(s), NEW f \in FrameSet,
         \/ f.kind = "loop" /\ ~HasLoop(s) /\ (s = <<>> \/ s[1].kind = "sink")
         \/ f.kind = "source" /\ s # <<>> /\ s[1].kind = "loop"
         \/ f.kind = "sink" /\ (s = <<>> \/ s[1].kind # "sink")
  PROVE  /\ Calls(<<f>> \o s)
         /\ HasLoop(<<f>> \o s) <=> f.kind = "loop" \/ HasLoop(s)
<1> DEFINE t == <<f>> \o s
<1>1. /\ Len(t) = Len(s) + 1 /\ Len(s) \in Nat /\ t[1] = f
      /\ \A i \in 1..Len(s) : t[i + 1] = s[i]
  BY PushFrame
<1> HIDE DEF t
<1>2. \A i \in 2..Len(t) : i - 1 \in 1..Len(s) /\ t[i] = s[i - 1]
  <2>1. SUFFICES ASSUME NEW i \in 2..Len(t)
                 PROVE  i - 1 \in 1..Len(s) /\ t[i] = s[i - 1]
    OBVIOUS
  <2>2. i - 1 \in 1..Len(s) /\ (i - 1) + 1 = i
    BY <1>1
  <2> QED
    BY <1>1, <2>2
<1>3. Len(s) > 0 => t[2] = s[1]
  BY <1>1
<1>4. Len(s) = 0 <=> s = <<>>
  OBVIOUS
<1>5. f.kind = "loop" => Len(s) <= 1
  <2>1. SUFFICES ASSUME f.kind = "loop", Len(s) > 1 PROVE FALSE
    BY <1>1
  <2>2. 1 \in 1..Len(s) /\ 2 \in 1..Len(s) /\ s # <<>>
    BY <1>1, <2>1
  <2>3. s[1].kind = "sink" /\ ~HasLoop(s) /\ s[2] \in FrameSet
    BY <1>4, <2>1, <2>2
  <2>4. s[2].kind # "sink" /\ s[2].kind # "loop"
    BY <2>1, <2>2, <2>3 DEF Calls, HasLoop
  <2>5. s[2].kind = "source"
    BY <2>3, <2>4 DEF FrameSet
  <2>6. 3 \in 1..Len(s) /\ s[3].kind = "loop"
    BY <1>1, <2>1, <2>2, <2>5 DEF Calls
  <2> QED
    BY <2>3, <2>6 DEF HasLoop
<1>6. Calls(t)
  <2>1. SUFFICES ASSUME NEW i \in 1..Len(t)
                 PROVE  /\ t[i].kind = "source" => i < Len(t) /\ t[i + 1].kind = "loop"
                        /\ t[i].kind = "loop" =>
                             i + 1 >= Len(t) /\ (i < Len(t) => t[i + 1].kind = "sink")
                        /\ t[i].kind = "sink" => i = Len(t) \/ t[i + 1].kind # "sink"
    BY DEF Calls
  <2>2. CASE i = 1
    BY <1>1, <1>3, <1>4, <1>5, <2>2
  <2>3. CASE i > 1
    <3>1. i - 1 \in 1..Len(s) /\ t[i] = s[i - 1]
      BY <1>1, <1>2, <2>3
    <3>2. i < Len(t) => t[i + 1] = s[(i - 1) + 1]
      BY <1>1
    <3> QED
      BY <1>1, <3>1, <3>2 DEF Calls
  <2> QED
    BY <2>2, <2>3
<1>7. HasLoop(t) <=> f.kind = "loop" \/ HasLoop(s)
  <2>1. ASSUME HasLoop(s) PROVE HasLoop(t)
    <3>1. PICK i \in 1..Len(s) : s[i].kind = "loop"
      BY <2>1 DEF HasLoop
    <3>2. i + 1 \in 1..Len(t) /\ t[i + 1].kind = "loop"
      BY <1>1, <3>1
    <3> QED
      BY <3>2 DEF HasLoop
  <2>2. f.kind = "loop" => HasLoop(t)
    BY <1>1 DEF HasLoop
  <2>3. ASSUME HasLoop(t) PROVE f.kind = "loop" \/ HasLoop(s)
    <3>1. PICK i \in 1..Len(t) : t[i].kind = "loop"
      BY <2>3 DEF HasLoop
    <3>2. CASE i = 1
      BY <1>1, <3>1, <3>2
    <3>3. CASE i \in 2..Len(t)
      BY <1>2, <3>1, <3>3 DEF HasLoop
    <3> QED
      BY <1>1, <3>2, <3>3
  <2> QED
    BY <2>1, <2>2, <2>3
<1> QED
  BY <1>6, <1>7 DEF t

LEMMA ReturnKeepsShape ==
  ASSUME NEW s \in Seq(FrameSet), Calls(s), s # <<>>
  PROVE  /\ Calls(Tail(s))
         /\ \A i \in 1..Len(Tail(s)) : i + 1 \in 1..Len(s) /\ Tail(s)[i] = s[i + 1]
         /\ HasLoop(Tail(s)) <=> HasLoop(s) /\ s[1].kind # "loop"
<1> DEFINE t == Tail(s)
<1>1. /\ t \in Seq(FrameSet) /\ Len(t) = Len(s) - 1 /\ Len(s) >= 1 /\ Len(s) \in Nat
      /\ \A i \in 1..Len(t) : t[i] = s[i + 1]
  BY PopFrame
<1> HIDE DEF t
<1>2. \A i \in 1..Len(t) : i + 1 \in 1..Len(s)
  BY <1>1
<1>3. Calls(t)
  <2>1. SUFFICES ASSUME NEW i \in 1..Len(t)
                 PROVE  /\ t[i].kind = "source" => i < Len(t) /\ t[i + 1].kind = "loop"
                        /\ t[i].kind = "loop" =>
                             i + 1 >= Len(t) /\ (i < Len(t) => t[i + 1].kind = "sink")
                        /\ t[i].kind = "sink" => i = Len(t) \/ t[i + 1].kind # "sink"
    BY DEF Calls
  <2>2. i + 1 \in 1..Len(s) /\ t[i] = s[i + 1]
    BY <1>1, <1>2
  <2>3. i < Len(t) => t[i + 1] = s[(i + 1) + 1]
    BY <1>1
  <2> QED
    BY <1>1, <2>2, <2>3 DEF Calls
<1>4. ASSUME HasLoop(t) PROVE HasLoop(s) /\ s[1].kind # "loop"
  <2>1. PICK i \in 1..Len(t) : t[i].kind = "loop"
    BY <1>4 DEF HasLoop
  <2>2. i + 1 \in 1..Len(s) /\ s[i + 1].kind = "loop" /\ 1 \in 1..Len(s) /\ 1 < i + 1
    BY <1>1, <1>2, <2>1
  <2> QED
    BY <2>2, OneOfEach DEF HasLoop
<1>5. ASSUME HasLoop(s), s[1].kind # "loop" PROVE HasLoop(t)
  <2>1. PICK i \in 1..Len(s) : s[i].kind = "loop"
    BY <1>5 DEF HasLoop
  <2>2. i # 1
    BY <1>5, <2>1
  <2>3. i - 1 \in 1..Len(t) /\ (i - 1) + 1 = i
    BY <1>1, <2>2
  <2>4. t[i - 1].kind = "loop"
    BY <1>1, <2>1, <2>3
  <2> QED
    BY <2>3, <2>4 DEF HasLoop
<1> QED
  BY <1>1, <1>2, <1>3, <1>4, <1>5 DEF t

----------------------------------------------------------------------------
(* One lemma for each step.                                                *)

(* What a step that leaves the source alone has to show.                   *)
LEMMA SameStackInv ==
  ASSUME Inv, UNCHANGED <<stack, wip, emitted, pushed>>, queue' \in Seq(Pulls),
         requested' \in {Closed} \cup 0..LongMax,
         requested' # Closed => requested # Closed /\ requested' >= requested
  PROVE  Inv'
<1>1. TypeInv'
  BY DEF Inv, TypeInv
<1>2. Calls(stack)' /\ (wip <=> HasLoop(stack))'
  BY DEF Inv, Calls, HasLoop
<1>3. DemandInv'
  <2>1. SUFFICES ASSUME requested' # Closed PROVE DemandInv'
    BY DEF DemandInv
  <2>2. requested \in 0..LongMax /\ requested' \in 0..LongMax /\ requested' >= requested
    BY <2>1 DEF Inv, TypeInv
  <2>3. \A i \in 1..Len(stack) : stack[i].n \in Nat
    BY FramesAreCounted DEF Inv, TypeInv
  <2> QED
    BY <2>1, <2>2, <2>3, PipelineAssumption DEF Inv, DemandInv
<1> QED
  BY <1>1, <1>2, <1>3 DEF Inv

LEMMA ShapeOfCall ==
  ASSUME Inv, NEW f \in FrameSet, stack' = <<f>> \o stack,
         \/ f.kind = "loop" /\ ~wip /\ wip' = TRUE /\ (stack = <<>> \/ stack[1].kind = "sink")
         \/ f.kind = "source" /\ wip' = wip /\ stack # <<>> /\ stack[1].kind = "loop"
         \/ f.kind = "sink" /\ wip' = wip /\ stack = <<>>
  PROVE  /\ stack' \in Seq(FrameSet) /\ wip' \in BOOLEAN
         /\ Calls(stack') /\ (wip' <=> HasLoop(stack'))
         /\ stack'[1] = f
         /\ \A i \in 1..Len(stack') :
              i = 1 \/ (i - 1 \in 1..Len(stack) /\ stack'[i] = stack[i - 1])
<1>1. stack \in Seq(FrameSet) /\ Calls(stack) /\ (wip <=> HasLoop(stack)) /\ wip \in BOOLEAN
  BY DEF Inv, TypeInv
<1>2. /\ stack' \in Seq(FrameSet) /\ Len(stack') = Len(stack) + 1 /\ Len(stack) \in Nat
      /\ stack'[1] = f
      /\ \A i \in 1..Len(stack) : stack'[i + 1] = stack[i]
  BY <1>1, PushFrame
<1>3. Calls(stack') /\ (HasLoop(stack') <=> f.kind = "loop" \/ HasLoop(stack))
  BY <1>1, CallKeepsShape
<1>4. wip' \in BOOLEAN /\ (wip' <=> HasLoop(stack'))
  <2>1. CASE f.kind = "loop" /\ wip' = TRUE
    BY <1>3, <2>1
  <2>2. CASE f.kind # "loop" /\ wip' = wip
    BY <1>1, <1>3, <2>2
  <2> QED
    BY <2>1, <2>2
<1>5. ASSUME NEW i \in 1..Len(stack'), i # 1
      PROVE  i - 1 \in 1..Len(stack) /\ stack'[i] = stack[i - 1]
  <2>1. i - 1 \in 1..Len(stack) /\ (i - 1) + 1 = i
    BY <1>2, <1>5
  <2> QED
    BY <1>2, <2>1
<1> QED
  BY <1>2, <1>3, <1>4, <1>5

LEMMA PipelineStartsInv == Inv /\ PipelineStarts => Inv'
<1> SUFFICES ASSUME Inv, PipelineStarts PROVE Inv'
  OBVIOUS
<1> DEFINE f == Frame("sink", 0)
<1>1. f \in FrameSet /\ f.kind = "sink"
  BY FrameType
<1> HIDE DEF f
<1>2. stack = <<>> /\ stack' = <<f>> /\ UNCHANGED <<queue, wip, requested, emitted, pushed>>
  BY DEF PipelineStarts, f
<1>3. stack' = <<f>> \o stack
  BY <1>1, <1>2
<1>4. /\ stack' \in Seq(FrameSet) /\ wip' \in BOOLEAN
      /\ Calls(stack') /\ (wip' <=> HasLoop(stack'))
  BY <1>1, <1>2, <1>3, ShapeOfCall
<1>5. TypeInv'
  BY <1>2, <1>4 DEF Inv, TypeInv
<1>6. DemandInv'
  BY <1>1, <1>2 DEF Inv, DemandInv
<1> QED
  BY <1>4, <1>5, <1>6 DEF Inv

LEMMA SinkPullsInv == ASSUME Inv, NEW n \in Pulls, SinkPulls(n) PROVE Inv'
<1>1. /\ stack = <<>> \/ (stack # <<>> /\ stack[1].kind = "sink")
      /\ queue' = Append(queue, n) /\ wip' = TRUE
      /\ stack' = IF wip THEN stack ELSE <<Frame("loop", 0)>> \o stack
      /\ UNCHANGED <<requested, emitted, pushed>>
  BY DEF SinkPulls, SinkActs, Running
<1>2. queue' \in Seq(Pulls)
  BY <1>1 DEF Inv, TypeInv
<1>3. CASE wip
  <2>1. wip' = wip
    <3>1. wip' = TRUE
      BY DEF SinkPulls
    <3>2. wip \in BOOLEAN
      BY DEF Inv, TypeInv
    <3> QED
      BY <1>3, <3>1, <3>2
  <2> QED
    BY <1>1, <1>2, <1>3, <2>1, SameStackInv DEF Inv, TypeInv
<1>4. CASE ~wip
  <2> DEFINE f == Frame("loop", 0)
  <2>1. f \in FrameSet /\ f.kind = "loop"
    BY FrameType
  <2> HIDE DEF f
  <2>2. stack' = <<f>> \o stack
    BY <1>1, <1>4 DEF f
  <2>3. /\ stack' \in Seq(FrameSet) /\ wip' \in BOOLEAN
        /\ Calls(stack') /\ (wip' <=> HasLoop(stack'))
        /\ stack'[1] = f
        /\ \A i \in 1..Len(stack') :
             i = 1 \/ (i - 1 \in 1..Len(stack) /\ stack'[i] = stack[i - 1])
    BY <1>1, <1>4, <2>1, <2>2, ShapeOfCall
  <2>4. TypeInv'
    BY <1>1, <1>2, <2>3 DEF Inv, TypeInv
  <2>5. DemandInv'
    BY <1>1, <2>1, <2>3 DEF Inv, DemandInv
  <2> QED
    BY <2>3, <2>4, <2>5 DEF Inv
<1> QED
  BY <1>3, <1>4

LEMMA SinkCancelsInv == Inv /\ (SinkCancels \/ SinkCancelsAgain \/ SourceBreaksMap \/ PipelineGrows) => Inv'
<1> SUFFICES ASSUME Inv, SinkCancels \/ SinkCancelsAgain \/ SourceBreaksMap \/ PipelineGrows
             PROVE  Inv'
  OBVIOUS
<1>1. /\ UNCHANGED <<stack, queue, wip, emitted, pushed>>
      /\ requested' = Closed \/ requested' = requested
  BY DEF SinkCancels, SinkCancelsAgain, SourceBreaksMap, PipelineGrows
<1>2. queue' \in Seq(Pulls) /\ requested' \in {Closed} \cup 0..LongMax
  BY <1>1 DEF Inv, TypeInv
<1>3. requested' # Closed => requested # Closed /\ requested' >= requested
  BY <1>1, PipelineAssumption DEF Inv, TypeInv, Closed
<1> QED
  BY <1>1, <1>2, <1>3, SameStackInv

(* A callback returns, having left the demand as it is.                    *)
LEMMA ReturnsInv ==
  ASSUME Inv, stack # <<>>, Return,
         queue' \in Seq(Pulls),
         requested' = requested \/ requested' = Closed, UNCHANGED <<emitted, pushed>>,
         \/ stack[1].kind = "loop" /\ wip' = FALSE
         \/ stack[1].kind # "loop" /\ wip' = wip
  PROVE  Inv'
<1>1. stack \in Seq(FrameSet) /\ Calls(stack) /\ (wip <=> HasLoop(stack)) /\ wip \in BOOLEAN
  BY DEF Inv, TypeInv
<1>2. stack' \in Seq(FrameSet) /\ stack' = Tail(stack)
  BY <1>1, PopFrame DEF Return
<1>3. /\ Calls(stack')
      /\ \A i \in 1..Len(stack') : i + 1 \in 1..Len(stack) /\ stack'[i] = stack[i + 1]
      /\ HasLoop(stack') <=> HasLoop(stack) /\ stack[1].kind # "loop"
  BY <1>1, <1>2, ReturnKeepsShape
<1>4. wip' \in BOOLEAN /\ (wip' <=> HasLoop(stack'))
  <2>1. CASE stack[1].kind = "loop" /\ wip' = FALSE
    BY <1>3, <2>1
  <2>2. CASE stack[1].kind # "loop" /\ wip' = wip
    BY <1>1, <1>3, <2>2
  <2> QED
    BY <2>1, <2>2
<1>5. TypeInv'
  <2>1. requested' \in {Closed} \cup 0..LongMax
    BY DEF Inv, TypeInv
  <2> QED
    BY <1>2, <1>4, <2>1 DEF Inv, TypeInv
<1>6. DemandInv'
  <2>1. CASE requested' = Closed
    BY <2>1 DEF DemandInv, Closed
  <2>2. CASE requested' = requested
    BY <1>3, <2>2 DEF Inv, DemandInv, Closed
  <2> QED
    BY <2>1, <2>2
<1> QED
  BY <1>3, <1>4, <1>5, <1>6 DEF Inv

LEMMA CallbackReturnsInv ==
  Inv /\ (SinkReturns \/ SourceReturns \/ TrampolineStops) => Inv'
<1> SUFFICES ASSUME Inv, SinkReturns \/ SourceReturns \/ TrampolineStops PROVE Inv'
  OBVIOUS
<1>1. /\ stack # <<>> /\ Return
      /\ UNCHANGED <<queue, requested, emitted, pushed>>
      /\ \/ stack[1].kind = "loop" /\ wip' = FALSE
         \/ stack[1].kind # "loop" /\ wip' = wip
  BY DEF SinkReturns, SourceReturns, TrampolineStops, Running
<1>2. queue' \in Seq(Pulls)
  BY <1>1 DEF Inv, TypeInv
<1> QED
  BY <1>1, <1>2, ReturnsInv

LEMMA TrampolinePullsInv == Inv /\ TrampolinePulls => Inv'
<1> SUFFICES ASSUME Inv, TrampolinePulls PROVE Inv'
  OBVIOUS
<1> DEFINE n == queue[1]
           sum == IF requested + n > LongMax THEN LongMax ELSE requested + n
           f == Frame("source", n)
<1>1. /\ stack # <<>> /\ stack[1].kind = "loop" /\ queue # <<>>
      /\ queue' = Tail(queue)
      /\ requested' = IF requested = Closed THEN Closed ELSE sum
      /\ stack' = IF requested = Closed THEN stack ELSE <<f>> \o stack
      /\ UNCHANGED <<wip, emitted, pushed>>
  BY DEF TrampolinePulls, Running
<1>2. n \in 1..LongMax /\ n \in Nat /\ queue' \in Seq(Pulls)
  <2>1. queue \in Seq(Pulls) /\ queue # <<>>
    BY <1>1 DEF Inv, TypeInv
  <2>2. n \in Pulls
    BY <2>1
  <2>3. n \in 1..LongMax /\ n \in Nat
    <3> HIDE DEF n
    <3>1. \A m \in Pulls : m \in 1..LongMax
      BY PipelineAssumption
    <3> QED
      BY <2>2, <3>1, PipelineAssumption
  <2>4. queue' \in Seq(Pulls)
    BY <1>1, <2>1
  <2> QED
    BY <2>3, <2>4
<1>3. f \in FrameSet /\ f.kind = "source" /\ f.n = n
  BY <1>2, FrameType
<1> HIDE DEF f
<1>4. CASE requested = Closed
  <2>1. requested' = Closed /\ UNCHANGED stack
    BY <1>1, <1>4
  <2> QED
    BY <1>1, <1>2, <1>4, <2>1, SameStackInv DEF Closed
<1>5. CASE requested # Closed
  <2>1. /\ requested \in 0..LongMax /\ requested' \in 0..LongMax
        /\ requested' >= requested /\ requested' >= n
    BY <1>1, <1>2, <1>5, PipelineAssumption DEF Inv, TypeInv
  <2>2. stack' = <<f>> \o stack
    BY <1>1, <1>5
  <2>3. /\ stack' \in Seq(FrameSet) /\ wip' \in BOOLEAN
        /\ Calls(stack') /\ (wip' <=> HasLoop(stack'))
        /\ stack'[1] = f
        /\ \A i \in 1..Len(stack') :
             i = 1 \/ (i - 1 \in 1..Len(stack) /\ stack'[i] = stack[i - 1])
    BY <1>1, <1>3, <2>2, ShapeOfCall
  <2>4. TypeInv'
    BY <1>1, <1>2, <2>1, <2>3 DEF Inv, TypeInv
  <2>5. \A i \in 1..Len(stack') : stack'[i].kind = "source" => stack'[i].n <= requested'
    <3>1. SUFFICES ASSUME NEW i \in 1..Len(stack'), stack'[i].kind = "source"
                   PROVE  stack'[i].n <= requested'
      OBVIOUS
    <3>2. CASE i = 1
      BY <1>3, <2>1, <2>3, <3>2
    <3>3. CASE i # 1
      <4>1. /\ i - 1 \in 1..Len(stack) /\ stack'[i] = stack[i - 1]
            /\ stack[i - 1].n <= requested
        BY <1>5, <2>3, <3>1, <3>3 DEF Inv, DemandInv
      <4>2. stack[i - 1].n \in Nat
        BY <4>1, FramesAreCounted DEF Inv, TypeInv
      <4> QED
        BY <2>1, <4>1, <4>2
    <3> QED
      BY <3>2, <3>3
  <2>6. DemandInv'
    BY <1>1, <1>5, <2>5 DEF Inv, DemandInv, Closed
  <2> QED
    BY <2>3, <2>4, <2>6 DEF Inv
<1> QED
  BY <1>4, <1>5

----------------------------------------------------------------------------
(* The source's own steps.                                                 *)

(* It has one element fewer to emit.                                       *)
LEMMA AfterTurnShape ==
  ASSUME Inv, Emitting
  PROVE  /\ AfterTurn \in Seq(FrameSet) /\ AfterTurn # <<>>
         /\ AfterTurn[1].kind = "source" /\ AfterTurn[1].n = stack[1].n - 1
         /\ Len(AfterTurn) = Len(stack)
         /\ \A i \in 1..Len(stack) :
              /\ AfterTurn[i].kind = stack[i].kind
              /\ i # 1 => AfterTurn[i] = stack[i]
         /\ Calls(AfterTurn) /\ (HasLoop(AfterTurn) <=> HasLoop(stack))
<1> DEFINE f == Frame("source", stack[1].n - 1)
           t == Tail(stack)
<1>1. stack \in Seq(FrameSet) /\ stack # <<>> /\ stack[1].kind = "source" /\ stack[1].n > 0
  BY DEF Inv, TypeInv, Emitting, Running
<1>2. stack[1] \in FrameSet
  BY <1>1
<1>3. stack[1].n - 1 \in Nat
  BY <1>1, <1>2 DEF FrameSet
<1>4. f \in FrameSet /\ f.kind = "source" /\ f.n = stack[1].n - 1
  BY <1>3, FrameType
<1>5. /\ t \in Seq(FrameSet) /\ Len(stack) >= 1 /\ Len(t) = Len(stack) - 1
      /\ \A i \in 1..Len(t) : t[i] = stack[i + 1]
  BY <1>1, PopFrame
<1> HIDE DEF f, t
<1>6. /\ <<f>> \o t \in Seq(FrameSet) /\ Len(<<f>> \o t) = Len(t) + 1
      /\ (<<f>> \o t)[1] = f /\ \A i \in 1..Len(t) : (<<f>> \o t)[i + 1] = t[i]
  BY <1>4, <1>5, PushFrame
<1>7. AfterTurn = <<f>> \o t
  BY DEF AfterTurn, f, t
<1> DEFINE a == AfterTurn
<1>8. /\ a \in Seq(FrameSet) /\ Len(a) = Len(stack) /\ a[1] = f /\ Len(stack) \in Nat
      /\ \A i \in 1..Len(t) : a[i + 1] = stack[i + 1]
  BY <1>1, <1>5, <1>6, <1>7
<1> HIDE DEF a
<1>9. \A i \in 1..Len(stack) : i # 1 => a[i] = stack[i]
  <2>1. SUFFICES ASSUME NEW i \in 1..Len(stack), i # 1 PROVE a[i] = stack[i]
    OBVIOUS
  <2>2. i - 1 \in 1..Len(t) /\ (i - 1) + 1 = i
    BY <1>5, <1>8, <2>1
  <2> QED
    BY <1>8, <2>2
<1>10. \A i \in 1..Len(stack) : a[i].kind = stack[i].kind
  BY <1>1, <1>4, <1>8, <1>9
<1>11. Calls(a) /\ (HasLoop(a) <=> HasLoop(stack))
  <2>1. Calls(stack)
    BY DEF Inv
  <2>2. Calls(a)
    BY <1>8, <1>10, <2>1 DEF Calls
  <2>3. HasLoop(a) <=> HasLoop(stack)
    BY <1>8, <1>10 DEF HasLoop
  <2> QED
    BY <2>2, <2>3
<1>12. a # <<>>
  BY <1>5, <1>8
<1> QED
  BY <1>4, <1>8, <1>9, <1>10, <1>11, <1>12 DEF a

(* The sink is called, on top of what is left of the stack.                *)
LEMMA CallsSinkInv ==
  ASSUME Inv, NEW s \in Seq(FrameSet), Calls(s), HasLoop(s) <=> HasLoop(stack),
         s = <<>> \/ s[1].kind # "sink",
         stack' = <<Frame("sink", 0)>> \o s,
         UNCHANGED <<queue, wip>>
  PROVE  /\ stack' \in Seq(FrameSet) /\ Calls(stack') /\ (wip' <=> HasLoop(stack'))
         /\ \A i \in 1..Len(stack') :
              stack'[i].kind = "source" => i - 1 \in 1..Len(s) /\ stack'[i] = s[i - 1]
<1> DEFINE f == Frame("sink", 0)
<1>1. f \in FrameSet /\ f.kind = "sink" /\ stack' = <<f>> \o s
  BY FrameType
<1> HIDE DEF f
<1>2. /\ stack' \in Seq(FrameSet) /\ Len(stack') = Len(s) + 1 /\ Len(s) \in Nat
      /\ stack'[1] = f
      /\ \A i \in 1..Len(s) : stack'[i + 1] = s[i]
  BY <1>1, PushFrame
<1>3. Calls(stack') /\ (HasLoop(stack') <=> HasLoop(s))
  BY <1>1, CallKeepsShape
<1>4. wip' <=> HasLoop(stack')
  BY <1>3 DEF Inv
<1>5. ASSUME NEW i \in 1..Len(stack'), stack'[i].kind = "source"
      PROVE  i - 1 \in 1..Len(s) /\ stack'[i] = s[i - 1]
  <2>1. i # 1
    BY <1>1, <1>2, <1>5
  <2>2. i - 1 \in 1..Len(s) /\ (i - 1) + 1 = i
    BY <1>2, <2>1
  <2> QED
    BY <1>2, <2>2
<1> QED
  BY <1>2, <1>3, <1>4, <1>5

LEMMA SourceEmitsInv == Inv /\ SourceEmits => Inv'
<1> SUFFICES ASSUME Inv, SourceEmits PROVE Inv'
  OBVIOUS
<1> DEFINE n == stack[1].n
           e == [n |-> emitted + 1, by |-> MappedBy]
<1>1. Emitting /\ stack # <<>> /\ stack[1].kind = "source" /\ n > 0
  BY DEF SourceEmits, Emitting, Running
<1>2. /\ emitted' = emitted + 1
      /\ UNCHANGED <<queue, wip>>
      /\ emitted' \in Nat /\ queue' \in Seq(Pulls) /\ wip' \in BOOLEAN
  BY DEF SourceEmits, Inv, TypeInv
<1>3. stack \in Seq(FrameSet) /\ 1 \in 1..Len(stack) /\ n \in Nat
  BY <1>1, FramesAreCounted DEF Inv, TypeInv
<1>4. \A i \in 1..Len(stack) : stack[i].kind = "source" => i = 1
  <2>1. SUFFICES ASSUME NEW i \in 1..Len(stack), stack[i].kind = "source" PROVE i = 1
    OBVIOUS
  <2>2. i > 1 => FALSE
    BY <1>1, <1>3, <2>1, OneOfEach DEF Inv
  <2> QED
    BY <1>3, <2>1, <2>2
<1> DEFINE a == AfterTurn
<1>5. /\ a \in Seq(FrameSet) /\ a # <<>> /\ a[1].kind = "source" /\ a[1].n = n - 1
      /\ Len(a) = Len(stack) /\ \A i \in 1..Len(a) : a[i].kind = stack[i].kind
      /\ Calls(a) /\ (HasLoop(a) <=> HasLoop(stack))
  BY <1>1, AfterTurnShape
<1>6. CASE requested > 0 /\ stack' = <<Frame("sink", 0)>> \o a
           /\ requested' = (IF requested = LongMax THEN LongMax ELSE requested - 1)
           /\ pushed' = Append(pushed, e)
  <2> HIDE DEF a
  <2>1. requested \in 1..LongMax /\ requested # Closed
    BY <1>6, PipelineAssumption DEF Inv, TypeInv, Closed
  <2>2. requested' \in 0..LongMax /\ (n <= requested => n - 1 <= requested')
    BY <1>3, <1>6, <2>1, PipelineAssumption
  <2>3. n <= requested /\ Len(pushed) = emitted /\ \A i \in 1..Len(pushed) : pushed[i].n = i
    BY <1>1, <1>3, <2>1 DEF Inv, DemandInv
  <2>4. /\ stack' \in Seq(FrameSet) /\ Calls(stack') /\ (wip' <=> HasLoop(stack'))
        /\ \A i \in 1..Len(stack') :
             stack'[i].kind = "source" => i - 1 \in 1..Len(a) /\ stack'[i] = a[i - 1]
    BY <1>2, <1>5, <1>6, CallsSinkInv
  <2>5. PICK Elements : pushed \in Seq(Elements)
    BY DEF Inv, TypeInv
  <2>6. pushed \in Seq(Elements \cup {e})
    BY <2>5
  <2>7. /\ pushed' \in Seq(Elements \cup {e}) /\ Len(pushed') = Len(pushed) + 1
        /\ \A i \in 1..Len(pushed) : pushed'[i] = pushed[i]
        /\ pushed'[Len(pushed) + 1] = e /\ Len(pushed) \in Nat
    BY <1>6, <2>6
  <2>8. TypeInv'
    <3>1. \E S : pushed' \in Seq(S)
      BY <2>7
    <3> QED
      BY <1>2, <2>2, <2>4, <3>1 DEF TypeInv
  <2>9. \A i \in 1..Len(pushed') : pushed'[i].n = i
    <3>1. e.n = Len(pushed) + 1
      BY <2>3
    <3> HIDE DEF e
    <3> QED
      BY <2>3, <2>7, <3>1
  <2>10. \A i \in 1..Len(stack') : stack'[i].kind = "source" => stack'[i].n <= requested'
    <3>1. SUFFICES ASSUME NEW i \in 1..Len(stack'), stack'[i].kind = "source"
                   PROVE  stack'[i].n <= requested'
      OBVIOUS
    <3>2. i - 1 \in 1..Len(a) /\ stack'[i] = a[i - 1] /\ i - 1 = 1
      BY <1>4, <1>5, <2>4, <3>1
    <3> QED
      BY <1>5, <2>2, <2>3, <3>2
  <2>11. DemandInv'
    BY <1>2, <2>3, <2>7, <2>9, <2>10 DEF DemandInv
  <2> QED
    BY <2>4, <2>8, <2>11 DEF Inv
<1>7. CASE requested <= 0 /\ stack' = a /\ UNCHANGED <<requested, pushed>>
  <2> HIDE DEF a
  <2>1. requested = Closed
    <3>1. SUFFICES ASSUME requested # Closed PROVE FALSE
      OBVIOUS
    <3>2. n <= requested /\ requested \in 0..LongMax
      BY <1>1, <1>3, <3>1 DEF Inv, TypeInv, DemandInv
    <3> QED
      BY <1>1, <1>3, <1>7, <3>2
  <2>2. TypeInv'
    BY <1>2, <1>5, <1>7 DEF Inv, TypeInv
  <2>3. Calls(stack') /\ (wip' <=> HasLoop(stack'))
    BY <1>2, <1>5, <1>7 DEF Inv
  <2>4. DemandInv'
    BY <1>7, <2>1 DEF DemandInv, Closed
  <2> QED
    BY <2>2, <2>3, <2>4 DEF Inv
<1> QED
  BY <1>6, <1>7 DEF SourceEmits

LEMMA EndsInv == Inv /\ Ends => Inv'
<1> SUFFICES ASSUME Inv, Ends PROVE Inv'
  OBVIOUS
<1>1. stack # <<>> /\ stack[1].kind = "source" /\ UNCHANGED <<queue, wip, emitted, pushed>>
  BY DEF Ends, Running
<1>2. CASE requested' = Closed /\ stack' = <<Frame("sink", 0)>> \o Tail(stack)
  <2> DEFINE s == Tail(stack)
  <2>1. stack \in Seq(FrameSet) /\ Calls(stack)
    BY DEF Inv, TypeInv
  <2>2. /\ s \in Seq(FrameSet) /\ Len(stack) >= 1 /\ Len(s) = Len(stack) - 1
        /\ \A i \in 1..Len(s) : s[i] = stack[i + 1]
    BY <1>1, <2>1, PopFrame
  <2>3. Calls(s) /\ (HasLoop(s) <=> HasLoop(stack))
    BY <1>1, <2>1, ReturnKeepsShape
  <2> HIDE DEF s
  <2>4. s[1].kind # "sink"
    <3>1. 1 < Len(stack) /\ stack[2].kind = "loop"
      BY <1>1, <2>1, <2>2 DEF Calls
    <3>2. 1 \in 1..Len(s)
      BY <2>2, <3>1
    <3> QED
      BY <2>2, <3>1, <3>2
  <2>5. /\ stack' \in Seq(FrameSet) /\ Calls(stack') /\ (wip' <=> HasLoop(stack'))
    <3>1. stack' = <<Frame("sink", 0)>> \o s
      BY <1>2 DEF s
    <3> QED
      BY <1>1, <2>2, <2>3, <2>4, <3>1, CallsSinkInv
  <2>6. TypeInv'
    BY <1>1, <1>2, <2>5 DEF Inv, TypeInv, Closed
  <2>7. DemandInv'
    BY <1>2 DEF DemandInv, Closed
  <2> QED
    BY <2>5, <2>6, <2>7 DEF Inv
<1>3. CASE Return /\ UNCHANGED requested
  <2>1. queue' \in Seq(Pulls)
    BY <1>1 DEF Inv, TypeInv
  <2> QED
    BY <1>1, <1>3, <2>1, ReturnsInv
<1> QED
  BY <1>2, <1>3 DEF Ends

LEMMA NextInv == Inv /\ [Next]_vars => Inv'
<1> SUFFICES ASSUME Inv, [Next]_vars PROVE Inv'
  OBVIOUS
<1>1. CASE UNCHANGED vars
  BY <1>1 DEF vars, Inv, TypeInv, Calls, HasLoop, DemandInv, Closed
<1>2. CASE \E n \in Pulls : SinkPulls(n)
  BY <1>2, SinkPullsInv
<1>3. CASE SinkCancels \/ SinkCancelsAgain \/ SourceBreaksMap \/ PipelineGrows
  BY <1>3, SinkCancelsInv
<1>4. CASE SinkReturns \/ SourceReturns \/ TrampolineStops
  BY <1>4, CallbackReturnsInv
<1>5. CASE SourceBreaks \/ SourceCompletes
  BY <1>5, EndsInv DEF SourceBreaks, SourceCompletes
<1>6. CASE PipelineStarts
  BY <1>6, PipelineStartsInv
<1>7. CASE TrampolinePulls
  BY <1>7, TrampolinePullsInv
<1>8. CASE SourceEmits
  BY <1>8, SourceEmitsInv
<1> QED
  BY <1>1, <1>2, <1>3, <1>4, <1>5, <1>6, <1>7, <1>8 DEF Next, Library

LEMMA Invariance == Spec => []Inv
<1>1. Init => Inv
  BY InitInv
<1>2. Inv /\ [Next]_vars => Inv'
  BY NextInv
<1> QED
  BY <1>1, <1>2, PTL DEF Spec

----------------------------------------------------------------------------
(* The trampoline and the source are on the stack once at most, however    *)
(* the sink pulls (trampoline.c:87-96).                                    *)
LEMMA InvNotReentrant == Inv => NotReentrant
<1> SUFFICES ASSUME Inv PROVE NotReentrant
  OBVIOUS
<1>1. stack \in Seq(FrameSet) /\ Calls(stack) /\ Len(stack) \in Nat
  BY DEF Inv, TypeInv
<1>2. ASSUME NEW S \in {Frames("loop"), Frames("source")} PROVE Cardinality(S) <= 1
  <2>1. \A i, j \in S : i = j
    <3>1. SUFFICES ASSUME NEW i \in S, NEW j \in S, i # j PROVE FALSE
      OBVIOUS
    <3>2. i \in 1..Len(stack) /\ j \in 1..Len(stack) /\ stack[i].kind = stack[j].kind
          /\ (stack[i].kind = "loop" \/ stack[i].kind = "source")
      BY <1>2, <3>1 DEF Frames
    <3>3. i < j \/ j < i
      BY <1>1, <3>1, <3>2
    <3> QED
      BY <1>1, <3>2, <3>3, OneOfEach
  <2>2. CASE S = {}
    BY <2>2, FS_EmptySet
  <2>3. CASE S # {}
    <3>1. PICK i \in S : S = {i}
      BY <2>1, <2>3
    <3>2. Cardinality({i}) = 1
      BY FS_Singleton
    <3> QED
      BY <3>1, <3>2
  <2> QED
    BY <2>2, <2>3
<1> QED
  BY <1>2 DEF NotReentrant

THEOREM NeverReentrant == Spec => []NotReentrant
BY Invariance, InvNotReentrant, PTL

(* The source emits nothing that no one takes while the connection is open *)
(* (count.c:27-37, logic.c:28-33, 73-89).                                  *)
THEOREM NothingIsEverLost == Spec => []NothingIsLost
<1>1. Inv => NothingIsLost
  BY DEF Inv, DemandInv, NothingIsLost
<1> QED
  BY <1>1, Invariance, PTL

(* Until the connection is closed, the sink is pushed all elements in      *)
(* their order, with none left out (logic.c:73-89).                        *)
ElementsInOrder == requested # Closed => \A i \in 1..Len(pushed) : pushed[i].n = i

THEOREM PushedInOrder == Spec => []ElementsInOrder
<1>1. Inv => ElementsInOrder
  BY DEF Inv, DemandInv, ElementsInOrder
<1> QED
  BY <1>1, Invariance, PTL

(* Once closed, a connection stays so, and the sink is not called with an  *)
(* element or an end (logic.c:78, 96, 109).                                *)
THEOREM ClosedIsSilent == Spec => SilentWhenClosed
<1>1. Inv /\ [Next]_vars =>
        [requested = Closed => UNCHANGED <<pushed, ends, requested>>]_vars
  <2> SUFFICES ASSUME Inv, Next, requested = Closed
               PROVE  UNCHANGED <<pushed, ends, requested>>
    OBVIOUS
  <2>1. ~(requested > 0)
    BY ClosedIsNegative DEF Closed
  <2>2. CASE \E n \in Pulls : SinkPulls(n)
    BY <2>2 DEF SinkPulls
  <2>3. CASE SinkCancels \/ SinkCancelsAgain \/ SourceBreaksMap \/ PipelineGrows
    BY <2>3 DEF SinkCancels, SinkCancelsAgain, SourceBreaksMap, PipelineGrows
  <2>4. CASE SinkReturns \/ SourceReturns \/ TrampolineStops \/ PipelineStarts
    BY <2>4 DEF SinkReturns, SourceReturns, TrampolineStops, PipelineStarts
  <2>5. CASE SourceBreaks \/ SourceCompletes
    BY <2>5 DEF SourceBreaks, SourceCompletes, Ends
  <2>6. CASE TrampolinePulls
    BY <2>6 DEF TrampolinePulls
  <2>7. CASE SourceEmits
    BY <2>1, <2>7 DEF SourceEmits
  <2> QED
    BY <2>2, <2>3, <2>4, <2>5, <2>6, <2>7 DEF Next, Library
<1> QED
  BY <1>1, Invariance, PTL DEF Spec, SilentWhenClosed

----------------------------------------------------------------------------
(* Where the demand is: what the sink has pulled is what it was pushed,    *)
(* what the source has left to emit, and the pulls that still wait on the  *)
(* trampoline.  The sum over the queue is given by its partial sums.       *)

LeftIs(s, left) ==
  /\ \A i \in 1..Len(s) : s[i].kind = "source" => s[i].n = left
  /\ (\A i \in 1..Len(s) : s[i].kind # "source") => left = 0

SumsFrom(q, sums, first, last) ==
  /\ sums[0] = first
  /\ \A i \in 1..Len(q) : sums[i] = sums[i - 1] + q[i]
  /\ sums[Len(q)] = last
  /\ \A i \in 0..Len(q) : sums[i] <= last

Accounted(s, q, done, asked) ==
  \E left \in Nat, sums \in [0..Len(q) -> Nat] :
    LeftIs(s, left) /\ SumsFrom(q, sums, done + left, asked)

AccountInv ==
  /\ pulled \in Nat
  /\ ~wip => queue = <<>>
  /\ requested # Closed /\ ~empty => Accounted(stack, queue, Len(pushed), pulled)

LEMMA InitAccount == Init => AccountInv
<1> SUFFICES ASSUME Init PROVE AccountInv
  OBVIOUS
<1>1. LeftIs(stack, 0)
  BY DEF Init, LeftIs
<1> DEFINE sums == [i \in 0..0 |-> 0]
<1>2. sums \in [0..Len(queue) -> Nat] /\ SumsFrom(queue, sums, Len(pushed) + 0, pulled)
  BY DEF Init, SumsFrom
<1> HIDE DEF sums
<1>3. Accounted(stack, queue, Len(pushed), pulled)
  BY <1>1, <1>2 DEF Accounted
<1> QED
  BY <1>3 DEF Init, AccountInv

(* A pull is put at the end of the queue,                                  *)
LEMMA PullAccounted ==
  ASSUME NEW q \in Seq(Pulls), NEW n \in Pulls, NEW done \in Nat, NEW asked \in Nat,
         NEW s, NEW t, Accounted(s, q, done, asked),
         \A left : LeftIs(s, left) => LeftIs(t, left)
  PROVE  Accounted(t, Append(q, n), done, asked + n)
<1>1. PICK left \in Nat, sums \in [0..Len(q) -> Nat] :
        LeftIs(s, left) /\ SumsFrom(q, sums, done + left, asked)
  BY DEF Accounted
<1> DEFINE r == Append(q, n)
           more == [i \in 0..Len(r) |-> IF i = Len(r) THEN asked + n ELSE sums[i]]
<1>2. n \in Nat
  BY PipelineAssumption
<1>3. /\ Len(r) = Len(q) + 1 /\ Len(q) \in Nat /\ r[Len(r)] = n
      /\ \A i \in 1..Len(q) : r[i] = q[i]
  OBVIOUS
<1> HIDE DEF r
<1>4. more \in [0..Len(r) -> Nat] /\ more[Len(r)] = asked + n
      /\ \A i \in 0..Len(q) : more[i] = sums[i]
  BY <1>2, <1>3
<1> HIDE DEF more
<1>5. SumsFrom(r, more, done + left, asked + n)
  <2>1. more[0] = done + left
    BY <1>1, <1>3, <1>4 DEF SumsFrom
  <2>2. ASSUME NEW i \in 1..Len(r) PROVE more[i] = more[i - 1] + r[i]
    <3>1. CASE i = Len(r)
      BY <1>1, <1>3, <1>4, <3>1 DEF SumsFrom
    <3>2. CASE i \in 1..Len(q)
      BY <1>1, <1>3, <1>4, <3>2 DEF SumsFrom
    <3> QED
      BY <1>3, <3>1, <3>2
  <2>3. ASSUME NEW i \in 0..Len(r) PROVE more[i] <= asked + n
    <3>1. CASE i = Len(r)
      BY <1>2, <1>4, <3>1
    <3>2. CASE i \in 0..Len(q)
      <4>1. sums[i] \in Nat /\ sums[i] <= asked /\ more[i] = sums[i]
        BY <1>1, <1>4, <3>2 DEF SumsFrom
      <4> HIDE DEF more
      <4> QED
        BY <1>2, <4>1
    <3> QED
      BY <1>3, <3>1, <3>2
  <2> QED
    BY <1>4, <2>1, <2>2, <2>3 DEF SumsFrom
<1>6. LeftIs(t, left)
  BY <1>1
<1> QED
  BY <1>4, <1>5, <1>6 DEF Accounted, r

(* ... and taken from its head, for the source to emit.                    *)
LEMMA TakeAccounted ==
  ASSUME NEW q \in Seq(Pulls), q # <<>>, NEW done \in Nat, NEW asked \in Nat,
         NEW s, NEW t, Accounted(s, q, done, asked), LeftIs(s, 0) ,
         \A left : LeftIs(s, left) => left = 0,
         LeftIs(t, q[1])
  PROVE  Accounted(t, Tail(q), done, asked)
<1>1. PICK sums \in [0..Len(q) -> Nat] : SumsFrom(q, sums, done, asked)
  <2>1. PICK left \in Nat, sums \in [0..Len(q) -> Nat] :
          LeftIs(s, left) /\ SumsFrom(q, sums, done + left, asked)
    BY DEF Accounted
  <2>2. left = 0 /\ done + left = done
    BY <2>1
  <2> QED
    BY <2>1, <2>2
<1> DEFINE r == Tail(q)
           less == [i \in 0..Len(r) |-> sums[i + 1]]
<1>2. /\ Len(q) \in Nat /\ Len(q) >= 1 /\ Len(r) = Len(q) - 1
      /\ \A i \in 1..Len(r) : r[i] = q[i + 1]
      /\ q[1] \in Pulls
  OBVIOUS
<1> HIDE DEF r
<1>3. q[1] \in Nat
  <2>1. \A n \in Pulls : n \in Nat
    BY PipelineAssumption
  <2> QED
    BY <1>2, <2>1
<1>4. less \in [0..Len(r) -> Nat] /\ \A i \in 0..Len(r) : less[i] = sums[i + 1]
  BY <1>2
<1> HIDE DEF less
<1>5. SumsFrom(r, less, done + q[1], asked)
  <2>1. less[0] = done + q[1]
    BY <1>1, <1>2, <1>4 DEF SumsFrom
  <2>2. ASSUME NEW i \in 1..Len(r) PROVE less[i] = less[i - 1] + r[i]
    BY <1>1, <1>2, <1>4 DEF SumsFrom
  <2>3. less[Len(r)] = asked
    BY <1>1, <1>2, <1>4 DEF SumsFrom
  <2>4. \A i \in 0..Len(r) : less[i] <= asked
    BY <1>1, <1>2, <1>4 DEF SumsFrom
  <2> QED
    BY <2>1, <2>2, <2>3, <2>4 DEF SumsFrom
<1> QED
  BY <1>3, <1>4, <1>5 DEF Accounted, r

(* Callbacks other than the source's come and go without changing what it  *)
(* has left to emit.                                                       *)
LEMMA CallKeepsLeft ==
  ASSUME NEW s \in Seq(FrameSet), NEW f \in FrameSet, f.kind # "source",
         NEW left, LeftIs(s, left)
  PROVE  LeftIs(<<f>> \o s, left)
<1> DEFINE t == <<f>> \o s
<1>1. /\ Len(t) = Len(s) + 1 /\ Len(s) \in Nat /\ t[1] = f
      /\ \A i \in 1..Len(s) : t[i + 1] = s[i]
  BY PushFrame
<1> HIDE DEF t
<1>2. ASSUME NEW i \in 1..Len(t), t[i].kind = "source" PROVE t[i].n = left
  <2>1. i # 1 /\ i - 1 \in 1..Len(s) /\ (i - 1) + 1 = i
    BY <1>1, <1>2
  <2> QED
    BY <1>1, <1>2, <2>1 DEF LeftIs
<1>3. ASSUME \A i \in 1..Len(t) : t[i].kind # "source" PROVE left = 0
  <2>1. ASSUME NEW i \in 1..Len(s) PROVE s[i].kind # "source"
    <3>1. i + 1 \in 1..Len(t) /\ t[i + 1] = s[i]
      BY <1>1
    <3> QED
      BY <1>3, <3>1
  <2> QED
    BY <2>1 DEF LeftIs
<1> QED
  BY <1>2, <1>3 DEF LeftIs, t

LEMMA ReturnKeepsLeft ==
  ASSUME NEW s \in Seq(FrameSet), Calls(s), s # <<>>, NEW left, LeftIs(s, left),
         s[1].kind # "source" \/ s[1].n = 0
  PROVE  LeftIs(Tail(s), left)
<1> DEFINE t == Tail(s)
<1>1. /\ Len(t) = Len(s) - 1 /\ Len(s) >= 1 /\ Len(s) \in Nat
      /\ \A i \in 1..Len(t) : t[i] = s[i + 1]
  BY PopFrame
<1> HIDE DEF t
<1>2. ASSUME NEW i \in 1..Len(t), t[i].kind = "source" PROVE t[i].n = left
  <2>1. i + 1 \in 1..Len(s) /\ t[i] = s[i + 1]
    BY <1>1
  <2> QED
    BY <1>2, <2>1 DEF LeftIs
<1>3. ASSUME \A i \in 1..Len(t) : t[i].kind # "source" PROVE left = 0
  <2>1. ASSUME NEW i \in 2..Len(s) PROVE s[i].kind # "source"
    <3>1. i - 1 \in 1..Len(t) /\ (i - 1) + 1 = i
      BY <1>1
    <3> QED
      BY <1>1, <1>3, <3>1
  <2>2. 1 \in 1..Len(s)
    BY <1>1
  <2>3. CASE s[1].kind = "source"
    BY <2>2, <2>3 DEF LeftIs
  <2>4. CASE s[1].kind # "source"
    <3>1. \A i \in 1..Len(s) : s[i].kind # "source"
      BY <1>1, <2>1, <2>4
    <3> QED
      BY <3>1 DEF LeftIs
  <2> QED
    BY <2>3, <2>4
<1> QED
  BY <1>2, <1>3 DEF LeftIs, t

(* What a step that leaves the demand alone has to show.                   *)
LEMMA SameAccount ==
  ASSUME AccountInv, UNCHANGED <<queue, pulled, pushed, empty>>,
         wip' = wip \/ queue = <<>>,
         requested' = requested \/ requested' = Closed,
         requested' # Closed /\ ~empty =>
           \A left \in Nat : LeftIs(stack, left) => LeftIs(stack', left)
  PROVE  AccountInv'
<1>1. pulled' \in Nat /\ (~wip' => queue' = <<>>)
  BY DEF AccountInv
<1>2. ASSUME requested' # Closed, ~empty'
      PROVE  Accounted(stack', queue', Len(pushed'), pulled')
  <2>1. requested # Closed /\ ~empty
    BY <1>2 DEF Closed
  <2>2. PICK left \in Nat, sums \in [0..Len(queue) -> Nat] :
          LeftIs(stack, left) /\ SumsFrom(queue, sums, Len(pushed) + left, pulled)
    BY <2>1 DEF AccountInv, Accounted
  <2>3. LeftIs(stack', left)
    BY <1>2, <2>1, <2>2
  <2> QED
    BY <2>2, <2>3 DEF Accounted
<1> QED
  BY <1>1, <1>2 DEF AccountInv, Closed

LEMMA SinkPullsAccount == ASSUME Inv, AccountInv, NEW n \in Pulls, SinkPulls(n) PROVE AccountInv'
<1>1. /\ pulled' = pulled + n /\ queue' = Append(queue, n) /\ wip' = TRUE
      /\ stack' = IF wip THEN stack ELSE <<Frame("loop", 0)>> \o stack
      /\ UNCHANGED <<requested, pushed, empty>>
  BY DEF SinkPulls, shape
<1>2. n \in Nat /\ pulled \in Nat
  BY PipelineAssumption DEF AccountInv
<1>3. ASSUME NEW left, LeftIs(stack, left) PROVE LeftIs(stack', left)
  <2>1. Frame("loop", 0) \in FrameSet /\ Frame("loop", 0).kind = "loop"
    BY FrameType
  <2>2. stack \in Seq(FrameSet)
    BY DEF Inv, TypeInv
  <2>3. LeftIs(<<Frame("loop", 0)>> \o stack, left)
    BY <1>3, <2>1, <2>2, CallKeepsLeft
  <2> QED
    BY <1>1, <1>3, <2>3
<1>4. ASSUME requested' # Closed, ~empty'
      PROVE  Accounted(stack', queue', Len(pushed'), pulled')
  <2>1. Accounted(stack, queue, Len(pushed), pulled)
    BY <1>1, <1>4 DEF AccountInv, Closed
  <2>2. queue \in Seq(Pulls) /\ Len(pushed) \in Nat
    BY DEF Inv, TypeInv
  <2>3. Accounted(stack', Append(queue, n), Len(pushed), pulled + n)
    BY <1>2, <1>3, <2>1, <2>2, PullAccounted
  <2> QED
    BY <1>1, <2>3
<1> QED
  BY <1>1, <1>2, <1>4 DEF AccountInv, Closed

LEMMA TrampolinePullsAccount == Inv /\ AccountInv /\ TrampolinePulls => AccountInv'
<1> SUFFICES ASSUME Inv, AccountInv, TrampolinePulls PROVE AccountInv'
  OBVIOUS
<1> DEFINE f == Frame("source", queue[1])
<1>1. /\ stack # <<>> /\ stack[1].kind = "loop" /\ queue # <<>> /\ queue' = Tail(queue)
      /\ stack' = IF requested = Closed THEN stack ELSE <<f>> \o stack
      /\ requested = Closed => requested' = Closed
      /\ UNCHANGED <<wip, pushed, pulled, empty>>
  BY DEF TrampolinePulls, Running, shape
<1>2. queue \in Seq(Pulls) /\ stack \in Seq(FrameSet) /\ Calls(stack) /\ Len(pushed) \in Nat
      /\ pulled \in Nat
  BY DEF Inv, TypeInv, AccountInv
<1>3. queue[1] \in Nat
  <2>1. queue[1] \in Pulls
    BY <1>1, <1>2
  <2>2. \A n \in Pulls : n \in Nat
    BY PipelineAssumption
  <2> QED
    BY <2>1, <2>2
<1>4. f \in FrameSet /\ f.kind = "source" /\ f.n = queue[1]
  BY <1>3, FrameType
<1> HIDE DEF f
<1>5. Len(stack) \in Nat /\ 1 \in 1..Len(stack)
  BY <1>1, <1>2
<1>6. \A i \in 1..Len(stack) : stack[i].kind # "source"
  <2>1. SUFFICES ASSUME NEW i \in 1..Len(stack), stack[i].kind = "source" PROVE FALSE
    OBVIOUS
  <2>2. i + 1 \in 1..Len(stack) /\ stack[i + 1].kind = "loop" /\ 1 < i + 1
    BY <1>2, <1>5, <2>1 DEF Calls
  <2> QED
    BY <1>1, <1>2, <1>5, <2>2, OneOfEach
<1>7. LeftIs(stack, 0) /\ \A left : LeftIs(stack, left) => left = 0
  BY <1>6 DEF LeftIs
<1>8. ASSUME requested' # Closed, ~empty'
      PROVE  Accounted(stack', queue', Len(pushed'), pulled')
  <2>1. stack' = <<f>> \o stack /\ Accounted(stack, queue, Len(pushed), pulled)
    BY <1>1, <1>8 DEF AccountInv, Closed
  <2>2. LeftIs(stack', queue[1])
    <3>1. /\ Len(stack') = Len(stack) + 1 /\ stack'[1] = f
          /\ \A i \in 1..Len(stack) : stack'[i + 1] = stack[i]
      BY <1>2, <1>4, <2>1, PushFrame
    <3>2. \A i \in 1..Len(stack') : i = 1 \/ stack'[i].kind # "source"
      <4>1. SUFFICES ASSUME NEW i \in 1..Len(stack'), i # 1 PROVE stack'[i].kind # "source"
        OBVIOUS
      <4>2. i - 1 \in 1..Len(stack) /\ (i - 1) + 1 = i
        BY <1>5, <3>1, <4>1
      <4> QED
        BY <1>6, <3>1, <4>2
    <3>3. 1 \in 1..Len(stack')
      BY <1>5, <3>1
    <3> QED
      BY <1>4, <3>1, <3>2, <3>3 DEF LeftIs
  <2>3. Accounted(stack', Tail(queue), Len(pushed), pulled)
    BY <1>1, <1>2, <1>7, <2>1, <2>2, TakeAccounted
  <2> QED
    BY <1>1, <2>3
<1>9. wip' => wip
  BY <1>1
<1>10. wip
  <2>1. HasLoop(stack)
    BY <1>1, <1>5 DEF HasLoop
  <2> QED
    BY <2>1 DEF Inv
<1> QED
  BY <1>1, <1>2, <1>8, <1>10 DEF AccountInv, Closed

LEMMA SourceEmitsAccount == Inv /\ AccountInv /\ SourceEmits => AccountInv'
<1> SUFFICES ASSUME Inv, AccountInv, SourceEmits PROVE AccountInv'
  OBVIOUS
<1> DEFINE n == stack[1].n
           a == AfterTurn
           f == Frame("sink", 0)
           e == [n |-> emitted + 1, by |-> MappedBy]
<1>1. /\ Emitting /\ stack # <<>> /\ stack[1].kind = "source" /\ n > 0 /\ ~empty
      /\ UNCHANGED <<queue, wip, pulled, empty>>
  BY DEF SourceEmits, Emitting, Running, shape
<1>2. stack \in Seq(FrameSet) /\ Calls(stack) /\ Len(pushed) \in Nat /\ Len(stack) \in Nat
  BY DEF Inv, TypeInv
<1>3. 1 \in 1..Len(stack) /\ n \in Nat
  BY <1>1, <1>2, FramesAreCounted
<1>4. CASE requested = Closed
  <2>1. ~(requested > 0)
    BY <1>4, ClosedIsNegative
  <2>2. requested' = Closed
    BY <1>4, <2>1 DEF SourceEmits, Closed
  <2> QED
    BY <1>1, <2>2 DEF AccountInv, Closed
<1>5. CASE requested # Closed
  <2>1. requested > 0
    <3>1. n <= requested /\ requested \in Nat
      BY <1>1, <1>3, <1>5, PipelineAssumption DEF Inv, TypeInv, DemandInv
    <3> QED
      BY <1>1, <1>3, <3>1
  <2>2. pushed' = Append(pushed, e) /\ stack' = <<f>> \o a
    <3>1. requested \in Int
      BY PipelineAssumption DEF Inv, TypeInv, Closed
    <3>2. ~(requested <= 0)
      BY <2>1, <3>1
    <3> QED
      BY <2>1, <3>2 DEF SourceEmits
  <2>3. /\ a \in Seq(FrameSet) /\ a[1].n = n - 1 /\ Len(a) = Len(stack)
        /\ a[1].kind = "source"
        /\ \A i \in 1..Len(stack) : a[i].kind = stack[i].kind
    BY <1>1, AfterTurnShape
  <2>4. Len(pushed') = Len(pushed) + 1
    <3>1. PICK Elements : pushed \in Seq(Elements)
      BY DEF Inv, TypeInv
    <3>2. pushed \in Seq(Elements \cup {e})
      BY <3>1
    <3> HIDE DEF e
    <3> QED
      BY <2>2, <3>2
  <2>5. PICK left \in Nat, sums \in [0..Len(queue) -> Nat] :
          LeftIs(stack, left) /\ SumsFrom(queue, sums, Len(pushed) + left, pulled)
    BY <1>1, <1>5 DEF AccountInv, Accounted
  <2>6. left = n
    BY <1>1, <1>3, <2>5 DEF LeftIs
  <2> HIDE DEF a
  <2>7. LeftIs(a, n - 1)
    <3>1. \A i \in 1..Len(a) : a[i].kind = "source" => i = 1
      <4>1. SUFFICES ASSUME NEW i \in 1..Len(a), a[i].kind = "source", i # 1 PROVE FALSE
        OBVIOUS
      <4>2. i \in 1..Len(stack) /\ 1 < i /\ stack[i].kind = "source"
        BY <1>2, <2>3, <4>1
      <4> QED
        BY <1>1, <1>2, <1>3, <4>2, OneOfEach
    <3>2. 1 \in 1..Len(a)
      BY <1>3, <2>3
    <3> QED
      BY <2>3, <3>1, <3>2 DEF LeftIs
  <2>8. LeftIs(stack', n - 1)
    <3>1. f \in FrameSet /\ f.kind = "sink"
      BY FrameType
    <3> HIDE DEF f
    <3> QED
      BY <2>2, <2>3, <2>7, <3>1, CallKeepsLeft
  <2>9. n - 1 \in Nat /\ Len(pushed') + (n - 1) = Len(pushed) + left
    BY <1>1, <1>2, <1>3, <2>4, <2>6
  <2>10. Accounted(stack', queue', Len(pushed'), pulled')
    <3>1. SumsFrom(queue, sums, Len(pushed') + (n - 1), pulled)
      BY <2>5, <2>9
    <3> HIDE DEF n
    <3> QED
      BY <1>1, <2>8, <2>9, <3>1 DEF Accounted
  <2> QED
    BY <1>1, <2>10 DEF AccountInv
<1> QED
  BY <1>4, <1>5

LEMMA NextAccount == Inv /\ AccountInv /\ [Next]_vars => AccountInv'
<1> SUFFICES ASSUME Inv, AccountInv, [Next]_vars PROVE AccountInv'
  OBVIOUS
<1>1. stack \in Seq(FrameSet) /\ Calls(stack)
  BY DEF Inv, TypeInv
<1>2. CASE UNCHANGED vars
  BY <1>2 DEF vars, AccountInv, Closed
<1>3. CASE \E n \in Pulls : SinkPulls(n)
  BY <1>3, SinkPullsAccount
<1>4. CASE SinkCancels \/ SinkCancelsAgain \/ SourceBreaksMap \/ PipelineGrows
  <2>1. /\ UNCHANGED <<stack, queue, wip, pulled, pushed, empty>>
        /\ requested' = Closed \/ requested' = requested
    BY <1>4 DEF SinkCancels, SinkCancelsAgain, SourceBreaksMap, PipelineGrows, shape
  <2> QED
    BY <2>1, SameAccount
<1>5. CASE SinkReturns \/ SourceReturns \/ TrampolineStops
  <2>1. /\ stack # <<>> /\ stack' = Tail(stack)
        /\ UNCHANGED <<queue, requested, pulled, pushed, empty>>
        /\ wip' = wip \/ queue = <<>>
        /\ ~empty => stack[1].kind # "source" \/ stack[1].n = 0
    BY <1>5 DEF SinkReturns, SourceReturns, TrampolineStops, Running, Return, shape
  <2>2. ~empty => \A left \in Nat : LeftIs(stack, left) => LeftIs(stack', left)
    BY <1>1, <2>1, ReturnKeepsLeft
  <2> QED
    BY <2>1, <2>2, SameAccount
<1>6. CASE SourceBreaks \/ SourceCompletes
  <2>1. /\ UNCHANGED <<queue, wip, pulled, pushed, empty>>
        /\ requested' = Closed
    BY <1>6 DEF SourceBreaks, SourceCompletes, Ends, shape, Closed
  <2> QED
    BY <2>1, SameAccount DEF Closed
<1>7. CASE PipelineStarts
  <2>1. /\ stack = <<>> /\ stack' = <<Frame("sink", 0)>>
        /\ UNCHANGED <<queue, wip, requested, pulled, pushed, empty>>
    BY <1>7 DEF PipelineStarts, Starts
  <2>2. \A left \in Nat : LeftIs(stack, left) => LeftIs(stack', left)
    <3>1. \A left : LeftIs(stack, left) => left = 0
      BY <2>1 DEF LeftIs
    <3>2. LeftIs(stack', 0)
      BY <2>1 DEF LeftIs, Frame
    <3> QED
      BY <3>1, <3>2
  <2> QED
    BY <2>1, <2>2, SameAccount
<1>8. CASE TrampolinePulls
  BY <1>8, TrampolinePullsAccount
<1>9. CASE SourceEmits
  BY <1>9, SourceEmitsAccount
<1> QED
  BY <1>2, <1>3, <1>4, <1>5, <1>6, <1>7, <1>8, <1>9 DEF Next, Library

LEMMA AccountInvariance == Spec => [](Inv /\ AccountInv)
<1>1. Init => Inv /\ AccountInv
  BY InitInv, InitAccount
<1>2. Inv /\ AccountInv /\ [Next]_vars => Inv' /\ AccountInv'
  BY NextInv, NextAccount
<1> QED
  BY <1>1, <1>2, PTL DEF Spec

(* When the callbacks have returned and the stream goes on, the sink was   *)
(* pushed all that it pulled, however its pulls were nested                *)
(* (trampoline.c:78-97, logic.c:28-33).                                    *)
THEOREM DemandIsAlwaysMet == Spec => []DemandIsMet
<1>1. Inv /\ AccountInv => DemandIsMet
  <2> SUFFICES ASSUME Inv, AccountInv, stack = <<>>, requested # Closed, ~empty
               PROVE  Len(pushed) = pulled
    BY DEF DemandIsMet
  <2>1. queue = <<>>
    BY DEF Inv, HasLoop, AccountInv
  <2>2. PICK left \in Nat, sums \in [0..Len(queue) -> Nat] :
          LeftIs(stack, left) /\ SumsFrom(queue, sums, Len(pushed) + left, pulled)
    BY DEF AccountInv, Accounted
  <2>3. left = 0
    BY <2>2 DEF LeftIs
  <2>4. Len(pushed) \in Nat
    BY DEF Inv, TypeInv
  <2> QED
    BY <2>1, <2>2, <2>3, <2>4 DEF SumsFrom
<1> QED
  BY <1>1, AccountInvariance, PTL

----------------------------------------------------------------------------
(* What the sink was pushed, as the abstract stream has it.                *)
Delivered == [i \in DOMAIN pushed |-> pushed[i].n]

LEMMA PushIsDeliver ==
  ASSUME Inv, AccountInv, SourceEmits, requested > 0
  PROVE  /\ Len(Delivered) < pulled
         /\ Delivered' = Append(Delivered, Len(Delivered) + 1)
<1> DEFINE n == stack[1].n
           e == [n |-> emitted + 1, by |-> MappedBy]
<1>1. /\ ~empty /\ stack # <<>> /\ stack[1].kind = "source" /\ n > 0
      /\ requested # Closed
  <2>1. Closed # requested
    BY ClosedIsNegative
  <2> QED
    BY <2>1 DEF SourceEmits, Emitting, Running
<1>2. pushed' = Append(pushed, e)
  <2>1. requested \in Int
    BY PipelineAssumption DEF Inv, TypeInv, Closed
  <2>2. ~(requested <= 0)
    BY <2>1
  <2> QED
    BY <2>1, <2>2 DEF SourceEmits
<1>3. 1 \in 1..Len(stack) /\ n \in Nat
  <2>1. stack \in Seq(FrameSet) /\ 1 \in 1..Len(stack)
    BY <1>1 DEF Inv, TypeInv
  <2> QED
    BY <2>1, FramesAreCounted
<1>4. PICK Elements : pushed \in Seq(Elements)
  BY DEF Inv, TypeInv
<1>5. Len(pushed) \in Nat /\ DOMAIN pushed = 1..Len(pushed)
  BY <1>4
<1>6. emitted = Len(pushed) /\ \A i \in 1..Len(pushed) : pushed[i].n = i
  BY <1>1 DEF Inv, DemandInv
<1>7. Len(pushed) < pulled
  <2>1. PICK left \in Nat, sums \in [0..Len(queue) -> Nat] :
          LeftIs(stack, left) /\ SumsFrom(queue, sums, Len(pushed) + left, pulled)
    BY <1>1 DEF AccountInv, Accounted
  <2>2. left = n
    BY <1>1, <1>3, <2>1 DEF LeftIs
  <2>4. Len(pushed) + left > Len(pushed)
    BY <1>1, <1>5, <2>2
  <2>5. queue \in Seq(Pulls) /\ Len(queue) \in Nat
    BY DEF Inv, TypeInv
  <2>6. Len(pushed) + left <= pulled /\ pulled \in Nat
    BY <2>1, <2>5 DEF SumsFrom, AccountInv
  <2> QED
    BY <1>5, <2>1, <2>4, <2>6
<1>8. Delivered \in Seq(Nat) /\ Len(Delivered) = Len(pushed)
      /\ \A i \in 1..Len(pushed) : Delivered[i] = pushed[i].n
  <2>1. Delivered = [i \in 1..Len(pushed) |-> pushed[i].n]
    BY <1>5 DEF Delivered
  <2>2. \A i \in 1..Len(pushed) : pushed[i].n \in Nat
    BY <1>5, <1>6
  <2> QED
    BY <1>5, <2>1, <2>2
<1>9. Delivered' = Append(Delivered, Len(Delivered) + 1)
  <2> DEFINE d == Append(Delivered, Len(Delivered) + 1)
  <2>1. /\ d \in Seq(Nat) /\ Len(d) = Len(pushed) + 1
        /\ d[Len(pushed) + 1] = Len(pushed) + 1
        /\ \A i \in 1..Len(pushed) : d[i] = pushed[i].n
    BY <1>5, <1>8
  <2>2. /\ DOMAIN pushed' = 1..(Len(pushed) + 1)
        /\ pushed'[Len(pushed) + 1] = e
        /\ \A i \in 1..Len(pushed) : pushed'[i] = pushed[i]
    <3>1. pushed \in Seq(Elements \cup {e})
      BY <1>4
    <3> HIDE DEF e
    <3> QED
      BY <1>2, <1>5, <3>1
  <2>3. e.n = Len(pushed) + 1
    BY <1>6
  <2> HIDE DEF d, e
  <2>4. Delivered' = [i \in 1..(Len(pushed) + 1) |-> pushed'[i].n]
    BY <2>2 DEF Delivered
  <2>5. d = [i \in 1..(Len(pushed) + 1) |-> d[i]]
    BY <2>1
  <2>6. \A i \in 1..(Len(pushed) + 1) : pushed'[i].n = d[i]
    <3>1. SUFFICES ASSUME NEW i \in 1..(Len(pushed) + 1) PROVE pushed'[i].n = d[i]
      OBVIOUS
    <3>2. CASE i \in 1..Len(pushed)
      BY <2>1, <2>2, <3>2
    <3>3. CASE i = Len(pushed) + 1
      BY <2>1, <2>2, <2>3, <3>3
    <3> QED
      BY <1>5, <3>2, <3>3
  <2>7. Delivered' = d
    BY <2>4, <2>5, <2>6
  <2> QED
    BY <2>7 DEF d
<1> QED
  BY <1>7, <1>8, <1>9

(* Every step of the pipeline is one of the abstract stream, or none.      *)
THEOREM ImplementsDemand == Spec => ImplementsOnDemand
<1>1. Init => Demand!Init
  <2> SUFFICES ASSUME Init PROVE Demand!Init
    OBVIOUS
  <2>1. requested # Closed
    BY ClosedIsNegative, PipelineAssumption DEF Init
  <2> QED
    BY <2>1 DEF Init, Demand!Init
<1>2. Inv /\ AccountInv /\ [Next]_vars => [Demand!Next]_(Demand!vars)
  <2> SUFFICES ASSUME Inv, AccountInv, [Next]_vars PROVE [Demand!Next]_(Demand!vars)
    OBVIOUS
  <2>1. ASSUME UNCHANGED <<pulled, pushed>>, requested' = Closed \/ requested' = requested
        PROVE  [Demand!Next]_(Demand!vars)
    BY <2>1 DEF Demand!Next, Demand!Close, Demand!vars, Closed
  <2>2. CASE UNCHANGED vars
    BY <2>1, <2>2 DEF vars
  <2>3. ASSUME NEW n \in Pulls, SinkPulls(n) PROVE [Demand!Next]_(Demand!vars)
    <3>1. pulled' = pulled + n /\ UNCHANGED <<pushed, requested>>
      BY <2>3 DEF SinkPulls
    <3>2. Demand!Demand
      BY <3>1 DEF Demand!Demand, Closed
    <3> QED
      BY <3>2 DEF Demand!Next
  <2>4. CASE SinkCancels \/ SinkCancelsAgain \/ SourceBreaksMap \/ PipelineGrows
    BY <2>1, <2>4 DEF SinkCancels, SinkCancelsAgain, SourceBreaksMap, PipelineGrows
  <2>5. CASE SinkReturns \/ SourceReturns \/ TrampolineStops \/ PipelineStarts
    BY <2>1, <2>5 DEF SinkReturns, SourceReturns, TrampolineStops, PipelineStarts
  <2>6. CASE SourceBreaks \/ SourceCompletes
    BY <2>1, <2>6 DEF SourceBreaks, SourceCompletes, Ends
  <2>7. ASSUME TrampolinePulls PROVE [Demand!Next]_(Demand!vars)
    <3>1. /\ UNCHANGED <<pulled, pushed>>
          /\ (requested' # Closed) <=> (requested # Closed)
      <4>1. UNCHANGED <<pulled, pushed>> /\ (requested = Closed => requested' = Closed)
        BY <2>7 DEF TrampolinePulls
      <4>2. requested # Closed => requested' \in 0..LongMax
        <5>1. SUFFICES ASSUME requested # Closed PROVE requested' \in 0..LongMax
          OBVIOUS
        <5>2. queue[1] \in 1..LongMax
          <6>1. queue \in Seq(Pulls) /\ queue # <<>>
            BY <2>7 DEF Inv, TypeInv, TrampolinePulls
          <6>2. queue[1] \in Pulls
            BY <6>1
          <6>3. \A m \in Pulls : m \in 1..LongMax
            BY PipelineAssumption
          <6> QED
            BY <6>2, <6>3
        <5>3. requested \in 0..LongMax
          BY <5>1 DEF Inv, TypeInv
        <5>4. requested' = IF requested + queue[1] > LongMax THEN LongMax ELSE requested + queue[1]
          BY <2>7, <5>1 DEF TrampolinePulls
        <5> QED
          BY <5>2, <5>3, <5>4, PipelineAssumption
      <4> QED
        BY <4>1, <4>2, ClosedIsNegative
    <3> QED
      BY <3>1 DEF Demand!vars, Closed
  <2>8. ASSUME SourceEmits PROVE [Demand!Next]_(Demand!vars)
    <3>1. CASE requested > 0
      <4>1. requested # Closed /\ requested \in 0..LongMax
        <5>1. requested # Closed
          BY <3>1, ClosedIsNegative
        <5> QED
          BY <5>1 DEF Inv, TypeInv
      <4>2. requested' = (IF requested = LongMax THEN LongMax ELSE requested - 1) /\ UNCHANGED pulled
        <5>1. ~(requested <= 0)
          BY <3>1, <4>1, PipelineAssumption
        <5> QED
          BY <2>8, <5>1 DEF SourceEmits
      <4>3. requested' # Closed
        BY <3>1, <4>1, <4>2, ClosedIsNegative, PipelineAssumption
      <4>4. /\ Len(Delivered) < pulled
            /\ Delivered' = Append(Delivered, Len(Delivered) + 1)
        BY <2>8, <3>1, PushIsDeliver
      <4>5. Demand!Deliver
        BY <4>1, <4>2, <4>3, <4>4 DEF Demand!Deliver, Delivered, Closed
      <4> QED
        BY <4>5 DEF Demand!Next
    <3>2. CASE ~(requested > 0)
      BY <2>1, <2>8, <3>2 DEF SourceEmits
    <3> QED
      BY <3>1, <3>2
  <2> QED
    BY <2>2, <2>3, <2>4, <2>5, <2>6, <2>7, <2>8 DEF Next, Library
<1> QED
  BY <1>1, <1>2, AccountInvariance, PTL DEF Spec, ImplementsOnDemand, Demand!Spec

----------------------------------------------------------------------------
(* Induction up to a bound, from the well-foundedness of the order of the  *)
(* naturals.                                                               *)
LessThan == {pair \in Nat \X Nat : pair[1] < pair[2]}

LEMMA InductionUpTo ==
  ASSUME NEW count \in Nat, NEW T, 0 \in T, \A n \in 1..count : n - 1 \in T => n \in T
  PROVE  \A n \in 0..count : n \in T
<1> DEFINE U == {n \in 0..count : n \notin T}
<1> SUFFICES ASSUME U # {} PROVE FALSE
  OBVIOUS
<1>1. IsWellFoundedOn(LessThan, Nat)
  BY NatLessThanWellFounded DEF OpToRel, LessThan
<1>2. U \subseteq Nat
  OBVIOUS
<1>3. PICK n \in U : \A m \in U : ~(<<m, n>> \in LessThan)
  <2> HIDE DEF U
  <2> QED
    BY <1>1, <1>2, WFMin
<1>4. n \in 1..count /\ n - 1 \in Nat /\ n - 1 \in 0..count /\ n - 1 < n
  BY <1>3
<1>5. <<n - 1, n>> \in LessThan
  BY <1>4 DEF LessThan
<1>6. n - 1 \notin U
  BY <1>3, <1>5
<1> QED
  BY <1>3, <1>4, <1>6

LEMMA Joined ==
  ASSUME NEW S, NEW a \in Seq(S), NEW b \in Seq(S)
  PROVE  /\ a \o b \in Seq(S) /\ Len(a \o b) = Len(a) + Len(b)
         /\ \A i \in 1..Len(a) : (a \o b)[i] = a[i]
         /\ \A i \in 1..Len(b) : (a \o b)[Len(a) + i] = b[i]
OBVIOUS

LEMMA FunctionIsSequence ==
  ASSUME NEW S, NEW length \in Nat, NEW f \in [1..length -> S]
  PROVE  f \in Seq(S) /\ Len(f) = length
OBVIOUS

(* What wrapping the sink by the flows of the source, one by one, makes of *)
(* it: they come to lie before it, the innermost first.                    *)
LEMMA ConnectedIsReversed ==
  ASSUME NEW S, NEW flows \in Seq(S), NEW inner \in Seq(S)
  PROVE  Connected(flows, inner) = Reverse(flows) \o inner
<1> DEFINE length == Len(flows)
           W(n) == [i \in 1..(n + Len(inner)) |-> IF i <= n THEN flows[n + 1 - i] ELSE inner[i - n]]
           Body(w) == [n \in 0..length |-> IF n = 0 THEN inner ELSE <<flows[n]>> \o w[n - 1]]
           wrapped == CHOOSE w : w = Body(w)
           f == [n \in 0..length |-> W(n)]
<1>1. length \in Nat /\ Len(inner) \in Nat
  OBVIOUS
<1>2. W(0) = inner
  <2>1. \A i \in 1..Len(inner) : W(0)[i] = inner[i]
    BY <1>1
  <2>2. inner = [i \in 1..Len(inner) |-> inner[i]]
    OBVIOUS
  <2> QED
    BY <1>1, <2>1, <2>2
<1>3. ASSUME NEW n \in 1..length PROVE W(n) = <<flows[n]>> \o W(n - 1)
  <2> DEFINE v == W(n - 1)
             k == n - 1 + Len(inner)
  <2>1. n \in Nat /\ n - 1 \in Nat /\ k \in Nat /\ flows[n] \in S
    BY <1>1
  <2>2. v \in Seq(S) /\ Len(v) = k
    <3>1. \A i \in 1..k : (IF i <= n - 1 THEN flows[(n - 1) + 1 - i] ELSE inner[i - (n - 1)]) \in S
      BY <1>1, <2>1
    <3>2. v \in [1..k -> S]
      BY <3>1
    <3> HIDE DEF v, k
    <3> QED
      BY <2>1, <3>2, FunctionIsSequence
  <2>3. \A i \in 1..k : v[i] = IF i <= n - 1 THEN flows[(n - 1) + 1 - i] ELSE inner[i - (n - 1)]
    OBVIOUS
  <2> HIDE DEF v
  <2> DEFINE u == <<flows[n]>> \o v
  <2>4. /\ u \in Seq(S) /\ Len(u) = k + 1 /\ u[1] = flows[n]
        /\ \A i \in 2..(k + 1) : u[i] = v[i - 1]
    <3> HIDE DEF k
    <3> QED
      BY <2>1, <2>2
  <2> HIDE DEF u
  <2>5. ASSUME NEW i \in 1..(k + 1)
        PROVE  u[i] = IF i <= n THEN flows[n + 1 - i] ELSE inner[i - n]
    <3>1. CASE i = 1
      BY <2>1, <2>4, <3>1
    <3>2. CASE i # 1
      <4>1. i \in 2..(k + 1) /\ i - 1 \in 1..k
        BY <2>1, <3>2
      <4>2. u[i] = IF i - 1 <= n - 1 THEN flows[(n - 1) + 1 - (i - 1)] ELSE inner[(i - 1) - (n - 1)]
        BY <2>3, <2>4, <4>1
      <4>3. (n - 1) + 1 - (i - 1) = n + 1 - i /\ (i - 1) - (n - 1) = i - n /\ (i - 1 <= n - 1 <=> i <= n)
        BY <2>1
      <4> QED
        BY <4>2, <4>3
    <3> QED
      BY <3>1, <3>2
  <2>6. u = [i \in 1..(k + 1) |-> u[i]]
    <3> HIDE DEF k
    <3> QED
      BY <2>1, <2>4
  <2>7. k + 1 = n + Len(inner)
    BY <1>1, <2>1
  <2> HIDE DEF k
  <2>8. u = W(n)
    BY <2>5, <2>6, <2>7
  <2> QED
    BY <2>8 DEF u, v
<1> HIDE DEF W
<1>4. f = Body(f)
  <2>1. ASSUME NEW n \in 0..length PROVE f[n] = Body(f)[n]
    <3>1. CASE n = 0
      BY <1>2, <3>1
    <3>2. CASE n \in 1..length
      <4>1. n # 0 /\ n - 1 \in 0..length
        BY <1>1, <3>2
      <4> QED
        BY <1>3, <3>2, <4>1
    <3>3. n = 0 \/ n \in 1..length
      BY <1>1
    <3> HIDE DEF f, Body
    <3> QED
      BY <3>1, <3>2, <3>3
  <2>2. Body(f) = [n \in 0..length |-> Body(f)[n]] /\ f = [n \in 0..length |-> f[n]]
    OBVIOUS
  <2> HIDE DEF f, Body
  <2> QED
    BY <2>1, <2>2
<1> HIDE DEF f
<1>5. wrapped = Body(wrapped)
  <2> HIDE DEF Body
  <2> QED
    BY <1>4
<1> HIDE DEF wrapped
<1>6. wrapped[0] = inner /\ \A n \in 1..length : wrapped[n] = <<flows[n]>> \o wrapped[n - 1]
  <2>1. 0 \in 0..length /\ \A n \in 1..length : n \in 0..length /\ n # 0
    BY <1>1
  <2>2. ASSUME NEW n \in 0..length
        PROVE  wrapped[n] = IF n = 0 THEN inner ELSE <<flows[n]>> \o wrapped[n - 1]
    <3> HIDE DEF length
    <3> QED
      BY <1>5
  <2> HIDE DEF length, Body
  <2>3. wrapped[0] = inner
    BY <2>1, <2>2
  <2>4. ASSUME NEW n \in 1..length PROVE wrapped[n] = <<flows[n]>> \o wrapped[n - 1]
    BY <2>1, <2>2
  <2> QED
    BY <2>3, <2>4
<1>7. \A n \in 0..length : wrapped[n] = W(n)
  <2> DEFINE T == {n \in 0..length : wrapped[n] = W(n)}
  <2>1. 0 \in T
    BY <1>1, <1>2, <1>6
  <2>2. ASSUME NEW n \in 1..length, n - 1 \in T PROVE n \in T
    <3> HIDE DEF length
    <3>1. n \in 0..length
      BY <1>1
    <3>2. wrapped[n - 1] = W(n - 1)
      BY <2>2
    <3>3. wrapped[n] = W(n)
      BY <1>3, <1>6, <3>2
    <3> QED
      BY <3>1, <3>3
  <2> HIDE DEF T, length
  <2>3. \A n \in 0..length : n \in T
    BY <1>1, <2>1, <2>2, InductionUpTo
  <2> QED
    BY <2>3 DEF T
<1>8. Connected(flows, inner) = W(length)
  <2>1. Connected(flows, inner) = wrapped[length]
    BY DEF Connected, wrapped
  <2> QED
    BY <1>1, <1>7, <2>1
<1>9. W(length) = Reverse(flows) \o inner
  <2> DEFINE r == Reverse(flows)
  <2>1. r \in Seq(S) /\ Len(r) = length /\ \A i \in 1..length : r[i] = flows[length - i + 1]
    <3>1. r = [i \in 1..length |-> flows[length - i + 1]]
      BY DEF Reverse
    <3>2. \A i \in 1..length : flows[length - i + 1] \in S
      BY <1>1
    <3> QED
      BY <1>1, <3>1, <3>2
  <2> HIDE DEF r
  <2>2. /\ Len(r \o inner) = length + Len(inner) /\ r \o inner \in Seq(S)
        /\ \A i \in 1..(length + Len(inner)) :
             (r \o inner)[i] = IF i <= length THEN r[i] ELSE inner[i - length]
    <3> DEFINE q == r \o inner
    <3>1. /\ q \in Seq(S) /\ Len(q) = Len(r) + Len(inner)
          /\ \A i \in 1..Len(r) : q[i] = r[i]
          /\ \A i \in 1..Len(inner) : q[Len(r) + i] = inner[i]
      <4>1. r \in Seq(S)
        BY <2>1
      <4> HIDE DEF length, Body
      <4> QED
        BY <4>1, Joined
    <3> HIDE DEF q, length
    <3>2. ASSUME NEW i \in 1..(length + Len(inner))
          PROVE  q[i] = IF i <= length THEN r[i] ELSE inner[i - length]
      <4>1. CASE i <= length
        BY <1>1, <2>1, <3>1, <4>1
      <4>2. CASE ~(i <= length)
        <5>1. i - length \in 1..Len(inner) /\ length + (i - length) = i
          BY <1>1, <4>2
        <5> QED
          BY <2>1, <3>1, <4>2, <5>1
      <4> QED
        BY <4>1, <4>2
    <3> QED
      BY <2>1, <3>1, <3>2 DEF q
  <2> HIDE DEF length
  <2>3. \A i \in 1..(length + Len(inner)) :
          (r \o inner)[i] = IF i <= length THEN flows[length + 1 - i] ELSE inner[i - length]
    <3>1. \A i \in 1..length : length - i + 1 = length + 1 - i
      BY <1>1
    <3> QED
      BY <1>1, <2>1, <2>2, <3>1
  <2>4. r \o inner = [i \in 1..(length + Len(inner)) |-> (r \o inner)[i]]
    <3> DEFINE q == r \o inner
    <3>1. q \in Seq(S) /\ Len(q) = length + Len(inner)
      BY <2>2
    <3> HIDE DEF q, length
    <3>2. q = [i \in 1..(length + Len(inner)) |-> q[i]]
      BY <1>1, <3>1
    <3> QED
      BY <3>2 DEF q
  <2> QED
    BY <2>3, <2>4 DEF W, r
<1> QED
  BY <1>8, <1>9

LEMMA Headed ==
  ASSUME NEW S, NEW x \in S, NEW s \in Seq(S)
  PROVE  /\ <<x>> \o s \in Seq(S) /\ Len(<<x>> \o s) = Len(s) + 1
         /\ (<<x>> \o s)[1] = x
         /\ \A i \in 1..Len(s) : (<<x>> \o s)[1 + i] = s[i]
OBVIOUS

(* What the logics do to an element, when the scheduler is one of them.    *)
LEMMA MappedByOthers ==
  ASSUME NEW S, NEW before \in Seq(S), NEW after \in Seq(S), Scheduler \notin S,
         logics = before \o (<<Scheduler>> \o after)
  PROVE  MappedBy = before \o after
<1> DEFINE k == Len(before)
           m == Len(after)
           R == before \o after
           Prefix(n) == [i \in 1..n |-> R[i]]
           Size(n) == IF n <= k THEN n ELSE n - 1
           Body(b) ==
             [n \in 0..Len(logics) |->
                IF n = 0 THEN <<>>
                ELSE IF logics[n] = Scheduler THEN b[n - 1] ELSE Append(b[n - 1], logics[n])]
           by == CHOOSE b : b = Body(b)
           f == [n \in 0..(k + m + 1) |-> Prefix(Size(n))]
<1>1. k \in Nat /\ m \in Nat
  OBVIOUS
<1>2. /\ R \in Seq(S) /\ Len(R) = k + m
      /\ \A i \in 1..k : R[i] = before[i]
      /\ \A i \in 1..m : R[k + i] = after[i]
  OBVIOUS
<1> HIDE DEF k, m, R, Prefix, Size, Body, by, f
<1>3. /\ Len(logics) = k + m + 1
      /\ \A i \in 1..k : logics[i] = before[i]
      /\ logics[k + 1] = Scheduler
      /\ \A i \in 1..m : logics[k + 1 + i] = after[i]
  <2> DEFINE U == S \cup {Scheduler}
             t == <<Scheduler>> \o after
  <2>1. before \in Seq(U) /\ after \in Seq(U) /\ Scheduler \in U
    OBVIOUS
  <2> HIDE DEF U
  <2>3. /\ t \in Seq(U) /\ Len(t) = m + 1 /\ t[1] = Scheduler
        /\ \A i \in 1..m : t[1 + i] = after[i]
    BY <2>1, Headed DEF m
  <2> HIDE DEF t
  <2>4. /\ Len(logics) = k + Len(t)
        /\ \A i \in 1..k : logics[i] = before[i]
        /\ \A i \in 1..Len(t) : logics[k + i] = t[i]
    <3>1. logics = before \o t
      BY DEF t
    <3> QED
      BY <2>1, <2>3, <3>1, Joined DEF k
  <2>5. 1 \in 1..Len(t) /\ Len(logics) = k + m + 1
    BY <1>1, <2>3, <2>4
  <2>6. ASSUME NEW i \in 1..m PROVE logics[k + 1 + i] = after[i]
    <3>1. 1 + i \in 1..Len(t) /\ k + (1 + i) = k + 1 + i
      BY <1>1, <2>3
    <3>2. logics[k + (1 + i)] = t[1 + i]
      BY <2>4, <3>1
    <3> QED
      BY <2>3, <3>1, <3>2
  <2> QED
    BY <2>3, <2>4, <2>5, <2>6
<1>4. ASSUME NEW n \in 1..(k + m) PROVE Prefix(n) = Append(Prefix(n - 1), R[n])
  <2> DEFINE v == Prefix(n - 1)
  <2>1. n - 1 \in Nat /\ R[n] \in S /\ v \in Seq(S) /\ Len(v) = n - 1 /\ \A i \in 1..(n - 1) : v[i] = R[i]
    <3>1. \A i \in 1..n : R[i] \in S
      BY <1>1, <1>2
    <3>2. n \in Nat /\ n - 1 \in Nat /\ n \in 1..n /\ \A i \in 1..(n - 1) : i \in 1..n
      BY <1>1
    <3> QED
      BY <3>1, <3>2 DEF Prefix
  <2> HIDE DEF v
  <2> DEFINE u == Append(v, R[n])
  <2>2. u \in Seq(S) /\ Len(u) = n /\ u[n] = R[n] /\ \A i \in 1..(n - 1) : u[i] = v[i]
    BY <1>1, <2>1
  <2> HIDE DEF u
  <2>3. \A i \in 1..n : u[i] = R[i]
    BY <1>1, <2>1, <2>2
  <2>4. u = [i \in 1..n |-> u[i]]
    BY <1>1, <2>2
  <2>5. u = Prefix(n)
    BY <2>3, <2>4 DEF Prefix
  <2> QED
    BY <2>5 DEF u, v
<1>5. Prefix(0) = <<>>
  BY DEF Prefix
<1>6. Prefix(k + m) = R
  BY <1>1, <1>2 DEF Prefix
<1>7. ASSUME NEW n \in 1..(k + m + 1)
      PROVE  /\ n = k + 1 /\ logics[n] = Scheduler => Size(n) = Size(n - 1)
             /\ n = k + 1 \/ logics[n] # Scheduler
             /\ logics[n] # Scheduler =>
                  Size(n) \in 1..(k + m) /\ Size(n - 1) = Size(n) - 1 /\ logics[n] = R[Size(n)]
  <2>1. CASE n \in 1..k
    <3>1. logics[n] = before[n] /\ before[n] \in S
      BY <1>3, <2>1 DEF k
    <3>2. logics[n] = R[n] /\ logics[n] # Scheduler
      BY <1>2, <2>1, <3>1
    <3>3. Size(n) = n /\ Size(n - 1) = n - 1 /\ n \in 1..(k + m)
      BY <1>1, <2>1 DEF Size
    <3> QED
      BY <3>2, <3>3
  <2>2. CASE n = k + 1
    <3>1. Size(n) = k /\ Size(n - 1) = k
      BY <1>1, <2>2 DEF Size
    <3> QED
      BY <1>3, <2>2, <3>1
  <2>3. CASE n > k + 1
    <3> DEFINE i == n - k - 1
    <3>1. i \in 1..m /\ n = k + 1 + i /\ n - 1 = k + i /\ k + i \in 1..(k + m)
      BY <1>1, <2>3
    <3>2. Size(n) = n - 1 /\ Size(n - 1) = n - 1 - 1
      BY <1>1, <2>3 DEF Size
    <3> HIDE DEF i
    <3>3. logics[n] = after[i] /\ R[n - 1] = after[i]
      BY <1>2, <1>3, <3>1
    <3>4. after[i] \in S
      BY <3>1 DEF m
    <3>5. n # k + 1 /\ logics[n] # Scheduler
      <4>1. n # k + 1
        BY <1>1, <2>3
      <4>2. logics[n] # Scheduler
        BY <3>3, <3>4, Zenon
      <4> QED
        BY <4>1, <4>2
    <3>6. Size(n) \in 1..(k + m) /\ Size(n - 1) = Size(n) - 1 /\ logics[n] = R[Size(n)]
      BY <3>1, <3>2, <3>3
    <3> QED
      BY <3>5, <3>6
  <2>4. n \in 1..k \/ n = k + 1 \/ n > k + 1
    BY <1>1
  <2> QED
    BY <2>1, <2>2, <2>3, <2>4
<1>8. Size(0) = 0 /\ Size(k + m + 1) = k + m
  BY <1>1 DEF Size
<1>9. \A n \in 1..(k + m + 1) : n \in 0..(k + m + 1) /\ n - 1 \in 0..(k + m + 1) /\ n # 0 /\ n > 0
  BY <1>1
<1>10. f = Body(f)
  <2>1. ASSUME NEW n \in 0..(k + m + 1) PROVE f[n] = Body(f)[n]
    <3>1. CASE n = 0
      <4>1. Body(f)[n] = <<>>
        BY <1>3, <3>1 DEF Body
      <4>2. f[n] = Prefix(0)
        BY <1>8, <3>1 DEF f
      <4> QED
        BY <1>5, <4>1, <4>2
    <3>2. CASE n \in 1..(k + m + 1)
      <4>1. f[n] = Prefix(Size(n)) /\ f[n - 1] = Prefix(Size(n - 1))
        BY <1>9, <3>2 DEF f
      <4>2. n # 0 /\ n > 0
        BY <1>9, <3>2
      <4>3. CASE logics[n] = Scheduler
        <5>1. Body(f)[n] = f[n - 1]
          BY <1>3, <4>2, <4>3 DEF Body
        <5> QED
          BY <1>7, <3>2, <4>1, <4>3, <5>1
      <4>4. CASE logics[n] # Scheduler
        <5>1. Body(f)[n] = Append(f[n - 1], logics[n])
          BY <1>3, <4>2, <4>4 DEF Body
        <5>2. f[n] = Append(f[n - 1], logics[n])
          BY <1>4, <1>7, <3>2, <4>1, <4>4
        <5> QED
          BY <5>1, <5>2
      <4> QED
        BY <4>3, <4>4
    <3>3. n = 0 \/ n \in 1..(k + m + 1)
      BY <1>1
    <3> QED
      BY <3>1, <3>2, <3>3
  <2>2. /\ Body(f) = [n \in 0..(k + m + 1) |-> Body(f)[n]]
        /\ f = [n \in 0..(k + m + 1) |-> f[n]]
    BY <1>3 DEF f, Body
  <2> QED
    BY <2>1, <2>2
<1>11. by = Body(by)
  BY <1>10 DEF by
<1>12. /\ by[0] = <<>>
       /\ \A n \in 1..(k + m + 1) :
            by[n] = IF logics[n] = Scheduler THEN by[n - 1] ELSE Append(by[n - 1], logics[n])
  <2>1. 0 \in 0..(k + m + 1)
    BY <1>1
  <2>2. ASSUME NEW n \in 0..(k + m + 1)
        PROVE  by[n] = IF n = 0 THEN <<>>
                       ELSE IF logics[n] = Scheduler THEN by[n - 1]
                       ELSE Append(by[n - 1], logics[n])
    BY <1>3, <1>11 DEF Body
  <2>3. by[0] = <<>>
    BY <2>1, <2>2
  <2>4. ASSUME NEW n \in 1..(k + m + 1)
        PROVE  by[n] = IF logics[n] = Scheduler THEN by[n - 1] ELSE Append(by[n - 1], logics[n])
    BY <1>9, <2>2
  <2> QED
    BY <2>3, <2>4
<1>13. \A n \in 0..(k + m + 1) : by[n] = Prefix(Size(n))
  <2> DEFINE T == {n \in 0..(k + m + 1) : by[n] = Prefix(Size(n))}
  <2>1. 0 \in T
    BY <1>1, <1>5, <1>8, <1>12
  <2>2. ASSUME NEW n \in 1..(k + m + 1), n - 1 \in T PROVE n \in T
    <3>1. by[n - 1] = Prefix(Size(n - 1))
      BY <2>2
    <3>2. by[n] = Prefix(Size(n))
      BY <1>4, <1>7, <1>12, <3>1
    <3> QED
      BY <1>9, <3>2
  <2> HIDE DEF T
  <2>3. k + m + 1 \in Nat
    BY <1>1
  <2>4. \A n \in 0..(k + m + 1) : n \in T
    BY <2>1, <2>2, <2>3, InductionUpTo
  <2> QED
    BY <2>4 DEF T
<1>14. MappedBy = by[k + m + 1]
  <2>1. MappedBy = by[Len(logics)]
    BY DEF MappedBy, by, Body
  <2> QED
    BY <1>3, <2>1
<1>15. k + m + 1 \in 0..(k + m + 1)
  BY <1>1
<1> QED
  BY <1>6, <1>8, <1>13, <1>14, <1>15 DEF R

(* Flows are attached only before the pipeline starts, and what the sink   *)
(* was pushed has been through all of them.                                *)
StagesInv ==
  /\ source \in Seq(Mappings) /\ sink \in Seq(Mappings)
  /\ Started => logics = Reverse(source) \o (<<Scheduler>> \o sink)
  /\ ~Started => stack = <<>> /\ pushed = <<>>
  /\ MappedInOrder

LEMMA ReversedMappings ==
  ASSUME NEW S, NEW s \in Seq(S) PROVE Reverse(s) \in Seq(S)
<1>1. Len(s) \in Nat /\ \A i \in 1..Len(s) : s[Len(s) - i + 1] \in S
  OBVIOUS
<1> QED
  BY <1>1 DEF Reverse

LEMMA InitStages == Init => StagesInv
BY DEF Init, StagesInit, StagesInv, Started, MappedInOrder

(* The element that the source emits is pushed in the order that is meant. *)
LEMMA EmittedIsMapped ==
  ASSUME StagesInv, Started PROVE MappedBy = Reverse(source) \o sink
<1>1. /\ Reverse(source) \in Seq(Mappings) /\ sink \in Seq(Mappings)
      /\ logics = Reverse(source) \o (<<Scheduler>> \o sink)
  BY ReversedMappings DEF StagesInv
<1>2. Scheduler \notin Mappings
  BY StagesAssumption
<1> HIDE DEF Scheduler
<1> QED
  BY <1>1, <1>2, MappedByOthers

LEMMA StartsStages == ASSUME StagesInv, PipelineStarts PROVE StagesInv'
<1>1. /\ logics' = Connected(source, <<Scheduler>> \o sink)
      /\ source' = source /\ sink' = sink /\ pushed' = pushed /\ ~Started
  BY DEF PipelineStarts, Starts
<1>2. source \in Seq(Mappings) /\ sink \in Seq(Mappings) /\ pushed = <<>>
  BY <1>1 DEF StagesInv
<1> DEFINE S == Mappings \cup {Scheduler}
           inner == <<Scheduler>> \o sink
<1>3. source \in Seq(S) /\ sink \in Seq(S) /\ Scheduler \in S
  BY <1>2
<1> HIDE DEF S
<1>4. inner \in Seq(S) /\ Len(inner) = Len(sink) + 1
  BY <1>3, Headed
<1> HIDE DEF inner
<1>5. logics' = Reverse(source) \o inner
  BY <1>1, <1>3, <1>4, ConnectedIsReversed DEF inner
<1>6. logics' # <<>>
  <2>1. Reverse(source) \in Seq(S)
    BY <1>3, ReversedMappings
  <2>2. Len(logics') = Len(Reverse(source)) + Len(inner)
    BY <1>4, <1>5, <2>1, Joined
  <2>3. Len(Reverse(source)) \in Nat /\ Len(sink) \in Nat
    BY <1>3, <2>1
  <2>4. Len(logics') > 0
    BY <1>4, <2>2, <2>3
  <2> QED
    BY <2>4
<1>7. MappedInOrder'
  BY <1>1, <1>2 DEF MappedInOrder
<1> QED
  BY <1>1, <1>2, <1>5, <1>6, <1>7 DEF StagesInv, Started, inner

LEMMA GrowsStages == ASSUME StagesInv, PipelineGrows PROVE StagesInv'
<1>1. PICK flow \in Mappings : Via(flow) \/ FlowTo(flow)
  BY DEF PipelineGrows
<1>2. ~Started /\ ~Started' /\ UNCHANGED <<stack, pushed>>
  BY <1>1 DEF PipelineGrows, Via, FlowTo, Started
<1>3. stack = <<>> /\ pushed = <<>> /\ source \in Seq(Mappings) /\ sink \in Seq(Mappings)
  BY <1>2 DEF StagesInv
<1>4. source' \in Seq(Mappings) /\ sink' \in Seq(Mappings)
  <2>1. <<flow>> \o source \in Seq(Mappings) /\ <<flow>> \o sink \in Seq(Mappings)
    BY <1>3, Headed
  <2> QED
    BY <1>1, <1>3, <2>1 DEF Via, FlowTo
<1>5. MappedInOrder'
  BY <1>2, <1>3 DEF MappedInOrder
<1> QED
  BY <1>2, <1>3, <1>4, <1>5 DEF StagesInv

(* Everything else runs on a pipeline that has started, and pushes nothing *)
(* but what the source emits.                                              *)
LEMMA SameStages ==
  ASSUME StagesInv, UNCHANGED <<source, sink, logics, pushed>>,
         Started \/ stack' = stack
  PROVE  StagesInv'
BY DEF StagesInv, Started, MappedInOrder

LEMMA SourceEmitsStages == ASSUME Inv, StagesInv, SourceEmits PROVE StagesInv'
<1>1. UNCHANGED <<source, sink, logics>> /\ Started
  BY DEF SourceEmits, Emitting, Running, shape, stages, StagesInv
<1>2. CASE pushed' = pushed
  BY <1>1, <1>2, SameStages
<1>3. CASE pushed' = Append(pushed, [n |-> emitted + 1, by |-> MappedBy])
  <2> DEFINE e == [n |-> emitted + 1, by |-> MappedBy]
  <2>1. PICK Elements : pushed \in Seq(Elements)
    BY DEF Inv, TypeInv
  <2>2. e.by = Reverse(source) \o sink
    BY <1>1, EmittedIsMapped
  <2> HIDE DEF e
  <2>3. /\ Len(pushed') = Len(pushed) + 1 /\ Len(pushed) \in Nat
        /\ \A i \in 1..Len(pushed) : pushed'[i] = pushed[i]
        /\ pushed'[Len(pushed) + 1] = e
    BY <1>3, <2>1 DEF e
  <2>4. ASSUME NEW i \in 1..Len(pushed') PROVE pushed'[i].by = Reverse(source) \o sink
    <3>1. CASE i \in 1..Len(pushed)
      BY <2>3, <3>1 DEF StagesInv, MappedInOrder
    <3>2. CASE i = Len(pushed) + 1
      BY <2>2, <2>3, <3>2
    <3> QED
      BY <2>3, <3>1, <3>2
  <2>5. MappedInOrder'
    BY <1>1, <2>4 DEF MappedInOrder
  <2> QED
    BY <1>1, <2>5 DEF StagesInv, Started
<1> QED
  BY <1>2, <1>3 DEF SourceEmits

LEMMA NextStages == Inv /\ StagesInv /\ [Next]_vars => StagesInv'
<1> SUFFICES ASSUME Inv, StagesInv, [Next]_vars PROVE StagesInv'
  OBVIOUS
<1>1. CASE PipelineStarts
  BY <1>1, StartsStages
<1>2. CASE PipelineGrows
  BY <1>2, GrowsStages
<1>3. CASE SourceEmits
  BY <1>3, SourceEmitsStages
<1>4. CASE \/ \E n \in Pulls : SinkPulls(n)
           \/ SinkCancels
           \/ SinkCancelsAgain
  BY <1>4, SameStages DEF SinkPulls, SinkCancels, SinkCancelsAgain, SinkActs, shape, stages
<1>5. CASE \/ SinkReturns
           \/ TrampolinePulls
           \/ TrampolineStops
           \/ SourceReturns
           \/ SourceBreaksMap
  <2>1. Started
    BY <1>5 DEF SinkReturns, TrampolinePulls, TrampolineStops, SourceReturns, SourceBreaksMap,
                Emitting, Running, StagesInv
  <2>2. UNCHANGED <<source, sink, logics, pushed>>
    BY <1>5 DEF SinkReturns, TrampolinePulls, TrampolineStops, SourceReturns, SourceBreaksMap,
                shape, stages
  <2> QED
    BY <2>1, <2>2, SameStages
<1>6. CASE SourceBreaks \/ SourceCompletes
  <2>1. Ends
    BY <1>6 DEF SourceBreaks, SourceCompletes
  <2> QED
    BY <2>1, SameStages DEF Ends, Running, StagesInv, shape, stages
<1>7. CASE UNCHANGED vars
  BY <1>7, SameStages DEF vars, stages
<1> QED
  BY <1>1, <1>2, <1>3, <1>4, <1>5, <1>6, <1>7 DEF Next, Library

(* However flows are attached, to the source or to the sink, an element    *)
(* passes them in the order that is documented: the wrapping of sources    *)
(* and of sinks, which nest the other way round, and the logics between    *)
(* them come out right (wrapper.c:37-44, pipeline.c:215-224).              *)
THEOREM MappedInTheOrderMeant == Spec => []MappedInOrder
<1>1. Init => StagesInv
  BY InitStages
<1>2. Inv /\ StagesInv /\ [Next]_vars => StagesInv'
  BY NextStages
<1>3. StagesInv => MappedInOrder
  BY DEF StagesInv
<1> QED
  BY <1>1, <1>2, <1>3, Invariance, PTL DEF Spec
=============================================================================
