------------------------- MODULE BoundedStageProofs -------------------------
(***************************************************************************)
(* What run_with_heartbeat guarantees for every deadline and heartbeat.    *)
(***************************************************************************)
EXTENDS BoundedStage, TLAPS

\* The child and its thread agree: no thread before the child's first step, a
\* result only from finished work, and nothing queued once the child is done.
ChildInv ==
    /\ child = "none" <=> pc = "called"
    /\ child \in {"none", "new"} => work = "none"
    /\ child = "value" => work = "value"
    /\ ChildDone => work # "queued"
    /\ child = "cancelled" => asked
    /\ pc = "ended" => ChildDone

\* What the stage is about to report is true, and it cancels the child only
\* when it leaves the loop.
StageInv ==
    /\ asked => pc \in {"cleanup", "ended"}
    /\ pc \in {"cleanup", "ended"} => outcome # "none"
    /\ outcome = "value" => work = "value"
    /\ outcome = "timeout" => now >= Timeout
    /\ outcome = "cancelled" \/ cancelled \/ stop => interrupted

IInv == TypeOK /\ ChildInv /\ StageInv

-----------------------------------------------------------------------------

LEMMA InitIInv == Init => IInv
<1> SUFFICES ASSUME Init PROVE IInv
    OBVIOUS
<1>1. stop = TRUE \/ stop = FALSE
      BY DEF Init
<1>2. TypeOK
  <2>1. stop \in BOOLEAN /\ interrupted \in BOOLEAN
        BY <1>1, Zenon DEF Init
  <2>2. now \in Nat /\ timer \in 0..Timeout
        BY TimeAssumption DEF Init
  <2> QED BY <2>1, <2>2 DEF Init, TypeOK, Done
<1>3. ChildInv
      BY DEF Init, ChildInv, ChildDone, Done
<1>4. (outcome = "cancelled" \/ cancelled \/ stop) => interrupted
      BY <1>1, Zenon DEF Init
<1>5. StageInv
      BY <1>4 DEF Init, StageInv
<1> QED BY <1>2, <1>3, <1>5 DEF IInv

\* The head of the loop keeps what it touches well typed and true.
LEMMA HeadKeeps ==
    ASSUME TypeOK, StageInv, LoopHead, pc \in {"called", "waiting", "beating"}
    PROVE  /\ pc' \in {"waiting", "cleanup"}
           /\ outcome' \in {"none", "timeout"} \union Done
           /\ outcome' # "value" \/ outcome' = outcome
           /\ asked' \in BOOLEAN /\ timer' \in 0..Timeout
           /\ asked' => pc' = "cleanup"
           /\ pc' = "cleanup" => outcome' # "none"
           /\ asked => asked'
           /\ outcome' = "timeout" => now >= Timeout
           /\ outcome' = "cancelled" => interrupted
<1>1. ASSUME stop, Leaves("cancelled") PROVE interrupted /\ outcome' = "cancelled"
      BY <1>1 DEF Leaves, StageInv
<1>2. CASE stop /\ Leaves("cancelled")
      BY <1>1, <1>2 DEF Leaves, TypeOK, StageInv, Done, ChildDone
<1>3. CASE ~stop /\ now >= Timeout /\ Leaves("timeout")
      BY <1>3 DEF Leaves, TypeOK, StageInv, Done, ChildDone
<1>4. CASE /\ ~stop /\ now < Timeout
           /\ timer' = (IF now + Heartbeat < Timeout THEN now + Heartbeat ELSE Timeout)
           /\ pc' = "waiting"
           /\ UNCHANGED <<outcome, asked>>
  <2>1. timer' \in 0..Timeout
        BY <1>4, TimeAssumption DEF TypeOK
  <2> QED BY <1>4, <2>1 DEF TypeOK, StageInv
<1> QED BY <1>2, <1>3, <1>4 DEF LoopHead

LEMMA StageKeepsIInv == IInv /\ StageStep => IInv'
<1> SUFFICES ASSUME IInv, StageStep PROVE IInv'
    OBVIOUS
<1> USE DEF IInv
<1>1. CASE Called
  <2>1. pc = "called" /\ child = "none" /\ work = "none"
        BY <1>1 DEF Called, ChildInv
  <2>2. LoopHead
        BY <1>1 DEF Called
  <2>3. outcome # "value"
        BY <2>1 DEF StageInv
  <2> QED BY <1>1, <2>1, <2>2, <2>3, HeadKeeps
          DEF Called, TypeOK, ChildInv, StageInv, ChildDone, Done
<1>2. CASE ResultArrives
  <2>1. child # "cancelled" /\ child \in Done
        BY <1>2 DEF ResultArrives, ChildInv, StageInv, ChildDone
  <2> QED BY <1>2, <2>1
          DEF ResultArrives, Leaves, TypeOK, ChildInv, StageInv, ChildDone, Done
<1>3. CASE WaitExpires
  <2>1. CASE LoopHead
        BY <1>3, <2>1, HeadKeeps
        DEF WaitExpires, TypeOK, ChildInv, StageInv, ChildDone, Done
  <2>2. CASE pc' = "beating" /\ UNCHANGED <<outcome, asked, timer>>
        BY <1>3, <2>2 DEF WaitExpires, TypeOK, ChildInv, StageInv, ChildDone, Done
  <2> QED BY <1>3, <2>1, <2>2 DEF WaitExpires
<1>4. CASE HeartbeatReturns
  <2>1. CASE LoopHead
        BY <1>4, <2>1, HeadKeeps
        DEF HeartbeatReturns, TypeOK, ChildInv, StageInv, ChildDone, Done
  <2>2. CASE Leaves("error")
        BY <1>4, <2>2
        DEF HeartbeatReturns, Leaves, TypeOK, ChildInv, StageInv, ChildDone, Done
  <2> QED BY <1>4, <2>1, <2>2 DEF HeartbeatReturns
<1>5. CASE CancelArrives
      BY <1>5 DEF CancelArrives, Leaves, TypeOK, ChildInv, StageInv, ChildDone, Done
<1>6. CASE Gathered
      BY <1>6 DEF Gathered, TypeOK, ChildInv, StageInv, ChildDone, Done
<1> QED BY <1>1, <1>2, <1>3, <1>4, <1>5, <1>6 DEF StageStep

LEMMA WorldKeepsIInv == IInv /\ (ChildStep \/ ThreadStep \/ Interrupt \/ Tick) => IInv'
<1> SUFFICES ASSUME IInv, ChildStep \/ ThreadStep \/ Interrupt \/ Tick PROVE IInv'
    OBVIOUS
<1> USE DEF IInv, TypeOK, ChildInv, StageInv, ChildDone, Done
<1>1. CASE ChildStarts
      BY <1>1 DEF ChildStarts
<1>2. CASE ChildEnds
      BY <1>2 DEF ChildEnds
<1>3. CASE ThreadStep
      BY <1>3 DEF ThreadStep
<1>4. CASE Interrupt
      BY <1>4 DEF Interrupt
<1>5. CASE Tick
      BY <1>5, TimeAssumption DEF Tick
<1> QED BY <1>1, <1>2, <1>3, <1>4, <1>5 DEF ChildStep

LEMMA StutterKeepsIInv == IInv /\ UNCHANGED vars => IInv'
BY DEF IInv, TypeOK, ChildInv, StageInv, ChildDone, Done, vars

LEMMA Invariance == Spec => []IInv
<1>1. IInv /\ [Next]_vars => IInv'
      BY StageKeepsIInv, WorldKeepsIInv, StutterKeepsIInv DEF Next
<1> QED BY InitIInv, <1>1, PTL DEF Spec

-----------------------------------------------------------------------------

\* For every deadline and heartbeat, the stage, its child and its thread are
\* always in one of their states, and the timer is never set past the deadline.
THEOREM TypesHold == Spec => []TypeOK
<1>1. IInv => TypeOK
      BY DEF IInv
<1> QED BY Invariance, <1>1, PTL

\* For every deadline and heartbeat, what the stage reports happened.
THEOREM OutcomesAreTrue == Spec => []OutcomeIsTrue
<1>1. IInv => OutcomeIsTrue
      BY DEF IInv, StageInv, OutcomeIsTrue
<1> QED BY Invariance, <1>1, PTL

\* For every deadline and heartbeat, no call of the stage is begun after it.
THEOREM NothingStartsLate == Spec => NoLateStart
<1>1. IInv /\ [Next]_vars => (pc = "ended" /\ work' = "running" => work = "running")
  <2> SUFFICES ASSUME IInv, [Next]_vars, pc = "ended", work' = "running"
               PROVE  work = "running"
      OBVIOUS
  <2>1. child \in Done /\ work # "queued"
        BY DEF IInv, ChildInv, ChildDone
  <2>2. CASE StageStep
        BY <2>2 DEF StageStep, Called, ResultArrives, WaitExpires, HeartbeatReturns,
                    CancelArrives, Gathered
  <2>3. CASE ChildStep
        BY <2>1, <2>3 DEF ChildStep, ChildStarts, ChildEnds, Done
  <2>4. CASE ThreadStep
        BY <2>1, <2>4 DEF ThreadStep
  <2>5. CASE Interrupt \/ Tick \/ UNCHANGED vars
        BY <2>5 DEF Interrupt, Tick, vars
  <2> QED BY <2>2, <2>3, <2>4, <2>5 DEF Next
<1>2. IInv /\ [Next]_vars => [pc = "ended" /\ work' = "running" => work = "running"]_vars
      BY <1>1
<1> QED BY Invariance, <1>2, PTL DEF Spec, NoLateStart
=============================================================================
