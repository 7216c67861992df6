---------------------------- MODULE GraphRunProofs ----------------------------
(***************************************************************************)
(* Proofs about GraphRun, for every set of nodes, every set of compiled    *)
(* definitions and every bound: the types, that an effect which must not   *)
(* be repeated is neither repeated nor forgotten, that results stay, and   *)
(* that GraphRun implements GraphPromise.  CompletedTruthful and NeverStuck*)
(* are the subject of GraphRoutingProofs; DrivenEnds is checked by TLC only.*)
(***************************************************************************)
EXTENDS GraphRun, TLAPS, FiniteSetTheorems

OnceNode == NonIdempotent(Node)

\* Only a boundary waits, so only it is accepted without an attempt.
Waiting == \A n \in Node : node[n] = "waiting" => def.kind[n] = "boundary"

\* started is TRUE wherever it is relied on.
Started ==
    /\ run.status \in {"running", "waiting", "interrupted"} => run.started
    /\ call.goal = "interrupted" => run.started
    /\ drive # "off" => run.started
    /\ Some({"failed"}) => run.started
    /\ run.status = "none" => \A n \in Node : node[n] \in {"ready", "pending"}

\* A method in progress belongs to a run that has not ended and to a Core that
\* is there; what it is about to do fits where it is.
Calls ==
    /\ call.pc # "idle" => run.status \in RunLive /\ core # "down"
    /\ call.pc = "terminalize" => call.goal \in {"failed", "cancelled"}
    /\ call.pc = "end" => call.goal \in {"interrupted", "manual"}
    /\ call.pc = "reset" => call.goal \in {"resumed", "restarted", "interrupted"}
    /\ call.pc = "unlock" => run.status = "running"
    /\ call.pc = "refresh" => call.goal = "none"
    /\ call.pc \notin {"terminalize", "reset", "unlock"} => call.at = {}
    /\ call.pc \in {"terminalize", "reset"} =>
          \A n \in call.at : node[n] = "running" /\ try[n].result # "running"

\* No task outlives the executor loop, so a recovery is alone with the rows.
Alone ==
    /\ drive # "on" \/ call.pc \in {"reset", "derive"} => Tasks = {}
    /\ core = "down" => drive = "off" /\ call.pc = "idle"

\* An open attempt is that of a running node; a node whose attempt is closed is
\* only met between the two transactions that close it, or after a crash there.
Attempts ==
    \A n \in Node :
        /\ try[n].result = "running" => node[n] = "running"
        /\ node[n] = "running" /\ try[n].result # "running" =>
              /\ run.status \in RunLive
              /\ \/ core = "down" \/ call.pc = "reset"
                 \/ call.pc = "terminalize" /\ n \in call.at

\* A node runs while the run does, or after it was given up to a person; none
\* is running once a recovery derives from the facts.
RunningHeld ==
    /\ Running # {} => run.status \in {"running", "manual"}
    /\ \/ call.pc = "derive"
       \/ call.pc = "propagate" /\ call.goal \in {"restarted", "resumed"}
       \/ call.pc = "end" /\ call.goal = "interrupted"
       => Running = {}

\* A node whose outcome is unknown, or that has failed, is on the mind of the
\* method in progress until the run says so.
Seen ==
    /\ run.status \in RunLive /\ core # "down" /\ Some({"manual"}) =>
          \/ call.pc \in {"terminalize", "reset"} /\ call.manual
          \/ call.pc = "end" /\ call.goal = "manual"
    /\ run.status \in RunLive /\ core # "down" /\ Some({"failed"}) =>
          \/ call.pc = "terminalize"
          \/ call.pc \in {"reset", "derive", "propagate"} /\ call.goal = "restarted"
    /\ run.status \in RunEnd /\ Some({"manual"}) => run.status = "manual"

\* Where an effect that must not be repeated may have happened, the rows say
\* so, and a task that may still have it is at an attempt marked started.
Effects ==
    \A n \in OnceNode :
        /\ effects[n] <= 1
        /\ effects[n] = 1 =>
              \/ node[n] \in {"succeeded", "manual"}
              \/ node[n] = "running" /\ try[n].effect \in {"started", "unknown"}
        /\ task[n] \in {"open", "marked", "cleared"} => effects[n] = 0
        /\ task[n] \in {"marked", "cleared", "acted"} =>
              \/ node[n] = "manual"
              \/ node[n] = "running" /\ try[n].effect \in {"started", "unknown"}

Inv == Waiting /\ Started /\ Calls /\ Alone /\ Attempts /\ RunningHeld /\ Seen /\ Effects
IInv == TypeOK /\ Inv

USE DEF Tasks, Running, RunEnd, RunLive, NodeActive, NodeOpen, NodeEnd, Up, rowVars, coreVars

LEMMA TasksFewer == ASSUME TypeOK, Tasks' \subseteq Tasks PROVE (Cardinality(Tasks) <= MaxParallel)'
  BY FS_Subset, FS_CardinalityType, GraphConstants DEF TypeOK, Tasks

LEMMA GotoCall == ASSUME NEW pc \in {"propagate", "refresh", "terminalize", "unlock", "end"},
                         NEW goal \in {"none", "resumed", "restarted", "interrupted"} \cup RunEnd, Goto(pc, goal)
                  PROVE call' \in Call /\ call' = [pc |-> pc, at |-> {}, manual |-> FALSE, goal |-> goal]
  BY DEF Goto, Call, Idle

LEMMA DefinitionType == ASSUME TypeOK PROVE def \in Definition
  BY GraphConstants DEF TypeOK

LEMMA DesiredIs ==
  ASSUME IInv, run.status \in RunLive
  PROVE /\ Desired \in RunLive \cup {"completed", "manual", "failed"}
        /\ Desired \in {"running", "waiting", "interrupted"} => run.started
        /\ Desired = "completed" => Settled
        /\ Desired \in RunLive => ~run.started \/ ~Some({"manual", "failed"})
        /\ Desired = "failed" => run.started /\ Some({"failed"}) /\ ~Some({"manual"})
        /\ Running # {} /\ run.started /\ Desired \notin {"manual", "failed"} => Desired = "running"
  BY DEF IInv, Inv, TypeOK, Started, Desired, Settled, Some

LEMMA SomeType == ASSUME NEW S PROVE Some(S) \in BOOLEAN
  BY DEF Some

LEMMA FailedIs ==
  ASSUME TypeOK, NEW n \in Node
  PROVE /\ FailedStatus(n) \in {"manual", "retry_wait", "skipped", "failed"}
        /\ FailedEffect(n) = "unknown" => FailedStatus(n) = "manual"
        /\ FailedEffect(n) \in {"none", "not_started", "started", "unknown"}
  BY DefinitionType DEF TypeOK, FailedStatus, FailedEffect, Definition, Policy

(***************************************************************************)
(* Every step keeps the invariant.  Each lemma is about one action; all of *)
(* the invariant and what it is made of is in use up to NextKeeps.         *)
(***************************************************************************)
USE DEF IInv, Inv, TypeOK, Waiting, Started, Calls, Alone, Attempts, RunningHeld, Seen, Effects,
        OnceNode, NonIdempotent, Some, Call, Idle, Definition

LEMMA RouteKeeps == ASSUME IInv, NEW n \in Node, Route(n) PROVE IInv'
<1>1. TypeOK'
  <2>1. (Cardinality(Tasks) <= MaxParallel)'
    BY TasksFewer DEF Route
  <2> QED BY <2>1 DEF Route, Routable
<1>2. Inv'
  BY DEF Route, Routable
<1> QED BY <1>1, <1>2

LEMMA CloseAttemptKeeps == ASSUME IInv, NEW n \in Node, CloseAttempt(n) PROVE IInv'
<1>1. TypeOK'
  <2>1. (Cardinality(Tasks) <= MaxParallel)'
    BY TasksFewer DEF CloseAttempt
  <2>2. call' \in Call
    BY DEF CloseAttempt, UnknownWrite
  <2>3. run' \in [status : {"none"} \cup RunLive \cup RunEnd, started : BOOLEAN]
    BY DEF CloseAttempt, UnknownWrite
  <2> QED BY <2>1, <2>2, <2>3 DEF CloseAttempt, UnknownWrite
<1>2. Inv'
  BY DEF CloseAttempt, First, Open, UnknownWrite
<1> QED BY <1>1, <1>2

LEMMA CloseNodeKeeps == ASSUME IInv, NEW n \in Node, CloseNode(n) PROVE IInv'
<1>1. TypeOK'
  <2>1. (Cardinality(Tasks) <= MaxParallel)'
    BY TasksFewer DEF CloseNode
  <2>2. call' \in Call
    BY DEF CloseNode
  <2>3. run' \in [status : {"none"} \cup RunLive \cup RunEnd, started : BOOLEAN]
    BY DEF CloseNode
  <2> QED BY <2>1, <2>2, <2>3 DEF CloseNode
<1>2. Inv'
  <2>1. Waiting'
    BY GraphConstants DEF CloseNode, First, Open, UnknownWrite
  <2>2. Started'
    BY GraphConstants DEF CloseNode, First, Open, UnknownWrite
  <2>3. Calls'
    BY GraphConstants DEF CloseNode, First, Open, UnknownWrite
  <2>4. Alone'
    BY GraphConstants DEF CloseNode, First, Open, UnknownWrite
  <2>5. Attempts'
    BY GraphConstants DEF CloseNode, First, Open, UnknownWrite
  <2>6. RunningHeld'
    BY GraphConstants DEF CloseNode, First, Open, UnknownWrite
  <2>7. Seen'
    BY GraphConstants DEF CloseNode, First, Open, UnknownWrite
  <2>8. Effects'
    BY GraphConstants DEF CloseNode, First, Open, UnknownWrite
  <2> QED BY <2>1, <2>2, <2>3, <2>4, <2>5, <2>6, <2>7, <2>8
<1> QED BY <1>1, <1>2

LEMMA ResetNodeKeeps == ASSUME IInv, NEW n \in Node, ResetNode(n) PROVE IInv'
<1>1. TypeOK'
  <2>1. (Cardinality(Tasks) <= MaxParallel)'
    BY TasksFewer DEF ResetNode
  <2> QED BY <2>1 DEF ResetNode, First, UnknownWrite
<1>2. Inv'
  <2>1. Waiting'
    BY GraphConstants DEF ResetNode, First, UnknownWrite
  <2>2. Started'
    BY GraphConstants DEF ResetNode, First, UnknownWrite
  <2>3. Calls'
    BY GraphConstants DEF ResetNode, First, UnknownWrite
  <2>4. Alone'
    BY GraphConstants DEF ResetNode, First, UnknownWrite
  <2>5. Attempts'
    BY GraphConstants DEF ResetNode, First, UnknownWrite
  <2>6. RunningHeld'
    BY GraphConstants DEF ResetNode, First, UnknownWrite
  <2>7. Seen'
    BY GraphConstants DEF ResetNode, First, UnknownWrite
  <2>8. Effects'
    BY GraphConstants DEF ResetNode, First, UnknownWrite
  <2> QED BY <2>1, <2>2, <2>3, <2>4, <2>5, <2>6, <2>7, <2>8
<1> QED BY <1>1, <1>2

LEMMA ForgetRoutingKeeps == ASSUME IInv, NEW n \in Node, ForgetRouting(n) PROVE IInv'
<1>1. TypeOK'
  <2>1. (Cardinality(Tasks) <= MaxParallel)'
    BY TasksFewer DEF ForgetRouting
  <2> QED BY <2>1 DEF ForgetRouting, First, Derived
<1>2. Inv'
  BY DEF ForgetRouting, First, Derived
<1> QED BY <1>1, <1>2

LEMMA UnlockKeeps == ASSUME IInv, NEW n \in Node, Unlock(n) PROVE IInv'
<1>1. TypeOK'
  <2>1. (Cardinality(Tasks) <= MaxParallel)'
    BY TasksFewer DEF Unlock
  <2> QED BY <2>1 DEF Unlock, Again, Rest, Old, First
<1>2. Inv'
  BY DEF Unlock, Again, Rest, Old, First
<1> QED BY <1>1, <1>2

LEMMA SettleKeeps == ASSUME IInv, Settle PROVE IInv'
<1>1. TypeOK'
  <2>1. (Cardinality(Tasks) <= MaxParallel)'
    BY TasksFewer DEF Settle
  <2>2. call' \in Call
    <3>1. CASE Return
      BY <3>1 DEF Return
    <3>2. CASE Goto("end", "interrupted")
      BY <3>2, GotoCall
    <3> QED BY <3>1, <3>2 DEF Settle
  <2>3. run' \in [status : {"none"} \cup RunLive \cup RunEnd, started : BOOLEAN]
    BY DesiredIs DEF Settle
  <2> QED BY <2>1, <2>2, <2>3 DEF Settle
<1>2. Inv'
  <2>1. Waiting'
    BY GotoCall, DesiredIs DEF Settle, Return, Settled
  <2>2. Started'
    BY GotoCall, DesiredIs DEF Settle, Return, Settled
  <2>3. Calls'
    BY GotoCall, DesiredIs DEF Settle, Return, Settled
  <2>4. Alone'
    BY GotoCall, DesiredIs DEF Settle, Return, Settled
  <2>5. Attempts'
    BY GotoCall, DesiredIs DEF Settle, Return, Settled
  <2>6. RunningHeld'
    <3>1. run.status \in RunLive /\ (Running # {} => run.started)
      BY DEF Settle
    <3>2. ASSUME Running # {} PROVE run'.status \in {"running", "manual"}
      <4>1. ~(call.pc = "propagate" /\ call.goal = "restarted")
        BY <3>2
      <4>2. ~Some({"failed"})
        BY <3>1, <4>1 DEF Settle
      <4>3. Desired \in {"running", "manual"}
        BY <3>1, <3>2, <4>2, DesiredIs
      <4> QED BY <4>3 DEF Settle
    <3>3. ASSUME call.goal = "restarted" PROVE call.pc = "propagate"
      BY <3>3 DEF Settle
    <3>4. \/ call' = Idle
          \/ call'.pc = "end" /\ call'.goal = "interrupted" /\ Running = {}
      BY <3>3, GotoCall DEF Settle, Return
    <3> QED BY <3>2, <3>4 DEF Settle
  <2>7. Seen'
    BY GotoCall, DesiredIs DEF Settle, Return, Settled
  <2>8. Effects'
    BY GotoCall, DesiredIs DEF Settle, Return, Settled
  <2> QED BY <2>1, <2>2, <2>3, <2>4, <2>5, <2>6, <2>7, <2>8
<1> QED BY <1>1, <1>2

LEMMA DeriveKeeps == ASSUME IInv, Derive PROVE IInv'
<1>1. TypeOK'
  <2>1. (Cardinality(Tasks) <= MaxParallel)'
    BY TasksFewer DEF Derive
  <2> QED BY <2>1 DEF Derive
<1>2. Inv'
  BY DEF Derive
<1> QED BY <1>1, <1>2

LEMMA RederiveKeeps == ASSUME IInv, Rederive PROVE IInv'
<1>1. TypeOK'
  <2>1. (Cardinality(Tasks) <= MaxParallel)'
    BY TasksFewer DEF Rederive
  <2> QED BY <2>1 DEF Rederive
<1>2. Inv'
  BY DEF Rederive
<1> QED BY <1>1, <1>2

LEMMA EndMethodKeeps == ASSUME IInv, EndMethod PROVE IInv'
<1>1. TypeOK'
  <2>1. (Cardinality(Tasks) <= MaxParallel)'
    BY TasksFewer DEF EndMethod
  <2>2. call' \in Call
    BY DEF EndMethod, Return
  <2>3. run' \in [status : {"none"} \cup RunLive \cup RunEnd, started : BOOLEAN]
    BY DEF EndMethod, Return
  <2> QED BY <2>1, <2>2, <2>3 DEF EndMethod, Return
<1>2. Inv'
  BY DEF EndMethod, Return, Open
<1> QED BY <1>1, <1>2

LEMMA UnlockedKeeps == ASSUME IInv, Unlocked PROVE IInv'
<1>1. TypeOK'
  <2>1. (Cardinality(Tasks) <= MaxParallel)'
    BY TasksFewer DEF Unlocked
  <2> QED BY <2>1 DEF Unlocked, Return
<1>2. Inv'
  BY DEF Unlocked, Return
<1> QED BY <1>1, <1>2

LEMMA LaunchKeeps == ASSUME IInv, NEW n \in Node, Launch(n) PROVE IInv'
<1>1. TypeOK'
  <2>0. IsFiniteSet(Tasks) /\ n \notin Tasks
    BY FS_Subset, GraphConstants DEF Launch
  <2>1. Cardinality(Tasks \cup {n}) = Cardinality(Tasks) + 1
    <3> HIDE DEF Tasks, IInv
    <3> QED BY <2>0, FS_AddElement
  <2>2. Cardinality(Tasks) \in Nat /\ Cardinality({m \in Node : node[m] = "ready" /\ m < n}) \in Nat
    BY FS_CardinalityType, FS_Subset, GraphConstants
  <2>3. Tasks' \subseteq Tasks \cup {n} /\ IsFiniteSet(Tasks \cup {n})
    BY FS_Subset, GraphConstants DEF Launch
  <2>4. Cardinality(Tasks') <= Cardinality(Tasks \cup {n}) /\ Cardinality(Tasks') \in Nat
    BY <2>3, FS_Subset, FS_CardinalityType
  <2>5. (Cardinality(Tasks) <= MaxParallel)'
    BY <2>1, <2>2, <2>4, GraphConstants DEF Launch, Chosen
  <2> QED BY <2>5 DEF Launch
<1>2. Inv'
  BY DEF Launch
<1> QED BY <1>1, <1>2

LEMMA StartAttemptKeeps == ASSUME IInv, NEW n \in Node, StartAttempt(n) PROVE IInv'
<1>1. TypeOK'
  <2>1. (Cardinality(Tasks) <= MaxParallel)'
    BY TasksFewer DEF StartAttempt
  <2> QED BY <2>1 DEF StartAttempt
<1>2. Inv'
  <2>1. Waiting'
    BY DEF StartAttempt
  <2>2. Started'
    BY DEF StartAttempt
  <2>3. Calls'
    BY DEF StartAttempt
  <2>4. Alone'
    BY DEF StartAttempt
  <2>5. Attempts'
    BY DEF StartAttempt
  <2>6. RunningHeld'
    BY DEF StartAttempt
  <2>7. Seen'
    BY DEF StartAttempt
  <2>8. Effects'
    <3> SUFFICES ASSUME NEW m \in OnceNode' PROVE Effects!(m)'
      OBVIOUS
    <3>1. m \in OnceNode /\ m \in Node /\ effects'[m] = effects[m] /\ effects[m] \in Nat
      BY DEF StartAttempt
    <3>2. CASE m # n
      BY <3>1, <3>2 DEF StartAttempt
    <3>3. CASE m = n
      <4>1. effects[m] = 0
        <5> HIDE DEF TypeOK, Calls, Attempts, Seen
        <5> QED BY <3>1, <3>3 DEF StartAttempt
      <4>2. task'[m] = "open"
        <5> HIDE DEF Inv
        <5> QED BY <3>1, <3>3 DEF StartAttempt
      <4> QED BY <3>1, <4>1, <4>2
    <3> QED BY <3>2, <3>3
  <2> QED BY <2>1, <2>2, <2>3, <2>4, <2>5, <2>6, <2>7, <2>8
<1> QED BY <1>1, <1>2

LEMMA MarkStartedKeeps == ASSUME IInv, NEW n \in Node, MarkStarted(n) PROVE IInv'
<1>1. TypeOK'
  <2>1. (Cardinality(Tasks) <= MaxParallel)'
    BY TasksFewer DEF MarkStarted
  <2> QED BY <2>1 DEF MarkStarted, Attempted
<1>2. Inv'
  BY DEF MarkStarted, Attempted
<1> QED BY <1>1, <1>2

LEMMA DispatchKeeps == ASSUME IInv, NEW n \in Node, Dispatch(n) PROVE IInv'
<1>1. TypeOK'
  <2>1. (Cardinality(Tasks) <= MaxParallel)'
    BY TasksFewer DEF Dispatch
  <2> QED BY <2>1 DEF Dispatch
<1>2. Inv'
  BY DEF Dispatch
<1> QED BY <1>1, <1>2

LEMMA ActKeeps == ASSUME IInv, NEW n \in Node, Act(n) PROVE IInv'
<1>1. TypeOK'
  <2>1. (Cardinality(Tasks) <= MaxParallel)'
    BY TasksFewer DEF Act
  <2> QED BY <2>1 DEF Act
<1>2. Inv'
  BY DEF Act
<1> QED BY <1>1, <1>2

LEMMA FailKeeps == ASSUME IInv, NEW n \in Node, Fail(n) PROVE IInv'
<1>1. TypeOK'
  <2>1. (Cardinality(Tasks) <= MaxParallel)'
    BY TasksFewer DEF Fail, Leave
  <2> QED BY <2>1, GotoCall, FailedIs DEF Fail, Completes, Attempted, Leave
<1>2. Inv'
  <2>1. Waiting'
    BY GotoCall, FailedIs DEF Fail, Completes, Attempted, Leave
  <2>2. Started'
    BY GotoCall, FailedIs DEF Fail, Completes, Attempted, Leave
  <2>3. Calls'
    BY GotoCall, FailedIs DEF Fail, Completes, Attempted, Leave
  <2>4. Alone'
    BY GotoCall, FailedIs DEF Fail, Completes, Attempted, Leave
  <2>5. Attempts'
    BY GotoCall, FailedIs DEF Fail, Completes, Attempted, Leave
  <2>6. RunningHeld'
    BY GotoCall, FailedIs DEF Fail, Completes, Attempted, Leave
  <2>7. Seen'
    BY GotoCall, FailedIs DEF Fail, Completes, Attempted, Leave
  <2>8. Effects'
    <3> SUFFICES ASSUME NEW m \in OnceNode' PROVE Effects!(m)'
      OBVIOUS
    <3>1. m \in OnceNode /\ effects'[m] = effects[m] /\ m \in Node
      BY DEF Fail
    <3>2. CASE m # n
      BY <3>1, <3>2 DEF Fail, Attempted, Leave
    <3>3. CASE m = n /\ task[n] \in {"open", "marked"}
      BY <3>1, <3>3, FailedIs DEF Fail, Attempted, Leave
    <3>4. CASE m = n /\ task[n] \in {"cleared", "acted"}
      <4>1. FailedStatus(n) = "manual"
        BY <3>1, <3>4, FailedIs DEF FailedEffect
      <4> QED BY <3>1, <3>4, <4>1 DEF Fail, Attempted, Leave
    <3>5. task[n] \in {"open", "marked", "cleared", "acted"}
      BY DEF Fail
    <3> QED BY <3>2, <3>3, <3>4, <3>5
  <2> QED BY <2>1, <2>2, <2>3, <2>4, <2>5, <2>6, <2>7, <2>8
<1> QED BY <1>1, <1>2

LEMMA GiveUpKeeps == ASSUME IInv, NEW n \in Node, GiveUp(n) PROVE IInv'
<1>1. TypeOK'
  <2>1. (Cardinality(Tasks) <= MaxParallel)'
    BY TasksFewer DEF GiveUp, Leave
  <2> QED BY <2>1 DEF GiveUp, Leave
<1>2. Inv'
  BY DEF GiveUp, Leave
<1> QED BY <1>1, <1>2

LEMMA SucceedKeeps == ASSUME IInv, NEW n \in Node, NEW o \in def.branches[n], Succeed(n, o) PROVE IInv'
<1>1. TypeOK'
  <2>1. (Cardinality(Tasks) <= MaxParallel)'
    BY TasksFewer DEF Succeed, Leave
  <2> QED BY <2>1, DefinitionType, GotoCall DEF Succeed, Completes, Attempted, Leave
<1>2. Inv'
  BY DefinitionType, GotoCall DEF Succeed, Completes, Attempted, Leave
<1> QED BY <1>1, <1>2

LEMMA DecideKeeps == ASSUME IInv, NEW n \in Node, NEW o \in def.branches[n], Decide(n, o) PROVE IInv'
<1>1. TypeOK'
  <2>1. (Cardinality(Tasks) <= MaxParallel)'
    BY TasksFewer DEF Decide
  <2> QED BY <2>1, DefinitionType, GotoCall DEF Decide, Controls, Result
<1>2. Inv'
  BY DefinitionType, GotoCall, GraphConstants, Compiled DEF Decide, Controls, Result
<1> QED BY <1>1, <1>2

LEMMA AcceptKeeps == ASSUME IInv, NEW n \in Node, NEW o \in def.branches[n], Accept(n, o) PROVE IInv'
<1>1. TypeOK'
  <2>1. (Cardinality(Tasks) <= MaxParallel)'
    BY TasksFewer DEF Accept
  <2> QED BY <2>1, DefinitionType, GotoCall DEF Accept, Waits, Result
<1>2. Inv'
  BY DefinitionType, GotoCall, GraphConstants, Compiled DEF Accept, Waits, Result
<1> QED BY <1>1, <1>2

LEMMA ExitKeeps == ASSUME IInv, NEW n \in Node, NEW o \in def.branches[n], Exit(n, o) PROVE IInv'
<1>1. TypeOK'
  <2>1. (Cardinality(Tasks) <= MaxParallel)'
    BY TasksFewer DEF Exit
  <2> QED BY <2>1, DefinitionType, GotoCall DEF Exit, Advances, Controls, Result
<1>2. Inv'
  BY DefinitionType, GotoCall, GraphConstants, Compiled DEF Exit, Advances, Controls, Result
<1> QED BY <1>1, <1>2

LEMMA EnterKeeps == ASSUME IInv, NEW n \in Node, Enter(n) PROVE IInv'
<1>1. TypeOK'
  <2>1. (Cardinality(Tasks) <= MaxParallel)'
    BY TasksFewer DEF Enter
  <2> QED BY <2>1, GotoCall DEF Enter, Controls
<1>2. Inv'
  BY GotoCall DEF Enter, Controls
<1> QED BY <1>1, <1>2

LEMMA RefuseKeeps == ASSUME IInv, NEW n \in Node, Refuse(n) PROVE IInv'
<1>1. TypeOK'
  <2>1. (Cardinality(Tasks) <= MaxParallel)'
    BY TasksFewer DEF Refuse
  <2> QED BY <2>1, GotoCall DEF Refuse, Waits
<1>2. Inv'
  BY GotoCall DEF Refuse, Waits
<1> QED BY <1>1, <1>2

LEMMA TimeoutKeeps == ASSUME IInv, NEW n \in Node, Timeout(n) PROVE IInv'
<1>1. TypeOK'
  <2>1. (Cardinality(Tasks) <= MaxParallel)'
    BY TasksFewer DEF Timeout
  <2> QED BY <2>1, DefinitionType, GotoCall DEF Timeout, Waits, Result
<1>2. Inv'
  BY GotoCall DEF Timeout, Waits, Result
<1> QED BY <1>1, <1>2

LEMMA DoubtKeeps == ASSUME IInv, NEW n \in Node, Doubt(n) PROVE IInv'
<1>1. TypeOK'
  <2>1. (Cardinality(Tasks) <= MaxParallel)'
    BY TasksFewer DEF Doubt
  <2> QED BY <2>1 DEF Doubt, Waits
<1>2. Inv'
  BY DEF Doubt, Waits
<1> QED BY <1>1, <1>2

LEMMA LimitKeeps == ASSUME IInv, NEW n \in Node, Limit(n) PROVE IInv'
<1>1. TypeOK'
  <2>1. (Cardinality(Tasks) <= MaxParallel)'
    BY TasksFewer DEF Limit
  <2> QED BY <2>1, DefinitionType, GotoCall DEF Limit, Advances, Controls, Result
<1>2. Inv'
  BY GotoCall DEF Limit, Advances, Controls, Result
<1> QED BY <1>1, <1>2

LEMMA RepeatKeeps == ASSUME IInv, NEW n \in Node, Repeat(n) PROVE IInv'
<1>1. TypeOK'
  <2>1. (Cardinality(Tasks) <= MaxParallel)'
    BY TasksFewer DEF Repeat
  <2>2. call' = [pc |-> "unlock", at |-> {n}, manual |-> FALSE, goal |-> "none"]
    <3> HIDE DEF IInv
    <3> QED BY DEF Repeat
  <2>3. call' \in Call
    <3> HIDE DEF IInv
    <3> QED BY <2>2
  <2> QED BY <2>1, <2>3 DEF Repeat, Advances, Controls
<1>2. Inv'
  BY DEF Repeat, Advances, Controls
<1> QED BY <1>1, <1>2

LEMMA CreateKeeps == ASSUME IInv, Create PROVE IInv'
<1>1. TypeOK'
  <2>1. (Cardinality(Tasks) <= MaxParallel)'
    BY TasksFewer DEF Create
  <2> QED BY <2>1 DEF Create
<1>2. Inv'
  <2>1. Waiting'
    BY DEF Create
  <2>2. Started'
    BY DEF Create
  <2>3. Calls'
    BY DEF Create
  <2>4. Alone'
    BY DEF Create
  <2>5. Attempts'
    BY DEF Create
  <2>6. RunningHeld'
    BY DEF Create
  <2>7. Seen'
    BY DEF Create
  <2>8. Effects'
    BY DEF Create
  <2> QED BY <2>1, <2>2, <2>3, <2>4, <2>5, <2>6, <2>7, <2>8
<1> QED BY <1>1, <1>2

LEMMA StartRunKeeps == ASSUME IInv, StartRun PROVE IInv'
<1>1. TypeOK'
  <2>1. (Cardinality(Tasks) <= MaxParallel)'
    BY TasksFewer DEF StartRun
  <2> QED BY <2>1 DEF StartRun
<1>2. Inv'
  BY DEF StartRun
<1> QED BY <1>1, <1>2

LEMMA DriveKeeps == ASSUME IInv, Drive PROVE IInv'
<1>1. TypeOK'
  <2>1. (Cardinality(Tasks) <= MaxParallel)'
    BY TasksFewer DEF Drive
  <2> HIDE DEF Some
  <2> QED BY <2>1, SomeType DEF Drive
<1>2. Inv'
  BY DEF Drive
<1> QED BY <1>1, <1>2

LEMMA UndriveKeeps == ASSUME IInv, Undrive PROVE IInv'
<1>1. TypeOK'
  <2>1. (Cardinality(Tasks) <= MaxParallel)'
    BY TasksFewer DEF Undrive
  <2> QED BY <2>1 DEF Undrive
<1>2. Inv'
  BY DEF Undrive
<1> QED BY <1>1, <1>2

LEMMA FailRunKeeps == ASSUME IInv, FailRun PROVE IInv'
<1>1. TypeOK'
  <2>1. (Cardinality(Tasks) <= MaxParallel)'
    BY TasksFewer DEF FailRun
  <2> QED BY <2>1, GotoCall DEF FailRun
<1>2. Inv'
  BY GotoCall DEF FailRun
<1> QED BY <1>1, <1>2

LEMMA DeadlineKeeps == ASSUME IInv, Deadline PROVE IInv'
<1>1. TypeOK'
  <2>1. (Cardinality(Tasks) <= MaxParallel)'
    BY TasksFewer DEF Deadline
  <2> HIDE DEF Some
  <2> QED BY <2>1, SomeType DEF Deadline
<1>2. Inv'
  BY DEF Deadline
<1> QED BY <1>1, <1>2

LEMMA ExpireKeeps == ASSUME IInv, Expire PROVE IInv'
<1>1. TypeOK'
  <2>1. (Cardinality(Tasks) <= MaxParallel)'
    BY TasksFewer DEF Expire
  <2> QED BY <2>1, GotoCall DEF Expire
<1>2. Inv'
  BY GotoCall DEF Expire
<1> QED BY <1>1, <1>2

LEMMA CancelKeeps == ASSUME IInv, Cancel PROVE IInv'
<1>1. TypeOK'
  <2>1. (Cardinality(Tasks) <= MaxParallel)'
    BY TasksFewer DEF Cancel
  <2> QED BY <2>1, GotoCall DEF Cancel, Cancellable
<1>2. Inv'
  BY GotoCall DEF Cancel, Cancellable
<1> QED BY <1>1, <1>2

LEMMA StartupKeeps == ASSUME IInv, Startup PROVE IInv'
<1>1. TypeOK'
  <2>1. (Cardinality(Tasks) <= MaxParallel)'
    BY TasksFewer DEF Startup
  <2>2. call' \in Call
    <3> HIDE DEF Inv, Some
    <3> QED BY SomeType DEF Startup
  <2> QED BY <2>1, <2>2, GraphConstants DEF Startup
<1>2. Inv'
  BY DEF Startup
<1> QED BY <1>1, <1>2

LEMMA ShutdownKeeps == ASSUME IInv, Shutdown PROVE IInv'
<1>1. TypeOK'
  <2>1. (Cardinality(Tasks) <= MaxParallel)'
    BY TasksFewer DEF Shutdown
  <2> HIDE DEF Some
  <2> QED BY <2>1, SomeType DEF Shutdown
<1>2. Inv'
  BY DEF Shutdown
<1> QED BY <1>1, <1>2

LEMMA GoneKeeps == ASSUME IInv, Gone PROVE IInv'
<1>1. TypeOK'
  <2>1. (Cardinality(Tasks) <= MaxParallel)'
    BY TasksFewer DEF Gone
  <2> QED BY <2>1 DEF Gone, Return
<1>2. Inv'
  BY DEF Gone, Return
<1> QED BY <1>1, <1>2

LEMMA InitKeeps == ASSUME Init PROVE IInv
<1>1. Tasks = {} /\ Cardinality(Tasks) = 0
  BY FS_EmptySet DEF Init
<1>2. TypeOK
  BY <1>1, GraphConstants DEF Init, NoTry
<1>3. Inv
  BY <1>1, <1>2 DEF Init, NoTry
<1> QED BY <1>2, <1>3

LEMMA NextKeeps == ASSUME IInv, [Next]_vars PROVE IInv'
<1>1. CASE UNCHANGED vars
  BY <1>1 DEF vars
<1>2. CASE Next
  <2> HIDE DEF IInv
  <2> QED BY <1>2, RouteKeeps, CloseAttemptKeeps, CloseNodeKeeps, ResetNodeKeeps, ForgetRoutingKeeps,
       UnlockKeeps, SettleKeeps, DeriveKeeps, RederiveKeeps, EndMethodKeeps,
       UnlockedKeeps, LaunchKeeps, StartAttemptKeeps, MarkStartedKeeps, DispatchKeeps, ActKeeps,
       FailKeeps, GiveUpKeeps, SucceedKeeps, DecideKeeps, AcceptKeeps,
       ExitKeeps, EnterKeeps, RefuseKeeps, TimeoutKeeps, DoubtKeeps,
       LimitKeeps, RepeatKeeps, CreateKeeps, StartRunKeeps, DriveKeeps,
       UndriveKeeps, FailRunKeeps, DeadlineKeeps, ExpireKeeps, CancelKeeps,
       StartupKeeps, ShutdownKeeps, GoneKeeps DEF Next
<1> QED BY <1>1, <1>2

HIDE DEF IInv, Inv, TypeOK, Waiting, Started, Calls, Alone, Attempts, RunningHeld, Seen, Effects,
         OnceNode, NonIdempotent, Some, Call, Idle, Definition
-----------------------------------------------------------------------------
\* The inductive invariant holds in every behaviour.
THEOREM Inductive == Spec => []IInv
<1>1. Init => IInv
  BY InitKeeps
<1>2. IInv /\ [Next]_vars => IInv'
  BY NextKeeps
<1> QED BY <1>1, <1>2, PTL DEF Spec

\* Every variable keeps its type, and never more than MaxParallel tasks of the
\* executor are there at a time.
THEOREM TypeCorrect == Spec => []TypeOK
<1>1. IInv => TypeOK
  BY DEF IInv
<1> QED BY <1>1, Inductive, PTL

\* A non-idempotent node takes effect at most once in an occurrence, however
\* often the Core dies and the run is resumed.
THEOREM OnceOnly == Spec => []EffectOnce
<1>1. IInv => EffectOnce
  BY DEF IInv, Inv, Effects, EffectOnce, OnceNode, NonIdempotent
<1> QED BY <1>1, Inductive, PTL

LEMMA KnownWhenEnded ==
  ASSUME IInv, run.status \in {"completed", "failed", "cancelled"}
  PROVE /\ Running = {} /\ ~Some({"manual"})
        /\ \A n \in OnceNode : effects[n] > 0 => node[n] = "succeeded"
<1>1. Running = {} /\ ~Some({"manual"})
  BY DEF IInv, Inv, RunningHeld, Seen
<1>2. ASSUME NEW n \in OnceNode, effects[n] > 0 PROVE effects[n] = 1 /\ n \in Node
  BY <1>2 DEF IInv, TypeOK, Inv, Effects, OnceNode, NonIdempotent
<1> QED BY <1>1, <1>2 DEF IInv, Inv, Effects, Some

\* A run that is completed, failed or cancelled has no open attempt, and every
\* effect that must not be repeated is recorded; an unknown one ends a run as
\* manual_reconcile_required.
THEOREM NothingForgotten == Spec => []UnknownHeld
<1>1. ASSUME IInv PROVE UnknownHeld
  BY <1>1, KnownWhenEnded DEF IInv, Inv, Attempts, Effects, UnknownHeld, OnceNode, NonIdempotent, Some
<1> QED BY <1>1, Inductive, PTL

\* No step but a new iteration of a loop takes a result back.
THEOREM ResultsStay == Spec => ResultStays
<1> DEFINE Stays(n) == \/ node'[n] = node[n]
                       \/ node[n] \in NodeOpen
                       \/ node[n] = "skipped" /\ out[n] = {} /\ try[n].result # "failed"
                       \/ call.pc = "unlock"
<1>1. ASSUME TypeOK, [Next]_vars, NEW n \in Node PROVE Stays(n)
  <2>1. ASSUME NEW m \in Node,
               Route(m) \/ CloseNode(m) \/ ResetNode(m) \/ ForgetRouting(m) \/ Unlock(m)
        PROVE Stays(n)
    BY <1>1, <2>1 DEF TypeOK, Route, Routable, CloseNode, ResetNode, ForgetRouting, Derived,
       Unlock, First,
         Open
  <2>2. ASSUME NEW m \in Node,
               StartAttempt(m) \/ Fail(m) \/ Enter(m) \/ Refuse(m) \/ Timeout(m) \/ Limit(m) \/ Repeat(m)
        PROVE Stays(n)
    BY <1>1, <2>2 DEF TypeOK, StartAttempt, Fail, Completes, Enter, Refuse, Timeout, Waits,
       Limit, Repeat,
         Advances, Controls, Result
  <2>3. ASSUME NEW m \in Node, NEW o, Succeed(m, o) \/ Decide(m, o) \/ Accept(m, o) \/ Exit(m, o)
        PROVE Stays(n)
    BY <1>1, <2>3 DEF TypeOK, Succeed, Completes, Decide, Accept, Waits, Exit, Advances,
       Controls, Result
  <2>4. ASSUME NEW m \in Node,
               CloseAttempt(m) \/ Launch(m) \/ MarkStarted(m) \/ Dispatch(m) \/ Act(m) \/ GiveUp(m) \/ Doubt(m)
        PROVE Stays(n)
    BY <2>4 DEF CloseAttempt, Launch, MarkStarted, Dispatch, Act, GiveUp, Doubt
  <2>5. CASE \/ UNCHANGED vars \/ Settle \/ Derive \/ Rederive \/ EndMethod \/ Unlocked
             \/ Create \/ StartRun \/ Drive \/ Undrive \/ FailRun \/ Deadline \/ Expire \/ Cancel
             \/ Startup \/ Shutdown \/ Gone
    BY <2>5 DEF vars, Settle, Derive, Rederive, EndMethod, Unlocked, Create, StartRun, Drive, Undrive,
         FailRun, Deadline, Expire, Cancel, Startup, Shutdown, Gone
  <2> HIDE DEF Stays
  <2> QED BY <1>1, <2>1, <2>2, <2>3, <2>4, <2>5 DEF Next
<1>2. TypeOK /\ [Next]_vars => [\A n \in Node : Stays(n)]_vars
  BY <1>1
<1> QED BY <1>2, TypeCorrect, PTL DEF Spec, ResultStays
-----------------------------------------------------------------------------
(***************************************************************************)
(* GraphRun implements GraphPromise: every step of the one is a step of    *)
(* the other, or one that those who started the run cannot see.            *)
(***************************************************************************)
Entered == {n \in OnceNode : effects[n] > 0}
KnownNodes == {n \in OnceNode : node[n] = "succeeded"}

\* What is seen of a step
Unseen == RunStatus' = RunStatus /\ Entered' = Entered /\ KnownNodes' = KnownNodes
Promises == [Promised!Next]_(Promised!vars)

LEMMA UnseenPromises == ASSUME Unseen PROVE Promises
  BY DEF Unseen, Promises, Promised!vars, Entered, KnownNodes, OnceNode

LEMMA MovePromises ==
  ASSUME run.status \in RunLive, run'.status \in {"running", "waiting", "interrupted"},
         Entered' = Entered, KnownNodes' = KnownNodes
  PROVE Promises
  BY DEF Promises, Promised!Next, Promised!Move, Promised!Live, Entered, KnownNodes, OnceNode, RunStatus

LEMMA EndPromises ==
  ASSUME run.status \in RunLive,
         \/ run'.status \in {"completed", "failed", "cancelled"} /\ Entered \subseteq KnownNodes
         \/ run'.status = "manual",
         Entered' = Entered, KnownNodes' = KnownNodes
  PROVE Promises
  BY DEF Promises, Promised!Next, Promised!End, Promised!Live, Promised!Known, Entered,
     KnownNodes, OnceNode,
       RunStatus

\* A node that is not succeeded before a step nor after it
LEMMA OtherNode ==
  ASSUME TypeOK, NEW n \in Node, NEW s, n \in OnceNode => node[n] # "succeeded" /\ s # "succeeded",
         node' = [node EXCEPT ![n] = s], def' = def
  PROVE KnownNodes' = KnownNodes
  BY DEF TypeOK, KnownNodes, OnceNode, NonIdempotent

LEMMA SameEntered == ASSUME effects' = effects, def' = def PROVE Entered' = Entered
  BY DEF Entered, OnceNode, NonIdempotent

LEMMA SameKnown == ASSUME node' = node, def' = def PROVE KnownNodes' = KnownNodes
  BY DEF KnownNodes, OnceNode, NonIdempotent

LEMMA SameStatus == ASSUME run' = run PROVE RunStatus' = RunStatus
  BY DEF RunStatus

\* Steps of which nothing is seen: tasks, attempts, and methods on their way
LEMMA HiddenPromises ==
  ASSUME IInv,
         \/ \E n \in Node : CloseAttempt(n) \/ Launch(n) \/ MarkStarted(n) \/ Dispatch(n) \/ GiveUp(n)
         \/ Derive \/ Rederive \/ Unlocked \/ Undrive \/ FailRun \/ Deadline \/ Expire \/ Cancel
         \/ Startup \/ Shutdown \/ Gone
  PROVE Promises
<1>1. run' = run /\ node' = node /\ effects' = effects /\ def' = def
  BY DEF CloseAttempt, Launch, MarkStarted, Dispatch, GiveUp, Derive, Rederive, Unlocked,
     Undrive, FailRun, Deadline,
       Expire, Cancel, Startup, Shutdown, Gone
<1> QED BY <1>1, UnseenPromises, SameEntered, SameKnown, SameStatus DEF Unseen

\* A node changes, but neither to a success nor from one.
LEMMA RoutingPromises ==
  ASSUME IInv, NEW n \in Node,
         \/ Route(n) \/ CloseNode(n) \/ ResetNode(n) \/ ForgetRouting(n) \/ StartAttempt(n) \/ Fail(n)
         \/ Enter(n) \/ Refuse(n) \/ Timeout(n) \/ Limit(n) \/ Repeat(n)
  PROVE Promises
<1>1. run' = run /\ effects' = effects /\ def' = def
  <2>1. CASE Route(n) \/ CloseNode(n) \/ ResetNode(n) \/ ForgetRouting(n) \/ StartAttempt(n) \/ Fail(n)
    BY <2>1 DEF Route, CloseNode, ResetNode, ForgetRouting, StartAttempt, Fail
  <2>2. CASE Enter(n) \/ Refuse(n) \/ Timeout(n) \/ Limit(n) \/ Repeat(n)
    BY <2>2 DEF Enter, Refuse, Timeout, Limit, Repeat, Result
  <2> QED BY <2>1, <2>2
<1>2. KnownNodes' = KnownNodes
  <2>1. CASE Route(n)
    BY <2>1, OtherNode DEF IInv, Route, Routable
  <2>2. CASE CloseNode(n)
    BY <2>2, OtherNode DEF IInv, CloseNode, First, Open
  <2>3. CASE ResetNode(n)
    BY <2>3, OtherNode DEF IInv, ResetNode, First
  <2>4. CASE ForgetRouting(n)
    BY <2>4, OtherNode DEF IInv, ForgetRouting, Derived, First
  <2>5. CASE StartAttempt(n)
    BY <2>5, OtherNode DEF IInv, StartAttempt
  <2>6. CASE Fail(n)
    BY <2>6, OtherNode, FailedIs DEF IInv, Fail, Completes
  <2>7. CASE Enter(n)
    BY <2>7, OtherNode DEF IInv, Enter, Controls
  <2>8. CASE Refuse(n)
    BY <2>8, OtherNode DEF IInv, Refuse, Waits
  <2>9. CASE Timeout(n)
    BY <2>9, OtherNode DEF IInv, Timeout, Waits, Result
  <2>10. CASE Limit(n)
    BY <2>10, OtherNode DEF IInv, Limit, Advances, Controls, Result
  <2>11. CASE Repeat(n)
    BY <2>11, OtherNode DEF IInv, Repeat, Advances, Controls
  <2> QED BY <2>1, <2>2, <2>3, <2>4, <2>5, <2>6, <2>7, <2>8, <2>9, <2>10, <2>11
<1> QED BY <1>1, <1>2, UnseenPromises, SameEntered, SameStatus DEF Unseen

\* A control node or a boundary succeeds: it is no node whose effect counts.
LEMMA ControlPromises ==
  ASSUME IInv, NEW n \in Node, NEW o, Decide(n, o) \/ Accept(n, o) \/ Exit(n, o)
  PROVE Promises
<1>1. n \notin OnceNode
  BY Compiled, GraphConstants DEF IInv, Inv, Waiting, TypeOK, Decide, Accept, Exit, Advances, Controls,
       Waits, OnceNode, NonIdempotent
<1>2. KnownNodes' = KnownNodes
  BY <1>1, OtherNode DEF IInv, Decide, Accept, Exit, Result
<1> QED BY <1>2, UnseenPromises, SameEntered, SameStatus DEF Unseen, Decide, Accept, Exit

LEMMA ActPromises == ASSUME IInv, NEW n \in Node, Act(n) PROVE Promises
<1>1. KnownNodes' = KnownNodes /\ RunStatus' = RunStatus
  BY SameKnown, SameStatus DEF Act
<1>2. CASE n \notin OnceNode
  BY <1>1, <1>2, UnseenPromises DEF IInv, TypeOK, Act, Unseen, Entered, OnceNode, NonIdempotent
<1>3. CASE n \in OnceNode
  <2>1. effects[n] = 0 /\ node[n] \in {"manual", "running"}
    BY <1>3 DEF IInv, Inv, Effects, Act
  <2>2. run.status \in {"running", "manual"}
    BY <2>1 DEF IInv, Inv, TypeOK, RunningHeld, Seen, Started, Act, Some
  <2>3. Entered' = Entered \cup {n} /\ n \notin Entered \cup KnownNodes
    BY <1>3, <2>1 DEF IInv, TypeOK, Act, Entered, KnownNodes, OnceNode, NonIdempotent
  <2> QED BY <1>1, <2>2, <2>3 DEF Promises, Promised!Next, Promised!Enter, Entered, KnownNodes,
             OnceNode,
       RunStatus
<1> QED BY <1>2, <1>3

LEMMA SucceedPromises == ASSUME IInv, NEW n \in Node, NEW o, Succeed(n, o) PROVE Promises
<1>1. Entered' = Entered /\ RunStatus' = RunStatus
  BY SameEntered, SameStatus DEF Succeed
<1>2. CASE n \notin OnceNode
  BY <1>1, <1>2, UnseenPromises, OtherNode DEF IInv, Succeed, Unseen
<1>3. CASE n \in OnceNode
  <2>1. KnownNodes' = KnownNodes \cup {n} /\ n \notin KnownNodes /\ RunStatus = "running"
    BY <1>3 DEF IInv, TypeOK, Succeed, Completes, KnownNodes, OnceNode, NonIdempotent, RunStatus
  <2> QED BY <1>1, <2>1 DEF Promises, Promised!Next, Promised!Know, Entered, KnownNodes, OnceNode
<1> QED BY <1>2, <1>3

LEMMA UnlockPromises == ASSUME IInv, NEW n \in Node, Unlock(n) PROVE Promises
<1>1. run' = run /\ def' = def /\ run.status = "running"
  BY DEF Unlock, IInv, Inv, Calls
<1>2. CASE n \in KnownNodes
  <2>1. KnownNodes' = KnownNodes \ {n} /\ Entered' = Entered \ {n} /\ n \in OnceNode
    BY <1>2 DEF Unlock, IInv, TypeOK, KnownNodes, Entered, OnceNode, NonIdempotent
  <2> QED BY <1>1, <1>2, <2>1 DEF Promises, Promised!Next, Promised!Repeat, Entered,
             KnownNodes, OnceNode,
       NonIdempotent, RunStatus
<1>3. CASE n \notin KnownNodes
  <2>1. n \in OnceNode => node[n] \in {"skipped", "failed", "pending"}
    BY <1>3 DEF Unlock, Rest, Again, Old, First, KnownNodes, OnceNode, NonIdempotent
  <2>2. n \in OnceNode => effects[n] = 0
    <3>1. effects[n] \in Nat /\ (n \in OnceNode => effects[n] <= 1 /\ effects[n] # 1)
      BY <2>1 DEF IInv, Inv, TypeOK, Effects
    <3> QED BY <3>1
  <2>3. KnownNodes' = KnownNodes /\ Entered' = Entered
    BY <2>1, <2>2 DEF Unlock, IInv, TypeOK, KnownNodes, Entered, OnceNode, NonIdempotent
  <2> QED BY <1>1, <2>3, UnseenPromises, SameStatus DEF Unseen
<1> QED BY <1>2, <1>3

\* Where a run is about to be said to be over, every effect is known.
LEMMA KnownNow ==
  ASSUME IInv, Running = {}, ~Some({"manual"}) PROVE Entered \subseteq KnownNodes
<1>1. ASSUME NEW n \in Entered PROVE n \in OnceNode /\ n \in Node /\ effects[n] = 1
  BY DEF IInv, TypeOK, Inv, Effects, Entered, OnceNode, NonIdempotent
<1> QED BY <1>1 DEF IInv, Inv, Effects, KnownNodes, Some

LEMMA SettlePromises == ASSUME IInv, Settle PROVE Promises
<1>1. Entered' = Entered /\ KnownNodes' = KnownNodes
  BY SameEntered, SameKnown DEF Settle
<1>2. run.status \in RunLive /\ run'.status = Desired
  BY DEF IInv, TypeOK, Inv, Calls, Settle
<1>3. CASE Desired = "completed"
  <2>1. Running = {} /\ ~Some({"manual"})
    BY <1>2, <1>3, DesiredIs DEF Settled, Some
  <2> QED BY <1>1, <1>2, <1>3, <2>1, KnownNow, EndPromises
<1>4. CASE Desired = "manual"
  BY <1>1, <1>2, <1>4, EndPromises
<1>5. CASE Desired = "failed"
  <2>1. Some({"failed"}) /\ ~Some({"manual"})
    BY <1>2, <1>5, DesiredIs
  <2>2. call.pc = "propagate" /\ call.goal = "restarted"
    BY <1>2, <2>1 DEF IInv, Inv, Calls, Seen, Settle
  <2> QED BY <1>1, <1>2, <1>5, <2>1, <2>2, KnownNow, EndPromises DEF IInv, Inv, RunningHeld
<1>6. CASE Desired \in {"running", "waiting", "interrupted"}
  BY <1>1, <1>2, <1>6, MovePromises
<1>7. CASE Desired = "created"
  <2>1. run.status = "created"
    BY <1>2, <1>7, DesiredIs DEF IInv, Inv, Started, Desired, Settled, Some
  <2> QED BY <1>1, <1>2, <1>7, <2>1, UnseenPromises DEF Unseen, RunStatus
<1> QED BY <1>2, <1>3, <1>4, <1>5, <1>6, <1>7, DesiredIs

LEMMA EndMethodPromises == ASSUME IInv, EndMethod PROVE Promises
<1>1. Entered' = Entered /\ KnownNodes' = KnownNodes /\ run.status \in RunLive
  BY SameEntered, SameKnown DEF IInv, Inv, Calls, EndMethod
<1>2. run'.status = IF call.manual THEN "manual" ELSE call.goal
  BY DEF IInv, TypeOK, EndMethod
<1>3. CASE run'.status = "manual"
  BY <1>1, <1>3, EndPromises
<1>4. CASE run'.status = "interrupted"
  BY <1>1, <1>4, MovePromises
<1>5. CASE run'.status \notin {"manual", "interrupted"}
  <2>1. call.pc = "terminalize" /\ ~call.manual /\ call.goal \in {"failed", "cancelled"} /\ Open = {}
    BY <1>2, <1>5 DEF IInv, Inv, Calls, EndMethod
  <2>2. Running = {} /\ ~Some({"manual"})
    BY <1>1, <2>1 DEF Open, IInv, Inv, Seen, Calls
  <2> QED BY <1>1, <1>2, <2>1, <2>2, KnownNow, EndPromises
<1> QED BY <1>3, <1>4, <1>5

\* The run is created, started, taken up, or given up for a merge of unknown outcome.
LEMMA StatusPromises ==
  ASSUME IInv, Create \/ StartRun \/ Drive \/ \E n \in Node : Doubt(n) PROVE Promises
<1>1. Entered' = Entered /\ KnownNodes' = KnownNodes
  BY SameEntered, SameKnown DEF Create, StartRun, Drive, Doubt
<1>2. CASE Create
  BY <1>1, <1>2 DEF IInv, TypeOK, Create, Promises, Promised!Next, Promised!Create, Entered, KnownNodes,
       OnceNode, RunStatus
<1>3. CASE StartRun
  BY <1>1, <1>3, MovePromises DEF StartRun
<1>4. CASE Drive /\ run.status = "created"
  BY <1>1, <1>4, MovePromises DEF Drive
<1>5. CASE Drive /\ run.status # "created"
  BY <1>1, <1>5, UnseenPromises, SameStatus DEF Drive, Unseen
<1>6. CASE \E n \in Node : Doubt(n)
  BY <1>1, <1>6, EndPromises DEF IInv, TypeOK, Doubt, Waits
<1> QED BY <1>2, <1>3, <1>4, <1>5, <1>6

LEMMA NextPromises == ASSUME IInv, [Next]_vars PROVE Promises
<1>1. CASE UNCHANGED vars
  BY <1>1, UnseenPromises, SameEntered, SameKnown, SameStatus DEF vars, Unseen
<1>2. CASE Next
  BY <1>2, HiddenPromises, RoutingPromises, ControlPromises, ActPromises, SucceedPromises,
     UnlockPromises,
       SettlePromises, EndMethodPromises, StatusPromises DEF Next
<1> QED BY <1>1, <1>2

\* The run keeps its promise to those who started it, step by step.
THEOREM KeepsPromise == Spec => Promise
<1>1. Init => Promised!Init
  BY DEF Init, Promised!Init, RunStatus, NonIdempotent
<1>2. IInv /\ [Next]_vars => Promises
  BY NextPromises
<1> QED BY <1>1, <1>2, Inductive, PTL DEF Spec, Promise, Promised!Spec, Promises
=============================================================================
