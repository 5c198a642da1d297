---------------------------- MODULE CaptureProof ----------------------------
(***************************************************************************)
(* Theorems of Capture for every set of tasks.                             *)
(***************************************************************************)
EXTENDS Capture, TLAPS

\* The states between calls: the diagram's three, with the code's values of the
\* two words, and the one after a start() that could not create its task.
Documented ==
  caller = "idle" /\ ~hasty =>
    \/ Uninitialised /\ ~table
    \/ Ready
    \/ Capturing /\ isRun = 1
    \/ Taskless

Idle == Uninitialised \/ Ready

Started == (Capturing \/ Taskless) /\ isRun = 1

\* The state of the manager at each label, while no stop() has been hasty.
Orderly ==
  /\ caller = "idle" => Idle \/ Started
  /\ caller = "initRun" => (Uninitialised \/ (Capturing /\ isRun = 1)) /\ isExit = 0
  /\ caller = "scan" => Uninitialised
  /\ caller = "initDone" => table /\ Uninitialised
  /\ caller \in {"uninitRun", "startRun"} => Ready \/ Started
  /\ caller \in {"uninit", "start"} => Ready
  /\ caller = "create" => table /\ isRun = 1 /\ isExit = 1 /\ Alive = {}
  /\ caller = "stopRun" => (Uninitialised \/ (Capturing /\ isRun = 1)) /\ isExit = 0
  /\ caller = "stop" => (Ready \/ Started) /\ ~Starting
  /\ caller = "wait" =>
       table /\ isRun = 0 /\ ~Starting /\ isExit = IF Alive = {} THEN 1 ELSE 0
  /\ caller = "stopped" => Idle

\* One task at most, which leaves its loop only when stop() waits for it.
Single ==
  /\ \A t, u \in Alive : t = u
  /\ \A t \in Task : task[t] = "exit" => caller = "wait"

IInv == TypeOK /\ (~hasty => Orderly /\ Single)

----------------------------------------------------------------------------
USE DEF IInv, TypeOK, Orderly, Single, Idle, Uninitialised, Ready, Capturing,
  Taskless, Started, Alive, Starting, Label, InStop, Stage, flags, Step, Move

LEMMA InitIInv == Init => IInv
BY DEF Init

LEMMA CallStep == ASSUME IInv, Calls PROVE IInv'
<1>1. CASE InitCall \/ InitRun \/ InitFail \/ InitScan \/ InitDone
  <2>1. CASE InitCall
    BY <2>1 DEF InitCall
  <2>2. CASE InitRun
    BY <2>2 DEF InitRun
  <2>3. CASE InitFail
    <3>1. table' \in BOOLEAN
      BY <2>3, Zenon DEF InitFail
    <3>2. ~table => table' = FALSE
      BY <2>3, Zenon DEF InitFail
    <3>3. TypeOK'
      BY <2>3, <3>1 DEF InitFail
    <3>4. (~hasty => Orderly /\ Single)'
      BY <2>3, <3>2 DEF InitFail
    <3>5. QED  BY <3>3, <3>4
  <2>4. CASE InitScan
    BY <2>4 DEF InitScan
  <2>5. CASE InitDone
    BY <2>5 DEF InitDone
  <2>6. QED  BY <1>1, <2>1, <2>2, <2>3, <2>4, <2>5
<1>2. CASE UninitCall \/ UninitRun \/ Uninit
  <2>1. CASE UninitCall
    BY <2>1 DEF UninitCall
  <2>2. CASE UninitRun
    BY <2>2 DEF UninitRun
  <2>3. CASE Uninit
    BY <2>3 DEF Uninit
  <2>4. QED  BY <1>2, <2>1, <2>2, <2>3
<1>3. CASE StartCall \/ StartRun \/ StartSet \/ CreateFail
  BY <1>3 DEF StartCall, StartRun, StartSet, CreateFail
<1>4. ASSUME NEW t \in Task, Create(t) PROVE IInv'
  BY <1>4 DEF Create
<1>5. CASE StopCall
  BY <1>5 DEF StopCall
<1>6. CASE Stopping \/ StopReturn
  BY <1>6 DEF Stopping, StopRun, StopSet, StopWait, StopReturn
<1>7. QED
  BY <1>1, <1>2, <1>3, <1>4, <1>5, <1>6 DEF Calls

LEMMA RunStep == ASSUME IInv, NEW t \in Task, Run(t) PROVE IInv'
<1>1. CASE TaskFail(t)
  BY <1>1 DEF TaskFail
<1>2. CASE TaskReady(t)
  BY <1>2 DEF TaskReady
<1>3. CASE TaskLoop(t)
  BY <1>3 DEF TaskLoop
<1>4. CASE TaskRecv(t)
  BY <1>4 DEF TaskRecv
<1>5. CASE TaskExit(t)
  BY <1>5 DEF TaskExit
<1>6. QED
  BY <1>1, <1>2, <1>3, <1>4, <1>5 DEF Run

LEMMA StepIInv == IInv /\ [Next]_vars => IInv'
<1> SUFFICES ASSUME IInv, [Next]_vars PROVE IInv'
  OBVIOUS
<1>1. CASE UNCHANGED vars
  BY <1>1 DEF vars
<1>2. CASE Next
  <2> HIDE DEF IInv
  <2> QED  BY <1>2, CallStep, RunStep DEF Next
<1>3. QED  BY <1>1, <1>2

----------------------------------------------------------------------------
\* What the argument keeps true at every label.
THEOREM Invariance == Spec => []IInv
<1> HIDE DEF IInv
<1> QED  BY InitIInv, StepIInv, PTL DEF Spec

\* Every variable keeps its type.
THEOREM Typing == Spec => []TypeOK
BY Invariance, PTL DEF IInv

\* Of a program that never calls app_capture_stop() while a task is starting the
\* diagram above app_capture_init() names every state but one; the words have the
\* values the code gives them, isExit = 0 while a task captures.
THEOREM BetweenCalls == Spec => []Documented
<1>1. IInv => Documented
  BY DEF Documented
<1> HIDE DEF IInv
<1>2. QED  BY <1>1, Invariance, PTL

\* For such a program one task captures at a time, and app_capture_stop()
\* returns when it is gone.
THEOREM Alone == Spec => []OneTask
<1>1. IInv => OneTask
  BY DEF OneTask
<1> HIDE DEF IInv
<1>2. QED  BY <1>1, Invariance, PTL

----------------------------------------------------------------------------
(* The diagram.                                                            *)

\* Every step of a call is an arrow of the diagram, a call or a return of one,
\* or nothing to it.
LEMMA CallArrow ==
  ASSUME IInv, IInv', Calls
  PROVE  [Diagram!Next]_<<State, InCall>>
<1> USE DEF State, InCall, Diagram!Next, Diagram!Begin, Diagram!Return,
      Diagram!Arrow, Diagram!Initialise, Diagram!Uninitialise, Diagram!Start,
      Diagram!StartFails,
      Diagram!Stop, Diagram!Leave, Diagram!Astray, Diagram!Call
<1>1. CASE InitCall
  BY <1>1 DEF InitCall
<1>2. CASE InitRun
  BY <1>2 DEF InitRun
<1>3. CASE InitFail
  BY <1>3 DEF InitFail
<1>4. CASE InitScan
  BY <1>4 DEF InitScan
<1>5. CASE InitDone
  BY <1>5 DEF InitDone
<1>6. CASE UninitCall
  BY <1>6 DEF UninitCall
<1>7. CASE UninitRun
  BY <1>7 DEF UninitRun
<1>8. CASE Uninit
  BY <1>8 DEF Uninit
<1>9. CASE StartCall
  BY <1>9 DEF StartCall
<1>10. CASE StartRun
  BY <1>10 DEF StartRun
<1>11. CASE StartSet
  BY <1>11 DEF StartSet
<1>12. CASE CreateFail
  BY <1>12 DEF CreateFail
<1>13. CASE StopCall
  <2>1. InCall = "none" /\ InCall' = "stop"
    BY <1>13 DEF StopCall
  <2>2. CASE hasty
    <3>1. State = "astray" /\ State' = "astray"
      BY <1>13, <2>2 DEF StopCall
    <3>2. QED  BY <2>1, <3>1
  <2>3. CASE ~hasty /\ ~Starting
    <3>1. /\ ~hasty' /\ (Ready' <=> Ready)
          /\ (Capturing' <=> Capturing) /\ (Taskless' <=> Taskless)
      BY <1>13, <2>3 DEF StopCall
    <3>2. Uninitialised' <=> Uninitialised
      BY <1>13, <2>3 DEF StopCall
    <3>3. State' = State
      BY <2>3, <3>1, <3>2 DEF State
    <3>4. QED  BY <2>1, <3>3
  <2>4. CASE ~hasty /\ Starting
    <3>1. Capturing /\ State' = "astray"
      BY <1>13, <2>4 DEF StopCall
    <3>2. State = "capturing"
      BY <2>4, <3>1
    <3>3. QED  BY <2>1, <3>1, <3>2
  <2>5. QED  BY <2>2, <2>3, <2>4
<1>14. CASE StopRun
  BY <1>14 DEF StopRun
<1>15. CASE StopSet
  BY <1>15 DEF StopSet
<1>16. CASE StopWait
  BY <1>16 DEF StopWait
<1>17. CASE StopReturn
  BY <1>17 DEF StopReturn
<1>18. ASSUME NEW t \in Task, Create(t) PROVE [Diagram!Next]_<<State, InCall>>
  BY <1>18 DEF Create
<1>19. QED
  BY <1>1, <1>2, <1>3, <1>4, <1>5, <1>6, <1>7, <1>8, <1>9, <1>10, <1>11,
     <1>12, <1>13, <1>14, <1>15, <1>16, <1>17, <1>18 DEF Calls, Stopping

\* So is every step of a task: one that fails leaves a capture, one that is
\* waited for ends it.
LEMMA TaskArrow ==
  ASSUME IInv, IInv', NEW t \in Task, Run(t)
  PROVE  [Diagram!Next]_<<State, InCall>>
<1> USE DEF State, InCall, Diagram!Next, Diagram!Fail, Diagram!Arrow,
      Diagram!Stop, Diagram!Astray, Diagram!Call
<1>1. CASE TaskFail(t)
  BY <1>1 DEF TaskFail
<1>2. CASE TaskReady(t)
  BY <1>2 DEF TaskReady
<1>3. CASE TaskLoop(t)
  BY <1>3 DEF TaskLoop
<1>4. CASE TaskRecv(t)
  BY <1>4 DEF TaskRecv
<1>5. CASE TaskExit(t)
  BY <1>5 DEF TaskExit
<1>6. QED  BY <1>1, <1>2, <1>3, <1>4, <1>5 DEF Run

\* The capture implements the state diagram, for every set of tasks: in no call
\* is the table freed under a task, none is left when stop() returns, and only
\* stop() ends the state without a task that a failed start() leaves, unless a
\* stop() met a task that was starting.
THEOREM Refinement == Spec => ImplementsDiagram
<1>1. Init => Diagram!Init
  BY DEF Init, Diagram!Init, State, InCall
<1>2. IInv /\ IInv' /\ [Next]_vars => [Diagram!Next]_<<State, InCall>>
  <2>1. ASSUME UNCHANGED vars PROVE UNCHANGED <<State, InCall>>
    BY <2>1 DEF vars, State, InCall
  <2> HIDE DEF IInv
  <2>2. QED  BY <2>1, CallArrow, TaskArrow DEF Next
<1> HIDE DEF IInv
<1>3. QED
  BY <1>1, <1>2, Invariance, PTL DEF Spec, ImplementsDiagram, Diagram!Spec
=============================================================================
