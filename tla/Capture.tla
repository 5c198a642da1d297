------------------------------ MODULE Capture ------------------------------
(***************************************************************************)
(* The packet capture of temp/app_capture.c: a program that calls init,    *)
(* uninit, start and stop in any order, from one thread, and the tasks     *)
(* that start creates. They share two words, isRun and isExit, without a   *)
(* lock. A call that is refused at its first test is not a step.           *)
(***************************************************************************)
EXTENDS Integers

\* The tasks that can be alive at once; it bounds how many start() can create.
CONSTANT Task

VARIABLES
  isRun, isExit,  \* of g_netManager
  table,          \* pNetIfInfo points to ifNum > 0 interfaces
  caller,         \* where the program is
  task,           \* where each task is
  hasty           \* stop() has been called before a task had begun to capture

flags == <<isRun, isExit>>
vars == <<flags, table, caller, task, hasty>>

InStop == {"stopRun", "stop", "wait"}

Label == InStop \cup
  {"idle", "initRun", "scan", "initDone", "uninitRun", "uninit",
   "startRun", "start", "create", "stopped"}

Stage == {"none", "new", "loop", "recv", "exit"}

TypeOK ==
  /\ isRun \in {0, 1} /\ isExit \in {0, 1}
  /\ table \in BOOLEAN /\ hasty \in BOOLEAN
  /\ caller \in Label
  /\ task \in [Task -> Stage]

Init ==
  /\ isRun = 0 /\ isExit = 0
  /\ table = FALSE
  /\ caller = "idle"
  /\ task = [t \in Task |-> "none"]
  /\ hasty = FALSE

\* The program goes from one label to the next.
Step(from, to) == caller = from /\ caller' = to

\* A task goes from one stage to the next.
Move(t, from, to) == task[t] = from /\ task' = [task EXCEPT ![t] = to]

Starting == \E t \in Task : task[t] = "new"

----------------------------------------------------------------------------
(* Slips the code avoids: each is the definition of the same name, less its *)
(* suffix, with one mistake. No action below uses them.                     *)

UninitRun_Unchecked ==
  /\ Step("uninitRun", "uninit")
  /\ UNCHANGED <<flags, table, task, hasty>>

StopWait_AtOnce ==
  /\ Step("wait", "stopped")
  /\ UNCHANGED <<flags, table, task, hasty>>

TaskExit_Silent(t) ==
  /\ Move(t, "exit", "none")
  /\ UNCHANGED <<flags, table, caller, hasty>>

----------------------------------------------------------------------------
(* app_capture_init                                                        *)

InitCall ==
  /\ isExit = 0
  /\ Step("idle", "initRun")
  /\ UNCHANGED <<flags, table, task, hasty>>

InitRun ==
  /\ Step("initRun", IF isRun = 0 THEN "scan" ELSE "idle")
  /\ UNCHANGED <<flags, table, task, hasty>>

\* No raw socket, no answer, or no interface: then ifNum has become 0.
InitFail ==
  /\ Step("scan", "idle")
  /\ table' \in {table, FALSE}
  /\ UNCHANGED <<flags, task, hasty>>

InitScan ==
  /\ Step("scan", "initDone")
  /\ table' = TRUE
  /\ UNCHANGED <<flags, task, hasty>>

InitDone ==
  /\ Step("initDone", "idle")
  /\ isExit' = 1
  /\ UNCHANGED <<isRun, table, task, hasty>>

----------------------------------------------------------------------------
(* app_capture_uninit                                                      *)

UninitCall ==
  /\ isExit = 1
  /\ Step("idle", "uninitRun")
  /\ UNCHANGED <<flags, table, task, hasty>>

UninitRun ==
  /\ Step("uninitRun", IF isRun = 0 THEN "uninit" ELSE "idle")
  /\ UNCHANGED <<flags, table, task, hasty>>

\* free() and memset() of the whole manager.
Uninit ==
  /\ Step("uninit", "idle")
  /\ isRun' = 0 /\ isExit' = 0
  /\ table' = FALSE
  /\ UNCHANGED <<task, hasty>>

----------------------------------------------------------------------------
(* app_capture_start                                                       *)

\* An interface of that name is in the table.
StartCall ==
  /\ table /\ isExit = 1
  /\ Step("idle", "startRun")
  /\ UNCHANGED <<flags, table, task, hasty>>

StartRun ==
  /\ Step("startRun", IF isRun = 0 THEN "start" ELSE "idle")
  /\ UNCHANGED <<flags, table, task, hasty>>

StartSet ==
  /\ Step("start", "create")
  /\ isRun' = 1
  /\ UNCHANGED <<isExit, table, task, hasty>>

Create(t) ==
  /\ Step("create", "idle")
  /\ Move(t, "none", "new")
  /\ UNCHANGED <<flags, table, hasty>>

\* isRun stays 1: only stop() can undo it.
CreateFail ==
  /\ Step("create", "idle")
  /\ UNCHANGED <<flags, table, task, hasty>>

----------------------------------------------------------------------------
(* app_capture_stop                                                        *)

StopCall ==
  /\ Step("idle", IF isExit = 0 THEN "stopRun" ELSE "stop")
  /\ hasty' = (hasty \/ Starting)
  /\ UNCHANGED <<flags, table, task>>

StopRun ==
  /\ Step("stopRun", IF isRun = 0 THEN "stopped" ELSE "stop")
  /\ UNCHANGED <<flags, table, task, hasty>>

StopSet ==
  /\ Step("stop", "wait")
  /\ isRun' = 0
  /\ UNCHANGED <<isExit, table, task, hasty>>

\* The loop looks once a second.
StopWait ==
  /\ isExit = 1
  /\ Step("wait", "stopped")
  /\ UNCHANGED <<flags, table, task, hasty>>

StopReturn ==
  /\ Step("stopped", "idle")
  /\ UNCHANGED <<flags, table, task, hasty>>

----------------------------------------------------------------------------
(* app_capture_task                                                        *)

\* No socket, or one that takes no timeout or cannot be bound; it is closed.
TaskFail(t) ==
  /\ Move(t, "new", "none")
  /\ isRun' = 0
  /\ UNCHANGED <<isExit, table, caller, hasty>>

TaskReady(t) ==
  /\ Move(t, "new", "loop")
  /\ isExit' = 0
  /\ UNCHANGED <<isRun, table, caller, hasty>>

TaskLoop(t) ==
  /\ Move(t, "loop", IF isRun = 0 THEN "exit" ELSE "recv")
  /\ UNCHANGED <<flags, table, caller, hasty>>

\* recvfrom() has a packet, which is printed, or ends after three seconds.
TaskRecv(t) ==
  /\ Move(t, "recv", IF isRun = 0 THEN "exit" ELSE "loop")
  /\ UNCHANGED <<flags, table, caller, hasty>>

\* The socket is closed and the task returns.
TaskExit(t) ==
  /\ Move(t, "exit", "none")
  /\ isExit' = 1
  /\ UNCHANGED <<isRun, table, caller, hasty>>

Run(t) == TaskFail(t) \/ TaskReady(t) \/ TaskLoop(t) \/ TaskRecv(t) \/ TaskExit(t)

Stopping == StopRun \/ StopSet \/ StopWait

Calls ==
  \/ InitCall \/ InitRun \/ InitFail \/ InitScan \/ InitDone
  \/ UninitCall \/ UninitRun \/ Uninit
  \/ StartCall \/ StartRun \/ StartSet \/ CreateFail \/ \E t \in Task : Create(t)
  \/ StopCall \/ Stopping \/ StopReturn

Next == Calls \/ \E t \in Task : Run(t)

Spec == Init /\ [][Next]_vars

\* A stop() that has begun goes on, and every task is scheduled: recvfrom() has
\* a timeout. Nothing makes the program call.
Fairness == WF_vars(Stopping) /\ \A t \in Task : WF_vars(Run(t))

FairSpec == Spec /\ Fairness

----------------------------------------------------------------------------
(* Properties                                                              *)

Alive == {t \in Task : task[t] # "none"}

\* The three states of the diagram, as the code has them. init() fills the table
\* first. While a task captures the code keeps isExit at 0, from TaskReady on;
\* the diagram writes isExit = 1 there, which is so only before the task is ready.
Uninitialised ==
  (table => caller = "initDone") /\ isExit = 0 /\ isRun = 0 /\ Alive = {}
Ready     == table /\ isExit = 1 /\ isRun = 0 /\ Alive = {}
Capturing == /\ table
             /\ \/ Alive # {}
                \/ caller = "create" /\ isRun = 1
             /\ isExit = IF Alive = {} \/ Starting THEN 1 ELSE 0

\* A state the diagram does not have: start() has failed to create its task.
Taskless == table /\ isExit = 1 /\ isRun = 1 /\ Alive = {} /\ caller # "create"

State == CASE hasty                   -> "astray"
           [] ~hasty /\ Uninitialised -> "uninitialised"
           [] ~hasty /\ Ready         -> "ready"
           [] ~hasty /\ Capturing     -> "capturing"
           [] ~hasty /\ Taskless      -> "taskless"
           [] OTHER                   -> "none of these"

InCall == CASE caller \in {"initRun", "scan", "initDone"} -> "init"
            [] caller \in {"uninitRun", "uninit"}         -> "uninit"
            [] caller \in {"startRun", "start", "create"} -> "start"
            [] caller \in InStop \cup {"stopped"}         -> "stop"
            [] OTHER                                      -> "none"

Diagram == INSTANCE CaptureDiagram WITH state <- State, call <- InCall

\* The manager is in one of the three states of the diagram above
\* app_capture_init() at every moment, in every call, and goes from one to the
\* other along its arrows or by a task that fails: the table is freed under no
\* task and stop() leaves none. Two things are not in the drawing: a start() that
\* fails to create its task leaves a fourth state, which only stop() ends; and
\* after a stop() that has met a starting task nothing is promised. The values of
\* isExit are the code's (see Capturing), not those written in the drawing.
ImplementsDiagram == Diagram!Spec

\* Without such a stop() no two tasks capture, and stop() returns when the task is gone.
OneTask ==
  ~hasty => /\ \A t, u \in Alive : t = u
            /\ caller = "stopped" => Alive = {}

\* stop() returns, though a task that starts late takes isExit away again.
StopReturns == (caller \in InStop) ~> (caller = "stopped")

\* stop() waits for the thread to exit.
StopWaitsForTask == caller = "stopped" => Alive = {}
=============================================================================
