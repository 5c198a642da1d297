--------------------------- MODULE CaptureDiagram ---------------------------
(***************************************************************************)
(* The state diagram above app_capture_init(), for one program whose calls *)
(* are its arrows. A call may be refused and then changes nothing; a task  *)
(* that fails takes the capture back to ready. The drawing has three       *)
(* states. The code has two more: "taskless", after a start() that could   *)
(* not create its task, and "astray", after a stop() that met a task still *)
(* starting; nothing is said of what comes after that one.                 *)
(***************************************************************************)

VARIABLES state, call

Call == {"none", "init", "uninit", "start", "stop"}

Init == state = "uninitialised" /\ call = "none"

Begin == call = "none" /\ call' \in Call /\ UNCHANGED state

\* A stop() that returns has left no capture behind.
Return ==
  /\ call' = "none"
  /\ call = "stop" => state \notin {"capturing", "taskless"}
  /\ UNCHANGED state

Arrow(c, from, to) == call = c /\ state = from /\ state' = to

Initialise   == Arrow("init", "uninitialised", "ready") /\ call' = "none"
Uninitialise == Arrow("uninit", "ready", "uninitialised") /\ call' = "none"
Start == Arrow("start", "ready", "capturing") /\ UNCHANGED call
StartFails == Arrow("start", "capturing", "taskless") /\ call' = "none"
Stop ==
  /\ \E s \in {"capturing", "taskless"} : Arrow("stop", s, "ready")
  /\ UNCHANGED call

\* Whatever the program is doing, except in stop().
Fail ==
  /\ call # "stop"
  /\ state = "capturing" /\ state' = "ready"
  /\ UNCHANGED call

Leave ==
  /\ call = "none" /\ call' = "stop"
  /\ state = "capturing" /\ state' = "astray"

\* Outside of the diagram.
Astray == state = "astray" /\ state' = "astray" /\ call' \in Call

Next ==
  \/ Begin \/ Return
  \/ Initialise \/ Uninitialise \/ Start \/ StartFails \/ Stop
  \/ Fail \/ Leave \/ Astray

Spec == Init /\ [][Next]_<<state, call>>
=============================================================================
