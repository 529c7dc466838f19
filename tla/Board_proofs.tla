---------------------------- MODULE Board_proofs ----------------------------
(***************************************************************************)
(* Proofs for Board, for any period, timeout, erase and reload value that  *)
(* satisfy its assumptions: the watchdog resets the board only after a     *)
(* fault or too many saves, the mutex keeps the HAL to one task, and the   *)
(* host is told of the last fault.                                         *)
(***************************************************************************)
EXTENDS Board, TLAPS

-----------------------------------------------------------------------------
(* Scheduling *)

\* The owner of the mutex is the task between i2c_take and i2c_give.
Mutex ==
    \A t \in Tasks : owner = t <=> pc[t] \in {"call", "io", "give"}

\* The HAL is ready unless the one that owns the mutex has a transaction going
\* on, or T:127 is half done.
HalInv ==
    State # "READY" => HalIsDown \/ \E t \in Tasks : owner = t /\ pc[t] = "io"

\* what control_task never does
ControlPlaces == pc["control"] \notin {"deinit", "init", "clear"}

\* The priorities of the tasks.
LEMMA Prios ==
    /\ Prio["control"] = 9 /\ Prio["serial"] = 6 /\ Prio["telemetry"] = 2
    /\ \A t \in Tasks : Prio[t] \in Nat /\ Prio[t] <= 9
    /\ \A t \in Tasks : Prio[t] = 9 => t = "control"
BY DEF Prio, Tasks

\* control_task has every priority there is.
LEMMA ControlReaches ==
    ASSUME NEW v \in Tasks
    PROVE  Reaches("control", Prio[v])
BY Prios DEF Reaches

\* A ready control_task runs, and nothing else does.
LEMMA ControlFirst ==
    ASSUME Ready("control"), stall = 0
    PROVE  /\ Runs("control")
           /\ \A t \in Tasks : Runs(t) => t = "control"
<1>1. "control" \in Tasks
  BY DEF Tasks
<1>2. ~Waits("control")
  BY DEF Ready
<1>3. ASSUME NEW u \in Tasks, u # "control"
      PROVE  ~Reaches(u, Prio["control"])
  BY <1>2, <1>3, Prios DEF Reaches
<1>4. Runs("control")
  BY <1>1, <1>3, ControlReaches DEF Runs
<1>5. ASSUME NEW t \in Tasks, t # "control" PROVE ~Runs(t)
  BY <1>1, <1>5, ControlReaches DEF Runs
<1> QED
  BY <1>4, <1>5

\* While control_task waits for the mutex its owner runs, and nothing else
\* does.
LEMMA OwnerFirst ==
    ASSUME Mutex, Waits("control"), stall = 0, owner \in Tasks
    PROVE  /\ Runs(owner) /\ Reaches(owner, Prio["control"])
           /\ \A t \in Tasks : Runs(t) => t = owner
<1>1. "control" \in Tasks /\ owner # "control"
  BY DEF Tasks, Waits
<1>2. Ready(owner)
  BY DEF Mutex, Ready, Waits
<1>3. \A v \in Tasks : Reaches(owner, Prio[v])
  BY <1>1, Prios DEF Reaches
<1>4. ASSUME NEW u \in Tasks, u # owner, Ready(u)
      PROVE  ~Reaches(u, Prio["control"])
  <2>1. u # "control"
    BY <1>4 DEF Ready
  <2> QED
    BY <1>4, <2>1, Prios DEF Reaches
<1>5. Runs(owner)
  BY <1>1, <1>2, <1>3, <1>4 DEF Runs
<1>6. ASSUME NEW t \in Tasks, t # owner PROVE ~Runs(t)
  BY <1>2, <1>3, <1>6 DEF Runs
<1> QED
  BY <1>1, <1>3, <1>5, <1>6

-----------------------------------------------------------------------------
(* The watchdog's clock, place by place of control_task *)

\* the latest that control_task may wake up after its last refresh
Allowed == Period + saves * EraseTicks

\* while it waits for the mutex, the owner has one transaction to finish
WhileWaiting ==
    pc["control"] = "take" =>
        /\ owner = "nobody" => wdt <= IoTimeout
        /\ owner \in Tasks =>
              /\ pc[owner] = "call" => wdt = 0
              /\ pc[owner] = "io" => wdt <= io
              /\ pc[owner] = "give" => wdt <= IoTimeout

\* ... and then it has its own
WhileReading ==
    /\ pc["control"] = "call" => wdt <= IoTimeout
    /\ pc["control"] = "io" => wdt <= IoTimeout + io
    /\ pc["control"] \in {"give", "run"} => wdt <= 2 * IoTimeout

WhileAsleep ==
    /\ pc["control"] # "sleep" => stall = 0
    /\ due > 0 => saves = MaxSaves \/ wdt + due + stall <= Allowed
    /\ pc["control"] = "sleep" /\ due <= 0 =>
          /\ stall = 0
          /\ saves = MaxSaves \/ wdt <= Allowed \/ wdt <= 2 * IoTimeout

BusInv ==
    /\ BusTypeOK /\ Mutex /\ HalInv /\ ControlPlaces
    /\ WhileWaiting /\ WhileReading /\ WhileAsleep

\* When another task runs, control_task is asleep or waits for that task.
LEMMA Preempted ==
    ASSUME BusInv, NEW t \in Others, Runs(t)
    PROVE  \/ pc["control"] = "sleep" /\ due > 0
           \/ pc["control"] = "take" /\ owner = t
<1>1. stall = 0 /\ t \in Tasks /\ t # "control" /\ "control" \in Tasks
  BY DEF Runs, Others, Tasks
<1>2. ~Ready("control")
  BY <1>1, ControlFirst
<1>3. CASE Waits("control")
  <2>1. owner \in Tasks
    BY <1>3 DEF Waits, BusInv, BusTypeOK
  <2>2. owner = t
    BY <1>1, <1>3, <2>1, OwnerFirst DEF BusInv
  <2> QED
    BY <1>3, <2>2 DEF Waits
<1>4. CASE ~Waits("control")
  <2>1. pc["control"] = "sleep" /\ ~(due <= 0)
    BY <1>2, <1>4 DEF Ready
  <2> QED
    BY <2>1 DEF BusInv, BusTypeOK
<1> QED
  BY <1>3, <1>4

\* Another task at a place where it does not own the mutex finds control_task
\* asleep.
LEMMA Undisturbed ==
    ASSUME BusInv, NEW t \in Others, Runs(t),
           pc[t] \notin {"call", "io", "give"}
    PROVE  pc["control"] = "sleep" /\ due > 0
<1>1. t \in Tasks
  BY DEF Others, Tasks
<1> QED
  BY <1>1, Preempted DEF BusInv, Mutex

\* The invariants of the mutex.
MutexInv == BusTypeOK /\ Mutex /\ HalInv /\ ControlPlaces

\* Every step of a task keeps them, Take and Give included.
LEMMA TaskMutex ==
    ASSUME MutexInv, NEW t \in Tasks,
           Take(t) \/ Call(t) \/ Return(t) \/ Give(t)
    PROVE  MutexInv'
<1> USE DEF MutexInv, At, Goto
<1>1. CASE Take(t)
  <2>1. owner \in {"nobody", t}
    BY <1>1 DEF Take, Runs, Ready, Waits
  <2>2. owner = "nobody" /\ owner \notin Tasks
    BY <1>1, <2>1 DEF Take, Mutex, Tasks
  <2>3. BusTypeOK'
    BY <1>1 DEF Take, BusTypeOK, Places
  <2>4. HalIsDown => HalIsDown'
    BY <1>1 DEF Take, HalIsDown, BusTypeOK, Tasks
  <2>5. HalInv'
    BY <1>1, <2>2, <2>4 DEF Take, HalInv
  <2> QED
    BY <1>1, <2>1, <2>2, <2>3, <2>5
    DEF Take, BusTypeOK, Mutex, ControlPlaces, Tasks
<1>2. CASE Call(t)
  <2>1. owner = t
    BY <1>2 DEF Call, Mutex
  <2>2. BusTypeOK'
    BY <1>2, BusAssumption DEF Call, BusTypeOK, Places
  <2>3. HalIsDown => HalIsDown'
    BY <1>2 DEF Call, HalIsDown, BusTypeOK, Tasks
  <2>4. HalInv'
    <3>1. CASE State = "READY"
      BY <1>2, <2>1, <3>1 DEF Call, HalInv, BusTypeOK
    <3>2. CASE State # "READY"
      BY <1>2, <2>1, <2>3, <3>2 DEF Call, HalInv
    <3> QED
      BY <3>1, <3>2
  <2>5. Mutex' /\ ControlPlaces'
    <3>1. PICK place \in {"io", "give"} : pc' = [pc EXCEPT ![t] = place]
      BY <1>2 DEF Call
    <3>2. owner' = owner /\ pc \in [Tasks -> Places] /\ pc[t] = "call"
      BY <1>2 DEF Call, BusTypeOK
    <3> QED
      BY <2>1, <3>1, <3>2 DEF Mutex, ControlPlaces
  <2> QED
    BY <2>2, <2>4, <2>5
<1>3. CASE Return(t)
  <2>1. BusTypeOK'
    BY <1>3, BusAssumption DEF Return, BusTypeOK, Places
  <2> QED
    BY <1>3, <2>1 DEF Return, BusTypeOK, Mutex, HalInv, HalIsDown,
      ControlPlaces
<1>4. CASE Give(t)
  <2>1. owner = t
    BY <1>4 DEF Give, Mutex
  <2>2. BusTypeOK' /\ owner' \notin Tasks
    BY <1>4 DEF Give, BusTypeOK, Places, Tasks
  <2>3. HalIsDown => HalIsDown'
    BY <1>4 DEF Give, HalIsDown, BusTypeOK, Tasks
  <2>4. HalInv'
    BY <1>4, <2>1, <2>3 DEF Give, HalInv
  <2> QED
    BY <1>4, <2>1, <2>2, <2>4 DEF Give, BusTypeOK, Mutex, ControlPlaces
<1> QED
  BY <1>1, <1>2, <1>3, <1>4

\* So does a step of a task that does not own the mutex.
LEMMA OtherMutex ==
    ASSUME MutexInv, NEW t \in Tasks, NEW place \in Places,
           pc[t] \notin {"call", "io", "give"},
           place \notin {"call", "io", "give"},
           t = "control" => place \notin {"deinit", "init", "clear"},
           Goto(t, place), UNCHANGED <<owner, io>>,
           \/ State' = State /\ (HalIsDown => HalIsDown')
           \/ State' = "READY" \/ HalIsDown',
           BusTypeOK'
    PROVE  MutexInv'
<1>1. Mutex' /\ ControlPlaces'
  BY DEF MutexInv, Goto, Mutex, ControlPlaces, BusTypeOK
<1>2. HalInv'
  BY DEF MutexInv, Goto, HalInv, BusTypeOK
<1> QED
  BY <1>1, <1>2 DEF MutexInv

\* T:127 is left half done by every step but its own.
LEMMA DownKept ==
    ASSUME BusTypeOK, NEW t \in Tasks, NEW place, Goto(t, place),
           t # "serial" \/ pc[t] # "init"
    PROVE  HalIsDown => HalIsDown'
BY DEF HalIsDown, Goto, BusTypeOK, Tasks

ClockInv == WhileWaiting /\ WhileReading /\ WhileAsleep

clock_vars == <<due, stall, saves, wdt>>

\* While control_task is asleep another task does what it likes.
LEMMA ClockAsleep ==
    ASSUME BusInv, NEW t \in Others, NEW place, Goto(t, place),
           pc["control"] = "sleep", due > 0, UNCHANGED clock_vars
    PROVE  ClockInv'
<1>1. pc'["control"] = "sleep" /\ due' > 0
  BY DEF Goto, Others, Tasks, BusInv, BusTypeOK, clock_vars
<1> QED
  BY <1>1
  DEF BusInv, ClockInv, WhileWaiting, WhileReading, WhileAsleep, Allowed,
      clock_vars

\* i2c_take to i2c_give in control_task.
LEMMA ClockOwn ==
    ASSUME BusInv, NEW t \in Tasks, t = "control",
           Take(t) \/ Call(t) \/ Return(t) \/ Give(t)
    PROVE  ClockInv'
<1> USE DEF At, Goto, BusInv, BusTypeOK, ClockInv, WhileWaiting, WhileReading,
            WhileAsleep, Allowed
<1> USE BusAssumption
<1>1. CASE Take(t)
  <2>1. owner = "nobody"
    BY <1>1 DEF Take, Runs, Ready, Waits, Mutex
  <2> QED
    BY <1>1, <2>1 DEF Take
<1>2. CASE Call(t)
  BY <1>2 DEF Call
<1>3. CASE Return(t)
  BY <1>3 DEF Return
<1>4. CASE Give(t)
  BY <1>4 DEF Give
<1> QED
  BY <1>1, <1>2, <1>3, <1>4

\* The same in another task, control_task asleep or waiting for it.
LEMMA ClockOther ==
    ASSUME BusInv, NEW t \in Others,
           Take(t) \/ Call(t) \/ Return(t) \/ Give(t)
    PROVE  ClockInv'
<1>1. t \in Tasks /\ t # "control" /\ Runs(t) /\ UNCHANGED clock_vars
  BY DEF Others, Tasks, Take, Call, Return, Give, At, clock_vars
<1>2. CASE pc["control"] = "sleep" /\ due > 0
  <2>1. \E place \in Places : Goto(t, place)
    BY DEF Take, Call, Return, Give, Places
  <2> QED
    BY <1>1, <1>2, <2>1, ClockAsleep
<1>3. CASE pc["control"] = "take" /\ owner = t
  <2>1. pc[t] \in {"call", "io", "give"}
    BY <1>1, <1>3 DEF BusInv, Mutex
  <2>2. WhileReading' /\ WhileAsleep'
    <3>1. \E place : pc' = [pc EXCEPT ![t] = place]
      BY DEF Take, Call, Return, Give, Goto
    <3>2. pc'["control"] = "take"
      BY <1>1, <1>3, <3>1 DEF BusInv, BusTypeOK
    <3> QED
      BY <1>1, <1>3, <3>2
      DEF BusInv, WhileReading, WhileAsleep, Allowed, clock_vars
  <2>3. WhileWaiting'
    <3> USE DEF At, Goto, BusInv, BusTypeOK, WhileWaiting, clock_vars
    <3>1. CASE Call(t)
      BY <1>1, <1>3, <3>1, BusAssumption DEF Call
    <3>2. CASE Return(t)
      BY <1>1, <1>3, <3>2, BusAssumption DEF Return
    <3>3. CASE Give(t)
      BY <1>1, <1>3, <3>3 DEF Give, Tasks
    <3> QED
      BY <2>1, <3>1, <3>2, <3>3 DEF Take
  <2> QED
    BY <2>2, <2>3 DEF ClockInv
<1> QED
  BY <1>1, <1>2, <1>3, Preempted

\* A task that leaves a delay has nothing to do with the mutex.
LEMMA ClockWake ==
    ASSUME BusInv, NEW t \in Others, Wake(t)
    PROVE  ClockInv'
<1>1. t \in Tasks /\ t # "control" /\ owner # t
  BY DEF Others, Tasks, Wake, BusInv, Mutex
<1>2. /\ pc'["control"] = pc["control"]
      /\ owner \in Tasks => pc'[owner] = pc[owner]
  BY <1>1 DEF Wake, Goto, BusInv, BusTypeOK
<1> QED
  BY <1>2
  DEF Wake, BusInv, ClockInv, WhileWaiting, WhileReading, WhileAsleep, Allowed

-----------------------------------------------------------------------------
(* The other steps of the tasks *)

\* control_task wakes up and refreshes the watchdog.
LEMMA BeginKeeps ==
    ASSUME BusInv, CycleBegins
    PROVE  BusInv'
<1>1. /\ stall = 0 /\ due <= 0 /\ pc["control"] = "sleep"
      /\ "control" \in Tasks /\ wdt' = 0 /\ due' = due + Period
      /\ saves' = 0 /\ Goto("control", "take")
      /\ UNCHANGED <<owner, State, io, stall>>
  BY DEF CycleBegins, At, Runs, Ready, Tasks
<1>2. BusTypeOK'
  BY <1>1, BusAssumption DEF BusInv, BusTypeOK, Goto, Places
<1>3. MutexInv'
  <2>1. HalIsDown => HalIsDown'
    BY <1>1, DownKept DEF BusInv
  <2> QED
    BY <1>1, <1>2, <2>1, OtherMutex DEF BusInv, MutexInv, Places
<1>4. pc'["control"] = "take"
  BY <1>1 DEF Goto, BusInv, BusTypeOK
<1>5. WhileWaiting' /\ WhileReading'
  BY <1>1, <1>2, <1>4, BusAssumption DEF WhileWaiting, WhileReading, BusTypeOK
<1>6. WhileAsleep'
  <2>1. Allowed' = Period
    BY <1>1, BusAssumption DEF Allowed
  <2> QED
    BY <1>1, <1>4, <2>1, BusAssumption DEF WhileAsleep, BusInv, BusTypeOK
<1> QED
  BY <1>3, <1>5, <1>6 DEF BusInv, MutexInv

\* ... and goes to sleep.
LEMMA EndKeeps ==
    ASSUME BusInv, CycleEnds
    PROVE  BusInv'
<1>1. /\ pc["control"] = "run" /\ "control" \in Tasks
      /\ Goto("control", "sleep")
      /\ UNCHANGED <<owner, State, io, due, stall, saves, wdt>>
  BY DEF CycleEnds, At, Tasks
<1>2. BusTypeOK'
  BY <1>1 DEF BusInv, BusTypeOK, Goto, Places
<1>3. MutexInv'
  <2>1. HalIsDown => HalIsDown'
    BY <1>1, DownKept DEF BusInv
  <2> QED
    BY <1>1, <1>2, <2>1, OtherMutex DEF BusInv, MutexInv, Places
<1>4. pc'["control"] = "sleep"
  BY <1>1 DEF Goto, BusInv, BusTypeOK
<1>5. WhileWaiting' /\ WhileReading' /\ WhileAsleep'
  BY <1>1, <1>4
  DEF BusInv, WhileWaiting, WhileReading, WhileAsleep, Allowed
<1> QED
  BY <1>3, <1>5 DEF BusInv, MutexInv

\* A step of another task that does not own the mutex, other than an erase.
LEMMA OtherKeeps ==
    ASSUME BusInv, NEW t \in Others, NEW place \in Places, Runs(t),
           pc[t] \notin {"call", "io", "give"},
           place \notin {"call", "io", "give"},
           Goto(t, place), UNCHANGED <<owner, io, clock_vars>>,
           \/ State' = State /\ pc[t] # "init"
           \/ State' = "READY"
           \/ State' = "RESET" /\ t = "serial" /\ place = "init"
    PROVE  BusInv'
<1>1. t \in Tasks /\ t # "control"
  BY DEF Others, Tasks
<1>2. BusTypeOK'
  BY DEF BusInv, BusTypeOK, Goto, clock_vars
<1>3. MutexInv'
  <2>1. pc[t] # "init" => (HalIsDown => HalIsDown')
    BY <1>1, DownKept DEF BusInv
  <2>2. t = "serial" /\ place = "init" => HalIsDown'
    BY <1>1 DEF BusInv, BusTypeOK, Goto, HalIsDown
  <2> QED
    BY <1>1, <1>2, <2>1, <2>2, OtherMutex DEF BusInv, MutexInv
<1>4. ClockInv'
  BY Undisturbed, ClockAsleep
<1> QED
  BY <1>3, <1>4 DEF BusInv, MutexInv, ClockInv

\* The erase of a sector, which control_task cannot have been due for.
LEMMA EraseKeeps ==
    ASSUME BusInv, Erase
    PROVE  BusInv'
<1>1. /\ pc["serial"] = "run" /\ Runs("serial") /\ "serial" \in Others
      /\ saves' = (IF saves < MaxSaves THEN saves + 1 ELSE saves)
      /\ stall' \in 1..EraseTicks
      /\ UNCHANGED <<pc, owner, State, io, due, wdt>>
  BY DEF Erase, At, Others
<1>2. pc["control"] = "sleep" /\ due > 0 /\ stall = 0
  BY <1>1, Undisturbed DEF Runs
<1>3. BusTypeOK'
  BY <1>1, BusAssumption DEF BusInv, BusTypeOK
<1>4. Mutex' /\ HalInv' /\ ControlPlaces' /\ WhileWaiting' /\ WhileReading'
  BY <1>1, <1>2
  DEF BusInv, Mutex, HalInv, HalIsDown, ControlPlaces, WhileWaiting,
      WhileReading
<1>5. /\ saves \in Nat /\ saves <= MaxSaves /\ MaxSaves \in Nat
      /\ EraseTicks \in Nat /\ Period \in Nat /\ wdt \in Nat /\ due \in Int
      /\ stall' \in Int /\ stall' <= EraseTicks
  BY <1>1, BusAssumption DEF BusInv, BusTypeOK
<1>9. pc'["control"] = "sleep" /\ due' > 0 /\ ~(due' <= 0)
  BY <1>1, <1>2, <1>5
<1>6. ASSUME saves = MaxSaves PROVE WhileAsleep'
  <2>1. saves' = MaxSaves
    BY <1>1, <1>5, <1>6
  <2> QED
    BY <1>1, <1>2, <1>9, <2>1 DEF WhileAsleep
<1>7. ASSUME saves < MaxSaves PROVE WhileAsleep'
  <2> DEFINE before == saves * EraseTicks
             after == (saves + 1) * EraseTicks
  <2>1. before \in Nat /\ after = before + EraseTicks
    BY <1>5
  <2>2. wdt + due <= Period + before
    <3>1. wdt + due + stall <= Period + before
      BY <1>2, <1>5, <1>7 DEF BusInv, WhileAsleep, Allowed
    <3> QED
      BY <1>2, <1>5, <3>1
  <2>3. Allowed' = Period + after
    BY <1>1, <1>7 DEF Allowed
  <2> HIDE DEF before, after
  <2>4. wdt + due + stall' <= Period + after
    <3>1. wdt + due \in Int
      BY <1>5
    <3>2. stall' \in Int /\ stall' <= EraseTicks
      BY <1>5
    <3>3. EraseTicks \in Nat /\ Period \in Nat
      BY <1>5
    <3> QED
      BY <2>1, <2>2, <3>1, <3>2, <3>3
  <2>5. wdt' + due' + stall' <= Allowed'
    BY <1>1, <2>3, <2>4
  <2> QED
    BY <1>1, <1>2, <1>9, <2>5 DEF WhileAsleep
<1>8. WhileAsleep'
  BY <1>5, <1>6, <1>7
<1> QED
  BY <1>3, <1>4, <1>8 DEF BusInv

\* Every step of the tasks keeps BusInv.
LEMMA StepKeeps ==
    ASSUME BusInv, BusStep
    PROVE  BusInv'
<1>1. ASSUME NEW t \in Tasks, Take(t) \/ Call(t) \/ Return(t) \/ Give(t)
      PROVE  BusInv'
  <2>1. MutexInv'
    BY <1>1, TaskMutex DEF BusInv, MutexInv
  <2>2. t = "control" \/ t \in Others
    BY DEF Tasks, Others
  <2>3. ClockInv'
    BY <1>1, <2>2, ClockOwn, ClockOther
  <2> QED
    BY <2>1, <2>3 DEF BusInv, MutexInv, ClockInv
<1>2. CASE CycleBegins
  BY <1>2, BeginKeeps
<1>3. ASSUME NEW t \in Others, Wake(t) PROVE BusInv'
  <2>1. BusTypeOK'
    BY <1>3 DEF Wake, Goto, BusInv, BusTypeOK, Places
  <2>2. MutexInv'
    <3>1. HalIsDown => HalIsDown'
      BY <1>3, DownKept DEF Wake, BusInv, Others, Tasks
    <3> QED
      BY <1>3, <2>1, <3>1, OtherMutex
      DEF Wake, BusInv, MutexInv, Places, Others, Tasks
  <2> QED
    BY <1>3, <2>2, ClockWake DEF BusInv, MutexInv, ClockInv
<1>4. ASSUME NEW t \in Others, Proceed(t) PROVE BusInv'
  BY <1>4, OtherKeeps DEF Proceed, At, Places, clock_vars
<1>5. CASE Scan
  BY <1>5, OtherKeeps DEF Scan, At, Places, Others, clock_vars
<1>6. CASE DeInit \/ ReInit
  BY <1>6, OtherKeeps DEF DeInit, ReInit, At, Places, Others, clock_vars
<1>7. CASE Erase
  BY <1>7, EraseKeeps
<1> QED
  BY <1>1, <1>2, <1>3, <1>4, <1>5, <1>6, <1>7 DEF BusStep

\* T:210, its two steps.
LEMMA ClearKeeps ==
    ASSUME BusInv, Clear
    PROVE  BusInv'
<1>1. UNCHANGED <<owner, State, io, clock_vars>>
  BY DEF Clear, clock_vars
<1>2. CASE At("serial", "run") /\ Goto("serial", "clear")
  BY <1>1, <1>2, OtherKeeps DEF At, Places, Others
<1>3. CASE At("serial", "clear") /\ Goto("serial", "run")
  BY <1>1, <1>3, OtherKeeps DEF At, Places, Others
<1> QED
  BY <1>2, <1>3 DEF Clear

-----------------------------------------------------------------------------
(* Time *)

\* SysTick comes only while control_task sleeps, or while it or the task it
\* waits for polls the HAL.
LEMMA TickWhen ==
    ASSUME BusInv, Tick
    PROVE  \/ pc["control"] = "sleep" /\ due > 0
           \/ pc["control"] = "io" /\ io < IoTimeout /\ io' = io + 1
           \/ /\ pc["control"] = "take" /\ owner \in Tasks
              /\ pc[owner] = "io" /\ io < IoTimeout /\ io' = io + 1
<1>1. /\ stall = 0 /\ "control" \in Tasks
      /\ \A t \in Tasks : Runs(t) /\ Reaches(t, Prio["control"]) =>
            pc[t] = "io" /\ io < IoTimeout
      /\ (\E t \in Tasks : pc[t] = "io") /\ io < IoTimeout => io' = io + 1
  BY DEF Tick, Tasks
<1>2. CASE Ready("control")
  BY <1>1, <1>2, ControlFirst, ControlReaches
<1>3. CASE Waits("control")
  <2>1. owner \in Tasks
    BY <1>3 DEF Waits, BusInv, BusTypeOK
  <2>2. Runs(owner) /\ Reaches(owner, Prio["control"])
    BY <1>1, <1>3, <2>1, OwnerFirst DEF BusInv
  <2> QED
    BY <1>1, <1>3, <2>1, <2>2 DEF Waits
<1>4. CASE ~Ready("control") /\ ~Waits("control")
  <2>1. pc["control"] = "sleep" /\ ~(due <= 0)
    BY <1>4 DEF Ready
  <2> QED
    BY <2>1 DEF BusInv, BusTypeOK
<1> QED
  BY <1>2, <1>3, <1>4

\* A tick of the scheduler.
LEMMA TickKeeps ==
    ASSUME BusInv, Tick
    PROVE  BusInv'
<1>1. /\ stall = 0 /\ wdt' = (IF wdt < Reload THEN wdt + 1 ELSE wdt)
      /\ due' = IF due > -MaxDebt THEN due - 1 ELSE due
      /\ UNCHANGED <<pc, owner, State, stall, saves>>
  BY DEF Tick
<1>2. /\ wdt \in Nat /\ io \in 0..IoTimeout /\ due \in (-MaxDebt)..Period
      /\ IoTimeout \in Nat /\ MaxDebt \in Nat /\ Period \in Nat
      /\ wdt <= Reload /\ Reload \in Nat
  BY BusAssumption DEF BusInv, BusTypeOK
<1>11. wdt' \in 0..Reload /\ wdt' <= wdt + 1
  BY <1>1, <1>2
<1>3. due' \in (-MaxDebt)..Period /\ (due > 0 => due' = due - 1)
  BY <1>1, <1>2
<1>4. due' > 0 => due > 0
  BY <1>1, <1>2
<1>5. io' \in 0..IoTimeout
  BY <1>2 DEF Tick
<1>6. BusTypeOK'
  BY <1>1, <1>3, <1>5, <1>11 DEF BusInv, BusTypeOK
<1>7. Mutex' /\ HalInv' /\ ControlPlaces'
  BY <1>1 DEF BusInv, Mutex, HalInv, HalIsDown, ControlPlaces
<1>12. Allowed' = Allowed /\ Allowed \in Nat
  <2>1. saves \in Nat /\ EraseTicks \in Nat
    BY BusAssumption DEF BusInv, BusTypeOK
  <2>2. saves * EraseTicks \in Nat
    BY <2>1
  <2> QED
    BY <1>1, <1>2, <2>2 DEF Allowed
<1>8. due' > 0 => saves' = MaxSaves \/ wdt' + due' + stall' <= Allowed'
  <2> SUFFICES ASSUME due' > 0, saves # MaxSaves
               PROVE  wdt' + due' + stall' <= Allowed'
    BY <1>1
  <2>1. wdt + due + stall <= Allowed
    BY <1>4 DEF BusInv, WhileAsleep
  <2> QED
    BY <1>1, <1>2, <1>3, <1>4, <1>11, <1>12, <2>1
<1>9. WhileWaiting' /\ WhileReading'
  <2>1. WhileWaiting'
    BY <1>1, <1>2, <1>11, TickWhen DEF BusInv, WhileWaiting
  <2>2. WhileReading'
    BY <1>1, <1>2, <1>11, TickWhen DEF BusInv, WhileReading
  <2> QED
    BY <2>1, <2>2
<1>10. WhileAsleep'
  <2>1. ASSUME pc["control"] = "sleep", due' <= 0, saves # MaxSaves
        PROVE  wdt' <= Allowed'
    <3>1. due > 0
      BY <2>1, TickWhen
    <3>2. wdt + due + stall <= Allowed
      BY <2>1, <3>1 DEF BusInv, WhileAsleep
    <3> QED
      BY <1>1, <1>2, <1>11, <1>12, <3>1, <3>2
  <2> QED
    BY <1>1, <1>8, <2>1 DEF WhileAsleep
<1> QED
  BY <1>6, <1>7, <1>9, <1>10 DEF BusInv

\* A tick of the watchdog's clock while the flash is erased.
LEMMA StallKeeps ==
    ASSUME BusInv, Stall
    PROVE  BusInv'
<1>1. /\ stall > 0 /\ stall' = stall - 1
      /\ wdt' = (IF wdt < Reload THEN wdt + 1 ELSE wdt)
      /\ UNCHANGED <<pc, owner, State, io, due, saves>>
  BY DEF Stall
<1>2. /\ wdt \in Nat /\ due \in Int /\ stall \in Nat
      /\ stall <= EraseTicks /\ EraseTicks \in Nat
      /\ wdt <= Reload /\ Reload \in Nat
  BY BusAssumption DEF BusInv, BusTypeOK
<1>8. wdt' \in 0..Reload /\ wdt' <= wdt + 1
  BY <1>1, <1>2
<1>3. pc["control"] = "sleep" /\ due > 0
  BY <1>1, <1>2 DEF BusInv, WhileAsleep
<1>4. stall' \in 0..EraseTicks
  BY <1>1, <1>2
<1>5. BusTypeOK'
  BY <1>1, <1>4, <1>8 DEF BusInv, BusTypeOK
<1>6. Mutex' /\ HalInv' /\ ControlPlaces' /\ WhileWaiting' /\ WhileReading'
  BY <1>1, <1>3
  DEF BusInv, Mutex, HalInv, HalIsDown, ControlPlaces, WhileWaiting,
      WhileReading
<1>7. WhileAsleep'
  <2>1. ASSUME saves # MaxSaves PROVE wdt' + due' + stall' <= Allowed'
    <3>1. wdt + due + stall <= Allowed /\ Allowed' = Allowed
      BY <1>1, <1>3, <2>1 DEF BusInv, WhileAsleep, Allowed
    <3>2. Allowed \in Int
      BY BusAssumption DEF BusInv, BusTypeOK, Allowed
    <3> QED
      BY <1>1, <1>2, <1>8, <3>1, <3>2
  <2> QED
    BY <1>1, <1>2, <1>3, <2>1 DEF WhileAsleep
<1> QED
  BY <1>5, <1>6, <1>7 DEF BusInv

-----------------------------------------------------------------------------
(* The board *)

\* the tasks before the scheduler runs, and after it has ceased to
AtRest ==
    /\ pc = Started
    /\ owner = "nobody" /\ State = "READY" /\ io = 0
    /\ due = Period /\ stall = 0 /\ saves = 0

\* ... with the watchdog's clock at its beginning
Fresh == AtRest /\ wdt = 0

BoardInv ==
    /\ phase \in {"boot", "init", "run", "capture", "halted"}
    /\ wdt \in 0..Reload
    /\ phase = "run" => BusInv
    /\ phase # "run" => AtRest
    /\ phase \in {"boot", "init"} => wdt = 0
    /\ phase = "capture" => ~Expired

LEMMA RestIsLost == ASSUME TasksLost PROVE AtRest'
BY DEF TasksLost, AtRest, Started, Tasks

LEMMA RestStays ==
    ASSUME AtRest, UNCHANGED <<pc, owner, State, io, due, stall, saves>>
    PROVE  AtRest'
BY DEF AtRest, Started, Tasks

\* The scheduler starts the tasks.
LEMMA RestStarts == Fresh => BusInv
<1> SUFFICES ASSUME Fresh PROVE BusInv
  OBVIOUS
<1> USE DEF Fresh, AtRest
<1>1. /\ pc \in [Tasks -> Places]
      /\ \A t \in Tasks : pc[t] \in {"sleep", "run"}
      /\ pc["control"] = "sleep"
  BY DEF Started, Tasks, Places
<1>2. BusTypeOK
  BY <1>1, BusAssumption DEF BusTypeOK
<1>3. Mutex /\ HalInv /\ ControlPlaces
  BY <1>1 DEF Mutex, HalInv, HalIsDown, ControlPlaces, Tasks
<1>4. WhileWaiting /\ WhileReading
  BY <1>1 DEF WhileWaiting, WhileReading
<1>5. WhileAsleep
  <2>1. saves * EraseTicks = 0
    BY BusAssumption
  <2> QED
    BY <1>1, <2>1, BusAssumption DEF WhileAsleep, Allowed
<1> QED
  BY <1>2, <1>3, <1>4, <1>5 DEF BusInv

\* While the tasks run the watchdog is far from its end, erases apart.
LEMMA NoBite ==
    ASSUME BusInv, wdt = Reload
    PROVE  Period + saves * EraseTicks >= Reload
<1>1. /\ wdt \in Nat /\ io \in Nat /\ io <= IoTimeout /\ IoTimeout \in Nat
      /\ Reload \in Nat /\ Reload > 2 * IoTimeout
  BY BusAssumption, ReloadAssumption DEF BusInv, BusTypeOK
<1>2. saves = MaxSaves \/ wdt <= Allowed => Allowed >= Reload
  <2>1. saves = MaxSaves => Allowed >= Reload
    BY BusAssumption DEF Allowed
  <2>2. Allowed \in Int
    BY BusAssumption DEF BusInv, BusTypeOK, Allowed
  <2> QED
    BY <1>1, <2>1, <2>2
<1>3. CASE pc["control"] = "sleep"
  <2>1. CASE due > 0
    <3>1. due \in Nat /\ stall \in Nat
      BY <2>1, BusAssumption DEF BusInv, BusTypeOK
    <3>2. Allowed \in Int
      BY BusAssumption DEF BusInv, BusTypeOK, Allowed
    <3>3. saves = MaxSaves \/ wdt + due + stall <= Allowed
      BY <2>1 DEF BusInv, WhileAsleep
    <3>4. wdt + due + stall <= Allowed => wdt <= Allowed
      BY <1>1, <3>1, <3>2
    <3> QED
      BY <1>2, <3>3, <3>4 DEF Allowed
  <2>2. CASE due <= 0
    <3>1. saves = MaxSaves \/ wdt <= Allowed \/ wdt <= 2 * IoTimeout
      BY <1>3, <2>2 DEF BusInv, WhileAsleep
    <3>2. ~(wdt <= 2 * IoTimeout)
      BY <1>1
    <3> QED
      BY <1>2, <3>1, <3>2 DEF Allowed
  <2> QED
    BY <2>1, <2>2 DEF BusInv, BusTypeOK
<1>4. pc["control"] # "take"
  <2> SUFFICES ASSUME pc["control"] = "take" PROVE FALSE
    OBVIOUS
  <2>1. owner = "nobody" \/ owner \in Tasks
    BY DEF BusInv, BusTypeOK
  <2>2. wdt <= IoTimeout
    BY <1>1, <2>1 DEF BusInv, WhileWaiting, Mutex
  <2> QED
    BY <1>1, <2>2
<1>5. pc["control"] \notin {"call", "io", "give", "run"}
  BY <1>1 DEF BusInv, WhileReading
<1>6. pc["control"] \in {"sleep", "take", "call", "io", "give", "run"}
  BY DEF BusInv, BusTypeOK, ControlPlaces, Places, Tasks
<1> QED
  BY <1>3, <1>4, <1>5, <1>6

LEMMA BoardStarts == Init => BoardInv
<1> SUFFICES ASSUME Init PROVE BoardInv
  OBVIOUS
<1>1. AtRest /\ wdt = 0 /\ phase = "boot"
  BY DEF Init, BusInit, FaultInit, AtRest
<1> QED
  BY <1>1, BusAssumption DEF BoardInv

\* While the tasks run, a step that keeps the phase and BusInv is enough.
LEMMA RunGoesOn ==
    ASSUME BoardInv, phase = "run", phase' = phase, BusInv => BusInv'
    PROVE  BoardInv'
<1>1. BusInv'
  BY DEF BoardInv
<1>2. wdt' \in 0..Reload
  BY <1>1 DEF BusInv, BusTypeOK
<1> QED
  BY <1>1, <1>2 DEF BoardInv

\* A reset leads back to the beginning.
LEMMA ResetKeeps ==
    ASSUME Restart, BusRestart
    PROVE  BoardInv'
<1>1. phase' = "boot" /\ wdt' = 0 /\ AtRest'
  BY RestIsLost DEF Restart, BusRestart
<1> QED
  BY <1>1, BusAssumption DEF BoardInv

LEMMA BoardSteps ==
    ASSUME BoardInv, [Next]_vars
    PROVE  BoardInv'
<1>1. CASE Boot
  <2>1. AtRest /\ AtRest' /\ wdt = 0 /\ wdt' = 0
    BY <1>1, RestStays
    DEF Boot, SharedStateInit, IwdgInit, BoardInv, bus_vars
  <2>2. phase' \in {"init", "run"}
    BY <1>1 DEF Boot, SharedStateInit, IwdgInit
  <2>3. Fresh' => BusInv'
    BY RestStarts, PTL
  <2>4. wdt' \in 0..Reload /\ BusInv'
    BY <2>1, <2>3, BusAssumption DEF Fresh
  <2> QED
    BY <2>1, <2>2, <2>4 DEF BoardInv
<1>2. CASE Step
  BY <1>2, RunGoesOn, StepKeeps DEF Step, TasksRun, fault_vars
<1>3. CASE Drive
  BY <1>3, RunGoesOn, EndKeeps DEF Drive, SetMotors
<1>4. CASE Clear
  <2>1. phase' = phase /\ phase = "run"
    BY <1>4 DEF Clear, ClearFlags, ClearMagic, TasksRun
  <2> QED
    BY <1>4, <2>1, RunGoesOn, ClearKeeps
<1>5. CASE Time
  BY <1>5, RunGoesOn, TickKeeps, StallKeeps DEF Time, TasksRun, fault_vars
<1>6. CASE Fails
  <2>1. ~Expired'
    BY <1>6
    DEF Fails, HardFault, Hook, Lockup, Capture, Expired
  <2>2. phase' \in {"capture", "halted"} /\ wdt' = wdt
    BY <1>6 DEF Fails, HardFault, Hook, Lockup, Capture
  <2>3. AtRest'
    BY <1>6, RestIsLost DEF Fails
  <2> QED
    BY <2>1, <2>2, <2>3 DEF BoardInv
<1>7. CASE Capturing
  <2>1. /\ phase = "capture" /\ phase' \in {"capture", "halted"}
        /\ wdt' = wdt /\ hiwdg' = hiwdg
    BY <1>7 DEF Capturing, Store, Halt, bus_vars
  <2>2. AtRest'
    BY <1>7, <2>1, RestStays DEF Capturing, bus_vars, BoardInv
  <2> QED
    BY <2>1, <2>2 DEF BoardInv, Expired
<1>8. CASE HaltTime
  <2>1. phase = "halted" /\ phase' = phase /\ wdt' \in 0..Reload
    <3>1. wdt < Reload /\ wdt' = wdt + 1 /\ wdt \in 0..Reload
      BY <1>8 DEF HaltTime, BoardInv
    <3> QED
      BY <1>8, <3>1, BusAssumption DEF HaltTime, fault_vars
  <2>2. AtRest'
    BY <1>8, <2>1, RestStays DEF HaltTime, BoardInv
  <2> QED
    BY <2>1, <2>2 DEF BoardInv
<1>9. CASE Bite \/ StrayBite
  BY <1>9, ResetKeeps DEF Bite, StrayBite, WatchdogReset
<1>10. CASE (Button \/ PowerCycle) /\ BusRestart
  BY <1>10, ResetKeeps DEF Button, PowerCycle
<1>11. CASE UNCHANGED vars
  <2>1. phase' = phase /\ wdt' = wdt /\ Expired' = Expired
    BY <1>11 DEF vars, bus_vars, fault_vars, Expired
  <2>2. AtRest => AtRest'
    BY <1>11, RestStays DEF vars, bus_vars
  <2>3. BusInv => BusInv'
    <3>1. BusTypeOK => BusTypeOK'
      BY <1>11 DEF vars, bus_vars, BusTypeOK
    <3>2. /\ Mutex => Mutex'
          /\ HalInv => HalInv'
          /\ ControlPlaces => ControlPlaces'
      BY <1>11 DEF vars, bus_vars, Mutex, HalInv, HalIsDown, ControlPlaces
    <3>3. /\ WhileWaiting => WhileWaiting'
          /\ WhileReading => WhileReading'
          /\ WhileAsleep => WhileAsleep'
      BY <1>11 DEF vars, bus_vars, WhileWaiting, WhileReading, WhileAsleep,
                   Allowed
    <3> QED
      BY <3>1, <3>2, <3>3 DEF BusInv
  <2> QED
    BY <2>1, <2>2, <2>3 DEF BoardInv
<1> QED
  BY <1>1, <1>2, <1>3, <1>4, <1>5, <1>6, <1>7, <1>8, <1>9, <1>10, <1>11
  DEF Next

LEMMA BoardAlways == Spec => []BoardInv
<1>1. BoardInv /\ [Next]_vars => BoardInv'
  BY BoardSteps
<1> QED
  BY <1>1, BoardStarts, PTL DEF Spec

\* Whatever the period, the timeout, the longest erase and the reload value: as
\* long as the reload value exceeds two transactions, the watchdog resets a
\* board without a fault only if the erases since control_task last woke up,
\* each as long as can be, add up with a period to the reload value. That one
\* save, or a stuck bus, does not trip it follows for the values of the code;
\* the priority inheritance of the mutex is what bounds the wait of
\* control_task (i2c_bus.cpp:53, main.cpp:222-226, config_store.cpp:22-34).
THEOREM WatchdogQuiet == Spec => []WatchdogSparesSaves
<1>1. BoardInv => WatchdogSparesSaves
  <2> SUFFICES ASSUME BoardInv, Expired, phase # "halted"
               PROVE  Period + saves * EraseTicks >= Reload
    BY DEF WatchdogSparesSaves
  <2>1. wdt = Reload /\ wdt # 0
    BY BusAssumption DEF Expired
  <2>2. phase = "run"
    BY <2>1 DEF BoardInv
  <2> QED
    BY <2>1, <2>2, NoBite DEF BoardInv
<1> QED
  BY <1>1, BoardAlways, PTL

\* The mutex keeps the HAL to one task, although T:127 resets the peripheral
\* without it: no two transactions are ever in progress, and who has the mutex
\* finds the HAL ready, but between the two HAL calls of T:127
\* (i2c_bus.cpp:9-24, json_cmd.cpp:154-157).
THEOREM MutexGuardsHal == Spec => []HalIsFree
<1>1. BoardInv => HalIsFree
  <2>1. ASSUME BusInv, NEW t \in Tasks
        PROVE  /\ pc[t] = "call" => State = "READY" \/ HalIsDown
               /\ pc[t] = "io" => \A u \in Tasks \ {t} : pc[u] # "io"
    BY <2>1 DEF BusInv, Mutex, HalInv
  <2>2. AtRest => HalIsFree
    BY DEF AtRest, HalIsFree, Started
  <2> QED
    BY <2>1, <2>2 DEF BoardInv, HalIsFree
<1> QED
  BY <1>1, BoardAlways, PTL

-----------------------------------------------------------------------------
(* The fault record *)

\* What a capture has done so far. Until its last store the record is torn,
\* and before its third there is room for one more fault.
CaptureInv ==
    phase = "capture" =>
        /\ stored < 3 => BKP.count < MaxFaults
        /\ stored > 0 => last = fault /\ pending /\ (torn <=> stored < 4)
        /\ stored > 1 => BKP.frame = fault.frame
        /\ stored > 3 => BKP.type = fault.kind

\* At all times, also before a reset: what T:201 would show.
DumpInv ==
    /\ pending <=> BKP.magic
    /\ pending /\ ~torn => Dump = last

\* The flag of the hard fault, on a board that runs.
FlagInv ==
    phase \in {"init", "run"} =>
        IF pc["serial"] = "clear" THEN "hardfault" \notin fault_flags
        ELSE pending <=> "hardfault" \in fault_flags

RecordInv == FaultTypeOK /\ CaptureInv /\ DumpInv /\ FlagInv

LEMMA RecordStarts == Init => RecordInv
<1> SUFFICES ASSUME Init PROVE RecordInv
  OBVIOUS
<1> USE DEF Init, FaultInit, NoRecord, NoFault
<1>1. FaultTypeOK
  <2>1. /\ {IWDGRST, driving, pending, torn} \subseteq BOOLEAN
        /\ hiwdg = "off"
        /\ phase = "boot" /\ fault_flags = {}
    OBVIOUS
  <2>2. BKP \in [magic : BOOLEAN, frame : Frames \cup {0},
                 count : 0..MaxFaults, type : Kinds]
    BY FaultAssumption DEF Kinds
  <2>3. fault \in Fault /\ last \in Fault
    BY DEF Fault, Kinds
  <2>4. stored \in 0..Len(Order)
    BY DEF Order
  <2> QED
    BY <2>1, <2>2, <2>3, <2>4 DEF FaultTypeOK
<1>2. CaptureInv /\ DumpInv /\ FlagInv
  BY DEF CaptureInv, DumpInv, FlagInv
<1> QED
  BY <1>1, <1>2 DEF RecordInv

\* A step that leaves the record and the flags alone.
LEMMA RecordStays ==
    ASSUME RecordInv, phase' = phase, driving' \in BOOLEAN,
           UNCHANGED <<hiwdg, IWDGRST, fault_flags, fault, record_vars>>,
           pc'["serial"] = "clear" <=> pc["serial"] = "clear"
    PROVE  RecordInv'
<1> USE DEF RecordInv, record_vars
<1>1. FaultTypeOK'
  BY DEF FaultTypeOK
<1>2. CaptureInv' /\ FlagInv'
  BY DEF CaptureInv, FlagInv
<1>3. DumpInv'
  BY DEF DumpInv, Dump
<1> QED
  BY <1>1, <1>2, <1>3

\* Where serial_task may be with T:210 half done.
LEMMA StepSerial ==
    ASSUME BusTypeOK, BusStep
    PROVE  pc'["serial"] = "clear" <=> pc["serial"] = "clear"
<1> USE DEF At, Goto, BusTypeOK, Others, Tasks
<1>1. ASSUME NEW t \in Tasks, Take(t) \/ Call(t) \/ Return(t) \/ Give(t)
      PROVE  pc'["serial"] = "clear" <=> pc["serial"] = "clear"
  BY <1>1 DEF Take, Call, Return, Give
<1>2. ASSUME NEW t \in Others, Wake(t) \/ Proceed(t)
      PROVE  pc'["serial"] = "clear" <=> pc["serial"] = "clear"
  BY <1>2 DEF Wake, Proceed
<1>3. CASE CycleBegins \/ Scan \/ DeInit \/ ReInit \/ Erase
  BY <1>3 DEF CycleBegins, Scan, DeInit, ReInit, Erase
<1> QED
  BY <1>1, <1>2, <1>3 DEF BusStep

\* The four stores of a handler.
LEMMA StoreKeeps ==
    ASSUME RecordInv, Store
    PROVE  RecordInv'
<1>1. /\ phase = "capture" /\ phase' = phase /\ stored < 4
      /\ stored' = stored + 1
      /\ pending' = TRUE /\ last' = fault
      /\ UNCHANGED <<hiwdg, IWDGRST, fault_flags, fault, driving>>
  BY DEF Store, Order
<1>2. /\ stored \in 0..3
      /\ BKP \in [magic : BOOLEAN, frame : Frames \cup {0},
                  count : 0..MaxFaults, type : Kinds]
      /\ fault \in [kind : Kinds, frame : Frames \cup {0}]
  BY <1>1 DEF RecordInv, FaultTypeOK, Fault, Order
<1>3. torn' \in BOOLEAN /\ (torn' <=> stored' < 4)
  <2>1. torn' = (stored' < Len(Order))
    BY DEF Store
  <2>2. Len(Order) = 4
    BY DEF Order
  <2>3. torn' = (stored' < 4)
    BY <2>1, <2>2, Zenon
  <2>4. (stored' < 4) \in BOOLEAN
    OBVIOUS
  <2> QED
    BY <2>3, <2>4, Zenon
<1>4. /\ stored = 0 => BKP' = [BKP EXCEPT !.magic = TRUE]
      /\ stored = 1 => BKP' = [BKP EXCEPT !.frame = fault.frame]
      /\ stored = 2 => BKP' = [BKP EXCEPT !.count = BKP.count + 1]
      /\ stored = 3 => BKP' = [BKP EXCEPT !.type = fault.kind]
  <2>1. BKP' = [BKP EXCEPT ![Order[stored']] = Written(Order[stored'])]
    BY DEF Store
  <2>2. /\ Order[1] = "magic" /\ Order[2] = "frame"
        /\ Order[3] = "count" /\ Order[4] = "type"
    BY DEF Order
  <2>3. /\ Written("magic") = TRUE /\ Written("frame") = fault.frame
        /\ Written("count") = BKP.count + 1
        /\ Written("type") = fault.kind
    BY DEF Written
  <2>4. /\ stored = 0 => stored' = 1
        /\ stored = 1 => stored' = 2
        /\ stored = 2 => stored' = 3
        /\ stored = 3 => stored' = 4
    BY <1>1
  <2> QED
    BY <2>1, <2>2, <2>3, <2>4, Zenon
<1>5. /\ stored < 3 => BKP.count < MaxFaults
      /\ stored > 0 => last = fault /\ pending /\ BKP.magic
      /\ stored > 1 => BKP.frame = fault.frame
  BY <1>1 DEF RecordInv, CaptureInv, DumpInv
<1>6. BKP.count + 1 <= MaxFaults => BKP.count + 1 \in 0..MaxFaults
  BY <1>2
<1>7. stored < 3 => BKP.count + 1 <= MaxFaults
  BY <1>2, <1>5, FaultAssumption
<1>8. BKP' \in [magic : BOOLEAN, frame : Frames \cup {0},
               count : 0..MaxFaults, type : Kinds]
  <2>1. CASE stored = 0
    BY <1>2, <1>4, <2>1
  <2>2. CASE stored = 1
    BY <1>2, <1>4, <2>2
  <2>3. CASE stored = 2
    BY <1>2, <1>4, <1>6, <1>7, <2>3
  <2>4. CASE stored = 3
    BY <1>2, <1>4, <2>4
  <2> QED
    BY <1>2, <2>1, <2>2, <2>3, <2>4
<1>9. /\ BKP'.magic = TRUE
      /\ stored' < 3 => BKP'.count = BKP.count
      /\ stored' > 1 => BKP'.frame = fault.frame
      /\ stored' > 3 => BKP'.type = fault.kind
  <2>1. CASE stored = 0
    BY <1>1, <1>2, <1>4, <2>1
  <2>2. CASE stored = 1
    BY <1>1, <1>2, <1>4, <1>5, <2>2
  <2>3. CASE stored = 2
    BY <1>1, <1>2, <1>4, <1>5, <2>3
  <2>4. CASE stored = 3
    BY <1>1, <1>2, <1>4, <1>5, <2>4
  <2>5. stored = 0 \/ stored = 1 \/ stored = 2 \/ stored = 3
    BY <1>2
  <2> QED
    BY <2>1, <2>2, <2>3, <2>4, <2>5, Zenon
<1>10. FaultTypeOK'
  <2>1. stored' \in 0..4
    BY <1>1, <1>2
  <2>2. last' \in Fault
    BY <1>1, <1>2 DEF Fault
  <2>3. pending' \in BOOLEAN
    <3>1. pending' = TRUE
      BY <1>1
    <3> QED
      BY <3>1, Zenon
  <2> QED
    BY <1>1, <1>3, <1>8, <2>1, <2>2, <2>3 DEF RecordInv, FaultTypeOK, Order
<1>11. CaptureInv'
  BY <1>1, <1>3, <1>2, <1>5, <1>9 DEF CaptureInv
<1>12. DumpInv'
  <2>1. pending' <=> BKP'.magic
    BY <1>1, <1>9
  <2>2. ASSUME ~torn' PROVE Dump' = last'
    <3>1. stored' > 3
      BY <1>1, <1>3, <1>2, <2>2
    <3>2. BKP'.type = fault.kind /\ BKP'.frame = fault.frame
      BY <1>2, <1>1, <1>9, <3>1
    <3> QED
      BY <1>1, <1>2, <3>2 DEF Dump
  <2> QED
    BY <2>1, <2>2 DEF DumpInv
<1>13. FlagInv'
  BY <1>1 DEF FlagInv
<1> QED
  BY <1>10, <1>11, <1>12, <1>13 DEF RecordInv

\* T:210, its two steps.
LEMMA ClearingKeeps ==
    ASSUME RecordInv, BusTypeOK, Clear
    PROVE  RecordInv'
<1> USE DEF RecordInv, record_vars, At, Goto
<1>1. phase = "run" /\ pc \in [Tasks -> Places] /\ "serial" \in Tasks
  BY DEF Clear, TasksRun, BusTypeOK, Tasks
<1>2. CASE At("serial", "run") /\ Goto("serial", "clear") /\ ClearFlags
  <2>1. pc'["serial"] = "clear"
    BY <1>1, <1>2
  <2>2. FaultTypeOK'
    BY <1>2 DEF ClearFlags, FaultTypeOK
  <2>3. CaptureInv' /\ FlagInv'
    BY <1>1, <1>2, <2>1 DEF ClearFlags, CaptureInv, FlagInv
  <2>4. DumpInv'
    BY <1>2 DEF ClearFlags, DumpInv, Dump
  <2> QED
    BY <2>2, <2>3, <2>4
<1>3. CASE At("serial", "clear") /\ Goto("serial", "run") /\ ClearMagic
  <2>1. pc'["serial"] = "run" /\ "hardfault" \notin fault_flags
    BY <1>1, <1>3 DEF FlagInv
  <2>2. BKP' = [BKP EXCEPT !.magic = FALSE]
    BY <1>3 DEF ClearMagic
  <2>3. FaultTypeOK'
    BY <1>3, <2>2 DEF ClearMagic, FaultTypeOK
  <2>4. CaptureInv' /\ FlagInv'
    BY <1>1, <1>3, <2>1 DEF ClearMagic, CaptureInv, FlagInv
  <2>5. DumpInv'
    BY <1>3, <2>2 DEF ClearMagic, DumpInv, FaultTypeOK
  <2> QED
    BY <2>3, <2>4, <2>5
<1> QED
  BY <1>2, <1>3 DEF Clear

\* shared_state_init takes the flag from the record.
LEMMA BootKeeps ==
    ASSUME RecordInv, AtRest, Boot
    PROVE  RecordInv'
<1> USE DEF RecordInv, record_vars
<1>1. pc' = pc /\ pc["serial"] = "run"
  BY DEF Boot, bus_vars, AtRest, Started, Tasks
<1>2. UNCHANGED <<BKP, fault, stored, driving, pending, last, torn>>
  BY DEF Boot, SharedStateInit, IwdgInit
<1>3. /\ phase' \in {"init", "run"}
      /\ fault_flags' \subseteq Kinds \cup {"iwdg_reset"}
  BY DEF Boot, SharedStateInit, IwdgInit, FaultTypeOK, Kinds
<1>4. hiwdg' \in {"off", "enabled", "unattended"} /\ IWDGRST' \in BOOLEAN
  BY DEF Boot, SharedStateInit, IwdgInit, FaultTypeOK
<1>5. FaultTypeOK'
  BY <1>2, <1>3, <1>4 DEF FaultTypeOK
<1>6. CaptureInv' /\ DumpInv'
  BY <1>2, <1>3 DEF CaptureInv, DumpInv, Dump
<1>7. FlagInv'
  <2>1. CASE SharedStateInit
    <3>1. "hardfault" \in fault_flags' <=> BKP.magic
      BY <2>1 DEF SharedStateInit, Valid
    <3> QED
      BY <1>1, <1>2, <3>1 DEF FlagInv, DumpInv
  <2>2. CASE IwdgInit
    BY <1>1, <1>2, <2>2 DEF IwdgInit, FlagInv
  <2> QED
    BY <2>1, <2>2 DEF Boot
<1> QED
  BY <1>5, <1>6, <1>7

\* A handler is entered, or the core locks up.
LEMMA FailKeeps ==
    ASSUME RecordInv, Fails
    PROVE  RecordInv'
<1> USE DEF RecordInv, record_vars
<1>1. UNCHANGED <<hiwdg, IWDGRST, BKP, pending, last, torn>>
  BY DEF Fails, HardFault, Hook, Lockup, Capture
<1>2. /\ phase' \in {"capture", "halted"}
      /\ phase' = "capture" => stored' = 0 /\ BKP.count < MaxFaults
      /\ stored' \in 0..Len(Order)
  BY DEF Fails, HardFault, Hook, Lockup, Capture, FaultTypeOK, Order
<1>3. fault' \in Fault
  BY DEF Fails, HardFault, Hook, Lockup, Capture, FaultTypeOK, Fault, Kinds
<1>4. driving' \in BOOLEAN
  <2>1. driving' = driving \/ driving' = FALSE
    BY DEF Fails, HardFault, Hook, Lockup
  <2>2. driving \in BOOLEAN
    BY DEF FaultTypeOK
  <2> QED
    BY <2>1, <2>2, Zenon
<1>5. fault_flags' \subseteq Kinds \cup {"iwdg_reset"}
  BY DEF Fails, HardFault, Hook, Lockup, Capture, FaultTypeOK, Kinds
<1>6. FaultTypeOK'
  BY <1>1, <1>2, <1>3, <1>4, <1>5 DEF FaultTypeOK
<1>7. CaptureInv' /\ FlagInv'
  BY <1>1, <1>2 DEF CaptureInv, FlagInv
<1>8. DumpInv'
  BY <1>1 DEF DumpInv, Dump
<1> QED
  BY <1>6, <1>7, <1>8

\* A reset leaves the record, a loss of power clears it.
LEMMA RestartKeeps ==
    ASSUME RecordInv, WatchdogReset \/ Button \/ PowerCycle
    PROVE  RecordInv'
<1> USE DEF RecordInv
<1>1. /\ phase' = "boot" /\ hiwdg' = "off" /\ fault_flags' = {}
      /\ driving' = FALSE /\ fault' = NoFault /\ stored' = 0
  BY DEF WatchdogReset, Button, PowerCycle, Restart
<1>2. CaptureInv' /\ FlagInv'
  BY <1>1 DEF CaptureInv, FlagInv
<1>3. /\ fault' \in Fault /\ stored' \in 0..Len(Order)
      /\ hiwdg' \in {"off"} /\ driving' \in BOOLEAN
  <2>1. fault' \in Fault
    BY <1>1 DEF NoFault, Fault, Kinds
  <2>2. stored' \in 0..Len(Order)
    BY <1>1 DEF Order
  <2>3. hiwdg' \in {"off"} /\ driving' \in BOOLEAN
    BY <1>1
  <2> QED
    BY <2>1, <2>2, <2>3
<1>4. CASE WatchdogReset \/ Button
  <2>1. UNCHANGED <<BKP, pending, last, torn>>
    BY <1>4 DEF WatchdogReset, Button
  <2>2. IWDGRST' \in BOOLEAN
    BY <1>4 DEF WatchdogReset, Button, FaultTypeOK
  <2>3. FaultTypeOK'
    BY <1>1, <1>3, <2>1, <2>2 DEF FaultTypeOK
  <2>4. DumpInv'
    BY <2>1 DEF DumpInv, Dump
  <2> QED
    BY <1>2, <2>3, <2>4
<1>5. CASE PowerCycle
  <2>1. /\ BKP' = NoRecord /\ last' = NoFault
        /\ pending' = FALSE /\ torn' = FALSE /\ IWDGRST' = FALSE
    BY <1>5 DEF PowerCycle
  <2>2. BKP' \in [magic : BOOLEAN, frame : Frames \cup {0},
                  count : 0..MaxFaults, type : Kinds]
    BY <2>1, FaultAssumption DEF NoRecord, Kinds
  <2>3. last' \in Fault
    BY <2>1 DEF NoFault, Fault, Kinds
  <2>4. FaultTypeOK'
    BY <1>1, <1>3, <2>1, <2>2, <2>3 DEF FaultTypeOK
  <2>5. DumpInv'
    BY <2>1 DEF DumpInv, NoRecord
  <2> QED
    BY <1>2, <2>4, <2>5
<1> QED
  BY <1>4, <1>5

LEMMA RecordSteps ==
    ASSUME BoardInv, RecordInv, [Next]_vars
    PROVE  RecordInv'
<1>1. CASE Boot
  <2>1. AtRest
    BY <1>1 DEF Boot, SharedStateInit, IwdgInit, BoardInv
  <2> QED
    BY <1>1, <2>1, BootKeeps
<1>2. CASE Step \/ Time \/ HaltTime \/ UNCHANGED vars
  <2>1. /\ phase' = phase /\ driving' = driving
        /\ UNCHANGED <<hiwdg, IWDGRST, fault_flags, fault, record_vars>>
    BY <1>2 DEF Step, Time, HaltTime, vars, fault_vars
  <2>2. pc'["serial"] = "clear" <=> pc["serial"] = "clear"
    <3>1. CASE Step
      BY <3>1, StepSerial DEF Step, TasksRun, BoardInv, BusInv
    <3>2. CASE Time \/ HaltTime \/ UNCHANGED vars
      BY <3>2 DEF Time, Tick, Stall, HaltTime, vars, bus_vars
    <3> QED
      BY <1>2, <3>1, <3>2
  <2>3. driving' \in BOOLEAN
    BY <2>1 DEF RecordInv, FaultTypeOK
  <2> QED
    BY <2>1, <2>2, <2>3, RecordStays
<1>3. CASE Drive
  <2>1. /\ phase' = phase /\ driving' \in BOOLEAN
        /\ UNCHANGED <<hiwdg, IWDGRST, fault_flags, fault, record_vars>>
    BY <1>3 DEF Drive, SetMotors
  <2>2. pc'["serial"] = "clear" <=> pc["serial"] = "clear"
    BY <1>3 DEF Drive, CycleEnds, Goto, TasksRun, BoardInv, BusInv, BusTypeOK,
                Tasks
  <2> QED
    BY <2>1, <2>2, RecordStays
<1>4. CASE Clear
  BY <1>4, ClearingKeeps DEF Clear, TasksRun, BoardInv, BusInv
<1>5. CASE Fails
  BY <1>5, FailKeeps
<1>6. CASE Capturing
  <2>1. CASE Store
    BY <2>1, StoreKeeps
  <2>2. CASE Halt
    BY <2>2
    DEF Halt, RecordInv, FaultTypeOK, CaptureInv, DumpInv, Dump, FlagInv,
        record_vars
  <2> QED
    BY <1>6, <2>1, <2>2 DEF Capturing
<1>7. CASE Bite \/ StrayBite \/ Button \/ PowerCycle
  BY <1>7, RestartKeeps DEF Bite, StrayBite
<1> QED
  BY <1>1, <1>2, <1>3, <1>4, <1>5, <1>6, <1>7 DEF Next

LEMMA RecordAlways == Spec => []RecordInv
<1>1. BoardInv /\ RecordInv /\ [Next]_vars => RecordInv'
  BY RecordSteps
<1> QED
  BY <1>1, RecordStarts, BoardAlways, PTL DEF Spec

\* Every variable of the board keeps its type.
THEOREM Typed == Spec => []TypeOK
<1>1. BoardInv /\ RecordInv => TypeOK
  <2>1. BoardInv => BusTypeOK
    <3>1. AtRest /\ wdt \in 0..Reload => BusTypeOK
      BY BusAssumption DEF AtRest, BusTypeOK, Started, Tasks, Places
    <3> QED
      BY <3>1 DEF BoardInv, BusInv
  <2> QED
    BY <2>1 DEF RecordInv, TypeOK
<1> QED
  BY <1>1, BoardAlways, RecordAlways, PTL

\* Whatever the sequence of faults, resets and T:210s, with a reset between
\* any two stores of a handler or of T:210: a host that asks a running board
\* is told of the last fault, and of none once it is cleared
\* (stm32f4xx_it.cpp:46-57, shared_state.cpp:18-21, json_cmd.cpp:375-410).
THEOREM FaultTold == Spec => []FaultReported
<1>1. RecordInv => FaultReported
  BY DEF RecordInv, DumpInv, FlagInv, FaultReported, Settled, Valid
<1> QED
  BY <1>1, RecordAlways, PTL

=============================================================================
