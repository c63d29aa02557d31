--------------------------- MODULE Lifecycle_proofs ---------------------------
(***************************************************************************)
(* Starting and stopping is in order for every number of threads. The      *)
(* inductive invariant ties the three threads of a server together: where  *)
(* the worker is tells what has become of the table and of cancel_, and an *)
(* event that was late finds its BinLogLoop on its way out.                *)
(***************************************************************************)
EXTENDS Lifecycle, TLAPS

\* What the position of a worker says about its server.
WorkOK(t) ==
    /\ work[t] \in {"none", "failed", "server"} => table[t] = "none" /\ loop[t] = "none"
    /\ work[t] \in {"database", "network", "poll", "release", "table"} => table[t] = "live"
    /\ work[t] \in {"thread", "done"} => table[t] = "deleted"
    /\ work[t] \in {"release", "table", "thread", "done"} => cancel[t]
    /\ work[t] \in {"table", "thread", "done"} => stop[t]
    /\ work[t] = "done" => loop[t] \in {"done", "failed"}

LateOK(t) == late[t] = 0 \/ (late[t] = 1 /\ table[t] = "deleted" /\ loop[t] \in {"test", "done"})

\* Threads are started one after the other, and the first round of Stop joins them
\* all.
JoinOK ==
    /\ main = "start" => \A t \in Threads : t >= next => work[t] = "none"
    /\ main \in {"start", "run"} => joined = {}
    /\ \A t \in joined : work[t] \in {"done", "failed"}
    /\ main \in {"join", "exit"} => \A t \in Threads : t < next => t \in joined
    /\ main = "exit" => next = JoinCalls

IInv ==
    /\ TypeOK
    /\ \A t \in Threads : WorkOK(t) /\ LateOK(t)
    /\ JoinOK

LEMMA Rounds ==
    /\ N \in Nat /\ N > 0 /\ N <= JoinCalls /\ JoinCalls \in Nat
    /\ \A call \in Nat : JoinTarget(call) \in Threads
    /\ \A call \in Threads : JoinTarget(call) = call
<1>1. N \in Nat /\ N > 0 /\ N * N \in Nat
  BY ThreadAssumption
<1>2. N <= JoinCalls /\ JoinCalls \in Nat
  BY <1>1 DEF JoinCalls
<1>3. \A call \in Nat : JoinTarget(call) \in Threads
  BY <1>1 DEF JoinTarget, Threads
<1>4. \A call \in Threads : JoinTarget(call) = call
  BY <1>1 DEF JoinTarget, Threads
<1>5. QED  BY <1>1, <1>2, <1>3, <1>4

LEMMA InitOK == Init => IInv
<1>1. 0 \in 0..JoinCalls
  BY Rounds
<1>2. Init => TypeOK
  <2> SUFFICES ASSUME Init PROVE TypeOK
    OBVIOUS
  <2>1. main \in MainStates /\ next \in 0..JoinCalls /\ quit \in BOOLEAN /\ joined \subseteq Threads
    BY <1>1 DEF Init, MainStates
  <2>2. work \in [Threads -> WorkStates] /\ loop \in [Threads -> LoopStates]
    BY DEF Init, WorkStates, LoopStates
  <2>3. cancel \in [Threads -> BOOLEAN] /\ stop \in [Threads -> BOOLEAN]
    BY DEF Init
  <2>4. table \in [Threads -> {"none", "live", "deleted"}] /\ late \in [Threads -> 0..2]
    BY DEF Init
  <2>5. QED  BY <2>1, <2>2, <2>3, <2>4 DEF TypeOK
<1>3. Init => JoinOK
  BY DEF Init, JoinOK
<1>4. Init => \A t \in Threads : WorkOK(t) /\ LateOK(t)
  BY DEF Init, WorkOK, LateOK
<1>5. QED  BY <1>2, <1>3, <1>4 DEF IInv

\* The process may end at any time.
LEMMA AbortKeeps ==
    ASSUME IInv, Abort
    PROVE  IInv'
BY DEF Abort, IInv, TypeOK, WorkOK, LateOK, JoinOK, workVars, loopVars, MainStates

LEMMA MainKeeps ==
    ASSUME IInv, MainStep
    PROVE  IInv'
<1> USE DEF IInv, TypeOK, MainStates
<1>1. CASE StartThread
  <2>1. next \in Threads /\ next + 1 \in 0..JoinCalls
    BY <1>1, Rounds DEF StartThread, Threads
  <2>2. PICK pc \in {"server", "failed"} :
          /\ work' = [work EXCEPT ![next] = pc] /\ next' = next + 1
          /\ UNCHANGED <<main, joined, quit, cancel, stop, table, loop, late>>
    BY <1>1 DEF StartThread, loopVars
  <2>3. work[next] = "none" /\ joined = {} /\ main = "start"
    BY <1>1, <2>1 DEF StartThread, JoinOK, Threads
  <2>4. TypeOK'
    BY <2>1, <2>2 DEF WorkStates
  <2>5. \A t \in Threads : WorkOK(t)' /\ LateOK(t)'
    BY <2>2, <2>3 DEF WorkOK, LateOK
  <2>6. JoinOK'
    BY <2>1, <2>2, <2>3 DEF JoinOK, Threads
  <2>7. QED  BY <2>4, <2>5, <2>6
<1>2. CASE Started
  BY <1>2 DEF Started, WorkOK, LateOK, JoinOK, workVars, loopVars
<1>3. CASE Quit
  BY <1>3, Rounds DEF Quit, WorkOK, LateOK, JoinOK, workVars, loopVars, Threads
<1>4. CASE JoinThread
  <2>1. /\ main = "join" /\ next < JoinCalls /\ next' = next + 1 /\ next + 1 \in 0..JoinCalls
        /\ JoinTarget(next) \in Threads
        /\ JoinTarget(next) \notin joined => work[JoinTarget(next)] \in {"done", "failed"}
        /\ joined' = joined \cup {JoinTarget(next)}
        /\ UNCHANGED <<main, quit, cancel, work, stop, table, loop, late>>
    BY <1>4, Rounds DEF JoinThread, workVars, loopVars
  <2>2. \A t \in Threads : t < next + 1 => t \in joined'
    <3> SUFFICES ASSUME NEW t \in Threads, t < next + 1 PROVE t \in joined'
      OBVIOUS
    <3>1. CASE t < next
      BY <2>1, <3>1 DEF JoinOK
    <3>2. CASE t = next
      BY <2>1, <3>2, Rounds
    <3>3. QED  BY <3>1, <3>2 DEF Threads
  <2>3. JoinOK'
    BY <2>1, <2>2 DEF JoinOK
  <2>4. QED  BY <2>1, <2>3 DEF WorkOK, LateOK
<1>5. CASE JoinCrashes
  BY <1>5, AbortKeeps DEF JoinCrashes
<1>6. CASE Exit
  BY <1>6 DEF Exit, WorkOK, LateOK, JoinOK, workVars, loopVars
<1>7. QED  BY <1>1, <1>2, <1>3, <1>4, <1>5, <1>6 DEF MainStep

LEMMA InterruptKeeps ==
    ASSUME IInv, Interrupt
    PROVE  IInv'
BY DEF Interrupt, IInv, TypeOK, WorkOK, LateOK, JoinOK, mainVars, workVars, loopVars

\* A worker that moves on is not one that was joined.
LEMMA WorkKeeps ==
    ASSUME IInv, NEW t \in Threads, WorkStep(t)
    PROVE  IInv'
<1> USE DEF IInv, TypeOK, WorkStates, WorkMoves, mainVars, loopVars
<1>1. CASE NewServer(t)
  BY <1>1 DEF NewServer, WorkOK, LateOK, JoinOK, LoopStates
<1>2. CASE ConnectDatabase(t)
  BY <1>2 DEF ConnectDatabase, WorkOK, LateOK, JoinOK
<1>3. CASE OpenNetwork(t)
  BY <1>3 DEF OpenNetwork, WorkOK, LateOK, JoinOK
<1>4. CASE StartFails(t) \/ JoinLoopCrashes(t)
  BY <1>4, AbortKeeps DEF StartFails, JoinLoopCrashes
<1>5. CASE LeavePoll(t)
  BY <1>5 DEF LeavePoll, WorkOK, LateOK, JoinOK
<1>6. CASE Release(t)
  BY <1>6 DEF Release, WorkOK, LateOK, JoinOK
<1>7. CASE DeleteTable(t)
  BY <1>7 DEF DeleteTable, WorkOK, LateOK, JoinOK
<1>8. CASE JoinLoop(t)
  BY <1>8 DEF JoinLoop, WorkOK, LateOK, JoinOK
<1>9. QED  BY <1>1, <1>2, <1>3, <1>4, <1>5, <1>6, <1>7, <1>8 DEF WorkStep

\* An event is late only once: the next look at cancel_ ends the loop.
LEMMA LoopKeeps ==
    ASSUME IInv, NEW t \in Threads, LoopStep(t) \/ NextEvent(t)
    PROVE  IInv'
<1> USE DEF IInv, TypeOK, LoopStates, LoopMoves, mainVars, workVars
<1>1. CASE ConnectLoop(t)
  BY <1>1 DEF ConnectLoop, WorkOK, LateOK, JoinOK
<1>2. CASE TestCancel(t)
  <2>1. late[t] # 0 => stop[t]
    BY DEF LateOK, WorkOK, WorkStates
  <2>2. QED  BY <1>2, <2>1 DEF TestCancel, WorkOK, LateOK, JoinOK
<1>3. CASE NextEvent(t)
  BY <1>3 DEF NextEvent, WorkOK, LateOK, JoinOK
<1>4. ASSUME NEW touches \in BOOLEAN, HandleEvent(t, touches)
      PROVE  IInv'
  BY <1>4 DEF HandleEvent, WorkOK, LateOK, JoinOK
<1>5. QED  BY <1>1, <1>2, <1>3, <1>4 DEF LoopStep

LEMMA StepOK == IInv /\ [Next]_vars => IInv'
<1> SUFFICES ASSUME IInv, [Next]_vars PROVE IInv'
  OBVIOUS
<1>1. CASE MainStep
  BY <1>1, MainKeeps
<1>2. CASE Interrupt
  BY <1>2, InterruptKeeps
<1>3. CASE \E t \in Threads : WorkStep(t) \/ LoopStep(t) \/ NextEvent(t) \/ LoopFails(t)
  BY <1>3, WorkKeeps, LoopKeeps, AbortKeeps DEF LoopFails
<1>4. CASE UNCHANGED vars
  BY <1>4 DEF vars, mainVars, workVars, loopVars, IInv, TypeOK, WorkOK, LateOK, JoinOK
<1>5. QED  BY <1>1, <1>2, <1>3, <1>4 DEF Next, Ended

\* Threads, flags and tables stay in the states the code knows, whichever call to
\* pthread_create fails and whenever SIGINT comes (Start, Stop, thread_func).
THEOREM TypeCorrect == Spec => []TypeOK
<1>1. IInv => TypeOK
  BY DEF IInv
<1>2. QED  BY <1>1, InitOK, StepOK, PTL DEF Spec

\* main returns only when every worker and every BinLogLoop has ended.
THEOREM CleanExit == Spec => []ExitIsClean
<1>1. IInv => ExitIsClean
  <2> SUFFICES ASSUME IInv, main = "exit", NEW t \in Threads
               PROVE  /\ work[t] \in {"done", "failed"}
                      /\ loop[t] \in {"none", "failed", "done"}
                      /\ table[t] # "live"
    BY DEF ExitIsClean
  <2>1. t < next
    BY Rounds DEF IInv, JoinOK, Threads
  <2>2. work[t] \in {"done", "failed"}
    BY <2>1 DEF IInv, JoinOK
  <2>3. QED  BY <2>2 DEF IInv, WorkOK
<1>2. QED  BY <1>1, InitOK, StepOK, PTL DEF Spec

\* A table that ~Server has deleted is used by BinLogLoop for one more event at most.
THEOREM OneLateEvent == Spec => []AtMostOneLateEvent
<1>1. IInv => AtMostOneLateEvent
  BY DEF IInv, LateOK, AtMostOneLateEvent
<1>2. QED  BY <1>1, InitOK, StepOK, PTL DEF Spec

\* The table of a server is there for as long as its worker answers requests
\* (thread_func: the server is made before Poll and deleted after it).
THEOREM TablesOutliveService == Spec => []ServedTableLives
<1>1. IInv => ServedTableLives
  BY DEF IInv, TypeOK, WorkOK, WorkStates, ServedTableLives
<1>2. QED  BY <1>1, InitOK, StepOK, PTL DEF Spec
=============================================================================
