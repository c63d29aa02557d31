------------------------------ MODULE Lifecycle ------------------------------
(***************************************************************************)
(* How the process starts and stops: the main thread (Process), the N      *)
(* worker threads (thread_func, each with its own server), and the thread  *)
(* each server creates for BinLogLoop. SIGINT stops the workers; a worker  *)
(* releases its server, which deletes the table and joins its BinLogLoop;  *)
(* the main thread joins the workers.                                      *)
(*                                                                         *)
(* An exception in any of these threads, and undefined behaviour that      *)
(* takes the bad turn, end the whole process: main is then "aborted".      *)
(***************************************************************************)
EXTENDS Integers

CONSTANT N   \* Thread::Count(), 8

ASSUME ThreadAssumption == N \in Nat \ {0}

Threads == 0..(N - 1)
JoinCalls == N * N   \* of pthread_join in Stop: one Join for each, which joins all

VARIABLES
    main,     \* what the main thread is in, or how the process ended
    next,     \* the loop counter there
    quit,     \* s_quit_
    work,     \* where each worker is
    cancel,   \* its Thread::cancel_
    joined,   \* the workers that have been joined
    loop,     \* where the BinLogLoop of each server is
    stop,     \* its Server::cancel_
    table,    \* its lookup_value_
    late      \* history: events its BinLogLoop applied to a deleted table

mainVars == <<main, next, joined>>
workVars == <<work, stop, table>>
loopVars == <<loop, late>>
vars == <<mainVars, quit, cancel, workVars, loopVars>>

MainStates == {"start", "run", "join", "exit", "aborted"}
WorkStates == {"none", "failed", "server", "database", "network", "poll",
               "release", "table", "thread", "done"}
LoopStates == {"none", "failed", "connect", "test", "wait", "event", "done"}

TypeOK ==
    /\ main \in MainStates
    /\ next \in 0..JoinCalls
    /\ quit \in BOOLEAN
    /\ work \in [Threads -> WorkStates]
    /\ cancel \in [Threads -> BOOLEAN]
    /\ joined \subseteq Threads
    /\ loop \in [Threads -> LoopStates]
    /\ stop \in [Threads -> BOOLEAN]
    /\ table \in [Threads -> {"none", "live", "deleted"}]
    /\ late \in [Threads -> 0..2]

\* After Process::Setup, which installs the handler of SIGINT.
Init ==
    /\ main = "start" /\ next = 0 /\ joined = {}
    /\ quit = FALSE
    /\ cancel = [t \in Threads |-> FALSE]
    /\ work = [t \in Threads |-> "none"]
    /\ stop = [t \in Threads |-> FALSE]
    /\ table = [t \in Threads |-> "none"]
    /\ loop = [t \in Threads |-> "none"]
    /\ late = [t \in Threads |-> 0]

Alive == main \notin {"exit", "aborted"}

\* std::terminate, or a crash.
Abort ==
    /\ Alive
    /\ main' = "aborted"
    /\ UNCHANGED <<next, joined, quit, cancel, workVars, loopVars>>

-----------------------------------------------------------------------------
(* The main thread, and the handler of SIGINT on whatever thread.          *)

\* Process::Start, one thread. pthread_create returns an error number when it
\* fails, never the -1 that Thread::Start asks for: nobody notices.
StartThread ==
    /\ main = "start"
    /\ next < N
    /\ next' = next + 1
    /\ \E pc \in {"server", "failed"} : work' = [work EXCEPT ![next] = pc]
    /\ UNCHANGED <<main, joined, quit, cancel, stop, table, loopVars>>

Started ==
    /\ main = "start"
    /\ next = N
    /\ main' = "run"
    /\ UNCHANGED <<next, joined, quit, cancel, workVars, loopVars>>

\* Mutant: n <= cnt in the loop over the threads.
InterruptPastLast ==
    /\ Alive
    /\ ~quit
    /\ quit' = TRUE
    /\ cancel' = [t \in 0..N |-> TRUE]
    /\ UNCHANGED <<mainVars, workVars, loopVars>>

\* sigint_handler.
Interrupt ==
    /\ Alive
    /\ ~quit
    /\ quit' = TRUE
    /\ cancel' = [t \in Threads |-> TRUE]
    /\ UNCHANGED <<mainVars, workVars, loopVars>>

\* Process::Run sees s_quit_ and calls Stop.
Quit ==
    /\ main = "run"
    /\ quit
    /\ main' = "join"
    /\ next' = 0
    /\ cancel' = [t \in Threads |-> TRUE]
    /\ UNCHANGED <<joined, quit, workVars, loopVars>>

\* Mutant: Join of every thread joins the first one.
JoinTargetFirst(call) == 0

\* The thread that a call of pthread_join is for.
JoinTarget(call) == call % N

\* A thread that was joined before or never created: undefined, the call returns
\* or crashes.
JoinThread ==
    /\ main = "join"
    /\ next < JoinCalls
    /\ LET t == JoinTarget(next)
       IN  /\ t \notin joined => work[t] \in {"done", "failed"}
           /\ joined' = joined \cup {t}
    /\ next' = next + 1
    /\ UNCHANGED <<main, quit, cancel, workVars, loopVars>>

JoinCrashes ==
    /\ main = "join"
    /\ next < JoinCalls
    /\ JoinTarget(next) \in joined \/ work[JoinTarget(next)] = "failed"
    /\ Abort

\* main returns.
Exit ==
    /\ main = "join"
    /\ next = JoinCalls
    /\ main' = "exit"
    /\ UNCHANGED <<next, joined, quit, cancel, workVars, loopVars>>

MainStep == StartThread \/ Started \/ Quit \/ JoinThread \/ JoinCrashes \/ Exit

-----------------------------------------------------------------------------
(* A worker, thread_func.                                                  *)

WorkMoves(t, from, to) ==
    /\ Alive
    /\ work[t] = from
    /\ work' = [work EXCEPT ![t] = to]
    /\ UNCHANGED <<mainVars, quit, cancel>>

\* The first half of the constructor of Server. cancel_ is not initialised, and a
\* failure to create the thread is not noticed here either.
NewServer(t) ==
    /\ WorkMoves(t, "server", "database")
    /\ table' = [table EXCEPT ![t] = "live"]
    /\ \E c \in BOOLEAN : stop' = [stop EXCEPT ![t] = c]
    /\ \E pc \in {"connect", "failed"} : loop' = [loop EXCEPT ![t] = pc]
    /\ UNCHANGED late

\* The second half, some three seconds later.
ConnectDatabase(t) ==
    /\ WorkMoves(t, "database", "network")
    /\ UNCHANGED <<stop, table, loopVars>>

OpenNetwork(t) ==
    /\ WorkMoves(t, "network", "poll")
    /\ UNCHANGED <<stop, table, loopVars>>

\* No memory for the table, no database, no interface: an exception.
StartFails(t) ==
    /\ work[t] \in {"server", "database", "network"}
    /\ Abort

\* Poll returns after 200 ms at the latest, and the worker looks at its cancel_.
LeavePoll(t) ==
    /\ cancel[t]
    /\ WorkMoves(t, "poll", "release")
    /\ UNCHANGED <<stop, table, loopVars>>

\* Mutant: delete without cancel_.
ReleaseUncancelled(t) ==
    /\ WorkMoves(t, "release", "table")
    /\ UNCHANGED <<stop, table, loopVars>>

\* ArchIf::Release, and Server::Release up to the delete.
Release(t) ==
    /\ WorkMoves(t, "release", "table")
    /\ stop' = [stop EXCEPT ![t] = TRUE]
    /\ UNCHANGED <<table, loopVars>>

\* Mutant: LookupTable::Init, one table for all, where Create is called.
DeleteTableShared(t) ==
    /\ WorkMoves(t, "table", "thread")
    /\ table' = [r \in Threads |-> IF table[r] = "live" THEN "deleted" ELSE table[r]]
    /\ UNCHANGED <<stop, loopVars>>

\* The destructor of Server: the table first ...
DeleteTable(t) ==
    /\ WorkMoves(t, "table", "thread")
    /\ table' = [table EXCEPT ![t] = "deleted"]
    /\ UNCHANGED <<stop, loopVars>>

\* ... then BinLogLoop is waited for. If its thread was never created, thread_ is
\* not initialised: the call returns or crashes.
JoinLoop(t) ==
    /\ loop[t] \in {"done", "failed"}
    /\ WorkMoves(t, "thread", "done")
    /\ UNCHANGED <<stop, table, loopVars>>

JoinLoopCrashes(t) ==
    /\ work[t] = "thread" /\ loop[t] = "failed"
    /\ Abort

WorkStep(t) ==
    \/ NewServer(t) \/ ConnectDatabase(t) \/ OpenNetwork(t) \/ StartFails(t)
    \/ LeavePoll(t) \/ Release(t) \/ DeleteTable(t)
    \/ JoinLoop(t) \/ JoinLoopCrashes(t)

-----------------------------------------------------------------------------
(* BinLogLoop of the server of a worker.                                   *)

LoopMoves(t, from, to) ==
    /\ Alive
    /\ loop[t] = from
    /\ loop' = [loop EXCEPT ![t] = to]
    /\ UNCHANGED <<mainVars, quit, cancel, workVars>>

ConnectLoop(t) ==
    /\ LoopMoves(t, "connect", "test")
    /\ UNCHANGED late

TestCancel(t) ==
    /\ LoopMoves(t, "test", IF stop[t] THEN "done" ELSE "wait")
    /\ UNCHANGED late

\* get_next_event returns one.
NextEvent(t) ==
    /\ LoopMoves(t, "wait", "event")
    /\ UNCHANGED late

\* An event with rows of kvs changes the table, others do not look at it.
HandleEvent(t, touches) ==
    /\ LoopMoves(t, "event", "test")
    /\ late' = IF touches /\ table[t] = "deleted" /\ late[t] < 2
               THEN [late EXCEPT ![t] = @ + 1] ELSE late

\* No connection, a failing get_next_event, a throwing Add or Del, or the use of
\* memory that was freed.
LoopFails(t) ==
    /\ loop[t] \in {"connect", "wait", "event"}
    /\ Abort

LoopStep(t) ==
    \/ ConnectLoop(t) \/ TestCancel(t)
    \/ \E touches \in BOOLEAN : HandleEvent(t, touches)

-----------------------------------------------------------------------------

Ended == ~Alive /\ UNCHANGED vars

Next ==
    \/ MainStep
    \/ Interrupt
    \/ \E t \in Threads : WorkStep(t) \/ LoopStep(t) \/ NextEvent(t) \/ LoopFails(t)
    \/ Ended

Spec == Init /\ [][Next]_vars

\* Threads that can run do run. SIGINT need not come, and neither need events.
FairSpec ==
    /\ Spec
    /\ WF_vars(MainStep)
    /\ \A t \in Threads : WF_vars(WorkStep(t)) /\ WF_vars(LoopStep(t))
-----------------------------------------------------------------------------
(* Properties.                                                             *)

\* The process exits in good order or not at all: when main returns no worker
\* and no BinLogLoop is left running, and no table is left allocated.
ExitIsClean ==
    main = "exit" => \A t \in Threads : /\ work[t] \in {"done", "failed"}
                                        /\ loop[t] \in {"none", "failed", "done"}
                                        /\ table[t] # "live"

\* The destructor deletes the table before it joins BinLogLoop, so the loop may
\* use memory that was freed; but cancel_ was set before that, and it is looked
\* at between any two events: one event at most.
AtMostOneLateEvent == \A t \in Threads : late[t] <= 1

\* A table goes only after its own server has been cancelled: while a worker
\* answers requests, the table it looks them up in is there.
ServedTableLives ==
    \A t \in Threads : /\ work[t] \in {"network", "poll", "release"} => table[t] = "live"
                       /\ table[t] = "deleted" => cancel[t] /\ stop[t]

\* After SIGINT the process ends, if every BinLogLoop that waits for an event gets
\* one. (If the database is silent, it does not.)
StopEnds ==
    (\A t \in Threads : []<>(loop[t] # "wait")) => (quit ~> ~Alive)

=============================================================================
