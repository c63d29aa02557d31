------------------------------ MODULE SocketMode ------------------------------
(***************************************************************************)
(* The socket build (nmmc_arch_impl_socket.cc): every worker opens the one *)
(* SocketSingleton, and a worker polls it by running one round of the      *)
(* event loop under the mutex, with the server that answers set to its own.*)
(*                                                                         *)
(* A datagram is [id, kind]. What counts is how its length compares with   *)
(* what it says: `short' of a header, `cut' before the end of the body it  *)
(* declares, `long', or `whole'; an `odd' one is whole and no request that *)
(* validate_header and OnRecieve let through (Requests).                   *)
(***************************************************************************)
EXTENDS Integers, Sequences, FiniteSets

CONSTANTS
    Threads,   \* the workers (two in this build)
    NoThread,
    MaxData    \* bound of this model on the datagrams clients send

ASSUME SocketAssumption ==
    NoThread \notin Threads /\ MaxData \in Nat /\ IsFiniteSet(Threads)

VARIABLES
    pc,         \* where each worker is
    cancel,     \* its Thread::cancel_
    mutex,      \* the owner of mtx_
    ref,        \* ref_
    open,       \* whether fd_ is an open socket
    server,     \* server_, by the worker whose server it is
    queue,      \* the datagrams in the socket's buffer
    head,       \* the header each worker has peeked
    kinds,      \* history: the kind of each datagram sent, by id
    answered,   \* history: the ids answered, in order
    lost,       \* history: the ids read into the void
    aborted     \* whether an exception has ended the process

sockVars == <<mutex, ref, open, server>>
dataVars == <<queue, head, kinds, answered, lost>>
vars == <<pc, cancel, sockVars, dataVars, aborted>>

Kinds == {"short", "cut", "long", "whole", "odd"}
Answerable == {"long", "whole"}
Datagram == [id : 1..MaxData, kind : Kinds]

Polling == {"wait", "peeked", "discard", "handle", "unlock"}   \* inside Poll
Using   == Polling \cup {"test", "lock", "release"}            \* from Open to ~Socket

TypeOK ==
    /\ pc \in [Threads -> Using \cup {"open", "gone"}]
    /\ cancel \in [Threads -> BOOLEAN]
    /\ mutex \in Threads \cup {NoThread}
    /\ ref \in 0..Cardinality(Threads)
    /\ open \in BOOLEAN
    /\ server \in Threads \cup {NoThread}
    /\ queue \in Seq(Datagram)
    /\ head \in [Threads -> Datagram \cup {<<>>}]
    /\ kinds \in Seq(Kinds)
    /\ answered \in Seq(1..MaxData)
    /\ lost \subseteq 1..MaxData
    /\ aborted \in BOOLEAN

Init ==
    /\ pc = [t \in Threads |-> "open"]
    /\ cancel = [t \in Threads |-> FALSE]
    /\ mutex = NoThread /\ ref = 0 /\ open = FALSE /\ server = NoThread
    /\ queue = <<>> /\ head = [t \in Threads |-> <<>>]
    /\ kinds = <<>> /\ answered = <<>> /\ lost = {}
    /\ aborted = FALSE

Goto(t, from, to) == pc[t] = from /\ pc' = [pc EXCEPT ![t] = to]

-----------------------------------------------------------------------------
(* Opening and closing: AddRef, Release.                                   *)

\* Mutant of AddRef: cancelled while it opened, the worker leaves its reference and tries again.
AddRefAgain(t) ==
    /\ Goto(t, "open", IF cancel[t] THEN "open" ELSE "test")
    /\ mutex = NoThread
    /\ ref' = ref + 1
    /\ open' = TRUE
    /\ UNCHANGED <<cancel, mutex, server, dataVars, aborted>>

\* The first reference opens and binds the socket and makes the event base.
AddRef(t) ==
    /\ Goto(t, "open", "test")
    /\ mutex = NoThread
    /\ ref' = ref + 1
    /\ open' = TRUE
    /\ UNCHANGED <<cancel, mutex, server, dataVars, aborted>>

\* A call in it that fails throws with the mutex locked and the reference counted;
\* nothing catches it in thread_func.
AddRefThrows(t) ==
    /\ pc[t] = "open" /\ mutex = NoThread /\ ref = 0
    /\ mutex' = t /\ ref' = 1
    /\ aborted' = TRUE
    /\ UNCHANGED <<pc, cancel, open, server, dataVars>>

\* Mutant of LastReference: tested after the subtraction.
LastReferenceLate == ref - 1 = 1

LastReference == ref = 1

\* ~Socket. Closing discards what is in the socket's buffer. The worker then releases
\* its server.
Release(t) ==
    /\ Goto(t, "release", "gone")
    /\ mutex = NoThread
    /\ ref' = ref - 1
    /\ IF LastReference THEN open' = FALSE /\ queue' = <<>> ELSE UNCHANGED <<open, queue>>
    /\ UNCHANGED <<cancel, mutex, server, head, kinds, answered, lost, aborted>>

-----------------------------------------------------------------------------
(* Poll and OnRecv.                                                        *)

\* Mutant of Test: a worker that has no socket left to itself goes on.
TestLast(t) ==
    /\ Goto(t, "test", IF cancel[t] /\ ref = 1 THEN "release" ELSE "lock")
    /\ UNCHANGED <<cancel, sockVars, dataVars, aborted>>

\* while (!t->cancel_)
Test(t) ==
    /\ Goto(t, "test", IF cancel[t] THEN "release" ELSE "lock")
    /\ UNCHANGED <<cancel, sockVars, dataVars, aborted>>

\* Mutant of Lock: the server is set, the mutex is not taken.
LockForgotten(t) ==
    /\ Goto(t, "lock", "wait")
    /\ server' = t
    /\ UNCHANGED <<cancel, mutex, ref, open, dataVars, aborted>>

\* pthread_mutex_lock and server_ = server.
Lock(t) ==
    /\ Goto(t, "lock", "wait")
    /\ mutex = NoThread
    /\ mutex' = t /\ server' = t
    /\ UNCHANGED <<cancel, ref, open, dataVars, aborted>>

\* EVLOOP_ONCE returns with the timeout of a second.
OnTimeOut(t) ==
    /\ queue = <<>>
    /\ Goto(t, "wait", "unlock")
    /\ UNCHANGED <<cancel, sockVars, dataVars, aborted>>

\* Mutant of PeekShort: the datagram that was peeked is left where it is.
PeekShortKept(t) ==
    /\ queue # <<>> /\ Head(queue).kind = "short"
    /\ Goto(t, "wait", "unlock")
    /\ UNCHANGED <<cancel, sockVars, dataVars, aborted>>

\* A datagram that is short of a header is read away at once.
PeekShort(t) ==
    /\ queue # <<>> /\ Head(queue).kind = "short"
    /\ Goto(t, "wait", "unlock")
    /\ queue' = Tail(queue)
    /\ UNCHANGED <<cancel, sockVars, head, kinds, answered, lost, aborted>>

Peek(t) ==
    /\ queue # <<>> /\ Head(queue).kind # "short"
    /\ Goto(t, "wait", "peeked")
    /\ head' = [head EXCEPT ![t] = Head(queue)]
    /\ UNCHANGED <<cancel, sockVars, queue, kinds, answered, lost, aborted>>

\* As many bytes as the header declares: of a cut datagram there are fewer, and of a
\* long one the rest is gone.
Read(t) ==
    /\ queue # <<>>
    /\ Goto(t, "peeked", IF head[t].kind = "cut" THEN "discard" ELSE "handle")
    /\ queue' = Tail(queue)
    /\ UNCHANGED <<cancel, sockVars, head, kinds, answered, lost, aborted>>

\* Mutant: reads until the buffer is empty.
DiscardAll(t) ==
    /\ Goto(t, "discard", "unlock")
    /\ queue' = <<>>
    /\ lost' = lost \cup {queue[i].id : i \in DOMAIN queue}
    /\ UNCHANGED <<cancel, sockVars, head, kinds, answered, aborted>>

\* The datagram whose lengths differ has been read: this reads the next one, if
\* there is one.
Discard(t) ==
    /\ Goto(t, "discard", "unlock")
    /\ IF queue = <<>> THEN UNCHANGED <<queue, lost>>
       ELSE queue' = Tail(queue) /\ lost' = lost \cup {Head(queue).id}
    /\ UNCHANGED <<cancel, sockVars, head, kinds, answered, aborted>>

\* validate_header, OnRecieve and Send_Unsafe.
Handle(t) ==
    /\ Goto(t, "handle", "unlock")
    /\ answered' = IF head[t].kind \in Answerable THEN Append(answered, head[t].id)
                                                  ELSE answered
    /\ UNCHANGED <<cancel, sockVars, queue, head, kinds, lost, aborted>>

Unlock(t) ==
    /\ Goto(t, "unlock", "test")
    /\ mutex' = NoThread
    /\ UNCHANGED <<cancel, ref, open, server, dataVars, aborted>>

Poll(t) ==
    Lock(t) \/ OnTimeOut(t) \/ PeekShort(t) \/ Peek(t) \/ Read(t) \/ Discard(t)
    \/ Handle(t) \/ Unlock(t)

-----------------------------------------------------------------------------

Send(kind) ==
    /\ open /\ Len(kinds) < MaxData
    /\ kinds' = Append(kinds, kind)
    /\ queue' = Append(queue, [id |-> Len(kinds'), kind |-> kind])
    /\ UNCHANGED <<pc, cancel, sockVars, head, answered, lost, aborted>>

\* sigint_handler.
Interrupt ==
    /\ \E t \in Threads : ~cancel[t]
    /\ cancel' = [t \in Threads |-> TRUE]
    /\ UNCHANGED <<pc, sockVars, dataVars, aborted>>

Worker(t) == AddRef(t) \/ Release(t) \/ Test(t) \/ Poll(t)

Next ==
    /\ ~aborted
    /\ \/ \E t \in Threads : Worker(t) \/ AddRefThrows(t)
       \/ \E kind \in Kinds : Send(kind)
       \/ Interrupt

\* The scheduler runs every worker that can run. The mutex is not fair: which one of
\* several gets it is open, for ever.
Spec == Init /\ [][Next]_vars /\ \A t \in Threads : WF_vars(~aborted /\ Worker(t))

-----------------------------------------------------------------------------
(* Properties.                                                             *)

\* Reference count, socket and workers agree: the socket is open exactly while a
\* worker is between Open and ~Socket (socket.cc:99-160), however late one starts.
RefCountsUsers ==
    ~aborted => /\ ref = Cardinality({t \in Threads : pc[t] \in Using})
                /\ open <=> ref > 0

\* Whoever is in the event loop has the mutex and is answered by its own server, not
\* by one that is gone (socket.cc:33 and 79-83).
PollerHasServer ==
    \A t \in Threads : pc[t] \in Polling => mutex = t /\ server = t

\* Two calls read a datagram, one the header and one the whole: they get the same one,
\* and nobody else answers it (socket.cc:41 and 50).
PeekedIsRead ==
    /\ \A t \in Threads : pc[t] = "peeked" => queue # <<>> /\ Head(queue) = head[t]
    /\ \A i, j \in DOMAIN answered : i < j => answered[i] < answered[j]

\* The read that is meant to discard a datagram cut short takes the one behind it
\* (socket.cc:51-54). No other datagram is lost while the socket is open.
LossesFollowCuts == \A id \in lost : id > 1 /\ kinds[id - 1] = "cut"

Over == aborted \/ \A t \in Threads : cancel[t]

\* As long as the process runs, whichever workers get the mutex, every datagram is
\* taken out of the socket.
EachIsRead ==
    \A id \in 1..MaxData :
       (\E i \in DOMAIN queue : queue[i].id = id)
       ~> (Over \/ \A i \in DOMAIN queue : queue[i].id # id)

\* After SIGINT every worker leaves, though workers in Poll hold the mutex for up to a
\* second each time and the mutex is not fair.
CancelledLeave ==
    (\A t \in Threads : cancel[t]) ~> (aborted \/ \A t \in Threads : pc[t] = "gone")
=============================================================================
