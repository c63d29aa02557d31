--------------------------- MODULE SocketMode_proofs ---------------------------
(***************************************************************************)
(* The safety properties of SocketMode, for any number of workers and of   *)
(* datagrams. What carries the proof: the worker in Poll has the mutex, so *)
(* that the queue loses datagrams at one place at a time, and a datagram's *)
(* number, what is in the queue and what has left it always add up.        *)
(***************************************************************************)
EXTENDS SocketMode, FiniteSetTheorems, TLAPS

Users == {t \in Threads : pc[t] \in Using}

\* Nobody but the poller has the mutex.
MutexOK ==
    /\ PollerHasServer
    /\ ~aborted => \A t \in Threads : mutex = t => pc[t] \in Polling

\* The datagrams that have left the queue.
Taken == Len(kinds) - Len(queue)

QueueOK ==
    /\ Len(kinds) <= MaxData
    /\ Taken >= 0
    /\ \A i \in DOMAIN queue : queue[i].id = Taken + i /\ queue[i].kind = kinds[Taken + i]

\* A worker has peeked the first of the queue, and after that has what was taken last.
HeadOK ==
    \A t \in Threads :
       /\ pc[t] = "peeked" => queue # <<>> /\ Head(queue) = head[t]
       /\ pc[t] \in {"discard", "handle"} =>
             Taken > 0 /\ head[t] \in Datagram /\ head[t].id = Taken /\ head[t].kind = kinds[Taken]
       /\ pc[t] = "discard" => head[t].kind = "cut"

AnsweredOK ==
    /\ \A i, j \in DOMAIN answered : i < j => answered[i] < answered[j]
    /\ \A i \in DOMAIN answered :
          /\ answered[i] <= Taken
          /\ \A t \in Threads : pc[t] = "handle" => answered[i] < Taken

LostOK == \A id \in lost : id <= Taken /\ id > 1 /\ kinds[id - 1] = "cut"

IInv == TypeOK /\ RefCountsUsers /\ MutexOK /\ QueueOK /\ HeadOK /\ AnsweredOK /\ LostOK

\* Where a worker may be.
Places == Using \cup {"open", "gone"}

-----------------------------------------------------------------------------

\* Sequences as the queue uses them: what taking the first and adding one do.
LEMMA TailFacts ==
    ASSUME NEW S, NEW q \in Seq(S), q # <<>>
    PROVE  /\ Tail(q) \in Seq(S) /\ Head(q) \in S
           /\ Len(Tail(q)) = Len(q) - 1 /\ Len(q) >= 1
           /\ Head(q) = q[1]
           /\ \A i \in DOMAIN Tail(q) : i + 1 \in DOMAIN q /\ Tail(q)[i] = q[i + 1]
  OBVIOUS

LEMMA AppendFacts ==
    ASSUME NEW S, NEW q \in Seq(S), NEW x \in S
    PROVE  /\ Append(q, x) \in Seq(S)
           /\ Len(Append(q, x)) = Len(q) + 1
           /\ \A i \in DOMAIN q : i \in DOMAIN Append(q, x) /\ Append(q, x)[i] = q[i]
           /\ \A i \in DOMAIN Append(q, x) : i \in DOMAIN q \/ i = Len(q) + 1
           /\ Append(q, x)[Len(q) + 1] = x
           /\ q # <<>> => Head(Append(q, x)) = Head(q)
  OBVIOUS

\* A step moves one worker at most, to a place there is.
LEMMA GotoType ==
    ASSUME pc \in [Threads -> Places], NEW t \in Threads, NEW a, NEW b \in Places, Goto(t, a, b)
    PROVE  pc' \in [Threads -> Places]
  BY DEF Goto

\* The users of the socket are finitely many, a set of workers.
LEMMA UsersFinite == ASSUME SocketAssumption
    PROVE IsFiniteSet(Users) /\ Users \subseteq Threads /\ Cardinality(Users) \in Nat
          /\ Cardinality(Users) <= Cardinality(Threads)
<1>1. Users \subseteq Threads
  BY DEF Users
<1>2. QED
  BY <1>1, FS_Subset, FS_CardinalityType DEF SocketAssumption

-----------------------------------------------------------------------------

LEMMA InitInv == ASSUME SocketAssumption PROVE Init => IInv
<1>. SUFFICES ASSUME Init PROVE IInv
  OBVIOUS
<1>1. TypeOK
  <2>1. ref \in 0..Cardinality(Threads)
    BY UsersFinite, FS_CardinalityType DEF Init, SocketAssumption
  <2>2. queue \in Seq(Datagram) /\ kinds \in Seq(Kinds) /\ answered \in Seq(1..MaxData)
    BY DEF Init
  <2>3. QED
    BY <2>1, <2>2 DEF Init, TypeOK, Using, Polling
<1>2. RefCountsUsers
  <2>1. Users = {}
    BY DEF Init, Users, Using, Polling
  <2>2. Cardinality(Users) = 0
    BY <2>1, UsersFinite, FS_EmptySet
  <2>3. QED
    BY <2>2 DEF Init, RefCountsUsers, Users
<1>3. MutexOK
  BY DEF Init, MutexOK, PollerHasServer, Polling, SocketAssumption
<1>4. QueueOK /\ HeadOK /\ AnsweredOK /\ LostOK
  BY DEF Init, QueueOK, HeadOK, AnsweredOK, LostOK, Taken, SocketAssumption
<1>5. QED
  BY <1>1, <1>2, <1>3, <1>4 DEF IInv

\* The reference count goes with the users: one more, one less, or the same.
LEMMA RefStep == ASSUME SocketAssumption, IInv, [Next]_vars
                 PROVE  RefCountsUsers' /\ ref' \in 0..Cardinality(Threads)
<1>. DEFINE Goal == RefCountsUsers' /\ ref' \in 0..Cardinality(Threads)
<1>1. /\ pc \in [Threads -> Places] /\ ref \in Nat /\ open \in BOOLEAN
      /\ IsFiniteSet(Users) /\ Cardinality(Users) \in Nat
      /\ ref <= Cardinality(Threads) /\ Cardinality(Threads) \in Nat
  BY UsersFinite, FS_CardinalityType DEF IInv, TypeOK, Places, SocketAssumption
<1>2. ~aborted => ref = Cardinality(Users) /\ (open <=> ref > 0)
  BY DEF IInv, RefCountsUsers, Users
<1>3. ASSUME pc' \in [Threads -> Places], Users' \subseteq Threads,
             ~aborted' => ref' = Cardinality(Users)' /\ (open' <=> ref' > 0),
             aborted' => ref' \in 0..Cardinality(Threads)
      PROVE  Goal
  <2>1. Cardinality(Users') \in Nat /\ Cardinality(Users') <= Cardinality(Threads)
    BY <1>3, FS_Subset, FS_CardinalityType DEF SocketAssumption
  <2>2. QED
    BY <1>1, <1>3, <2>1 DEF RefCountsUsers, Users
<1>4. ASSUME UNCHANGED <<ref, open, aborted>>, Users' = Users, pc' \in [Threads -> Places]
      PROVE  Goal
  BY <1>1, <1>2, <1>4, UsersFinite DEF IInv, RefCountsUsers, Users
<1>5. ASSUME NEW t \in Threads, AddRef(t), ~aborted PROVE Goal
  <2>1. /\ Users' = Users \cup {t} /\ t \notin Users
        /\ ref' = ref + 1 /\ open' /\ aborted' = aborted
    BY <1>1, <1>5 DEF AddRef, Goto, Users, Using, Polling
  <2>2. Cardinality(Users') = Cardinality(Users) + 1
    BY <1>1, <2>1, FS_AddElement
  <2>3. pc' \in [Threads -> Places]
    BY <1>1, <1>5 DEF AddRef, Goto, Places, Using
  <2>4. QED
    BY <1>1, <1>2, <1>3, <1>5, <2>1, <2>2, <2>3, UsersFinite DEF Users
<1>6. ASSUME NEW t \in Threads, Release(t), ~aborted PROVE Goal
  <2>1. /\ Users' = Users \ {t} /\ t \in Users
        /\ ref' = ref - 1 /\ aborted' = aborted
        /\ open' = IF ref = 1 THEN FALSE ELSE open
    BY <1>1, <1>6 DEF Release, LastReference, Goto, Users, Using, Polling
  <2>2. Cardinality(Users') = Cardinality(Users) - 1
    BY <1>1, <2>1, FS_RemoveElement
  <2>3. pc' \in [Threads -> Places]
    BY <1>1, <1>6 DEF Release, Goto, Places
  <2>4. Cardinality(Users') \in Nat
    BY <1>1, <2>1, FS_RemoveElement, FS_CardinalityType
  <2>5. QED
    BY <1>1, <1>2, <1>3, <1>6, <2>1, <2>2, <2>3, <2>4, UsersFinite DEF Users
<1>7. ASSUME NEW t \in Threads, AddRefThrows(t) PROVE Goal
  <2>1. Cardinality(Threads) # 0
    BY <1>7, FS_EmptySet DEF SocketAssumption
  <2>2. QED
    BY <1>1, <1>7, <2>1 DEF AddRefThrows, RefCountsUsers
<1>8. ASSUME NEW t \in Threads, Test(t) \/ Poll(t) PROVE Goal
  <2>1. PICK b \in Using : \E a \in Using : Goto(t, a, b)
    BY <1>8 DEF Test, Poll, Lock, OnTimeOut, PeekShort, Peek, Read, Discard, Handle, Unlock,
                Using, Polling, Goto
  <2>2. Users' = Users /\ pc' \in [Threads -> Places]
    BY <1>1, <2>1 DEF Goto, Users, Places
  <2>3. UNCHANGED <<ref, open, aborted>>
    BY <1>8 DEF Test, Poll, Lock, OnTimeOut, PeekShort, Peek, Read, Discard, Handle, Unlock, sockVars
  <2>4. QED
    BY <1>4, <2>2, <2>3
<1>9. ASSUME UNCHANGED <<pc, sockVars, aborted>> PROVE Goal
  BY <1>1, <1>4, <1>9 DEF Users, sockVars
<1>10. (\E kind \in Kinds : Send(kind)) \/ Interrupt \/ UNCHANGED vars => Goal
  BY <1>9 DEF Send, Interrupt, vars
<1>11. QED
  BY <1>5, <1>6, <1>7, <1>8, <1>10 DEF Next, Worker


-----------------------------------------------------------------------------

LEMMA MutexStep == ASSUME SocketAssumption, IInv, [Next]_vars PROVE MutexOK'
<1>. USE DEF MutexOK, PollerHasServer, sockVars, Polling, Goto
<1>1. /\ pc \in [Threads -> Places] /\ NoThread \notin Threads
      /\ MutexOK
  BY DEF IInv, TypeOK, Places, SocketAssumption
<1>2. ASSUME NEW t \in Threads, ~aborted, AddRef(t) \/ Release(t) PROVE MutexOK'
  BY <1>1, <1>2 DEF AddRef, Release
<1>3. ASSUME NEW t \in Threads, AddRefThrows(t), ~aborted PROVE MutexOK'
  BY <1>1, <1>3 DEF AddRefThrows
<1>4. ASSUME NEW t \in Threads, Test(t), ~aborted PROVE MutexOK'
  BY <1>1, <1>4 DEF Test
<1>5. ASSUME NEW t \in Threads, Lock(t), ~aborted PROVE MutexOK'
  BY <1>1, <1>5 DEF Lock
<1>6. ASSUME NEW t \in Threads, Unlock(t), ~aborted PROVE MutexOK'
  BY <1>1, <1>6 DEF Unlock
<1>7. ASSUME NEW t \in Threads, ~aborted,
             OnTimeOut(t) \/ PeekShort(t) \/ Peek(t) \/ Read(t) \/ Discard(t) \/ Handle(t)
      PROVE  MutexOK'
  <2>1. PICK a \in Polling, b \in Polling : Goto(t, a, b)
    BY <1>7 DEF OnTimeOut, PeekShort, Peek, Read, Discard, Handle
  <2>2. UNCHANGED <<mutex, server, aborted>>
    BY <1>7 DEF OnTimeOut, PeekShort, Peek, Read, Discard, Handle
  <2>3. QED
    BY <1>1, <2>1, <2>2
<1>8. ASSUME (\E kind \in Kinds : Send(kind)) \/ Interrupt \/ UNCHANGED vars PROVE MutexOK'
  <2>1. UNCHANGED <<pc, mutex, server, aborted>>
    BY <1>8 DEF Send, Interrupt, vars
  <2>2. QED
    BY <1>1, <2>1
<1>9. QED
  BY <1>2, <1>3, <1>4, <1>5, <1>6, <1>7, <1>8 DEF Next, Worker, Poll

\* The facts every step on the data starts from.
LEMMA DataFacts == ASSUME SocketAssumption, IInv
  PROVE  /\ MaxData \in Nat /\ pc \in [Threads -> Places]
         /\ queue \in Seq(Datagram) /\ kinds \in Seq(Kinds) /\ answered \in Seq(1..MaxData)
         /\ head \in [Threads -> Datagram \cup {<<>>}] /\ lost \subseteq 1..MaxData
         /\ Len(queue) \in Nat /\ Len(kinds) \in Nat /\ Taken \in Nat /\ Taken <= MaxData
         /\ \A t, u \in Threads : pc[t] \in Polling /\ pc[u] \in Polling => t = u
         /\ QueueOK /\ HeadOK /\ AnsweredOK /\ LostOK
  BY DEF IInv, TypeOK, Places, SocketAssumption, QueueOK, Taken, MutexOK, PollerHasServer

DataOK == QueueOK /\ HeadOK /\ AnsweredOK /\ LostOK

DataType ==
    /\ head \in [Threads -> Datagram \cup {<<>>}]
    /\ queue \in Seq(Datagram)
    /\ kinds \in Seq(Kinds)
    /\ answered \in Seq(1..MaxData)
    /\ lost \subseteq 1..MaxData

\* A client sends: the new datagram is the last, with the number of those sent.
LEMMA SendStep == ASSUME SocketAssumption, IInv, NEW kind \in Kinds, Send(kind)
                  PROVE  DataOK' /\ DataType'
<1>1. Len(kinds') = Len(kinds) + 1 /\ kinds' \in Seq(Kinds)
  BY DataFacts DEF Send
<1>2. [id |-> Len(kinds'), kind |-> kind] \in Datagram
  BY DataFacts, <1>1 DEF Send, Datagram
<1>3. /\ queue' \in Seq(Datagram) /\ Len(queue') = Len(queue) + 1 /\ Taken' = Taken
      /\ \A i \in DOMAIN queue : queue'[i] = queue[i]
      /\ \A i \in DOMAIN queue' : i \in DOMAIN queue \/ i = Len(queue) + 1
      /\ queue'[Len(queue) + 1] = [id |-> Len(kinds) + 1, kind |-> kind]
      /\ queue # <<>> => queue' # <<>> /\ Head(queue') = Head(queue)
  BY DataFacts, <1>1, <1>2, AppendFacts DEF Send, Taken
<1>4. /\ \A i \in 1..Len(kinds) : kinds'[i] = kinds[i]
      /\ kinds'[Len(kinds) + 1] = kind
  BY DataFacts DEF Send
<1>5. QueueOK'
  <2>1. ASSUME NEW i \in DOMAIN queue
        PROVE  queue'[i].id = Taken' + i /\ queue'[i].kind = kinds'[Taken' + i]
    <3>1. queue[i].id = Taken + i /\ queue[i].kind = kinds[Taken + i]
      BY DataFacts, <2>1 DEF QueueOK
    <3>2. Taken + i \in 1..Len(kinds)
      BY DataFacts, <2>1 DEF Taken
    <3>3. QED
      BY <1>3, <1>4, <3>1, <3>2
  <2>2. ASSUME NEW i, i = Len(queue) + 1
        PROVE  queue'[i].id = Taken' + i /\ queue'[i].kind = kinds'[Taken' + i]
    <3>1. Taken + Len(queue) = Len(kinds)
      BY DataFacts DEF Taken
    <3>2. Taken' = Taken /\ Len(queue) \in Nat /\ Taken \in Nat
      BY DataFacts, <1>3
    <3>3. Taken' + i = Len(kinds) + 1
      BY <2>2, <3>1, <3>2
    <3>4. QED
      BY <1>3, <1>4, <2>2, <3>3
  <2>3. Len(kinds') <= MaxData /\ Taken' >= 0
    BY DataFacts, <1>1, <1>3 DEF Send
  <2>4. QED
    BY <1>3, <2>1, <2>2, <2>3 DEF QueueOK
<1>6. HeadOK'
  BY DataFacts, <1>3, <1>4 DEF HeadOK, Send, Taken
<1>7. AnsweredOK'
  BY DataFacts, <1>3 DEF AnsweredOK, Send
<1>8. LostOK'
  BY DataFacts, <1>3, <1>4 DEF LostOK, Send, Taken
<1>9. QED
  BY DataFacts, <1>1, <1>3, <1>5, <1>6, <1>7, <1>8 DEF DataOK, DataType, Send


\* A datagram is taken out of the queue by whoever is in Poll: the next one comes to the
\* front, and the one taken has the number Taken now has.
LEMMA TakeFacts == ASSUME SocketAssumption, IInv, queue # <<>>, queue' = Tail(queue), kinds' = kinds
  PROVE  /\ QueueOK' /\ queue' \in Seq(Datagram) /\ Taken' = Taken + 1 /\ Taken' \in 1..MaxData
         /\ Head(queue) \in Datagram
         /\ Head(queue).id = Taken' /\ Head(queue).kind = kinds[Taken']
<1>1. /\ queue' \in Seq(Datagram) /\ Len(queue') = Len(queue) - 1 /\ Len(queue) >= 1
      /\ Head(queue) = queue[1] /\ Head(queue) \in Datagram
      /\ \A i \in DOMAIN queue' : i + 1 \in DOMAIN queue /\ queue'[i] = queue[i + 1]
  BY DataFacts, TailFacts
<1>2. Taken' = Taken + 1 /\ Taken' \in 1..MaxData
  BY DataFacts, <1>1 DEF Taken, QueueOK
<1>3. Head(queue).id = Taken' /\ Head(queue).kind = kinds[Taken']
  <2>1. 1 \in DOMAIN queue
    BY DataFacts, <1>1
  <2>2. queue[1].id = Taken + 1 /\ queue[1].kind = kinds[Taken + 1]
    BY DataFacts, <2>1 DEF QueueOK
  <2>3. QED
    BY <1>1, <1>2, <2>2
<1>4. \A i \in DOMAIN queue' : queue'[i].id = Taken' + i /\ queue'[i].kind = kinds'[Taken' + i]
  <2>1. TAKE i \in DOMAIN queue'
  <2>2. i + 1 \in DOMAIN queue /\ i \in Nat /\ queue'[i] = queue[i + 1]
    BY <1>1
  <2>3. queue[i + 1].id = Taken + (i + 1) /\ queue[i + 1].kind = kinds[Taken + (i + 1)]
    BY DataFacts, <2>2 DEF QueueOK
  <2>4. Taken + (i + 1) = Taken' + i
    BY DataFacts, <1>2, <2>2
  <2>5. QED
    BY <2>2, <2>3, <2>4
<1>5. QED
  BY DataFacts, <1>1, <1>2, <1>3, <1>4 DEF QueueOK

\* The steps of Poll on the data, one at a time.
LEMMA PollStep == ASSUME SocketAssumption, IInv, NEW t \in Threads, Poll(t)
                  PROVE  DataOK' /\ DataType'
<1>. USE DEF Goto, Polling, Places, Using
<1>1. CASE Lock(t) \/ OnTimeOut(t) \/ Unlock(t)
  <2>1. UNCHANGED dataVars
    BY <1>1 DEF Lock, OnTimeOut, Unlock
  <2>2. \A u \in Threads : pc'[u] \in {"peeked", "discard", "handle"} => pc[u] = pc'[u]
    BY DataFacts, <1>1 DEF Lock, OnTimeOut, Unlock
  <2>3. QED
    BY DataFacts, <2>1, <2>2
       DEF dataVars, DataOK, DataType, QueueOK, HeadOK, AnsweredOK, LostOK, Taken
<1>2. CASE PeekShort(t)
  <2>1. queue # <<>> /\ UNCHANGED <<head, kinds, answered, lost>> /\ queue' = Tail(queue)
    BY <1>2 DEF PeekShort
  <2>2. \A u \in Threads : pc'[u] \notin {"peeked", "discard", "handle"}
    BY DataFacts, <1>2 DEF PeekShort
  <2>3. QED
    BY DataFacts, TakeFacts, <2>1, <2>2 DEF DataOK, DataType, HeadOK, AnsweredOK, LostOK
<1>3. CASE Peek(t)
  <2>1. queue # <<>> /\ UNCHANGED <<queue, kinds, answered, lost>>
        /\ head' = [head EXCEPT ![t] = Head(queue)]
    BY <1>3 DEF Peek
  <2>2. \A u \in Threads : /\ pc'[u] \notin {"discard", "handle"}
                           /\ pc'[u] = "peeked" => u = t
    BY DataFacts, <1>3 DEF Peek
  <2>3. Head(queue) \in Datagram
    BY DataFacts, TailFacts, <2>1
  <2>4. QED
    BY DataFacts, <2>1, <2>2, <2>3
       DEF DataOK, DataType, QueueOK, HeadOK, AnsweredOK, LostOK, Taken
<1>4. CASE Read(t)
  <2>1. queue # <<>> /\ UNCHANGED <<head, kinds, answered, lost>> /\ queue' = Tail(queue)
    BY <1>4 DEF Read
  <2>2. \A u \in Threads : /\ pc'[u] # "peeked"
                           /\ pc'[u] \in {"discard", "handle"} => u = t
                           /\ pc'[u] = "discard" => head[t].kind = "cut"
    BY DataFacts, <1>4 DEF Read
  <2>3. Head(queue) = head[t]
    BY DataFacts, <1>4 DEF Read, HeadOK
  <2>4. QED
    BY DataFacts, TakeFacts, <2>1, <2>2, <2>3 DEF DataOK, DataType, HeadOK, AnsweredOK, LostOK
<1>5. CASE Discard(t)
  <2>1. /\ UNCHANGED <<head, kinds, answered>>
        /\ Taken > 0 /\ kinds[Taken] = "cut"
    BY DataFacts, <1>5 DEF Discard, HeadOK
  <2>2. \A u \in Threads : pc'[u] \notin {"peeked", "discard", "handle"}
    BY DataFacts, <1>5 DEF Discard
  <2>3. CASE queue = <<>>
    BY DataFacts, <1>5, <2>1, <2>2, <2>3
       DEF Discard, DataOK, DataType, QueueOK, HeadOK, AnsweredOK, LostOK, Taken
  <2>4. CASE queue # <<>>
    <3>1. queue' = Tail(queue) /\ lost' = lost \cup {Head(queue).id}
      BY <1>5, <2>4 DEF Discard
    <3>2. QED
      BY DataFacts, TakeFacts, <2>1, <2>2, <2>4, <3>1
         DEF DataOK, DataType, HeadOK, AnsweredOK, LostOK
  <2>5. QED
    BY <2>3, <2>4
<1>6. CASE Handle(t)
  <2>1. UNCHANGED <<queue, head, kinds, lost>>
    BY <1>6 DEF Handle
  <2>2. \A u \in Threads : pc'[u] \notin {"peeked", "discard", "handle"}
    BY DataFacts, <1>6 DEF Handle
  <2>3. /\ Taken > 0 /\ head[t].id = Taken
        /\ \A i \in DOMAIN answered : answered[i] < Taken
    BY DataFacts, <1>6 DEF Handle, HeadOK, AnsweredOK
  <2>4. CASE answered' = answered
    BY DataFacts, <2>1, <2>2, <2>4
       DEF DataOK, DataType, QueueOK, HeadOK, AnsweredOK, LostOK, Taken
  <2>5. CASE answered' = Append(answered, Taken)
    <3>1. Taken \in 1..MaxData
      BY DataFacts, <2>3
    <3>2. /\ answered' \in Seq(1..MaxData)
          /\ \A i \in DOMAIN answered' :
                \/ i \in DOMAIN answered /\ answered'[i] = answered[i]
                \/ i = Len(answered) + 1 /\ answered'[i] = Taken
      BY DataFacts, AppendFacts, <2>5, <3>1
    <3>3. \A i, j \in DOMAIN answered' : i < j => answered'[i] < answered'[j]
      <4>1. TAKE i, j \in DOMAIN answered'
      <4>2. HAVE i < j
      <4>3. i # Len(answered) + 1
        <5>1. j <= Len(answered) + 1 /\ i \in Int /\ j \in Int /\ Len(answered) \in Nat
          BY DataFacts, <2>5, <3>2
        <5>2. QED
          BY <4>2, <5>1
      <4>4. QED
        BY DataFacts, <2>3, <3>2, <4>2, <4>3 DEF AnsweredOK
    <3>4. Taken' = Taken
      BY <2>1 DEF Taken
    <3>5. \A i \in DOMAIN answered' : answered'[i] <= Taken
      BY DataFacts, <2>3, <3>2 DEF AnsweredOK
    <3>6. AnsweredOK'
      BY <2>2, <3>3, <3>4, <3>5 DEF AnsweredOK
    <3>7. QED
      BY DataFacts, <2>1, <2>2, <3>2, <3>6 DEF DataOK, DataType, QueueOK, HeadOK, LostOK, Taken
  <2>6. QED
    BY <1>6, <2>3, <2>4, <2>5 DEF Handle
<1>7. QED
  BY <1>1, <1>2, <1>3, <1>4, <1>5, <1>6 DEF Poll


\* The other steps leave the data, but for the last Release, which empties the queue
\* while nobody polls.
LEMMA DataStep == ASSUME SocketAssumption, IInv, [Next]_vars PROVE DataOK' /\ DataType'
<1>. USE DEF Goto, Polling, Places, Using
<1>. DEFINE Goal == DataOK' /\ DataType'
<1>1. ASSUME UNCHANGED dataVars,
             \A t \in Threads : pc'[t] \in {"peeked", "discard", "handle"} => pc[t] = pc'[t]
      PROVE  Goal
  BY DataFacts, <1>1 DEF dataVars, DataOK, DataType, QueueOK, HeadOK, AnsweredOK, LostOK, Taken
<1>2. ASSUME NEW t \in Threads, AddRef(t) \/ AddRefThrows(t) \/ Test(t) PROVE Goal
  <2>1. UNCHANGED dataVars
    BY <1>2 DEF AddRef, AddRefThrows, Test
  <2>2. \A u \in Threads : pc'[u] \in {"peeked", "discard", "handle"} => pc[u] = pc'[u]
    BY DataFacts, <1>2 DEF AddRef, AddRefThrows, Test
  <2>3. QED
    BY <1>1, <2>1, <2>2
<1>3. ASSUME NEW t \in Threads, Release(t) PROVE Goal
  <2>1. UNCHANGED <<head, kinds, answered, lost>>
    BY <1>3 DEF Release
  <2>2. /\ \A u \in Threads : pc[u] \notin {"peeked", "discard", "handle"}
        /\ \A u \in Threads : pc'[u] \notin {"peeked", "discard", "handle"}
    BY DataFacts, <1>3 DEF Release, IInv, MutexOK, PollerHasServer, SocketAssumption
  <2>3. CASE queue' = queue
    BY <1>1, <2>1, <2>2, <2>3 DEF dataVars
  <2>4. CASE queue' = <<>>
    <3>1. Taken' = Len(kinds) /\ queue' \in Seq(Datagram) /\ Taken <= Taken' /\ DOMAIN queue' = {}
      BY DataFacts, <2>1, <2>4 DEF Taken
    <3>2. QueueOK'
      BY DataFacts, <2>1, <3>1 DEF QueueOK
    <3>3. HeadOK' /\ AnsweredOK' /\ LostOK'
      BY DataFacts, <2>1, <2>2, <3>1 DEF HeadOK, AnsweredOK, LostOK
    <3>4. QED
      BY DataFacts, <2>1, <3>1, <3>2, <3>3 DEF DataOK, DataType
  <2>5. QED
    BY <1>3, <2>3, <2>4 DEF Release
<1>4. ASSUME Interrupt \/ UNCHANGED vars PROVE Goal
  <2>1. UNCHANGED <<pc, dataVars>>
    BY <1>4 DEF Interrupt, vars
  <2>2. QED
    BY <1>1, <2>1
<1>5. QED
  BY <1>2, <1>3, <1>4, PollStep, SendStep DEF Next, Worker

LEMMA TypeStep == ASSUME SocketAssumption, IInv, [Next]_vars PROVE TypeOK'
<1>1. TypeOK
  BY DEF IInv
<1>2. ASSUME NEW t \in Threads, Worker(t) \/ AddRefThrows(t)
      PROVE  pc' \in [Threads -> Places] /\ cancel' = cancel /\ open' \in BOOLEAN
             /\ mutex' \in Threads \cup {NoThread} /\ server' \in Threads \cup {NoThread}
             /\ aborted' \in BOOLEAN
  BY <1>1, <1>2 DEF TypeOK, Worker, Poll, AddRef, AddRefThrows, Release, Test, Lock, OnTimeOut,
     PeekShort, Peek, Read, Discard, Handle, Unlock, Goto, sockVars, Places, Using, Polling
<1>3. ASSUME NEW kind \in Kinds, Send(kind)
      PROVE  UNCHANGED <<pc, cancel, sockVars, aborted>>
  BY <1>3 DEF Send
<1>4. ASSUME Interrupt \/ UNCHANGED vars
      PROVE  UNCHANGED <<pc, sockVars, aborted>> /\ cancel' \in [Threads -> BOOLEAN]
  BY <1>1, <1>4 DEF Interrupt, vars, TypeOK
<1>5. /\ pc' \in [Threads -> Places] /\ cancel' \in [Threads -> BOOLEAN]
      /\ mutex' \in Threads \cup {NoThread} /\ server' \in Threads \cup {NoThread}
      /\ open' \in BOOLEAN /\ aborted' \in BOOLEAN
  BY <1>1, <1>2, <1>3, <1>4 DEF Next, TypeOK, sockVars, Places
<1>6. QED
  BY <1>5, RefStep, DataStep DEF TypeOK, DataType, Places

LEMMA Inductive == ASSUME SocketAssumption PROVE Spec => []IInv
<1>1. Init => IInv
  BY InitInv
<1>2. IInv /\ [Next]_vars => IInv'
  BY RefStep, MutexStep, DataStep, TypeStep DEF IInv, DataOK
<1>3. QED
  BY <1>1, <1>2, PTL DEF Spec

-----------------------------------------------------------------------------
(* The theorems.                                                           *)

\* Type correctness, for any number of workers and datagrams.
THEOREM TypeCorrect == Spec => []TypeOK
<1>1. IInv => TypeOK
  BY DEF IInv
<1>2. QED
  BY <1>1, Inductive, SocketAssumption, PTL

\* The reference count is the number of workers between Open and ~Socket, and the
\* socket is open exactly while there is one (AddRef and Release, socket.cc:101-158).
THEOREM CountIsUsers == Spec => []RefCountsUsers
<1>1. IInv => RefCountsUsers
  BY DEF IInv
<1>2. QED
  BY <1>1, Inductive, SocketAssumption, PTL

\* Whoever is in the event loop has the mutex and is answered by its own server (Poll,
\* socket.cc:79-86).
THEOREM PollersAreAlone == Spec => []PollerHasServer
<1>1. IInv => PollerHasServer
  BY DEF IInv, MutexOK
<1>2. QED
  BY <1>1, Inductive, SocketAssumption, PTL

\* The datagram that is read is the one whose header was peeked, and no datagram is
\* answered twice or out of order (OnRecv, socket.cc:41-72).
THEOREM PeekAndReadAgree == Spec => []PeekedIsRead
<1>1. IInv => PeekedIsRead
  BY DEF IInv, HeadOK, AnsweredOK, PeekedIsRead
<1>2. QED
  BY <1>1, Inductive, SocketAssumption, PTL

\* A datagram is lost in an open socket only behind one that was cut short (OnRecv,
\* socket.cc:51-54).
THEOREM OnlyCutsLose == Spec => []LossesFollowCuts
<1>1. IInv => LossesFollowCuts
  BY DEF IInv, LostOK, LossesFollowCuts
<1>2. QED
  BY <1>1, Inductive, SocketAssumption, PTL

=============================================================================
