----------------------------- MODULE Replication -----------------------------
(***************************************************************************)
(* The servers of the process and the database they share. A SET goes to   *)
(* the database (OnRecieveSet); what changes there, by a SET or otherwise, *)
(* reaches the tables of the servers only through the binlog, which the    *)
(* BinLogLoop of each server replays on its own; a GET looks at the table  *)
(* of its server.                                                          *)
(*                                                                         *)
(* One entry of log is one table map or one row image of the binlog, so a  *)
(* rows event is a stretch of entries and a step of BinLogLoop is one turn *)
(* of its inner loop. hist holds the states of the database: hist[1] the   *)
(* first, hist[i+1] the one after the change that entry i is part of.      *)
(***************************************************************************)
EXTENDS LookupTableOps, ValueCodec, FiniteSets

CONSTANTS
    Servers,      \* one for each thread of the process
    Values,       \* the values SETs and SQL statements write
    DbKeys,       \* the keys the database may hold: the column is a bigint
    FirstDbs,     \* what the database may hold before the first binlog file
    SqlKeys,      \* those that statements other than SETs insert
    KeyRange,     \* a key is cut to K, a uint32_t: taken modulo 2^32
    OtherTables,  \* tables besides kvs in the same binlog
    Statements,   \* further statements: subset of {"move", "multi"}
    MaxLog,       \* bound of this model on the length of the binlog
    MaxFiles      \* and on the number of its files

\* What the column may hold: a value as an SQL statement puts it there, or as a
\* SET does.
ColumnValues == Values \cup {Stored(val) : val \in Values}

\* A state of the database: the value of each key, {} for a key without a row.
DbStates == [DbKeys -> SUBSET ColumnValues]

ASSUME KeyAssumption ==
    /\ KeyRange \in Nat \ {0} /\ S <= KeyRange
    /\ Slots \subseteq DbKeys /\ DbKeys \subseteq Int /\ SqlKeys \subseteq DbKeys
ASSUME ValueAssumption ==
    /\ Values \subseteq Seq(Bytes)
    /\ FirstDbs \subseteq DbStates
ASSUME TableAssumption == "kvs" \notin OtherTables
ASSUME StatementAssumption == Statements \subseteq {"move", "multi"}
ASSUME LogAssumption == MaxLog \in Nat /\ MaxFiles \in Nat

VARIABLES
    log,     \* the entries of the binlog
    hist,    \* the states of the database
    files,   \* the lengths of log at which a binlog file starts
    up,      \* the process runs, and is not being stopped
    tbl,     \* lookup_value_ of each server
    pos,     \* how many entries the BinLogLoop of a server has handled
    tmp,     \* its tmpevent is set
    stop     \* its Server::cancel_, which nothing assigns before the loop tests it

dbVars == <<log, hist, files>>
serverVars == <<up, tbl, pos, tmp, stop>>
vars == <<dbVars, serverVars>>

RowTypes == {"write", "update", "delete"}
Bodies == {RowBody(val) : val \in ColumnValues} \cup {ZeroBody}

\* An entry. idx counts the row images of one rows event; a map has no row.
Entry(type, table, idx, key, val) ==
    [type |-> type, table |-> table, idx |-> idx, key |-> key, val |-> val]
MapOf(table) == Entry("map", table, 0, 0, <<>>)
OtherEntry   == Entry("other", "", 0, 0, <<>>)

Tables == {"kvs"} \cup OtherTables

\* strncasecmp(TBL_KVS, m_tblnam, strlen(TBL_KVS)): three letters are compared.
\* The tables this model may be given that begin with them:
PrefixedTables == {"kvs", "kvs_old"}
Target(table) == table \in PrefixedTables

Entries == [type : RowTypes \cup {"map", "other"}, table : Tables \cup {""},
            idx : Nat, key : Int, val : ColumnValues \cup {<<>>}]

TypeOK ==
    /\ log \in Seq(Entries)
    /\ hist \in Seq(DbStates)
    /\ Len(hist) = Len(log) + 1
    /\ 0 \in files /\ files \subseteq 0..Len(log)
    /\ up \in BOOLEAN
    /\ tbl \in [Servers -> TableOf(Bodies)]
    /\ pos \in [Servers -> 0..Len(log)]
    /\ tmp \in [Servers -> BOOLEAN]
    /\ stop \in [Servers -> BOOLEAN]

Init ==
    /\ log = <<>>
    /\ hist \in {<<db>> : db \in FirstDbs}
    /\ files = {0}
    /\ up = TRUE
    /\ tbl = [s \in Servers |-> ClearedTable(ZeroBody)]
    /\ pos = [s \in Servers |-> 0]
    /\ tmp = [s \in Servers |-> FALSE]
    /\ stop \in [Servers -> BOOLEAN]

-----------------------------------------------------------------------------
(* The database. It logs what a statement changes, and nothing for one     *)
(* that changes nothing.                                                   *)

Db == hist[Len(hist)]

Commit(entries, states) ==
    /\ Len(log) + Len(entries) <= MaxLog
    /\ log' = log \o entries
    /\ hist' = hist \o states
    /\ UNCHANGED <<files, serverVars>>

InsertRow(k, val) ==
    /\ Db[k] = {}
    /\ Commit(<<MapOf("kvs"), Entry("write", "kvs", 0, k, val)>>,
              <<Db, [Db EXCEPT ![k] = {val}]>>)

UpdateRow(k, val) ==
    \E old \in Db[k] \ {val} :
       Commit(<<MapOf("kvs"), Entry("update", "kvs", 0, k, old), Entry("update", "kvs", 1, k, val)>>,
              <<Db, Db, [Db EXCEPT ![k] = {val}]>>)

\* A SET of a client, on any server: INSERT ... ON DUPLICATE KEY UPDATE for the
\* low bits of the key (nmmc_key.k.id) and the value as its literal.
OnRecieveSet(key, val) ==
    /\ up
    /\ val # <<>>
    /\ LET k == key % S  v == Stored(val)
       IN  InsertRow(k, v) \/ UpdateRow(k, v)

SqlInsert(k, val) == InsertRow(k, val)

\* UPDATE of two rows in one statement: one rows event of four images.
SqlUpdateTwo(k, j, val) ==
    /\ k < j
    /\ \E old \in Db[k] \ {val}, older \in Db[j] \ {val} :
          Commit(<<MapOf("kvs"),
                   Entry("update", "kvs", 0, k, old), Entry("update", "kvs", 1, k, val),
                   Entry("update", "kvs", 2, j, older), Entry("update", "kvs", 3, j, val)>>,
                 <<Db, Db, [Db EXCEPT ![k] = {val}], [Db EXCEPT ![k] = {val}],
                   [Db EXCEPT ![k] = {val}, ![j] = {val}]>>)

SqlDelete(k) ==
    \E old \in Db[k] :
       Commit(<<MapOf("kvs"), Entry("delete", "kvs", 0, k, old)>>,
              <<Db, [Db EXCEPT ![k] = {}]>>)

\* A row of another table with columns like those of kvs.
SqlOther(table, k, val) ==
    Commit(<<MapOf(table), Entry("write", table, 0, k, val)>>, <<Db, Db>>)

\* UPDATE kvs SET key = j: the key itself moves.
SqlMove(k, j) ==
    /\ "move" \in Statements
    /\ k # j /\ Db[j] = {}
    /\ \E val \in Db[k] :
          Commit(<<MapOf("kvs"), Entry("update", "kvs", 0, k, val), Entry("update", "kvs", 1, j, val)>>,
                 <<Db, Db, [Db EXCEPT ![k] = {}, ![j] = {val}]>>)

\* One UPDATE of kvs and of another table: both maps come first.
SqlMulti(table, k, val) ==
    /\ "multi" \in Statements
    /\ \E old \in Db[k] \ {val} :
          Commit(<<MapOf("kvs"), MapOf(table),
                   Entry("update", "kvs", 0, k, old), Entry("update", "kvs", 1, k, val),
                   Entry("update", table, 0, k, old), Entry("update", table, 1, k, val)>>,
                 <<Db, Db, Db, [Db EXCEPT ![k] = {val}], [Db EXCEPT ![k] = {val}],
                   [Db EXCEPT ![k] = {val}]>>)

\* An event of any other type: a DDL query, the end of a transaction.
OtherEvent == Commit(<<OtherEntry>>, <<Db>>)

\* The database starts a new binlog file.
Rotate ==
    /\ Cardinality(files) < MaxFiles
    /\ files' = files \cup {Len(log)}
    /\ UNCHANGED <<log, hist, serverVars>>

Database ==
    \/ \E k \in SqlKeys, val \in Values : SqlInsert(k, val)
    \/ \E k, j \in Slots, val \in Values : SqlUpdateTwo(k, j, val)
    \/ \E k \in DbKeys : SqlDelete(k)
    \/ \E table \in OtherTables, k \in Slots, val \in Values :
          SqlOther(table, k, val) \/ SqlMulti(table, k, val)
    \/ \E k, j \in Slots : SqlMove(k, j)
    \/ OtherEvent
    \/ Rotate

-----------------------------------------------------------------------------
(* BinLogLoop.                                                             *)

Gcnt(key) == key % KeyRange

\* The item a row event is turned into is bzero'd and its stat.valid is never
\* assigned, so the branch of UPDATE_ROWS that asks whether it is 0 always deletes.
ItmValid == 0

\* Mutants of ApplyRow: an update that leaves the old item alone; the id column
\* (here the index in the event) taken for the key.
ApplyRowUpdateIgnored(t, e) ==
    LET k == Gcnt(e.key)
    IN  CASE e.type = "write"  -> AddItem(t, k, RowBody(e.val))
          [] e.type = "update" -> t
          [] e.type = "delete" -> DelItem(t, k)
ApplyRowById(t, e) ==
    CASE e.type = "write"  -> AddItem(t, e.idx, RowBody(e.val))
      [] e.type = "update" -> IF e.idx = 0 THEN t ELSE DelItem(t, e.idx)
      [] e.type = "delete" -> DelItem(t, e.idx)

\* What a row image does to the table; the first image of an update is skipped.
ApplyRow(t, e) ==
    LET k == Gcnt(e.key)  item == RowBody(e.val)
    IN  CASE e.type = "write"  -> AddItem(t, k, item)
          [] e.type = "update" -> IF e.idx = 0 THEN t
                                  ELSE IF ItmValid = 0 THEN DelItem(t, k)
                                  ELSE AddItem(t, k, item)
          [] e.type = "delete" -> DelItem(t, k)

\* ... and whether the table throws: the key has no slot.
Throws(e) == (e.type = "update" => e.idx # 0) /\ Gcnt(e.key) \notin Slots

NextEntry(s) == log[pos[s] + 1]

\* The test of the loop. A server created with a leftover value in cancel_ never
\* gets past it; its thread is gone, and the server answers with what it has.
Loops(s) == up /\ ~stop[s]

Handle(s) ==
    /\ Loops(s)
    /\ pos[s] < Len(log)
    /\ pos' = [pos EXCEPT ![s] = @ + 1]

TableMapEvent(s) ==
    /\ Handle(s)
    /\ NextEntry(s).type = "map"
    /\ tmp' = [tmp EXCEPT ![s] = Target(NextEntry(s).table)]
    /\ UNCHANGED <<dbVars, up, tbl, stop>>

RowImage(s) ==
    /\ Handle(s)
    /\ NextEntry(s).type \in RowTypes
    /\ tmp[s] => ~Throws(NextEntry(s))
    /\ tbl' = IF tmp[s] THEN [tbl EXCEPT ![s] = ApplyRow(@, NextEntry(s))] ELSE tbl
    /\ UNCHANGED <<dbVars, up, tmp, stop>>

\* Mutant: the default branch leaves the event where it is.
IgnoredEventKept(s) ==
    /\ Loops(s)
    /\ pos[s] < Len(log)
    /\ NextEntry(s).type = "other"
    /\ UNCHANGED vars

IgnoredEvent(s) ==
    /\ Handle(s)
    /\ NextEntry(s).type = "other"
    /\ UNCHANGED <<dbVars, up, tbl, tmp, stop>>

\* A throw that nothing catches, in a thread: the whole process terminates.
RowThrows(s) ==
    /\ Loops(s)
    /\ pos[s] < Len(log)
    /\ NextEntry(s).type \in RowTypes
    /\ tmp[s] /\ Throws(NextEntry(s))
    /\ up' = FALSE
    /\ UNCHANGED <<dbVars, tbl, pos, tmp, stop>>

BinLogStep(s) == TableMapEvent(s) \/ RowImage(s) \/ IgnoredEvent(s) \/ RowThrows(s)

\* Anything else that ends the process: a failing get_next_event, a kill, SIGINT
\* (what Stop and the release of the servers do one by one is in Lifecycle).
Crash ==
    /\ up
    /\ up' = FALSE
    /\ UNCHANGED <<dbVars, tbl, pos, tmp, stop>>

\* Mutants of Start: one event too far into the file; tables that survive.
StartPastFirst ==
    /\ ~up
    /\ up' = TRUE
    /\ tbl' = [s \in Servers |-> ClearedTable(ZeroBody)]
    /\ \E f \in files : pos' = [s \in Servers |-> f + 1]
    /\ tmp' = [s \in Servers |-> FALSE]
    /\ stop' \in [Servers -> BOOLEAN]
    /\ UNCHANGED dbVars
StartWithOldTables ==
    /\ ~up
    /\ up' = TRUE
    /\ pos' \in [Servers -> files]
    /\ tmp' = [s \in Servers |-> FALSE]
    /\ stop' \in [Servers -> BOOLEAN]
    /\ UNCHANGED <<dbVars, tbl>>

\* Servers are created with empty tables, and set_position(4) makes each of them
\* read a binlog file from its start. The constructor does not assign cancel_.
Start ==
    /\ ~up
    /\ up' = TRUE
    /\ tbl' = [s \in Servers |-> ClearedTable(ZeroBody)]
    /\ pos' \in [Servers -> files]
    /\ tmp' = [s \in Servers |-> FALSE]
    /\ stop' \in [Servers -> BOOLEAN]
    /\ UNCHANGED dbVars

-----------------------------------------------------------------------------

Next ==
    \/ Database
    \/ \E key \in 0..S, val \in Values : OnRecieveSet(key, val)
    \/ \E s \in Servers : BinLogStep(s)
    \/ Crash
    \/ Start

Spec == Init /\ [][Next]_vars

\* get_next_event returns as long as there are events, and a thread in its loop
\* runs on; nothing else is fair. A server whose loop has ended takes no step.
FairSpec == Spec /\ \A s \in Servers : WF_vars(BinLogStep(s))
-----------------------------------------------------------------------------
(* Properties.                                                             *)

\* What a GET of key k finds on server s: datalen 0 is `not found'.
Hits(s, k) == {body \in Find(tbl[s], k) : body.len # 0}

\* The state of the database that the replay of server s has reached.
DbAt(s) == hist[pos[s] + 1]
Cached(db) == [k \in Slots |-> {RowBody(v) : v \in db[k]}]

\* A hit is never stale and never mixed up: it is the item of the value that the
\* database held for that key at the very point the replay has reached, through
\* updates, deletions, multi-row statements and restarts from any file.
HitIsCurrent ==
    \A s \in Servers, k \in Slots : Hits(s, k) \subseteq Cached(DbAt(s))[k]

\* Whatever is in the binlog, a hit was written for its own slot by some
\* WRITE_ROWS event already handled; nothing is served that no row ever held.
HitWasLogged ==
    \A s \in Servers, k \in Slots : \A body \in Hits(s, k) :
       \E i \in 1..pos[s] : /\ log[i].type = "write"
                            /\ Gcnt(log[i].key) = k
                            /\ RowBody(log[i].val) = body

\* The rows BinLogLoop takes wrongly: it judges them by the last map event and a prefix
\* of its name (server.cc:292), cuts a key (62 and 331), and skips the old image of an
\* update, though the key may have moved (305 and 333).
Taken(es, i) ==
    \E j \in 1..(i - 1) : /\ es[j].type = "map" /\ Target(es[j].table)
                         /\ \A h \in (j + 1)..(i - 1) : es[h].type # "map"
Moved(es, i) ==
    es[i].type = "update" /\ es[i].idx % 2 = 0 /\ es[i + 1].key # es[i].key
Misread(es, i, k) ==
    /\ es[i].type \in RowTypes /\ Gcnt(es[i].key) = k
    /\ \/ Taken(es, i) # (es[i].table = "kvs")
       \/ es[i].key # k
       \/ Moved(es, i)

\* Whatever is in the binlog, these are the only ways to a stale hit, and each spoils
\* its own key alone: a hit that is not what the database held at the point the replay
\* has reached has a misread row of its key behind it.
StaleHitsWereMisread ==
    \A s \in Servers, k \in Slots :
       Hits(s, k) \subseteq Cached(DbAt(s))[k] \/ \E i \in 1..pos[s] : Misread(log, i, k)

\* The servers implement the abstract cache: partial views of the states of the
\* database that move forward one entry at a time and restart empty.
PR == INSTANCE PartialReplica
        WITH Keys  <- Slots,
             dbs   <- [i \in 1..Len(hist) |-> Cached(hist[i])],
             at    <- [s \in Servers |-> pos[s] + 1],
             views <- [s \in Servers |-> [k \in Slots |-> Hits(s, k)]]
ImplementsCache == PR!Spec

\* While the process stays up, every server whose cancel_ happened to be zero gets
\* to the end of the binlog, and by HitIsCurrent its hits are then those of the
\* database as it is. Without that premise it would be false: nmmc_server.cc:271
\* tests a variable that was never assigned.
CatchesUp ==
    \A s \in Servers : <>[](up /\ ~stop[s]) => <>[](pos[s] = Len(log))

\* nmmc_server.cc:25: key is a bigint(20). No key of that column ends the process.
KeysAreServable == [][\A s \in Servers : ~RowThrows(s)]_vars
=============================================================================
