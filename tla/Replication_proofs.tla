-------------------------- MODULE Replication_proofs --------------------------
(***************************************************************************)
(* Cache consistency for any number of servers, keys, values and binlog    *)
(* entries, as long as the statements are plain: no other table whose name *)
(* begins with kvs, no statement that moves keys or touches two tables,    *)
(* and no key that is cut to the slot of another. The runs show that each  *)
(* of these conditions is needed. Types, where hits come from, and where   *)
(* stale ones come from, need none of them.                               *)
(***************************************************************************)
EXTENDS Replication, LookupTableOps_proofs, SequenceTheorems

Plain ==
    /\ OtherTables \cap PrefixedTables = {}
    /\ Statements = {}
    /\ \A k \in DbKeys : Gcnt(k) \in Slots => Gcnt(k) = k

TargetRow(e) == e.type \in RowTypes /\ Target(e.table)

\* How an entry and the change of the database around it belong together.
EntryOK(e, before, after) ==
    /\ ~TargetRow(e) => after = before
    /\ TargetRow(e) =>
         /\ e.key \in DbKeys
         /\ e.type = "write" => e.val \in ColumnValues
         /\ \A k \in DbKeys \ {e.key} : after[k] = before[k]
         /\ e.type = "write" => after[e.key] = {e.val}
         /\ e.type = "update" /\ e.idx = 0 => after = before

\* A row image follows the map of its table or another image of its event.
FollowsOK(e, f) == f.type \in RowTypes => e.type # "other" /\ e.table = f.table

LogOK == \A i \in 1..Len(log) : EntryOK(log[i], hist[i], hist[i + 1])

\* Files start between statements.
FilesOK == \A i \in 1..Len(log) : log[i].type \in RowTypes =>
              i - 1 \notin files /\ FollowsOK(log[i - 1], log[i])

\* tmpevent is set exactly if the last map was one of the table kvs, unless the
\* next entry cannot be a row anyway.
TmpOK == \A s \in Servers :
            \/ pos[s] \in files
            \/ log[pos[s]].type = "other"
            \/ tmp[s] = Target(log[pos[s]].table)

IInv == TypeOK /\ LogOK /\ FilesOK /\ TmpOK /\ HitIsCurrent

-----------------------------------------------------------------------------
(* The database.                                                           *)

\* What the entries of one statement have to be, for LogOK and FilesOK.
GroupOK(entries, states) ==
    /\ entries \in Seq(Entries)
    /\ states \in Seq(DbStates)
    /\ Len(states) = Len(entries) /\ Len(entries) > 0
    /\ entries[1].type \notin RowTypes
    /\ EntryOK(entries[1], Db, states[1])
    /\ \A i \in 2..Len(entries) : /\ FollowsOK(entries[i - 1], entries[i])
                                  /\ EntryOK(entries[i], states[i - 1], states[i])

\* What a statement does to the states of the database and to the servers.
Grows ==
    /\ Len(hist') >= Len(hist)
    /\ \A i \in 1..Len(hist) : hist'[i] = hist[i]
    /\ UNCHANGED <<tbl, pos>>

LEMMA CommitKeeps ==
    ASSUME IInv, NEW entries, NEW states, GroupOK(entries, states), Commit(entries, states)
    PROVE  IInv' /\ Grows
<1> DEFINE n == Len(log)
           m == Len(entries)
<1>1. /\ log' = log \o entries /\ hist' = hist \o states
      /\ UNCHANGED <<files, up, tbl, pos, tmp, stop>>
  BY DEF Commit, serverVars
<1>2. /\ log \in Seq(Entries) /\ hist \in Seq(DbStates)
      /\ entries \in Seq(Entries) /\ states \in Seq(DbStates)
      /\ Len(hist) = n + 1 /\ Len(states) = m /\ n \in Nat /\ m \in Nat /\ m > 0
  BY DEF IInv, TypeOK, GroupOK
<1>3. /\ log' \in Seq(Entries) /\ Len(log') = n + m
      /\ \A i \in 1..n : log'[i] = log[i]
      /\ \A i \in (n + 1)..(n + m) : log'[i] = entries[i - n]
  <2>1. /\ log \o entries \in Seq(Entries)
        /\ Len(log \o entries) = n + m
        /\ \A i \in 1..(n + m) : (log \o entries)[i] =
                                  IF i <= n THEN log[i] ELSE entries[i - n]
    BY <1>2, ConcatProperties
  <2>2. QED  BY <1>1, <1>2, <2>1
<1>4. /\ hist' \in Seq(DbStates) /\ Len(hist') = n + 1 + m
      /\ \A i \in 1..(n + 1) : hist'[i] = hist[i]
      /\ \A i \in (n + 2)..(n + 1 + m) : hist'[i] = states[i - (n + 1)]
  <2>1. /\ hist \o states \in Seq(DbStates)
        /\ Len(hist \o states) = Len(hist) + Len(states)
        /\ \A i \in 1..(Len(hist) + Len(states)) : (hist \o states)[i] =
                     IF i <= Len(hist) THEN hist[i] ELSE states[i - Len(hist)]
    <3>1. hist \in Seq(DbStates) /\ states \in Seq(DbStates)
      BY <1>2
    <3>2. QED  BY <3>1, ConcatProperties, Zenon
  <2> HIDE DEF n, m
  <2>2. QED  BY <1>1, <1>2, <2>1
<1>5. /\ n \in Nat /\ m \in Nat \ {0} /\ Len(log') = n + m /\ Len(hist) = n + 1
  BY <1>2, <1>3
<1> HIDE DEF n, m
<1>6. TypeOK'
  BY <1>1, <1>3, <1>4, <1>5 DEF IInv, TypeOK, n
<1>7. LogOK'
  <2> SUFFICES ASSUME NEW i \in 1..(n + m)
               PROVE  EntryOK(log'[i], hist'[i], hist'[i + 1])
    BY <1>5 DEF LogOK
  <2>1. CASE i <= n
    BY <1>3, <1>4, <1>5, <2>1 DEF IInv, LogOK, n
  <2>2. CASE i = n + 1
    <3>1. log'[i] = entries[1] /\ hist'[i] = hist[n + 1] /\ hist'[i + 1] = states[1]
      <4>1. i \in (n + 1)..(n + m) /\ i \in 1..(n + 1) /\ i + 1 \in (n + 2)..(n + 1 + m)
        BY <1>5, <2>2
      <4>2. i - n = 1 /\ (i + 1) - (n + 1) = 1
        BY <1>5, <2>2
      <4>3. QED  BY <1>3, <1>4, <2>2, <4>1, <4>2
    <3>2. QED  BY <1>5, <3>1 DEF GroupOK, Db
  <2>3. CASE i > n + 1
    <3>1. log'[i] = entries[i - n] /\ hist'[i] = states[i - n - 1]
          /\ hist'[i + 1] = states[i - n]
      <4>1. i \in (n + 1)..(n + m) /\ i \in (n + 2)..(n + 1 + m) /\ i + 1 \in (n + 2)..(n + 1 + m)
        BY <1>5, <2>3
      <4>2. i - (n + 1) = i - n - 1 /\ (i + 1) - (n + 1) = i - n
        BY <1>5
      <4>3. QED  BY <1>3, <1>4, <4>1, <4>2
    <3>2. i - n \in 2..m
      BY <1>5, <2>3
    <3>3. QED  BY <3>1, <3>2 DEF GroupOK, m
  <2>4. QED  BY <1>5, <2>1, <2>2, <2>3
<1>8. FilesOK'
  <2> SUFFICES ASSUME NEW i \in 1..(n + m), log'[i].type \in RowTypes
               PROVE  i - 1 \notin files /\ FollowsOK(log'[i - 1], log'[i])
    BY <1>1, <1>5 DEF FilesOK
  <2>0. files \subseteq 0..n /\ 0 \in files
    BY DEF IInv, TypeOK, n
  <2>1. CASE i <= n
    <3>1. i - 1 \notin files /\ FollowsOK(log[i - 1], log[i])
      BY <1>3, <1>5, <2>1 DEF IInv, FilesOK, n
    <3>2. i - 1 \in 1..n
      BY <1>5, <2>0, <2>1, <3>1
    <3>3. QED  BY <1>3, <1>5, <2>1, <3>1, <3>2
  <2>2. CASE i = n + 1
    <3>1. i \in (n + 1)..(n + m) /\ i - n = 1
      BY <1>5, <2>2
    <3>2. log'[i] = entries[1]
      BY <1>3, <3>1
    <3>3. QED  BY <3>2 DEF GroupOK
  <2>3. CASE i > n + 1
    <3>1. log'[i] = entries[i - n] /\ log'[i - 1] = entries[i - n - 1] /\ i - n \in 2..m
      BY <1>3, <1>5, <2>3
    <3>2. FollowsOK(entries[i - n - 1], entries[i - n])
      BY <3>1 DEF GroupOK, m
    <3>3. QED  BY <1>5, <2>0, <2>3, <3>1, <3>2
  <2>4. QED  BY <1>5, <2>1, <2>2, <2>3
<1>9. TmpOK'
  <2> SUFFICES ASSUME NEW s \in Servers
               PROVE  \/ pos[s] \in files \/ log'[pos[s]].type = "other"
                      \/ tmp[s] = Target(log'[pos[s]].table)
    BY <1>1 DEF TmpOK
  <2>1. pos[s] \in 0..n /\ 0 \in files
    BY DEF IInv, TypeOK, n
  <2>2. CASE pos[s] = 0
    BY <2>1, <2>2
  <2>3. CASE pos[s] \in 1..n
    BY <1>3, <2>3 DEF IInv, TmpOK
  <2>4. QED  BY <1>5, <2>1, <2>2, <2>3
<1>10. HitIsCurrent'
  <2> SUFFICES ASSUME NEW s \in Servers, NEW k \in Slots
               PROVE  Hits(s, k)' \subseteq Cached(DbAt(s))'[k]
    BY DEF HitIsCurrent
  <2>1. pos[s] + 1 \in 1..(n + 1)
    BY <1>5 DEF IInv, TypeOK, n
  <2>2. Hits(s, k)' = Hits(s, k) /\ Cached(DbAt(s))' = Cached(DbAt(s))
    BY <1>1, <1>4, <2>1 DEF Hits, DbAt, Cached
  <2>3. QED  BY <2>2 DEF IInv, HitIsCurrent
<1>11. Grows
  BY <1>1, <1>4, <1>5 DEF Grows
<1>12. QED  BY <1>6, <1>7, <1>8, <1>9, <1>10, <1>11 DEF IInv
\* Groups of one, two, three and five entries, the lengths statements have.
LEMMA GroupOfOne ==
    ASSUME NEW e \in Entries, NEW d \in DbStates,
           e.type \notin RowTypes, EntryOK(e, Db, d)
    PROVE  GroupOK(<<e>>, <<d>>)
BY DEF GroupOK

LEMMA GroupOfTwo ==
    ASSUME NEW e \in Entries, NEW f \in Entries, NEW d \in DbStates, NEW g \in DbStates,
           e.type \notin RowTypes, EntryOK(e, Db, d), FollowsOK(e, f), EntryOK(f, d, g)
    PROVE  GroupOK(<<e, f>>, <<d, g>>)
BY DEF GroupOK

LEMMA GroupOfThree ==
    ASSUME NEW e1 \in Entries, NEW e2 \in Entries, NEW e3 \in Entries,
           NEW d1 \in DbStates, NEW d2 \in DbStates, NEW d3 \in DbStates,
           e1.type \notin RowTypes, EntryOK(e1, Db, d1),
           FollowsOK(e1, e2), EntryOK(e2, d1, d2), FollowsOK(e2, e3), EntryOK(e3, d2, d3)
    PROVE  GroupOK(<<e1, e2, e3>>, <<d1, d2, d3>>)
BY DEF GroupOK

LEMMA GroupOfFive ==
    ASSUME NEW e1 \in Entries, NEW e2 \in Entries, NEW e3 \in Entries, NEW e4 \in Entries,
           NEW e5 \in Entries, NEW d1 \in DbStates, NEW d2 \in DbStates, NEW d3 \in DbStates,
           NEW d4 \in DbStates, NEW d5 \in DbStates,
           e1.type \notin RowTypes, EntryOK(e1, Db, d1),
           FollowsOK(e1, e2), EntryOK(e2, d1, d2), FollowsOK(e2, e3), EntryOK(e3, d2, d3),
           FollowsOK(e3, e4), EntryOK(e4, d3, d4), FollowsOK(e4, e5), EntryOK(e5, d4, d5)
    PROVE  GroupOK(<<e1, e2, e3, e4, e5>>, <<d1, d2, d3, d4, d5>>)
BY DEF GroupOK

LEMMA DbTyped == TypeOK => Db \in DbStates
BY DEF TypeOK, Db

\* A map and a row image of kvs are entries; a map leaves the database alone.
LEMMA EntriesTyped ==
    /\ MapOf("kvs") \in Entries /\ OtherEntry \in Entries
    /\ \A table \in OtherTables : MapOf(table) \in Entries
    /\ \A type \in RowTypes, table \in Tables, idx \in Nat, k \in DbKeys, v \in ColumnValues :
          Entry(type, table, idx, k, v) \in Entries
<1>1. ASSUME NEW type \in RowTypes \cup {"map", "other"}, NEW table \in Tables \cup {""},
             NEW idx \in Nat, NEW k \in Int, NEW v \in ColumnValues \cup {<<>>}
      PROVE  Entry(type, table, idx, k, v) \in Entries
  BY DEF Entry, Entries
<1>2. /\ "kvs" \in Tables /\ OtherTables \subseteq Tables
      /\ 0 \in Nat /\ 0 \in Int /\ <<>> \in ColumnValues \cup {<<>>} /\ DbKeys \subseteq Int
  BY KeyAssumption DEF Tables
<1>3. MapOf("kvs") \in Entries /\ OtherEntry \in Entries
  BY <1>1, <1>2 DEF MapOf, OtherEntry
<1>4. \A table \in OtherTables : MapOf(table) \in Entries
  BY <1>1, <1>2 DEF MapOf
<1>5. QED  BY <1>1, <1>2, <1>3, <1>4

LEMMA MapOK ==
    ASSUME NEW table, NEW d
    PROVE  /\ EntryOK(MapOf(table), d, d) /\ MapOf(table).type \notin RowTypes
           /\ \A type, idx, k, v : FollowsOK(MapOf(table), Entry(type, table, idx, k, v))
BY DEF EntryOK, TargetRow, MapOf, Entry, RowTypes, FollowsOK

LEMMA SameTableFollows ==
    \A type \in RowTypes : \A table, i, k, v, j, l, w :
       FollowsOK(Entry(type, table, i, k, v), Entry(type, table, j, l, w))
BY DEF FollowsOK, Entry, RowTypes

\* The images of the statements on kvs, each with the change it stands for.
LEMMA RowsOK ==
    ASSUME NEW k \in DbKeys, NEW v \in ColumnValues, NEW d \in DbStates
    PROVE  /\ EntryOK(Entry("write", "kvs", 0, k, v), d, [d EXCEPT ![k] = {v}])
           /\ EntryOK(Entry("delete", "kvs", 0, k, v), d, [d EXCEPT ![k] = {}])
           /\ \A i \in Nat \ {0} : EntryOK(Entry("update", "kvs", i, k, v), d, [d EXCEPT ![k] = {v}])
           /\ \A i \in Nat : EntryOK(Entry("update", "kvs", i, k, v), d, d)
           /\ [d EXCEPT ![k] = {v}] \in DbStates /\ [d EXCEPT ![k] = {}] \in DbStates
BY DEF EntryOK, TargetRow, Entry, RowTypes, Target, PrefixedTables, DbStates

LEMMA InsertKeeps ==
    ASSUME IInv, NEW k \in DbKeys, NEW val \in ColumnValues, InsertRow(k, val)
    PROVE  IInv' /\ Grows
<1>1. Db \in DbStates
  BY DbTyped DEF IInv
<1>2. Entry("write", "kvs", 0, k, val) \in Entries
  BY EntriesTyped DEF RowTypes, Tables
<1>3. GroupOK(<<MapOf("kvs"), Entry("write", "kvs", 0, k, val)>>, <<Db, [Db EXCEPT ![k] = {val}]>>)
  BY <1>1, <1>2, EntriesTyped, MapOK, RowsOK, GroupOfTwo
<1>4. QED  BY <1>3, CommitKeeps DEF InsertRow

LEMMA UpdateKeeps ==
    ASSUME IInv, NEW k \in DbKeys, NEW val \in ColumnValues, UpdateRow(k, val)
    PROVE  IInv' /\ Grows
<1>1. Db \in DbStates
  BY DbTyped DEF IInv
<1>2. PICK old \in Db[k] \ {val} :
        Commit(<<MapOf("kvs"), Entry("update", "kvs", 0, k, old), Entry("update", "kvs", 1, k, val)>>,
               <<Db, Db, [Db EXCEPT ![k] = {val}]>>)
  BY DEF UpdateRow
<1>3. old \in ColumnValues
  BY <1>1 DEF DbStates
<1> DEFINE e2 == Entry("update", "kvs", 0, k, old)
           e3 == Entry("update", "kvs", 1, k, val)
<1>4. e2 \in Entries /\ e3 \in Entries
  BY <1>3, EntriesTyped DEF RowTypes, Tables
<1>5. EntryOK(e2, Db, Db) /\ FollowsOK(e2, e3)
  BY <1>1, <1>3, RowsOK, SameTableFollows DEF RowTypes
<1>6. EntryOK(e3, Db, [Db EXCEPT ![k] = {val}]) /\ [Db EXCEPT ![k] = {val}] \in DbStates
  <2>1. [Db EXCEPT ![k] = {val}] \in DbStates
    BY <1>1, RowsOK
  <2>2. \A i \in Nat \ {0} : EntryOK(Entry("update", "kvs", i, k, val), Db, [Db EXCEPT ![k] = {val}])
    BY <1>1, RowsOK
  <2>3. 1 \in Nat \ {0}
    OBVIOUS
  <2>4. EntryOK(e3, Db, [Db EXCEPT ![k] = {val}])
    BY <2>2, <2>3
  <2>5. QED  BY <2>1, <2>4
<1>7. FollowsOK(MapOf("kvs"), e2) /\ EntryOK(MapOf("kvs"), Db, Db) /\ MapOf("kvs").type \notin RowTypes
  BY MapOK
<1> HIDE DEF e2, e3
<1>8. GroupOK(<<MapOf("kvs"), e2, e3>>, <<Db, Db, [Db EXCEPT ![k] = {val}]>>)
  BY <1>1, <1>4, <1>5, <1>6, <1>7, EntriesTyped, GroupOfThree
<1>9. QED  BY <1>2, <1>8, CommitKeeps DEF e2, e3

LEMMA UpdateTwoKeeps ==
    ASSUME IInv, NEW k \in Slots, NEW j \in Slots, NEW val \in Values, SqlUpdateTwo(k, j, val)
    PROVE  IInv' /\ Grows
<1>1. /\ Db \in DbStates /\ k \in DbKeys /\ j \in DbKeys /\ val \in ColumnValues
  BY DbTyped, KeyAssumption DEF IInv, ColumnValues
<1> DEFINE one == [Db EXCEPT ![k] = {val}]
           two == [one EXCEPT ![j] = {val}]
           e2(old) == Entry("update", "kvs", 0, k, old)
           e3 == Entry("update", "kvs", 1, k, val)
           e4(old) == Entry("update", "kvs", 2, j, old)
           e5 == Entry("update", "kvs", 3, j, val)
<1>2. PICK old \in Db[k] \ {val}, older \in Db[j] \ {val} :
        Commit(<<MapOf("kvs"), e2(old), e3, e4(older), e5>>, <<Db, Db, one, one, two>>)
  BY DEF SqlUpdateTwo
<1>3. old \in ColumnValues /\ older \in ColumnValues
  BY <1>1 DEF DbStates
<1>4. /\ one \in DbStates
      /\ \A i \in Nat \ {0} : EntryOK(Entry("update", "kvs", i, k, val), Db, one)
      /\ \A i \in Nat : EntryOK(Entry("update", "kvs", i, k, old), Db, Db)
  BY <1>1, <1>3, RowsOK
<1> HIDE DEF one
<1>5. /\ two \in DbStates
      /\ \A i \in Nat \ {0} : EntryOK(Entry("update", "kvs", i, j, val), one, two)
      /\ \A i \in Nat : EntryOK(Entry("update", "kvs", i, j, older), one, one)
  BY <1>1, <1>3, <1>4, RowsOK
<1> HIDE DEF two
<1>6. /\ e2(old) \in Entries /\ e3 \in Entries /\ e4(older) \in Entries /\ e5 \in Entries
  BY <1>1, <1>3, EntriesTyped DEF RowTypes, Tables
<1>7. 0 \in Nat /\ 1 \in Nat \ {0} /\ 2 \in Nat /\ 3 \in Nat \ {0}
  OBVIOUS
<1>8. /\ EntryOK(e2(old), Db, Db) /\ EntryOK(e3, Db, one)
      /\ EntryOK(e4(older), one, one) /\ EntryOK(e5, one, two)
  BY <1>4, <1>5, <1>7
<1>9. FollowsOK(e2(old), e3) /\ FollowsOK(e3, e4(older)) /\ FollowsOK(e4(older), e5)
  BY SameTableFollows DEF RowTypes
<1>10. /\ FollowsOK(MapOf("kvs"), e2(old)) /\ EntryOK(MapOf("kvs"), Db, Db)
       /\ MapOf("kvs").type \notin RowTypes /\ MapOf("kvs") \in Entries
  BY MapOK, EntriesTyped
<1> HIDE DEF e2, e3, e4, e5
<1>11. GroupOK(<<MapOf("kvs"), e2(old), e3, e4(older), e5>>, <<Db, Db, one, one, two>>)
  BY <1>1, <1>4, <1>5, <1>6, <1>8, <1>9, <1>10, GroupOfFive
<1>12. QED  BY <1>2, <1>11, CommitKeeps

LEMMA DeleteKeeps ==
    ASSUME IInv, NEW k \in DbKeys, SqlDelete(k)
    PROVE  IInv' /\ Grows
<1>1. Db \in DbStates
  BY DbTyped DEF IInv
<1>2. PICK old \in Db[k] : Commit(<<MapOf("kvs"), Entry("delete", "kvs", 0, k, old)>>,
                                  <<Db, [Db EXCEPT ![k] = {}]>>)
  BY DEF SqlDelete
<1>3. old \in ColumnValues
  BY <1>1 DEF DbStates
<1>4. Entry("delete", "kvs", 0, k, old) \in Entries
  BY <1>3, EntriesTyped DEF RowTypes, Tables
<1>5. GroupOK(<<MapOf("kvs"), Entry("delete", "kvs", 0, k, old)>>, <<Db, [Db EXCEPT ![k] = {}]>>)
  BY <1>1, <1>3, <1>4, EntriesTyped, MapOK, RowsOK, GroupOfTwo
<1>6. QED  BY <1>2, <1>5, CommitKeeps

\* Rows of another table change nothing here as long as its name is not taken
\* for kvs.
LEMMA OtherTableKeeps ==
    ASSUME Plain, IInv, NEW table \in OtherTables, NEW k \in Slots, NEW val \in Values,
           SqlOther(table, k, val)
    PROVE  IInv' /\ Grows
<1>1. /\ Db \in DbStates /\ k \in DbKeys /\ val \in ColumnValues /\ ~Target(table)
  BY DbTyped, KeyAssumption DEF IInv, ColumnValues, Plain, Target
<1> DEFINE e == Entry("write", table, 0, k, val)
<1>2. e \in Entries /\ MapOf(table) \in Entries
  BY <1>1, EntriesTyped DEF RowTypes, Tables
<1>3. EntryOK(e, Db, Db)
  BY <1>1 DEF EntryOK, TargetRow, Entry
<1>4. FollowsOK(MapOf(table), e) /\ EntryOK(MapOf(table), Db, Db) /\ MapOf(table).type \notin RowTypes
  BY MapOK
<1> HIDE DEF e
<1>5. GroupOK(<<MapOf(table), e>>, <<Db, Db>>)
  BY <1>1, <1>2, <1>3, <1>4, GroupOfTwo
<1>6. QED  BY <1>5, CommitKeeps DEF SqlOther, e

LEMMA OtherEventKeeps ==
    ASSUME IInv, OtherEvent
    PROVE  IInv' /\ Grows
<1>1. Db \in DbStates /\ OtherEntry \in Entries
  BY DbTyped, EntriesTyped DEF IInv
<1>2. OtherEntry.type \notin RowTypes /\ EntryOK(OtherEntry, Db, Db)
  BY DEF OtherEntry, Entry, RowTypes, EntryOK, TargetRow
<1>3. GroupOK(<<OtherEntry>>, <<Db>>)
  BY <1>1, <1>2, GroupOfOne
<1>4. QED  BY <1>3, CommitKeeps DEF OtherEvent

\* A file starts after the last entry: no row image there yet to be cut off.
LEMMA RotateKeeps ==
    ASSUME IInv, Rotate
    PROVE  IInv' /\ Grows
<1>1. /\ files' = files \cup {Len(log)}
      /\ UNCHANGED <<log, hist, up, tbl, pos, tmp, stop>>
  BY DEF Rotate, serverVars
<1>2. Len(log) \in Nat
  BY DEF IInv, TypeOK
<1>3. TypeOK'
  <2>1. files \subseteq 0..Len(log) /\ 0 \in files
    BY DEF IInv, TypeOK
  <2>2. Len(log) \in 0..Len(log) /\ Len(log') = Len(log)
    BY <1>1, <1>2
  <2>3. 0 \in files' /\ files' \subseteq 0..Len(log')
    BY <1>1, <2>1, <2>2, Zenon
  <2>4. QED  BY <1>1, <2>3 DEF IInv, TypeOK
<1>4. LogOK' /\ HitIsCurrent'
  BY <1>1 DEF IInv, LogOK, HitIsCurrent, Hits, DbAt, Cached
<1>5. FilesOK'
  BY <1>1, <1>2 DEF IInv, FilesOK
<1>6. TmpOK'
  BY <1>1 DEF IInv, TmpOK
<1>7. Grows
  BY <1>1, <1>2 DEF Grows, IInv, TypeOK
<1>8. QED  BY <1>3, <1>4, <1>5, <1>6, <1>7 DEF IInv

\* A SET writes the key cut to its low bits.
LEMMA SetKeeps ==
    ASSUME IInv, NEW key \in 0..S, NEW val \in Values, OnRecieveSet(key, val)
    PROVE  IInv' /\ Grows
<1>1. key % S \in DbKeys /\ Stored(val) \in ColumnValues
  BY SizeAssumption, KeyAssumption DEF Slots, ColumnValues
<1>2. InsertRow(key % S, Stored(val)) \/ UpdateRow(key % S, Stored(val))
  BY DEF OnRecieveSet
<1>3. QED  BY <1>1, <1>2, InsertKeeps, UpdateKeeps

LEMMA DatabaseKeeps ==
    ASSUME Plain, IInv, Database
    PROVE  IInv' /\ Grows
<1>1. CASE \E k \in SqlKeys, val \in Values : SqlInsert(k, val)
  BY <1>1, KeyAssumption, InsertKeeps DEF SqlInsert, ColumnValues
<1>2. CASE \E k, j \in Slots, val \in Values : SqlUpdateTwo(k, j, val)
  BY <1>2, UpdateTwoKeeps
<1>3. CASE \E k \in DbKeys : SqlDelete(k)
  BY <1>3, DeleteKeeps
<1>4. CASE \E table \in OtherTables, k \in Slots, val \in Values :
             SqlOther(table, k, val) \/ SqlMulti(table, k, val)
  BY <1>4, OtherTableKeeps DEF SqlMulti, Plain
<1>5. CASE \E k, j \in Slots : SqlMove(k, j)
  BY <1>5 DEF SqlMove, Plain
<1>6. CASE OtherEvent
  BY <1>6, OtherEventKeeps
<1>7. CASE Rotate
  BY <1>7, RotateKeeps
<1>8. QED  BY <1>1, <1>2, <1>3, <1>4, <1>5, <1>6, <1>7 DEF Database

-----------------------------------------------------------------------------
(* The servers.                                                            *)

LEMMA FieldsTyped == \A val \in ColumnValues : RowBody(val) \in Bodies
BY DEF Bodies

\* What a row image of kvs does to a table that agrees with the database before
\* it: the table then agrees with the database after it.
LEMMA RowApplied ==
    ASSUME Plain, NEW t \in TableOf(Bodies), NEW e \in Entries,
           NEW before \in DbStates, NEW after \in DbStates,
           TargetRow(e), EntryOK(e, before, after), ~Throws(e),
           \A k \in Slots : {body \in Find(t, k) : body.len # 0} \subseteq Cached(before)[k]
    PROVE  /\ ApplyRow(t, e) \in TableOf(Bodies)
           /\ \A k \in Slots : {body \in Find(ApplyRow(t, e), k) : body.len # 0}
                                 \subseteq Cached(after)[k]
<1> DEFINE u == ApplyRow(t, e)
           key == e.key
<1>1. /\ key \in DbKeys /\ Slots \subseteq DbKeys
      /\ e.type = "write" => e.val \in ColumnValues
      /\ \A k \in DbKeys \ {key} : after[k] = before[k]
      /\ e.type = "write" => after[key] = {e.val}
      /\ e.type = "update" /\ e.idx = 0 => after = before
  BY KeyAssumption DEF EntryOK
<1>2. \A k \in Slots : /\ Cached(before)[k] = {RowBody(v) : v \in before[k]}
                       /\ Cached(after)[k] = {RowBody(v) : v \in after[k]}
  BY DEF Cached
<1>3. \A k \in Slots \ {key} : Cached(after)[k] = Cached(before)[k]
  BY <1>1, <1>2
<1>4. CASE e.type = "update" /\ e.idx = 0
  <2>1. u = t
    BY <1>4 DEF ApplyRow
  <2>2. QED  BY <1>1, <1>4, <2>1
<1>5. ASSUME ~(e.type = "update" /\ e.idx = 0)
      PROVE  Gcnt(key) = key /\ key \in Slots
  <2>1. Gcnt(key) \in Slots
    BY <1>5 DEF Throws
  <2>2. QED  BY <1>1, <2>1 DEF Plain
<1>6. CASE e.type = "write"
  <2>1. key \in Slots /\ u = AddItem(t, key, RowBody(e.val))
    BY <1>5, <1>6 DEF ApplyRow
  <2>2. RowBody(e.val) \in Bodies
    BY <1>1, <1>6, FieldsTyped
  <2> HIDE DEF key
  <2>3. /\ u \in TableOf(Bodies) /\ Find(u, key) = {RowBody(e.val)}
        /\ \A k \in Slots \ {key} : Find(u, k) = Find(t, k)
    BY <2>1, <2>2, AddVisible
  <2>4. RowBody(e.val) \in Cached(after)[key]
    BY <1>1, <1>2, <1>6, <2>1
  <2> HIDE DEF u
  <2>5. ASSUME NEW k \in Slots
        PROVE  {body \in Find(u, k) : body.len # 0} \subseteq Cached(after)[k]
    <3>1. CASE k = key
      BY <2>3, <2>4, <3>1
    <3>2. CASE k # key
      BY <1>3, <2>3, <3>2
    <3>3. QED  BY <3>1, <3>2
  <2>6. QED  BY <2>3, <2>5 DEF u
<1>7. CASE e.type = "delete" \/ (e.type = "update" /\ e.idx # 0)
  <2>1. key \in Slots /\ u = DelItem(t, key)
    BY <1>5, <1>7 DEF ApplyRow, ItmValid
  <2> HIDE DEF key
  <2>2. /\ u \in TableOf(Bodies) /\ Find(u, key) = {}
        /\ \A k \in Slots \ {key} : Find(u, k) = Find(t, k)
    BY <2>1, DelVisible
  <2> HIDE DEF u
  <2>3. ASSUME NEW k \in Slots
        PROVE  {body \in Find(u, k) : body.len # 0} \subseteq Cached(after)[k]
    <3>1. CASE k = key
      BY <2>2, <3>1
    <3>2. CASE k # key
      BY <1>3, <2>2, <3>2
    <3>3. QED  BY <3>1, <3>2
  <2>4. QED  BY <2>2, <2>3 DEF u
<1>8. \/ e.type = "update" /\ e.idx = 0
      \/ e.type = "write"
      \/ e.type = "delete" \/ (e.type = "update" /\ e.idx # 0)
  BY DEF TargetRow, RowTypes
<1>9. QED  BY <1>4, <1>6, <1>7, <1>8, Zenon

\* Where BinLogLoop stands before and after one entry.
LEMMA HandleSteps ==
    ASSUME IInv, NEW s \in Servers, Handle(s), UNCHANGED dbVars
    PROVE  /\ pos[s] \in Nat /\ pos[s] + 1 \in 1..Len(log)
           /\ NextEntry(s) \in Entries
           /\ DbAt(s) \in DbStates /\ DbAt(s)' \in DbStates
           /\ EntryOK(NextEntry(s), DbAt(s), DbAt(s)')
           /\ pos' \in [Servers -> 0..Len(log)]
           /\ pos'[s] = pos[s] + 1 /\ log'[pos'[s]] = NextEntry(s)
           /\ \A r \in Servers \ {s} : pos'[r] = pos[r] /\ DbAt(r)' = DbAt(r)
<1>1. /\ log \in Seq(Entries) /\ hist \in Seq(DbStates) /\ Len(hist) = Len(log) + 1
      /\ pos \in [Servers -> 0..Len(log)] /\ Len(log) \in Nat
  BY DEF IInv, TypeOK
<1>2. pos[s] < Len(log) /\ pos' = [pos EXCEPT ![s] = pos[s] + 1] /\ log' = log /\ hist' = hist
  BY DEF Handle, dbVars
<1>3. pos[s] \in Nat /\ pos[s] + 1 \in 1..Len(log) /\ pos[s] + 1 \in 0..Len(log)
      /\ pos[s] + 1 \in 1..Len(hist) /\ pos[s] + 2 \in 1..Len(hist) /\ (pos[s] + 1) + 1 = pos[s] + 2
  BY <1>1, <1>2
<1>4. /\ pos' \in [Servers -> 0..Len(log)] /\ pos'[s] = pos[s] + 1
      /\ \A r \in Servers \ {s} : pos'[r] = pos[r]
  BY <1>1, <1>2, <1>3
<1>5. DbAt(s) = hist[pos[s] + 1] /\ DbAt(s)' = hist[pos[s] + 2]
  BY <1>2, <1>3, <1>4 DEF DbAt
<1>6. NextEntry(s) = log[pos[s] + 1] /\ NextEntry(s) \in Entries
  BY <1>1, <1>3 DEF NextEntry
<1>7. EntryOK(NextEntry(s), DbAt(s), DbAt(s)')
  BY <1>3, <1>5, <1>6 DEF IInv, LogOK
<1>8. \A r \in Servers \ {s} : DbAt(r)' = DbAt(r)
  BY <1>2, <1>4 DEF DbAt
<1>9. QED  BY <1>1, <1>2, <1>3, <1>4, <1>5, <1>6, <1>7, <1>8

\* The log, the database and the files are those of before.
LEMMA LogStays ==
    ASSUME IInv, UNCHANGED dbVars
    PROVE  LogOK' /\ FilesOK'
BY DEF IInv, dbVars, LogOK, FilesOK

\* An entry that is no row of kvs is passed over.
LEMMA PassKeeps ==
    ASSUME IInv, NEW s \in Servers, Handle(s), UNCHANGED <<dbVars, up, tbl, stop>>,
           ~TargetRow(NextEntry(s)),
           tmp' \in [Servers -> BOOLEAN],
           NextEntry(s).type # "other" => tmp'[s] = Target(NextEntry(s).table),
           \A r \in Servers \ {s} : tmp'[r] = tmp[r]
    PROVE  IInv'
<1>1. /\ pos' \in [Servers -> 0..Len(log)] /\ log'[pos'[s]] = NextEntry(s)
      /\ DbAt(s)' = DbAt(s)
      /\ \A r \in Servers \ {s} : pos'[r] = pos[r] /\ DbAt(r)' = DbAt(r)
  BY HandleSteps DEF EntryOK
<1>2. TypeOK'
  BY <1>1 DEF IInv, TypeOK, dbVars
<1>3. LogOK' /\ FilesOK'
  BY LogStays
<1>4. TmpOK'
  BY <1>1 DEF IInv, TmpOK, dbVars
<1>5. HitIsCurrent'
  BY <1>1 DEF IInv, HitIsCurrent, Hits, Cached
<1>6. QED  BY <1>2, <1>3, <1>4, <1>5 DEF IInv

LEMMA TableMapKeeps ==
    ASSUME IInv, NEW s \in Servers, TableMapEvent(s)
    PROVE  IInv'
<1>1. /\ Handle(s) /\ UNCHANGED <<dbVars, up, tbl, stop>>
      /\ NextEntry(s).type = "map"
      /\ tmp' = [tmp EXCEPT ![s] = Target(NextEntry(s).table)]
  BY DEF TableMapEvent
<1>2. ~TargetRow(NextEntry(s))
  BY <1>1 DEF TargetRow, RowTypes
<1>3. tmp \in [Servers -> BOOLEAN] /\ Target(NextEntry(s).table) \in BOOLEAN
  BY DEF IInv, TypeOK, Target
<1>4. QED  BY <1>1, <1>2, <1>3, PassKeeps

LEMMA IgnoredKeeps ==
    ASSUME IInv, NEW s \in Servers, IgnoredEvent(s)
    PROVE  IInv'
<1>1. /\ Handle(s) /\ UNCHANGED <<dbVars, up, tbl, tmp, stop>>
      /\ NextEntry(s).type = "other"
  BY DEF IgnoredEvent
<1>2. ~TargetRow(NextEntry(s))
  BY <1>1 DEF TargetRow, RowTypes
<1>3. tmp \in [Servers -> BOOLEAN]
  BY DEF IInv, TypeOK
<1>4. QED  BY <1>1, <1>2, <1>3, PassKeeps

\* A row image comes with tmpevent set for it, exactly if it is one of kvs.
LEMMA RowKeeps ==
    ASSUME Plain, IInv, NEW s \in Servers, RowImage(s)
    PROVE  IInv'
<1> DEFINE e == NextEntry(s)
<1>1. /\ Handle(s) /\ UNCHANGED <<dbVars, up, tmp, stop>> /\ e.type \in RowTypes
      /\ tmp[s] => ~Throws(e)
      /\ tbl' = IF tmp[s] THEN [tbl EXCEPT ![s] = ApplyRow(tbl[s], e)] ELSE tbl
  BY DEF RowImage
<1>2. /\ pos[s] \in Nat /\ pos[s] + 1 \in 1..Len(log) /\ e \in Entries
      /\ DbAt(s) \in DbStates /\ DbAt(s)' \in DbStates
      /\ EntryOK(e, DbAt(s), DbAt(s)')
      /\ pos' \in [Servers -> 0..Len(log)]
      /\ pos'[s] = pos[s] + 1 /\ log'[pos'[s]] = e
      /\ \A r \in Servers \ {s} : pos'[r] = pos[r] /\ DbAt(r)' = DbAt(r)
  BY <1>1, HandleSteps
<1>3. tmp[s] = Target(e.table)
  <2>1. e = log[pos[s] + 1] /\ (pos[s] + 1) - 1 = pos[s]
    BY <1>2 DEF NextEntry
  <2>2. pos[s] \notin files /\ FollowsOK(log[pos[s]], e)
    BY <1>1, <1>2, <2>1 DEF IInv, FilesOK
  <2>3. log[pos[s]].type # "other" /\ e.table = log[pos[s]].table
    BY <1>1, <2>2 DEF FollowsOK
  <2>4. QED  BY <2>2, <2>3 DEF IInv, TmpOK
<1>4. TypeOK /\ tmp \in [Servers -> BOOLEAN] /\ tbl \in [Servers -> TableOf(Bodies)]
  BY DEF IInv, TypeOK
<1>5. CASE ~tmp[s]
  <2>1. ~TargetRow(e) /\ tbl' = tbl
    BY <1>1, <1>3, <1>5 DEF TargetRow
  <2>2. QED  BY <1>1, <1>3, <1>4, <2>1, PassKeeps
<1>6. CASE tmp[s]
  <2> DEFINE u == ApplyRow(tbl[s], e)
  <2>1. TargetRow(e) /\ ~Throws(e)
    BY <1>1, <1>3, <1>6 DEF TargetRow
  <2>2. \A k \in Slots : {body \in Find(tbl[s], k) : body.len # 0} \subseteq Cached(DbAt(s))[k]
    BY DEF IInv, HitIsCurrent, Hits
  <2>3. tbl[s] \in TableOf(Bodies)
    BY <1>4
  <2> HIDE DEF e
  <2>4. /\ u \in TableOf(Bodies)
        /\ \A k \in Slots : {body \in Find(u, k) : body.len # 0} \subseteq Cached(DbAt(s)')[k]
    BY <1>2, <2>1, <2>2, <2>3, RowApplied
  <2>5. tbl' = [tbl EXCEPT ![s] = u]
    BY <1>1, <1>6
  <2> HIDE DEF u
  <2>6. tbl' \in [Servers -> TableOf(Bodies)] /\ tbl'[s] = u
        /\ \A r \in Servers \ {s} : tbl'[r] = tbl[r]
    BY <1>4, <2>4, <2>5
  <2>7. TypeOK'
    BY <1>1, <1>2, <1>4, <2>6 DEF TypeOK, dbVars
  <2>8. LogOK' /\ FilesOK'
    BY <1>1, LogStays
  <2>9. TmpOK'
    BY <1>1, <1>2, <1>3 DEF IInv, TmpOK, dbVars
  <2>10. HitIsCurrent'
    <3> SUFFICES ASSUME NEW r \in Servers, NEW k \in Slots
                 PROVE  Hits(r, k)' \subseteq Cached(DbAt(r)')[k]
      BY DEF HitIsCurrent, Cached
    <3>1. CASE r = s
      BY <2>4, <2>6, <3>1 DEF Hits
    <3>2. CASE r # s
      BY <1>2, <2>6, <3>2 DEF IInv, HitIsCurrent, Hits
    <3>3. QED  BY <3>1, <3>2
  <2>11. QED  BY <2>7, <2>8, <2>9, <2>10 DEF IInv
<1>7. QED  BY <1>5, <1>6

\* The process ends, by an exception or otherwise.
LEMMA CrashKeeps ==
    ASSUME IInv, UNCHANGED <<dbVars, tbl, pos, tmp, stop>>, up' \in BOOLEAN
    PROVE  IInv'
BY DEF IInv, TypeOK, LogOK, FilesOK, TmpOK, HitIsCurrent, Hits, DbAt, Cached, dbVars

\* Nothing is found in the table of a server that has just been created: its
\* items are valid, with a length of 0. Once for the first state, once for a step.
LEMMA EmptyHits ==
    ASSUME NEW s \in Servers, tbl[s] = ClearedTable(ZeroBody)
    PROVE  \A k \in Slots : Hits(s, k) = {}
<1>1. ZeroBody \in Bodies /\ ZeroBody.len = 0
  BY DEF Bodies, ZeroBody
<1>2. \A k \in Slots : Find(tbl[s], k) = {ZeroBody}
  BY <1>1, ClearedTyped
<1>3. QED  BY <1>1, <1>2 DEF Hits

LEMMA ClearedHits ==
    ASSUME \A s \in Servers : tbl'[s] = ClearedTable(ZeroBody)
    PROVE  \A s \in Servers, k \in Slots : Hits(s, k)' = {}
<1>1. ZeroBody \in Bodies /\ ZeroBody.len = 0
  BY DEF Bodies, ZeroBody
<1>2. \A k \in Slots : Find(ClearedTable(ZeroBody), k) = {ZeroBody}
  BY <1>1, ClearedTyped
<1>3. QED  BY <1>1, <1>2 DEF Hits

LEMMA StartKeeps ==
    ASSUME IInv, Start
    PROVE  IInv' /\ \A s \in Servers : pos'[s] \in 0..Len(log) /\ tbl'[s] = ClearedTable(ZeroBody)
<1>1. /\ up' = TRUE
      /\ tbl' = [s \in Servers |-> ClearedTable(ZeroBody)]
      /\ pos' \in [Servers -> files]
      /\ tmp' = [s \in Servers |-> FALSE] /\ stop' \in [Servers -> BOOLEAN]
      /\ UNCHANGED <<log, hist, files>>
  BY DEF Start, dbVars
<1>2. files \subseteq 0..Len(log)
  BY DEF IInv, TypeOK
<1>3. ClearedTable(ZeroBody) \in TableOf(Bodies)
  <2>1. ZeroBody \in Bodies
    BY DEF Bodies
  <2>2. QED  BY <2>1, ClearedTyped
<1>4. TypeOK'
  <2>1. pos' \in [Servers -> 0..Len(log)]
    BY <1>1, <1>2
  <2>2. tbl' \in [Servers -> TableOf(Bodies)] /\ tmp' \in [Servers -> BOOLEAN]
    BY <1>1, <1>3
  <2>3. QED  BY <1>1, <2>1, <2>2 DEF IInv, TypeOK
<1>5. LogOK' /\ FilesOK'
  BY <1>1, LogStays DEF dbVars
<1>6. TmpOK'
  BY <1>1 DEF TmpOK
<1>7. HitIsCurrent'
  <2>1. \A s \in Servers : tbl'[s] = ClearedTable(ZeroBody)
    BY <1>1
  <2>2. \A s \in Servers, k \in Slots : Hits(s, k)' = {}
    BY <2>1, ClearedHits
  <2>3. QED  BY <2>2 DEF HitIsCurrent
<1>8. QED  BY <1>1, <1>2, <1>4, <1>5, <1>6, <1>7 DEF IInv

-----------------------------------------------------------------------------
(* The theorems.                                                           *)

LEMMA InitOK == Init => IInv
<1> SUFFICES ASSUME Init PROVE IInv
  OBVIOUS
<1>1. /\ log = <<>> /\ files = {0} /\ up = TRUE
      /\ tbl = [s \in Servers |-> ClearedTable(ZeroBody)]
      /\ pos = [s \in Servers |-> 0]
      /\ tmp = [s \in Servers |-> FALSE] /\ stop \in [Servers -> BOOLEAN]
  BY DEF Init
<1>2. PICK db \in FirstDbs : hist = <<db>>
  BY DEF Init
<1>3. db \in DbStates
  BY ValueAssumption
<1>4. /\ Len(log) = 0 /\ log \in Seq(Entries)
      /\ hist \in Seq(DbStates) /\ Len(hist) = 1
  BY <1>1, <1>2, <1>3
<1>5. ClearedTable(ZeroBody) \in TableOf(Bodies)
  <2>1. ZeroBody \in Bodies
    BY DEF Bodies
  <2>2. QED  BY <2>1, ClearedTyped
<1>6. TypeOK
  BY <1>1, <1>4, <1>5 DEF TypeOK
<1>7. LogOK /\ FilesOK
  BY <1>4 DEF LogOK, FilesOK
<1>8. TmpOK
  BY <1>1 DEF TmpOK
<1>9. HitIsCurrent
  BY <1>1, EmptyHits DEF HitIsCurrent
<1>10. QED  BY <1>6, <1>7, <1>8, <1>9 DEF IInv

LEMMA StepOK ==
    ASSUME Plain, IInv, [Next]_vars
    PROVE  IInv'
<1>1. CASE Database
  BY <1>1, DatabaseKeeps
<1>2. CASE \E key \in 0..S, val \in Values : OnRecieveSet(key, val)
  BY <1>2, SetKeeps
<1>3. ASSUME NEW s \in Servers, BinLogStep(s)
      PROVE  IInv'
  <2>1. CASE TableMapEvent(s)
    BY <2>1, TableMapKeeps
  <2>2. CASE RowImage(s)
    BY <2>2, RowKeeps
  <2>3. CASE IgnoredEvent(s)
    BY <2>3, IgnoredKeeps
  <2>4. CASE RowThrows(s)
    BY <2>4, CrashKeeps DEF RowThrows
  <2>5. QED  BY <1>3, <2>1, <2>2, <2>3, <2>4 DEF BinLogStep
<1>4. CASE Crash
  BY <1>4, CrashKeeps DEF Crash
<1>5. CASE Start
  BY <1>5, StartKeeps
<1>6. CASE UNCHANGED vars
  BY <1>6, CrashKeeps DEF vars, serverVars, IInv, TypeOK
<1>7. QED  BY <1>1, <1>2, <1>3, <1>4, <1>5, <1>6 DEF Next

\* Every hit of OnRecieveGet is the value of the database at the point BinLogLoop has
\* come to.
THEOREM HitsAreCurrent == Plain => (Spec => []HitIsCurrent)
<1>1. IInv => HitIsCurrent
  BY DEF IInv
<1>2. Plain /\ IInv /\ [Next]_vars => IInv'
  BY StepOK
<1>3. SUFFICES ASSUME Plain PROVE Spec => []HitIsCurrent
  OBVIOUS
<1>4. IInv /\ [Next]_vars => IInv'
  BY <1>2, <1>3
<1>5. QED  BY <1>1, <1>4, InitOK, PTL DEF Spec

-----------------------------------------------------------------------------
(* Whatever the statements, tables and keys: types, and where hits come    *)
(* from.                                                                   *)

WideInv == TypeOK /\ HitWasLogged

\* The binlog grows; the servers do not move.
LEMMA CommitTyped ==
    ASSUME WideInv, NEW entries \in Seq(Entries), NEW states \in Seq(DbStates),
           Len(states) = Len(entries), Commit(entries, states)
    PROVE  WideInv'
<1> DEFINE n == Len(log)
           m == Len(entries)
<1>1. /\ log' = log \o entries /\ hist' = hist \o states
      /\ UNCHANGED <<files, up, tbl, pos, tmp, stop>>
  BY DEF Commit, serverVars
<1>2. /\ log \in Seq(Entries) /\ hist \in Seq(DbStates)
      /\ Len(hist) = n + 1 /\ n \in Nat /\ m \in Nat
  BY DEF WideInv, TypeOK
<1>3. /\ log' \in Seq(Entries) /\ Len(log') = n + m
      /\ \A i \in 1..n : log'[i] = log[i]
  BY <1>1, <1>2, ConcatProperties
<1>4. hist' \in Seq(DbStates) /\ Len(hist') = n + 1 + m
  <2>1. hist \o states \in Seq(DbStates) /\ Len(hist \o states) = Len(hist) + Len(states)
    <3>1. hist \in Seq(DbStates) /\ states \in Seq(DbStates)
      BY <1>2
    <3>2. QED  BY <3>1, ConcatProperties, Zenon
  <2>2. QED  BY <1>1, <1>2, <2>1
<1> HIDE DEF n, m
<1>5. TypeOK'
  <2>1. 0..n \subseteq 0..(n + m) /\ Len(hist') = Len(log') + 1
    BY <1>2, <1>3, <1>4
  <2>2. QED  BY <1>1, <1>2, <1>3, <1>4, <2>1 DEF WideInv, TypeOK, n
<1>6. HitWasLogged'
  <2>1. \A s \in Servers : pos[s] \in 0..n
    BY DEF WideInv, TypeOK, n
  <2>2. ASSUME NEW s \in Servers, NEW k \in Slots, NEW body \in Hits(s, k)'
        PROVE  \E i \in 1..pos'[s] : /\ log'[i].type = "write"
                                     /\ Gcnt(log'[i].key) = k
                                     /\ RowBody(log'[i].val) = body
    <3>1. body \in Hits(s, k)
      BY <1>1, <2>2 DEF Hits
    <3>2. PICK i \in 1..pos[s] : /\ log[i].type = "write" /\ Gcnt(log[i].key) = k
                                 /\ RowBody(log[i].val) = body
      BY <3>1 DEF WideInv, HitWasLogged
    <3>3. i \in 1..n /\ log'[i] = log[i]
      <4>1. pos[s] \in 0..n /\ n \in Nat
        BY <1>2, <2>1
      <4>2. i \in 1..n
        BY <4>1, <3>2
      <4>3. QED  BY <1>3, <4>2
    <3>4. i \in 1..pos'[s]
      BY <1>1, <3>2
    <3>5. QED  BY <3>2, <3>3, <3>4
  <2>3. QED  BY <2>2 DEF HitWasLogged
<1>7. QED  BY <1>5, <1>6 DEF WideInv

LEMMA StatesTyped ==
    ASSUME NEW d \in DbStates, NEW k \in DbKeys, NEW v \in ColumnValues
    PROVE  [d EXCEPT ![k] = {v}] \in DbStates /\ [d EXCEPT ![k] = {}] \in DbStates
BY DEF DbStates

LEMMA InsertTyped ==
    ASSUME WideInv, NEW k \in DbKeys, NEW val \in ColumnValues, InsertRow(k, val)
    PROVE  WideInv'
<1> DEFINE e == Entry("write", "kvs", 0, k, val)
           d == [Db EXCEPT ![k] = {val}]
<1>1. Db \in DbStates /\ d \in DbStates
  BY DbTyped, StatesTyped DEF WideInv
<1>2. e \in Entries /\ MapOf("kvs") \in Entries
  BY EntriesTyped DEF RowTypes, Tables
<1>3. Commit(<<MapOf("kvs"), e>>, <<Db, d>>)
  BY DEF InsertRow
<1> HIDE DEF e, d
<1>4. <<MapOf("kvs"), e>> \in Seq(Entries) /\ <<Db, d>> \in Seq(DbStates)
  BY <1>1, <1>2
<1>5. QED  BY <1>3, <1>4, CommitTyped

LEMMA UpdateTyped ==
    ASSUME WideInv, NEW k \in DbKeys, NEW val \in ColumnValues, UpdateRow(k, val)
    PROVE  WideInv'
<1> DEFINE e(old) == Entry("update", "kvs", 0, k, old)
           f == Entry("update", "kvs", 1, k, val)
           d == [Db EXCEPT ![k] = {val}]
<1>1. Db \in DbStates /\ d \in DbStates
  BY DbTyped, StatesTyped DEF WideInv
<1>2. PICK old \in Db[k] \ {val} : Commit(<<MapOf("kvs"), e(old), f>>, <<Db, Db, d>>)
  BY DEF UpdateRow
<1>3. old \in ColumnValues
  BY <1>1 DEF DbStates
<1>4. e(old) \in Entries /\ f \in Entries /\ MapOf("kvs") \in Entries
  BY <1>3, EntriesTyped DEF RowTypes, Tables
<1> HIDE DEF e, f, d
<1>5. <<MapOf("kvs"), e(old), f>> \in Seq(Entries) /\ <<Db, Db, d>> \in Seq(DbStates)
  BY <1>1, <1>4
<1>6. QED  BY <1>2, <1>5, CommitTyped

LEMMA UpdateTwoTyped ==
    ASSUME WideInv, NEW k \in Slots, NEW j \in Slots, NEW val \in Values, SqlUpdateTwo(k, j, val)
    PROVE  WideInv'
<1> DEFINE e(i, key, v) == Entry("update", "kvs", i, key, v)
           d == [Db EXCEPT ![k] = {val}]
<1>1. k \in DbKeys /\ j \in DbKeys /\ val \in ColumnValues /\ Db \in DbStates
  BY DbTyped, KeyAssumption DEF WideInv, ColumnValues
<1>2. d \in DbStates
  BY <1>1, StatesTyped
<1>3. PICK old \in Db[k] \ {val}, older \in Db[j] \ {val} :
        Commit(<<MapOf("kvs"), e(0, k, old), e(1, k, val), e(2, j, older), e(3, j, val)>>,
               <<Db, Db, d, d, [Db EXCEPT ![k] = {val}, ![j] = {val}]>>)
  BY DEF SqlUpdateTwo
<1>4. old \in ColumnValues /\ older \in ColumnValues
  BY <1>1 DEF DbStates
<1>5. /\ e(0, k, old) \in Entries /\ e(1, k, val) \in Entries
      /\ e(2, j, older) \in Entries /\ e(3, j, val) \in Entries /\ MapOf("kvs") \in Entries
  BY <1>1, <1>4, EntriesTyped DEF RowTypes, Tables
<1>6. [Db EXCEPT ![k] = {val}, ![j] = {val}] \in DbStates
  BY <1>1 DEF DbStates
<1> HIDE DEF e, d
<1>7. /\ <<MapOf("kvs"), e(0, k, old), e(1, k, val), e(2, j, older), e(3, j, val)>> \in Seq(Entries)
      /\ <<Db, Db, d, d, [Db EXCEPT ![k] = {val}, ![j] = {val}]>> \in Seq(DbStates)
  BY <1>1, <1>2, <1>5, <1>6
<1>8. QED  BY <1>3, <1>7, CommitTyped

LEMMA DeleteTyped ==
    ASSUME WideInv, NEW k \in DbKeys, SqlDelete(k)
    PROVE  WideInv'
<1> DEFINE e(old) == Entry("delete", "kvs", 0, k, old)
           d == [Db EXCEPT ![k] = {}]
<1>1. Db \in DbStates
  BY DbTyped DEF WideInv
<1>2. PICK old \in Db[k] : Commit(<<MapOf("kvs"), e(old)>>, <<Db, d>>)
  BY DEF SqlDelete
<1>3. old \in ColumnValues /\ d \in DbStates
  BY <1>1 DEF DbStates
<1>4. e(old) \in Entries /\ MapOf("kvs") \in Entries
  BY <1>3, EntriesTyped DEF RowTypes, Tables
<1> HIDE DEF e, d
<1>5. <<MapOf("kvs"), e(old)>> \in Seq(Entries) /\ <<Db, d>> \in Seq(DbStates)
  BY <1>1, <1>3, <1>4
<1>6. QED  BY <1>2, <1>5, CommitTyped

\* The statements Plain excludes: rows of other tables, a key that moves, an update of
\* two tables.
LEMMA OtherTyped ==
    ASSUME WideInv, NEW table \in OtherTables, NEW k \in Slots, NEW val \in Values,
           SqlOther(table, k, val)
    PROVE  WideInv'
<1> DEFINE e == Entry("write", table, 0, k, val)
<1>1. Db \in DbStates /\ k \in DbKeys /\ val \in ColumnValues
  BY DbTyped, KeyAssumption DEF WideInv, ColumnValues
<1>2. e \in Entries /\ MapOf(table) \in Entries
  BY <1>1, EntriesTyped DEF RowTypes, Tables
<1>3. Commit(<<MapOf(table), e>>, <<Db, Db>>)
  BY DEF SqlOther
<1> HIDE DEF e
<1>4. <<MapOf(table), e>> \in Seq(Entries) /\ <<Db, Db>> \in Seq(DbStates)
  BY <1>1, <1>2
<1>5. QED  BY <1>3, <1>4, CommitTyped

LEMMA MoveTyped ==
    ASSUME WideInv, NEW k \in Slots, NEW j \in Slots, SqlMove(k, j)
    PROVE  WideInv'
<1> DEFINE e(val) == Entry("update", "kvs", 0, k, val)
           f(val) == Entry("update", "kvs", 1, j, val)
           d(val) == [Db EXCEPT ![k] = {}, ![j] = {val}]
<1>1. Db \in DbStates /\ k \in DbKeys /\ j \in DbKeys
  BY DbTyped, KeyAssumption DEF WideInv
<1>2. PICK val \in Db[k] : Commit(<<MapOf("kvs"), e(val), f(val)>>, <<Db, Db, d(val)>>)
  BY DEF SqlMove
<1>3. val \in ColumnValues
  BY <1>1 DEF DbStates
<1>4. d(val) \in DbStates
  BY <1>1, <1>3 DEF DbStates
<1>5. e(val) \in Entries /\ f(val) \in Entries /\ MapOf("kvs") \in Entries
  BY <1>1, <1>3, EntriesTyped DEF RowTypes, Tables
<1> HIDE DEF e, f, d
<1>6. <<MapOf("kvs"), e(val), f(val)>> \in Seq(Entries) /\ <<Db, Db, d(val)>> \in Seq(DbStates)
  BY <1>1, <1>4, <1>5
<1>7. QED  BY <1>2, <1>6, CommitTyped

LEMMA MultiTyped ==
    ASSUME WideInv, NEW table \in OtherTables, NEW k \in Slots, NEW val \in Values,
           SqlMulti(table, k, val)
    PROVE  WideInv'
<1> DEFINE e(t, i, v) == Entry("update", t, i, k, v)
           d == [Db EXCEPT ![k] = {val}]
<1>1. Db \in DbStates /\ k \in DbKeys /\ val \in ColumnValues
  BY DbTyped, KeyAssumption DEF WideInv, ColumnValues
<1>2. d \in DbStates
  BY <1>1, StatesTyped
<1>3. PICK old \in Db[k] \ {val} :
        Commit(<<MapOf("kvs"), MapOf(table), e("kvs", 0, old), e("kvs", 1, val),
                 e(table, 0, old), e(table, 1, val)>>,
               <<Db, Db, Db, d, d, d>>)
  BY DEF SqlMulti
<1>4. old \in ColumnValues
  BY <1>1 DEF DbStates
<1>5. /\ e("kvs", 0, old) \in Entries /\ e("kvs", 1, val) \in Entries
      /\ e(table, 0, old) \in Entries /\ e(table, 1, val) \in Entries
      /\ MapOf("kvs") \in Entries /\ MapOf(table) \in Entries
  BY <1>1, <1>4, EntriesTyped DEF RowTypes, Tables
<1> HIDE DEF e, d
<1>6. /\ <<MapOf("kvs"), MapOf(table), e("kvs", 0, old), e("kvs", 1, val),
           e(table, 0, old), e(table, 1, val)>> \in Seq(Entries)
      /\ <<Db, Db, Db, d, d, d>> \in Seq(DbStates)
  BY <1>1, <1>2, <1>5
<1>7. QED  BY <1>3, <1>6, CommitTyped

LEMMA DatabaseTyped == ASSUME WideInv, Database PROVE WideInv'
<1>1. CASE \E k \in SqlKeys, val \in Values : SqlInsert(k, val)
  BY <1>1, KeyAssumption, InsertTyped DEF SqlInsert, ColumnValues
<1>2. CASE \E k, j \in Slots, val \in Values : SqlUpdateTwo(k, j, val)
  BY <1>2, UpdateTwoTyped
<1>3. CASE \E k \in DbKeys : SqlDelete(k)
  BY <1>3, DeleteTyped
<1>4. CASE \E table \in OtherTables, k \in Slots, val \in Values :
             SqlOther(table, k, val) \/ SqlMulti(table, k, val)
  BY <1>4, OtherTyped, MultiTyped
<1>5. CASE \E k, j \in Slots : SqlMove(k, j)
  BY <1>5, MoveTyped
<1>6. CASE OtherEvent
  <2>1. Db \in DbStates /\ OtherEntry \in Entries
    BY DbTyped, EntriesTyped DEF WideInv
  <2>2. <<OtherEntry>> \in Seq(Entries) /\ <<Db>> \in Seq(DbStates)
    BY <2>1
  <2>3. QED  BY <1>6, <2>2, CommitTyped DEF OtherEvent
<1>7. CASE Rotate
  <2>1. files' = files \cup {Len(log)} /\ UNCHANGED <<log, hist, up, tbl, pos, tmp, stop>>
    BY <1>7 DEF Rotate, serverVars
  <2>2. Len(log) \in Nat /\ Len(log) \in 0..Len(log)
    BY DEF WideInv, TypeOK
  <2>3. 0 \in files' /\ files' \subseteq 0..Len(log)
    BY <2>1, <2>2 DEF WideInv, TypeOK
  <2>4. QED  BY <2>1, <2>3 DEF WideInv, TypeOK, HitWasLogged, Hits
<1>8. QED  BY <1>1, <1>2, <1>3, <1>4, <1>5, <1>6, <1>7 DEF Database

LEMMA SetTyped ==
    ASSUME WideInv, NEW key \in 0..S, NEW val \in Values, OnRecieveSet(key, val)
    PROVE  WideInv'
<1>1. key % S \in DbKeys /\ Stored(val) \in ColumnValues
  BY SizeAssumption, KeyAssumption DEF Slots, ColumnValues
<1>2. QED  BY <1>1, InsertTyped, UpdateTyped DEF OnRecieveSet

\* A row image of whatever table: at most its own slot finds something new, and that is
\* the value of a write.
LEMMA AppliedTyped ==
    ASSUME NEW t \in TableOf(Bodies), NEW e \in Entries, e.type \in RowTypes, ~Throws(e)
    PROVE  /\ ApplyRow(t, e) \in TableOf(Bodies)
           /\ \A k \in Slots : \A body \in Find(ApplyRow(t, e), k) :
                 \/ body \in Find(t, k)
                 \/ e.type = "write" /\ Gcnt(e.key) = k /\ RowBody(e.val) = body
<1>1. RowBody(e.val) \in Bodies
  <2>1. RowBody(<<>>) = ZeroBody
    BY LengthAssumption DEF RowBody, ZeroBody, Datalen
  <2>2. QED  BY <2>1 DEF Entries, Bodies
<1>2. CASE e.type = "write"
  BY <1>1, <1>2, AddVisible DEF ApplyRow, Throws
<1>3. CASE e.type = "update" /\ e.idx = 0
  BY <1>3 DEF ApplyRow
<1>4. CASE e.type = "delete" \/ (e.type = "update" /\ e.idx # 0)
  <2>1. ApplyRow(t, e) = DelItem(t, Gcnt(e.key)) /\ Gcnt(e.key) \in Slots
    BY <1>4 DEF ApplyRow, ItmValid, Throws
  <2>2. QED  BY <2>1, DelVisible
<1>5. QED  BY <1>2, <1>3, <1>4 DEF RowTypes

LEMMA HandleTyped ==
    ASSUME WideInv, NEW s \in Servers, Handle(s), UNCHANGED dbVars
    PROVE  /\ pos' \in [Servers -> 0..Len(log)] /\ NextEntry(s) \in Entries
           /\ pos[s] \in Nat /\ pos'[s] = pos[s] + 1 /\ pos'[s] \in 1..Len(log)
           /\ NextEntry(s) = log[pos'[s]]
           /\ \A r \in Servers \ {s} : pos'[r] = pos[r]
BY DEF WideInv, TypeOK, Handle, NextEntry

LEMMA PassTyped ==
    ASSUME WideInv, NEW s \in Servers, Handle(s), UNCHANGED <<dbVars, up, tbl, stop>>,
           tmp' \in [Servers -> BOOLEAN]
    PROVE  WideInv'
<1>1. TypeOK'
  BY HandleTyped DEF WideInv, TypeOK, dbVars
<1>2. HitWasLogged'
  <2>1. ASSUME NEW r \in Servers
        PROVE  pos[r] \in Nat /\ pos'[r] \in Nat /\ pos[r] <= pos'[r]
    <3>1. pos[s] \in Nat /\ pos'[s] = pos[s] + 1 /\ \A q \in Servers \ {s} : pos'[q] = pos[q]
      BY HandleTyped
    <3>2. pos[r] \in Nat
      BY DEF WideInv, TypeOK
    <3>3. QED  BY <3>1, <3>2
  <2>2. ASSUME NEW r \in Servers, NEW k \in Slots, NEW body \in Hits(r, k)'
        PROVE  \E i \in 1..pos'[r] : /\ log'[i].type = "write"
                                     /\ Gcnt(log'[i].key) = k
                                     /\ RowBody(log'[i].val) = body
    <3>1. log' = log /\ body \in Hits(r, k)
      BY <2>2 DEF Hits, dbVars
    <3>2. PICK i \in 1..pos[r] : /\ log[i].type = "write" /\ Gcnt(log[i].key) = k
                                 /\ RowBody(log[i].val) = body
      BY <3>1 DEF WideInv, HitWasLogged
    <3>3. i \in 1..pos'[r]
      BY <2>1, <3>2
    <3>4. QED  BY <3>1, <3>2, <3>3
  <2>3. QED  BY <2>2 DEF HitWasLogged
<1>3. QED  BY <1>1, <1>2 DEF WideInv

LEMMA RowTyped ==
    ASSUME WideInv, NEW s \in Servers, RowImage(s), tmp[s]
    PROVE  WideInv'
<1> DEFINE e == NextEntry(s)
           u == ApplyRow(tbl[s], e)
<1>1. /\ Handle(s) /\ UNCHANGED <<dbVars, up, tmp, stop>> /\ e.type \in RowTypes /\ ~Throws(e)
      /\ tbl' = [tbl EXCEPT ![s] = u]
  BY DEF RowImage
<1>2. tbl[s] \in TableOf(Bodies) /\ e \in Entries
  BY <1>1, HandleTyped DEF WideInv, TypeOK
<1> HIDE DEF e
<1>3. /\ u \in TableOf(Bodies)
      /\ \A k \in Slots : \A body \in Find(u, k) :
            \/ body \in Find(tbl[s], k)
            \/ e.type = "write" /\ Gcnt(e.key) = k /\ RowBody(e.val) = body
  BY <1>1, <1>2, AppliedTyped
<1> HIDE DEF u
<1>4. /\ tbl' \in [Servers -> TableOf(Bodies)] /\ tbl'[s] = u
      /\ \A r \in Servers \ {s} : tbl'[r] = tbl[r]
  BY <1>1, <1>3 DEF WideInv, TypeOK
<1>5. TypeOK'
  BY <1>1, <1>4, HandleTyped DEF WideInv, TypeOK, dbVars
<1>6. ASSUME NEW r \in Servers, NEW k \in Slots, NEW body \in Hits(r, k)'
      PROVE  \E i \in 1..pos'[r] : /\ log'[i].type = "write"
                                   /\ Gcnt(log'[i].key) = k
                                   /\ RowBody(log'[i].val) = body
  <2>1. body \in Find(tbl'[r], k) /\ body.len # 0 /\ log' = log
    BY <1>1, <1>6 DEF Hits, dbVars
  <2>2. CASE body \in Find(tbl[r], k)
    <3>1. PICK i \in 1..pos[r] : /\ log[i].type = "write" /\ Gcnt(log[i].key) = k
                                 /\ RowBody(log[i].val) = body
      BY <2>1, <2>2 DEF WideInv, HitWasLogged, Hits
    <3>2. pos[r] \in Nat /\ pos'[r] \in {pos[r], pos[r] + 1}
      BY <1>1, HandleTyped DEF WideInv, TypeOK
    <3>3. i \in 1..pos'[r]
      BY <3>2
    <3>4. QED  BY <2>1, <3>1, <3>3
  <2>3. CASE body \notin Find(tbl[r], k)
    <3>1. r = s
      BY <1>4, <2>1, <2>3
    <3>2. e.type = "write" /\ Gcnt(e.key) = k /\ RowBody(e.val) = body
      BY <1>3, <1>4, <2>1, <2>3, <3>1
    <3>3. e = log[pos'[s]] /\ pos'[s] \in 1..pos'[s]
      BY <1>1, HandleTyped DEF e
    <3>4. QED  BY <2>1, <3>1, <3>2, <3>3
  <2>4. QED  BY <2>2, <2>3
<1>7. QED  BY <1>5, <1>6 DEF WideInv, HitWasLogged

LEMMA StartTyped == ASSUME WideInv, Start PROVE WideInv'
<1>1. /\ up' = TRUE /\ tbl' = [s \in Servers |-> ClearedTable(ZeroBody)]
      /\ pos' \in [Servers -> files] /\ tmp' = [s \in Servers |-> FALSE]
      /\ stop' \in [Servers -> BOOLEAN] /\ UNCHANGED dbVars
  BY DEF Start
<1>2. ClearedTable(ZeroBody) \in TableOf(Bodies)
  BY ClearedTyped DEF Bodies
<1>3. pos' \in [Servers -> 0..Len(log)]
  BY <1>1 DEF WideInv, TypeOK
<1>4. TypeOK'
  BY <1>1, <1>2, <1>3 DEF WideInv, TypeOK, dbVars
<1>5. HitWasLogged'
  BY <1>1, ClearedHits DEF HitWasLogged
<1>6. QED  BY <1>4, <1>5 DEF WideInv

LEMMA StepTyped == ASSUME WideInv, [Next]_vars PROVE WideInv'
<1>1. ASSUME NEW s \in Servers, BinLogStep(s) PROVE WideInv'
  <2>1. tmp \in [Servers -> BOOLEAN]
    BY DEF WideInv, TypeOK
  <2>2. CASE TableMapEvent(s)
    <3>1. tmp' \in [Servers -> BOOLEAN]
      BY <2>1, <2>2 DEF TableMapEvent, Target
    <3>2. QED  BY <2>2, <3>1, PassTyped DEF TableMapEvent
  <2>3. CASE RowImage(s)
    BY <2>1, <2>3, RowTyped, PassTyped DEF RowImage
  <2>4. CASE IgnoredEvent(s)
    BY <2>1, <2>4, PassTyped DEF IgnoredEvent
  <2>5. CASE RowThrows(s)
    <3>1. up' = FALSE /\ UNCHANGED <<dbVars, tbl, pos, tmp, stop>>
      BY <2>5 DEF RowThrows
    <3>2. TypeOK'
      BY <3>1 DEF WideInv, TypeOK, dbVars
    <3>3. HitWasLogged'
      BY <3>1 DEF WideInv, HitWasLogged, Hits, dbVars
    <3>4. QED  BY <3>2, <3>3 DEF WideInv
  <2>6. QED  BY <1>1, <2>2, <2>3, <2>4, <2>5 DEF BinLogStep
<1>2. CASE Crash
  BY <1>2 DEF Crash, WideInv, TypeOK, HitWasLogged, Hits, dbVars
<1>3. CASE UNCHANGED vars
  BY <1>3 DEF vars, dbVars, serverVars, WideInv, TypeOK, HitWasLogged, Hits
<1>4. QED  BY <1>1, <1>2, <1>3, DatabaseTyped, SetTyped, StartTyped DEF Next

LEMMA InitTyped == Init => WideInv
<1> SUFFICES ASSUME Init PROVE WideInv
  OBVIOUS
<1>1. TypeOK
  BY InitOK DEF IInv
<1>2. \A s \in Servers : tbl[s] = ClearedTable(ZeroBody)
  BY DEF Init
<1>3. QED  BY <1>1, <1>2, EmptyHits DEF WideInv, HitWasLogged

\* The variables keep their types: a position never passes the end of the binlog, and a
\* file never starts behind it.
THEOREM TypeCorrect == Spec => []TypeOK
<1>1. WideInv => TypeOK
  BY DEF WideInv
<1>2. QED  BY <1>1, InitTyped, StepTyped, PTL DEF Spec

\* Whatever is in the binlog, a hit is the value some write event, handled since the
\* first start, had for a key of its slot (BinLogLoop, server.cc:297-344).
THEOREM HitsWereLogged == Spec => []HitWasLogged
<1>1. WideInv => HitWasLogged
  BY DEF WideInv
<1>2. QED  BY <1>1, InitTyped, StepTyped, PTL DEF Spec

-----------------------------------------------------------------------------
(* Whatever the statements, tables and keys: where stale hits come from.   *)

\* What an entry says of the change of one key around it.
Explains(e, k, before, after) ==
    IF e.type \in RowTypes /\ e.table = "kvs" /\ e.key = k
    THEN /\ e.type = "write" => after[k] = {e.val}
         /\ e.type = "update" /\ e.idx = 0 => after = before
    ELSE after[k] = before[k]

OldImage(e) == e.type = "update" /\ e.idx % 2 = 0

\* The entries of one statement: rows come behind a map, an old image is not the last,
\* and a change that an entry does not explain has a misread row of its key.
StatementOK(es, ds) ==
    /\ es \in Seq(Entries) /\ ds \in Seq(DbStates) /\ Len(ds) = Len(es)
    /\ \A i \in 1..Len(es) : es[i].type \in RowTypes =>
          i # 1 /\ es[1].type = "map" /\ es[i - 1].type # "other"
    /\ \A i \in 1..Len(es) : OldImage(es[i]) => i # Len(es)
    /\ \A i \in 1..Len(es), k \in Slots :
          \/ Explains(es[i], k, IF i = 1 THEN Db ELSE ds[i - 1], ds[i])
          \/ \E j \in 1..i : Misread(es, j, k)

RowsFollow == \A i \in 1..Len(log) : log[i].type \in RowTypes =>
                 i - 1 \notin files /\ log[i - 1].type # "other"
PairsOK == \A i \in 1..Len(log) : OldImage(log[i]) => i # Len(log)
ChangesOK == \A i \in 1..Len(log), k \in Slots :
                \/ Explains(log[i], k, hist[i], hist[i + 1])
                \/ \E j \in 1..i : Misread(log, j, k)
TakenOK == \A s \in Servers :
              \/ pos[s] \in files
              \/ log[pos[s]].type = "other"
              \/ tmp[s] = Taken(log, pos[s] + 1)

AnyInv == WideInv /\ RowsFollow /\ PairsOK /\ ChangesOK /\ TakenOK /\ StaleHitsWereMisread

\* The last map, and so what is taken for a row of kvs, is a matter of the entries before.
LEMMA TakenBefore ==
    ASSUME NEW es, NEW fs, NEW i \in Nat, \A h \in 1..(i - 1) : fs[h] = es[h]
    PROVE  Taken(fs, i) = Taken(es, i)
<1>1. \A j \in 1..(i - 1) : \A h \in (j + 1)..(i - 1) : h \in 1..(i - 1)
  OBVIOUS
<1>2. QED  BY <1>1 DEF Taken

LEMMA TakenNext ==
    ASSUME NEW es, NEW i \in Nat \ {0}
    PROVE  Taken(es, i + 1) = IF es[i].type = "map" THEN Target(es[i].table) ELSE Taken(es, i)
<1>1. (i + 1) - 1 = i /\ i \in 1..i /\ (i + 1)..i = {}
  OBVIOUS
<1>2. Taken(es, i + 1) = \E j \in 1..i : /\ es[j].type = "map" /\ Target(es[j].table)
                                         /\ \A h \in (j + 1)..i : es[h].type # "map"
  BY <1>1 DEF Taken
<1>3. CASE es[i].type = "map"
  <2>1. ASSUME NEW j \in 1..i, \A h \in (j + 1)..i : es[h].type # "map"
        PROVE  j = i
    <3>1. i \notin (j + 1)..i
      BY <1>3, <2>1
    <3>2. QED  BY <3>1
  <2>2. Target(es[i].table) \in BOOLEAN
    BY DEF Target
  <2>3. QED  BY <1>1, <1>2, <1>3, <2>1, <2>2
<1>4. CASE es[i].type # "map"
  <2>1. ASSUME NEW j \in 1..i, es[j].type = "map"
        PROVE  /\ j \in 1..(i - 1)
               /\ (\A h \in (j + 1)..i : es[h].type # "map")
                     <=> \A h \in (j + 1)..(i - 1) : es[h].type # "map"
    <3>1. j # i
      BY <1>4, <2>1
    <3>2. j \in 1..(i - 1)
      BY <3>1
    <3>3. \A h \in (j + 1)..i : h = i \/ h \in (j + 1)..(i - 1)
      OBVIOUS
    <3>4. \A h \in (j + 1)..(i - 1) : h \in (j + 1)..i
      OBVIOUS
    <3>5. QED  BY <1>4, <3>2, <3>3, <3>4
  <2>2. \A j \in 1..(i - 1) : j \in 1..i
    OBVIOUS
  <2>3. QED  BY <1>2, <1>4, <2>1, <2>2 DEF Taken
<1>5. QED  BY <1>3, <1>4

\* Within a statement that begins with a map, wherever the statement is in the log.
LEMMA TakenWithin ==
    ASSUME NEW es, NEW n \in Nat, NEW gs, NEW i \in Nat \ {0, 1}, gs[1].type = "map",
           \A h \in 1..(i - 1) : es[n + h] = gs[h]
    PROVE  Taken(es, n + i) = Taken(gs, i)
<1>1. 1 \in 1..(i - 1) /\ es[n + 1].type = "map"
  <2>1. 1 \in 1..(i - 1)
    OBVIOUS
  <2>2. QED  BY <2>1
<1>2. ASSUME Taken(es, n + i) PROVE Taken(gs, i)
  <2>1. PICK j \in 1..((n + i) - 1) :
               /\ es[j].type = "map" /\ Target(es[j].table)
               /\ \A h \in (j + 1)..((n + i) - 1) : es[h].type # "map"
    BY <1>2 DEF Taken
  <2>2. n + 1 \notin (j + 1)..((n + i) - 1)
    BY <1>1, <2>1
  <2>3. j >= n + 1
    BY <2>2
  <2> DEFINE a == j - n
  <2>4. a \in 1..(i - 1) /\ n + a = j
    BY <2>3
  <2>5. ASSUME NEW h \in (a + 1)..(i - 1) PROVE gs[h].type # "map"
    <3>1. h \in 1..(i - 1) /\ n + h \in (j + 1)..((n + i) - 1)
      BY <2>4
    <3>2. QED  BY <2>1, <3>1
  <2>6. gs[a] = es[j]
    BY <2>4
  <2> HIDE DEF a
  <2>7. QED  BY <2>1, <2>4, <2>5, <2>6 DEF Taken
<1>3. ASSUME Taken(gs, i) PROVE Taken(es, n + i)
  <2>1. PICK j \in 1..(i - 1) :
               /\ gs[j].type = "map" /\ Target(gs[j].table)
               /\ \A h \in (j + 1)..(i - 1) : gs[h].type # "map"
    BY <1>3 DEF Taken
  <2>2. n + j \in 1..((n + i) - 1) /\ es[n + j] = gs[j]
    OBVIOUS
  <2>3. ASSUME NEW h \in ((n + j) + 1)..((n + i) - 1) PROVE es[h].type # "map"
    <3> DEFINE b == h - n
    <3>1. b \in (j + 1)..(i - 1) /\ b \in 1..(i - 1) /\ n + b = h
      OBVIOUS
    <3> HIDE DEF b
    <3>2. QED  BY <2>1, <3>1
  <2>4. QED  BY <2>1, <2>2, <2>3 DEF Taken
<1>4. Taken(es, n + i) \in BOOLEAN /\ Taken(gs, i) \in BOOLEAN
  BY DEF Taken
<1>5. QED  BY <1>2, <1>3, <1>4

LEMMA MisreadBefore ==
    ASSUME NEW es, NEW fs, NEW n \in Nat, NEW i \in 1..n, NEW k,
           \A h \in 1..n : fs[h] = es[h], OldImage(es[i]) => i # n, Misread(es, i, k)
    PROVE  Misread(fs, i, k)
<1>1. fs[i] = es[i] /\ Taken(fs, i) = Taken(es, i)
  <2>1. i \in Nat /\ \A h \in 1..(i - 1) : h \in 1..n
    OBVIOUS
  <2>2. QED  BY <2>1, TakenBefore
<1>2. Moved(es, i) => Moved(fs, i)
  <2>1. SUFFICES ASSUME Moved(es, i) PROVE Moved(fs, i)
    OBVIOUS
  <2>2. i + 1 \in 1..n
    BY <2>1 DEF Moved, OldImage
  <2>3. QED  BY <1>1, <2>1, <2>2 DEF Moved
<1>3. QED  BY <1>1, <1>2 DEF Misread

LEMMA MisreadWithin ==
    ASSUME NEW es, NEW n \in Nat, NEW gs, NEW m \in Nat, NEW i \in 2..m, NEW k,
           gs[1].type = "map", \A h \in 1..m : es[n + h] = gs[h],
           OldImage(gs[i]) => i # m, Misread(gs, i, k)
    PROVE  Misread(es, n + i, k)
<1>1. es[n + i] = gs[i] /\ Taken(es, n + i) = Taken(gs, i)
  <2>1. i \in Nat \ {0, 1} /\ \A h \in 1..(i - 1) : h \in 1..m
    OBVIOUS
  <2>2. QED  BY <2>1, TakenWithin
<1>2. Moved(gs, i) => Moved(es, n + i)
  <2>1. SUFFICES ASSUME Moved(gs, i) PROVE Moved(es, n + i)
    OBVIOUS
  <2>2. i + 1 \in 1..m /\ n + (i + 1) = (n + i) + 1
    BY <2>1 DEF Moved, OldImage
  <2>3. QED  BY <1>1, <2>1, <2>2 DEF Moved
<1>3. QED  BY <1>1, <1>2 DEF Misread

-----------------------------------------------------------------------------
\* The binlog grows by a statement.
LEMMA CommitAny ==
    ASSUME AnyInv, NEW es, NEW ds, StatementOK(es, ds), Commit(es, ds)
    PROVE  AnyInv'
<1> DEFINE n == Len(log)
           m == Len(es)
<1>1. /\ log' = log \o es /\ hist' = hist \o ds
      /\ UNCHANGED <<files, up, tbl, pos, tmp, stop>>
  BY DEF Commit, serverVars
<1>2. /\ log \in Seq(Entries) /\ hist \in Seq(DbStates)
      /\ es \in Seq(Entries) /\ ds \in Seq(DbStates)
      /\ Len(hist) = n + 1 /\ Len(ds) = m /\ n \in Nat /\ m \in Nat
  BY DEF AnyInv, WideInv, TypeOK, StatementOK
<1>3. /\ log' \in Seq(Entries) /\ Len(log') = n + m
      /\ \A i \in 1..n : log'[i] = log[i]
      /\ \A i \in 1..m : log'[n + i] = es[i]
  <2>1. /\ log \o es \in Seq(Entries)
        /\ Len(log \o es) = n + m
        /\ \A i \in 1..(n + m) : (log \o es)[i] = IF i <= n THEN log[i] ELSE es[i - n]
    BY <1>2, ConcatProperties
  <2> HIDE DEF n, m
  <2>2. \A i \in 1..m : n + i \in 1..(n + m) /\ ~(n + i <= n) /\ (n + i) - n = i
    BY <1>2
  <2>3. \A i \in 1..n : i \in 1..(n + m) /\ i <= n
    BY <1>2
  <2>4. QED  BY <1>1, <2>1, <2>2, <2>3
<1>4. /\ hist' \in Seq(DbStates) /\ Len(hist') = n + 1 + m
      /\ \A i \in 1..(n + 1) : hist'[i] = hist[i]
      /\ \A i \in 1..m : hist'[(n + i) + 1] = ds[i]
  <2>1. /\ hist \o ds \in Seq(DbStates)
        /\ Len(hist \o ds) = Len(hist) + Len(ds)
        /\ \A i \in 1..(Len(hist) + Len(ds)) : (hist \o ds)[i] =
                     IF i <= Len(hist) THEN hist[i] ELSE ds[i - Len(hist)]
    <3>1. hist \in Seq(DbStates) /\ ds \in Seq(DbStates)
      BY <1>2
    <3>2. QED  BY <3>1, ConcatProperties, Zenon
  <2> HIDE DEF n, m
  <2>2. \A i \in 1..m : /\ (n + i) + 1 \in 1..((n + 1) + m) /\ ~((n + i) + 1 <= n + 1)
                        /\ ((n + i) + 1) - (n + 1) = i
    BY <1>2
  <2>3. \A i \in 1..(n + 1) : i \in 1..((n + 1) + m) /\ i <= n + 1
    BY <1>2
  <2>4. QED  BY <1>1, <1>2, <2>1, <2>2, <2>3
<1>5. /\ n \in Nat /\ m \in Nat /\ Len(log') = n + m /\ Len(hist) = n + 1
      /\ files \subseteq 0..n /\ 0 \in files /\ \A s \in Servers : pos[s] \in 0..n
  BY <1>2, <1>3 DEF AnyInv, WideInv, TypeOK
<1>6. \A i \in 1..(n + m) : i \in 1..n \/ \E j \in 1..m : i = n + j
  <2> HIDE DEF n, m
  <2>1. ASSUME NEW i \in 1..(n + m), i \notin 1..n PROVE i - n \in 1..m /\ i = n + (i - n)
    BY <1>5, <2>1
  <2>2. QED  BY <2>1
<1>7. WideInv'
  BY CommitTyped DEF AnyInv, StatementOK
<1>8. RowsFollow'
  <2> SUFFICES ASSUME NEW i \in 1..(n + m), log'[i].type \in RowTypes
               PROVE  i - 1 \notin files /\ log'[i - 1].type # "other"
    BY <1>1, <1>5 DEF RowsFollow
  <2>1. CASE i \in 1..n
    <3>1. i - 1 \notin files /\ log[i - 1].type # "other"
      BY <1>3, <2>1 DEF AnyInv, RowsFollow
    <3> HIDE DEF n, m
    <3>2. i - 1 \in 1..n
      BY <1>5, <2>1, <3>1
    <3>3. QED  BY <1>3, <3>1, <3>2
  <2>2. ASSUME NEW j \in 1..m, i = n + j
        PROVE  i - 1 \notin files /\ log'[i - 1].type # "other"
    <3>1. es[j].type \in RowTypes
      BY <1>3, <2>2
    <3>2. j # 1 /\ es[j - 1].type # "other"
      BY <3>1 DEF StatementOK
    <3> HIDE DEF n, m
    <3>3. j - 1 \in 1..m /\ n + (j - 1) = i - 1 /\ i - 1 \notin 0..n
      BY <1>5, <2>2, <3>2
    <3>4. QED  BY <1>3, <1>5, <3>2, <3>3
  <2>3. QED  BY <1>6, <2>1, <2>2
<1>9. ASSUME NEW i \in 1..n, NEW k, Misread(log, i, k) PROVE Misread(log', i, k)
  <2>1. OldImage(log[i]) => i # n
    BY DEF AnyInv, PairsOK
  <2> HIDE DEF n
  <2>2. QED  BY <1>3, <1>5, <1>9, <2>1, MisreadBefore
<1>10. ASSUME NEW i \in 1..m, NEW k, Misread(es, i, k) PROVE Misread(log', n + i, k)
  <2>1. /\ OldImage(es[i]) => i # m
        /\ i # 1 /\ es[1].type = "map"
    BY <1>10 DEF StatementOK, Misread
  <2> HIDE DEF n, m
  <2>2. i \in 2..m
    BY <1>5, <2>1
  <2>3. QED  BY <1>3, <1>5, <1>10, <2>1, <2>2, MisreadWithin
<1>11. PairsOK'
  <2> SUFFICES ASSUME NEW i \in 1..(n + m), OldImage(log'[i]) PROVE i # n + m
    BY <1>5 DEF PairsOK
  <2>1. CASE i \in 1..n
    <3>1. i # n
      BY <1>3, <2>1 DEF AnyInv, PairsOK
    <3> HIDE DEF n, m
    <3>2. QED  BY <1>5, <2>1, <3>1
  <2>2. ASSUME NEW j \in 1..m, i = n + j PROVE i # n + m
    <3>1. j # m
      BY <1>3, <2>2 DEF StatementOK
    <3> HIDE DEF n, m
    <3>2. QED  BY <1>5, <2>2, <3>1
  <2>3. QED  BY <1>6, <2>1, <2>2
<1>12. ChangesOK'
  <2> SUFFICES ASSUME NEW i \in 1..(n + m), NEW k \in Slots
               PROVE  \/ Explains(log'[i], k, hist'[i], hist'[i + 1])
                      \/ \E j \in 1..i : Misread(log', j, k)
    BY <1>5 DEF ChangesOK
  <2>1. CASE i \in 1..n
    <3>1. \/ Explains(log[i], k, hist[i], hist[i + 1])
          \/ \E j \in 1..i : Misread(log, j, k)
      BY <2>1 DEF AnyInv, ChangesOK
    <3> HIDE DEF n, m
    <3>2. /\ log'[i] = log[i] /\ hist'[i] = hist[i] /\ hist'[i + 1] = hist[i + 1]
          /\ \A j \in 1..i : j \in 1..n
      BY <1>3, <1>4, <1>5, <2>1
    <3>3. QED  BY <1>9, <3>1, <3>2
  <2>2. ASSUME NEW g \in 1..m, i = n + g
        PROVE  \/ Explains(log'[i], k, hist'[i], hist'[i + 1])
               \/ \E j \in 1..i : Misread(log', j, k)
    <3> DEFINE before == IF g = 1 THEN Db ELSE ds[g - 1]
    <3>1. \/ Explains(es[g], k, before, ds[g])
          \/ \E j \in 1..g : Misread(es, j, k)
      BY DEF StatementOK
    <3>2. log'[i] = es[g] /\ hist'[i + 1] = ds[g]
      BY <1>3, <1>4, <2>2
    <3>3. hist'[i] = before
      <4>1. CASE g = 1
        <5>1. Db = hist[n + 1]
          BY <1>5 DEF Db
        <5> HIDE DEF n, m
        <5>2. i = n + 1 /\ n + 1 \in 1..(n + 1)
          BY <1>5, <2>2, <4>1
        <5>3. QED  BY <1>4, <4>1, <5>1, <5>2
      <4>2. CASE g # 1
        <5> HIDE DEF n, m
        <5>1. g - 1 \in 1..m /\ (n + (g - 1)) + 1 = i
          BY <1>5, <2>2, <4>2
        <5>2. QED  BY <1>4, <4>2, <5>1
      <4>3. QED  BY <4>1, <4>2
    <3> HIDE DEF before
    <3>4. ASSUME NEW j \in 1..g, Misread(es, j, k) PROVE \E h \in 1..i : Misread(log', h, k)
      <4>1. j \in 1..m /\ Misread(log', n + j, k)
        <5>1. j \in 1..m
          <6> HIDE DEF m
          <6>1. QED  BY <1>5
        <5>2. QED  BY <1>10, <3>4, <5>1
      <4> HIDE DEF n, m
      <4>2. n + j \in 1..i
        BY <1>5, <2>2
      <4>3. QED  BY <4>1, <4>2
    <3>5. QED  BY <3>1, <3>2, <3>3, <3>4
  <2>3. QED  BY <1>6, <2>1, <2>2
<1>13. TakenOK'
  <2> SUFFICES ASSUME NEW s \in Servers
               PROVE  \/ pos[s] \in files \/ log'[pos[s]].type = "other"
                      \/ tmp[s] = Taken(log', pos[s] + 1)
    BY <1>1 DEF TakenOK
  <2>1. \/ pos[s] \in files \/ log[pos[s]].type = "other"
        \/ tmp[s] = Taken(log, pos[s] + 1)
    BY DEF AnyInv, TakenOK
  <2> HIDE DEF n, m
  <2>2. /\ pos[s] \in 0..n /\ pos[s] + 1 \in Nat /\ (pos[s] + 1) - 1 = pos[s]
        /\ \A h \in 1..pos[s] : h \in 1..n
    BY <1>5
  <2>3. Taken(log', pos[s] + 1) = Taken(log, pos[s] + 1)
    BY <1>3, <2>2, TakenBefore
  <2>4. pos[s] = 0 \/ pos[s] \in 1..n
    BY <1>5, <2>2
  <2>5. QED  BY <1>3, <1>5, <2>1, <2>3, <2>4
<1>14. StaleHitsWereMisread'
  <2> SUFFICES ASSUME NEW s \in Servers, NEW k \in Slots
               PROVE  \/ Hits(s, k)' \subseteq Cached(DbAt(s))'[k]
                      \/ \E i \in 1..pos'[s] : Misread(log', i, k)
    BY DEF StaleHitsWereMisread
  <2>1. \/ Hits(s, k) \subseteq Cached(DbAt(s))[k]
        \/ \E i \in 1..pos[s] : Misread(log, i, k)
    BY DEF AnyInv, StaleHitsWereMisread
  <2> HIDE DEF n, m
  <2>2. /\ pos[s] + 1 \in 1..(n + 1) /\ pos'[s] = pos[s]
        /\ \A i \in 1..pos[s] : i \in 1..n
    BY <1>1, <1>5
  <2>3. Hits(s, k)' = Hits(s, k) /\ Cached(DbAt(s))' = Cached(DbAt(s))
    BY <1>1, <1>4, <2>2 DEF Hits, DbAt, Cached
  <2>4. QED  BY <1>9, <2>1, <2>2, <2>3
<1>15. QED  BY <1>7, <1>8, <1>11, <1>12, <1>13, <1>14 DEF AnyInv

\* Statements of one, two, three, five and six entries.
Told(e, before, after) == \A k \in Slots : Explains(e, k, before, after)

LEMMA OneTold ==
    ASSUME NEW e \in Entries, NEW d \in DbStates, e.type \notin RowTypes, Told(e, Db, d)
    PROVE  StatementOK(<<e>>, <<d>>)
BY DEF StatementOK, Told, OldImage, RowTypes

LEMMA TwoTold ==
    ASSUME NEW e1 \in Entries, NEW e2 \in Entries, NEW d1 \in DbStates, NEW d2 \in DbStates,
           e1.type = "map", ~OldImage(e2), Told(e1, Db, d1), Told(e2, d1, d2)
    PROVE  StatementOK(<<e1, e2>>, <<d1, d2>>)
<1>1. e1.type \notin RowTypes /\ ~OldImage(e1)
  BY DEF RowTypes, OldImage
<1>2. \A i \in 1..2 : i = 1 \/ i = 2
  OBVIOUS
<1> DEFINE es == <<e1, e2>>
           ds == <<d1, d2>>
<1>3. /\ es \in Seq(Entries) /\ ds \in Seq(DbStates) /\ Len(es) = 2 /\ Len(ds) = 2
      /\ es[1] = e1 /\ es[2] = e2 /\ ds[1] = d1 /\ ds[2] = d2
  OBVIOUS
<1> HIDE DEF es, ds
<1>4. \A i \in 1..2 : es[i].type \in RowTypes => i = 2
  BY <1>1, <1>2, <1>3
<1>5. \A i \in 1..2 : ~OldImage(es[i])
  BY <1>1, <1>2, <1>3
<1>6. \A i \in 1..2, k \in Slots : Explains(es[i], k, IF i = 1 THEN Db ELSE ds[i - 1], ds[i])
  BY <1>2, <1>3 DEF Told
<1>7. StatementOK(es, ds)
  BY <1>3, <1>4, <1>5, <1>6 DEF StatementOK
<1>8. QED  BY <1>7 DEF es, ds

LEMMA ThreeTold ==
    ASSUME NEW e1 \in Entries, NEW e2 \in Entries, NEW e3 \in Entries,
           NEW d1 \in DbStates, NEW d2 \in DbStates, NEW d3 \in DbStates,
           e1.type = "map", e2.type # "other", ~OldImage(e3),
           Told(e1, Db, d1), Told(e2, d1, d2),
           \A k \in Slots : Explains(e3, k, d2, d3) \/ Misread(<<e1, e2, e3>>, 2, k)
    PROVE  StatementOK(<<e1, e2, e3>>, <<d1, d2, d3>>)
<1>1. e1.type \notin RowTypes /\ ~OldImage(e1)
  BY DEF RowTypes, OldImage
<1>2. QED  BY <1>1 DEF StatementOK, Told

LEMMA FiveTold ==
    ASSUME NEW e1 \in Entries, NEW e2 \in Entries, NEW e3 \in Entries, NEW e4 \in Entries,
           NEW e5 \in Entries, NEW d1 \in DbStates, NEW d2 \in DbStates, NEW d3 \in DbStates,
           NEW d4 \in DbStates, NEW d5 \in DbStates,
           e1.type = "map", e2.type # "other", e3.type # "other", e4.type # "other",
           ~OldImage(e5), Told(e1, Db, d1), Told(e2, d1, d2), Told(e3, d2, d3),
           Told(e4, d3, d4), Told(e5, d4, d5)
    PROVE  StatementOK(<<e1, e2, e3, e4, e5>>, <<d1, d2, d3, d4, d5>>)
<1>1. e1.type \notin RowTypes /\ ~OldImage(e1)
  BY DEF RowTypes, OldImage
<1>2. QED  BY <1>1 DEF StatementOK, Told

LEMMA SixTold ==
    ASSUME NEW e1 \in Entries, NEW e2 \in Entries, NEW e3 \in Entries, NEW e4 \in Entries,
           NEW e5 \in Entries, NEW e6 \in Entries, NEW d1 \in DbStates, NEW d2 \in DbStates,
           NEW d3 \in DbStates, NEW d4 \in DbStates, NEW d5 \in DbStates, NEW d6 \in DbStates,
           e1.type = "map", e2.type # "other", e3.type # "other", e4.type # "other",
           e5.type # "other", ~OldImage(e6), Told(e1, Db, d1), Told(e2, d1, d2),
           Told(e3, d2, d3), Told(e4, d3, d4), Told(e5, d4, d5), Told(e6, d5, d6)
    PROVE  StatementOK(<<e1, e2, e3, e4, e5, e6>>, <<d1, d2, d3, d4, d5, d6>>)
<1>1. e1.type \notin RowTypes /\ ~OldImage(e1)
  BY DEF RowTypes, OldImage
<1>2. QED  BY <1>1 DEF StatementOK, Told

\* Entries that leave kvs alone, and the images of its rows.
LEMMA QuietTold ==
    ASSUME NEW e, NEW d, e.type \notin RowTypes \/ e.table # "kvs"
    PROVE  Told(e, d, d)
BY DEF Told, Explains

LEMMA ImagesTold ==
    ASSUME NEW key \in DbKeys, NEW v \in ColumnValues, NEW d \in DbStates
    PROVE  /\ Told(Entry("write", "kvs", 0, key, v), d, [d EXCEPT ![key] = {v}])
           /\ Told(Entry("delete", "kvs", 0, key, v), d, [d EXCEPT ![key] = {}])
           /\ \A i \in Nat : Told(Entry("update", "kvs", i, key, v), d, d)
           /\ \A i \in Nat \ {0}, w \in ColumnValues :
                 Told(Entry("update", "kvs", i, key, v), d, [d EXCEPT ![key] = {w}])
<1>1. \A k \in Slots : k \in DbKeys
  BY KeyAssumption
<1>2. QED  BY <1>1 DEF Told, Explains, Entry, RowTypes, DbStates

LEMMA InsertAny ==
    ASSUME AnyInv, NEW key \in DbKeys, NEW val \in ColumnValues, InsertRow(key, val)
    PROVE  AnyInv'
<1> DEFINE e == Entry("write", "kvs", 0, key, val)
           d == [Db EXCEPT ![key] = {val}]
<1>1. Db \in DbStates /\ d \in DbStates
  BY DbTyped, StatesTyped DEF AnyInv, WideInv
<1>2. e \in Entries /\ MapOf("kvs") \in Entries
  BY EntriesTyped DEF RowTypes, Tables
<1>3. /\ MapOf("kvs").type = "map" /\ ~OldImage(e)
      /\ Told(MapOf("kvs"), Db, Db) /\ Told(e, Db, d)
  BY <1>1, ImagesTold, QuietTold DEF MapOf, Entry, OldImage, RowTypes
<1>4. Commit(<<MapOf("kvs"), e>>, <<Db, d>>)
  BY DEF InsertRow
<1> HIDE DEF e, d
<1>5. QED  BY <1>1, <1>2, <1>3, <1>4, TwoTold, CommitAny

LEMMA DeleteAny ==
    ASSUME AnyInv, NEW key \in DbKeys, SqlDelete(key)
    PROVE  AnyInv'
<1> DEFINE e(old) == Entry("delete", "kvs", 0, key, old)
           d == [Db EXCEPT ![key] = {}]
<1>1. Db \in DbStates
  BY DbTyped DEF AnyInv, WideInv
<1>2. PICK old \in Db[key] : Commit(<<MapOf("kvs"), e(old)>>, <<Db, d>>)
  BY DEF SqlDelete
<1>3. old \in ColumnValues /\ d \in DbStates
  BY <1>1 DEF DbStates
<1>4. e(old) \in Entries /\ MapOf("kvs") \in Entries
  BY <1>3, EntriesTyped DEF RowTypes, Tables
<1>5. /\ MapOf("kvs").type = "map" /\ ~OldImage(e(old))
      /\ Told(MapOf("kvs"), Db, Db) /\ Told(e(old), Db, d)
  BY <1>1, <1>3, ImagesTold, QuietTold DEF MapOf, Entry, OldImage, RowTypes
<1> HIDE DEF e, d
<1>6. QED  BY <1>1, <1>2, <1>3, <1>4, <1>5, TwoTold, CommitAny

LEMMA UpdateAny ==
    ASSUME AnyInv, NEW key \in DbKeys, NEW val \in ColumnValues, UpdateRow(key, val)
    PROVE  AnyInv'
<1> DEFINE e(old) == Entry("update", "kvs", 0, key, old)
           f == Entry("update", "kvs", 1, key, val)
           d == [Db EXCEPT ![key] = {val}]
<1>1. Db \in DbStates /\ d \in DbStates
  BY DbTyped, StatesTyped DEF AnyInv, WideInv
<1>2. PICK old \in Db[key] \ {val} : Commit(<<MapOf("kvs"), e(old), f>>, <<Db, Db, d>>)
  BY DEF UpdateRow
<1>3. old \in ColumnValues
  BY <1>1 DEF DbStates
<1>4. e(old) \in Entries /\ f \in Entries /\ MapOf("kvs") \in Entries
  BY <1>3, EntriesTyped DEF RowTypes, Tables
<1>5. /\ MapOf("kvs").type = "map" /\ e(old).type # "other" /\ ~OldImage(f)
      /\ Told(MapOf("kvs"), Db, Db)
  BY QuietTold DEF MapOf, Entry, OldImage, RowTypes
<1>6. Told(e(old), Db, Db) /\ Told(f, Db, d)
  <2>1. 0 \in Nat /\ 1 \in Nat \ {0}
    OBVIOUS
  <2>2. QED  BY <1>1, <1>3, <2>1, ImagesTold
<1> HIDE DEF e, f, d
<1>7. StatementOK(<<MapOf("kvs"), e(old), f>>, <<Db, Db, d>>)
  <2>1. \A k \in Slots : Explains(f, k, Db, d)
    BY <1>6 DEF Told
  <2>2. QED  BY <1>1, <1>4, <1>5, <1>6, <2>1, ThreeTold
<1>8. QED  BY <1>2, <1>7, CommitAny

LEMMA UpdateTwoAny ==
    ASSUME AnyInv, NEW k \in Slots, NEW j \in Slots, NEW val \in Values, SqlUpdateTwo(k, j, val)
    PROVE  AnyInv'
<1> DEFINE e(i, key, v) == Entry("update", "kvs", i, key, v)
           d == [Db EXCEPT ![k] = {val}]
           d2 == [d EXCEPT ![j] = {val}]
<1>1. k \in DbKeys /\ j \in DbKeys /\ val \in ColumnValues /\ Db \in DbStates
  BY DbTyped, KeyAssumption DEF AnyInv, WideInv, ColumnValues
<1>2. d \in DbStates
  BY <1>1, StatesTyped
<1>3. PICK old \in Db[k] \ {val}, older \in Db[j] \ {val} :
        Commit(<<MapOf("kvs"), e(0, k, old), e(1, k, val), e(2, j, older), e(3, j, val)>>,
               <<Db, Db, d, d, d2>>)
  BY DEF SqlUpdateTwo
<1>4. old \in ColumnValues /\ older \in ColumnValues
  BY <1>1 DEF DbStates
<1>5. /\ e(0, k, old) \in Entries /\ e(1, k, val) \in Entries
      /\ e(2, j, older) \in Entries /\ e(3, j, val) \in Entries /\ MapOf("kvs") \in Entries
  BY <1>1, <1>4, EntriesTyped DEF RowTypes, Tables
<1>6. /\ MapOf("kvs").type = "map" /\ ~OldImage(e(3, j, val))
      /\ \A i, key, v : e(i, key, v).type # "other"
      /\ Told(MapOf("kvs"), Db, Db)
  BY QuietTold DEF MapOf, Entry, OldImage, RowTypes
<1>7. 0 \in Nat /\ 2 \in Nat /\ 1 \in Nat \ {0} /\ 3 \in Nat \ {0}
  OBVIOUS
<1> HIDE DEF d
<1>8. d2 \in DbStates
  BY <1>1, <1>2, StatesTyped
<1>9. Told(e(0, k, old), Db, Db) /\ Told(e(2, j, older), d, d) /\ Told(e(3, j, val), d, d2)
  BY <1>1, <1>2, <1>4, <1>7, ImagesTold
<1>10. Told(e(1, k, val), Db, d)
  BY <1>1, <1>7, ImagesTold DEF d
<1> HIDE DEF e, d2
<1>11. StatementOK(<<MapOf("kvs"), e(0, k, old), e(1, k, val), e(2, j, older), e(3, j, val)>>,
                   <<Db, Db, d, d, d2>>)
  BY <1>1, <1>2, <1>5, <1>6, <1>8, <1>9, <1>10, FiveTold
<1>12. QED  BY <1>3, <1>11, CommitAny

LEMMA OtherAny ==
    ASSUME AnyInv, NEW table \in OtherTables, NEW k \in Slots, NEW val \in Values,
           SqlOther(table, k, val)
    PROVE  AnyInv'
<1> DEFINE e == Entry("write", table, 0, k, val)
<1>1. Db \in DbStates /\ k \in DbKeys /\ val \in ColumnValues /\ table # "kvs"
  BY DbTyped, KeyAssumption, TableAssumption DEF AnyInv, WideInv, ColumnValues
<1>2. e \in Entries /\ MapOf(table) \in Entries
  BY <1>1, EntriesTyped DEF RowTypes, Tables
<1>3. /\ MapOf(table).type = "map" /\ ~OldImage(e)
      /\ Told(MapOf(table), Db, Db) /\ Told(e, Db, Db)
  BY <1>1, QuietTold DEF MapOf, Entry, OldImage, RowTypes
<1>4. Commit(<<MapOf(table), e>>, <<Db, Db>>)
  BY DEF SqlOther
<1> HIDE DEF e
<1>5. QED  BY <1>1, <1>2, <1>3, <1>4, TwoTold, CommitAny

\* The old image of a key that moves is misread, and is before the change.
LEMMA MoveAny ==
    ASSUME AnyInv, NEW k \in Slots, NEW j \in Slots, SqlMove(k, j)
    PROVE  AnyInv'
<1> DEFINE e(val) == Entry("update", "kvs", 0, k, val)
           f(val) == Entry("update", "kvs", 1, j, val)
           d(val) == [Db EXCEPT ![k] = {}, ![j] = {val}]
           es(val) == <<MapOf("kvs"), e(val), f(val)>>
<1>1. Db \in DbStates /\ k \in DbKeys /\ j \in DbKeys /\ k # j
  BY DbTyped, KeyAssumption DEF AnyInv, WideInv, SqlMove
<1>2. PICK val \in Db[k] : Commit(es(val), <<Db, Db, d(val)>>)
  BY DEF SqlMove
<1>3. val \in ColumnValues
  BY <1>1 DEF DbStates
<1>4. d(val) \in DbStates
  BY <1>1, <1>3 DEF DbStates
<1>5. e(val) \in Entries /\ f(val) \in Entries /\ MapOf("kvs") \in Entries
  BY <1>1, <1>3, EntriesTyped DEF RowTypes, Tables
<1>6. /\ MapOf("kvs").type = "map" /\ e(val).type # "other" /\ ~OldImage(f(val))
      /\ Told(MapOf("kvs"), Db, Db)
  BY QuietTold DEF MapOf, Entry, OldImage, RowTypes
<1>7. Told(e(val), Db, Db)
  <2>1. 0 \in Nat
    OBVIOUS
  <2>2. QED  BY <1>1, <1>3, <2>1, ImagesTold
<1>8. ASSUME NEW i \in Slots
      PROVE  Explains(f(val), i, Db, d(val)) \/ Misread(es(val), 2, i)
  <2>1. CASE i = k
    <3>1. Gcnt(k) = k
      BY KeyAssumption, SizeAssumption DEF Gcnt, Slots
    <3>2. es(val)[2] = e(val) /\ es(val)[2 + 1] = f(val)
      OBVIOUS
    <3>3. Moved(es(val), 2)
      <4>1. e(val).type = "update" /\ e(val).idx = 0 /\ e(val).key = k /\ f(val).key = j
        BY DEF Entry
      <4>2. QED  BY <1>1, <3>2, <4>1 DEF Moved
    <3>4. es(val)[2].type \in RowTypes /\ es(val)[2].key = k
      BY <3>2 DEF Entry, RowTypes
    <3>5. QED  BY <2>1, <3>1, <3>3, <3>4 DEF Misread
  <2>2. CASE i # k
    <3>1. i \in DbKeys /\ (i # j => d(val)[i] = Db[i])
      BY <1>1, <2>2, KeyAssumption DEF DbStates
    <3>2. QED  BY <3>1 DEF Explains, Entry, RowTypes
  <2>3. QED  BY <2>1, <2>2
<1> HIDE DEF e, f, d
<1>9. QED  BY <1>1, <1>2, <1>4, <1>5, <1>6, <1>7, <1>8, ThreeTold, CommitAny

LEMMA MultiAny ==
    ASSUME AnyInv, NEW table \in OtherTables, NEW k \in Slots, NEW val \in Values,
           SqlMulti(table, k, val)
    PROVE  AnyInv'
<1> DEFINE e(t, i, v) == Entry("update", t, i, k, v)
           d == [Db EXCEPT ![k] = {val}]
<1>1. Db \in DbStates /\ k \in DbKeys /\ val \in ColumnValues /\ table # "kvs"
  BY DbTyped, KeyAssumption, TableAssumption DEF AnyInv, WideInv, ColumnValues
<1>2. d \in DbStates
  BY <1>1, StatesTyped
<1>3. PICK old \in Db[k] \ {val} :
        Commit(<<MapOf("kvs"), MapOf(table), e("kvs", 0, old), e("kvs", 1, val),
                 e(table, 0, old), e(table, 1, val)>>,
               <<Db, Db, Db, d, d, d>>)
  BY DEF SqlMulti
<1>4. old \in ColumnValues
  BY <1>1 DEF DbStates
<1>5. /\ e("kvs", 0, old) \in Entries /\ e("kvs", 1, val) \in Entries
      /\ e(table, 0, old) \in Entries /\ e(table, 1, val) \in Entries
      /\ MapOf("kvs") \in Entries /\ MapOf(table) \in Entries
  BY <1>1, <1>4, EntriesTyped DEF RowTypes, Tables
<1>6. /\ MapOf("kvs").type = "map" /\ MapOf(table).type # "other"
      /\ \A t, i, v : e(t, i, v).type # "other"
      /\ ~OldImage(e(table, 1, val))
  BY DEF MapOf, Entry, OldImage
<1>7. Told(MapOf("kvs"), Db, Db) /\ Told(MapOf(table), Db, Db)
  BY QuietTold DEF MapOf, Entry, RowTypes
<1>8. Told(e(table, 0, old), d, d) /\ Told(e(table, 1, val), d, d)
  BY <1>1, QuietTold DEF Entry
<1>9. Told(e("kvs", 0, old), Db, Db) /\ Told(e("kvs", 1, val), Db, d)
  <2>1. 0 \in Nat /\ 1 \in Nat \ {0}
    OBVIOUS
  <2>2. QED  BY <1>1, <1>4, <2>1, ImagesTold
<1> HIDE DEF e, d
<1>10. StatementOK(<<MapOf("kvs"), MapOf(table), e("kvs", 0, old), e("kvs", 1, val),
                     e(table, 0, old), e(table, 1, val)>>, <<Db, Db, Db, d, d, d>>)
  BY <1>1, <1>2, <1>5, <1>6, <1>7, <1>8, <1>9, SixTold
<1>11. QED  BY <1>3, <1>10, CommitAny

\* Neither an entry of another type nor a new file changes what is explained.
LEMMA NoteAny ==
    ASSUME AnyInv, OtherEvent
    PROVE  AnyInv'
<1>1. Db \in DbStates /\ OtherEntry \in Entries
  BY DbTyped, EntriesTyped DEF AnyInv, WideInv
<1>2. OtherEntry.type \notin RowTypes
  BY DEF OtherEntry, Entry, RowTypes
<1>3. Told(OtherEntry, Db, Db)
  BY <1>2, QuietTold
<1>4. QED  BY <1>1, <1>2, <1>3, OneTold, CommitAny DEF OtherEvent

LEMMA RotateAny ==
    ASSUME AnyInv, Rotate
    PROVE  AnyInv'
<1>1. files' = files \cup {Len(log)} /\ UNCHANGED <<log, hist, up, tbl, pos, tmp, stop>>
  BY DEF Rotate, serverVars
<1>2. WideInv'
  BY StepTyped DEF AnyInv, Next, Database
<1>3. RowsFollow'
  <2> SUFFICES ASSUME NEW i \in 1..Len(log), log[i].type \in RowTypes
               PROVE  i - 1 \notin files' /\ log[i - 1].type # "other"
    BY <1>1 DEF RowsFollow
  <2>1. Len(log) \in Nat /\ i - 1 # Len(log)
    BY DEF AnyInv, WideInv, TypeOK
  <2>2. QED  BY <1>1, <2>1 DEF AnyInv, RowsFollow
<1>4. PairsOK' /\ ChangesOK'
  BY <1>1 DEF AnyInv, PairsOK, ChangesOK
<1>5. TakenOK'
  BY <1>1 DEF AnyInv, TakenOK
<1>6. StaleHitsWereMisread'
  BY <1>1 DEF AnyInv, StaleHitsWereMisread, Hits, DbAt, Cached
<1>7. QED  BY <1>2, <1>3, <1>4, <1>5, <1>6 DEF AnyInv

LEMMA DatabaseAny == ASSUME AnyInv, Database PROVE AnyInv'
<1>1. CASE \E k \in SqlKeys, val \in Values : SqlInsert(k, val)
  BY <1>1, KeyAssumption, InsertAny DEF SqlInsert, ColumnValues
<1>2. CASE \E k, j \in Slots, val \in Values : SqlUpdateTwo(k, j, val)
  BY <1>2, UpdateTwoAny
<1>3. CASE \E k \in DbKeys : SqlDelete(k)
  BY <1>3, DeleteAny
<1>4. CASE \E table \in OtherTables, k \in Slots, val \in Values :
             SqlOther(table, k, val) \/ SqlMulti(table, k, val)
  BY <1>4, OtherAny, MultiAny
<1>5. CASE \E k, j \in Slots : SqlMove(k, j)
  BY <1>5, MoveAny
<1>6. QED  BY <1>1, <1>2, <1>3, <1>4, <1>5, NoteAny, RotateAny DEF Database

LEMMA SetAny ==
    ASSUME AnyInv, NEW key \in 0..S, NEW val \in Values, OnRecieveSet(key, val)
    PROVE  AnyInv'
<1>1. key % S \in DbKeys /\ Stored(val) \in ColumnValues
  BY SizeAssumption, KeyAssumption DEF Slots, ColumnValues
<1>2. QED  BY <1>1, InsertAny, UpdateAny DEF OnRecieveSet

-----------------------------------------------------------------------------
(* BinLogLoop reads on.                                                    *)

\* Where a server stands before and after one entry, and what is known of both.
LEMMA HandleAny ==
    ASSUME AnyInv, NEW s \in Servers, Handle(s), UNCHANGED dbVars
    PROVE  /\ pos[s] \in Nat /\ pos[s] + 1 \in 1..Len(log) /\ pos'[s] = pos[s] + 1
           /\ NextEntry(s) = log[pos[s] + 1] /\ NextEntry(s) \in Entries
           /\ DbAt(s) = hist[pos[s] + 1] /\ DbAt(s)' = hist[(pos[s] + 1) + 1]
           /\ \A r \in Servers \ {s} : pos'[r] = pos[r] /\ DbAt(r)' = DbAt(r)
<1>1. /\ log \in Seq(Entries) /\ pos \in [Servers -> 0..Len(log)] /\ Len(log) \in Nat
      /\ log' = log /\ hist' = hist
  BY DEF AnyInv, WideInv, TypeOK, dbVars
<1>2. pos[s] < Len(log) /\ pos' = [pos EXCEPT ![s] = pos[s] + 1]
  BY DEF Handle
<1>3. pos[s] \in Nat /\ pos[s] + 1 \in 1..Len(log)
  BY <1>1, <1>2
<1>4. pos'[s] = pos[s] + 1 /\ \A r \in Servers \ {s} : pos'[r] = pos[r]
  BY <1>1, <1>2
<1>5. DbAt(s) = hist[pos[s] + 1] /\ DbAt(s)' = hist[(pos[s] + 1) + 1]
  BY <1>1, <1>4 DEF DbAt
<1>6. \A r \in Servers \ {s} : DbAt(r)' = DbAt(r)
  BY <1>1, <1>4 DEF DbAt
<1>7. NextEntry(s) = log[pos[s] + 1] /\ NextEntry(s) \in Entries
  BY <1>1, <1>3 DEF NextEntry
<1>8. QED  BY <1>3, <1>4, <1>5, <1>6, <1>7

LEMMA LogAny ==
    ASSUME AnyInv, UNCHANGED dbVars
    PROVE  RowsFollow' /\ PairsOK' /\ ChangesOK'
BY DEF AnyInv, dbVars, RowsFollow, PairsOK, ChangesOK

\* After an entry the other servers stand where they stood. What is left to show is that
\* s knows the last map and that its hits are those of its new state of the database.
LEMMA HandledAny ==
    ASSUME AnyInv, WideInv', NEW s \in Servers, Handle(s), UNCHANGED dbVars,
           \A r \in Servers \ {s} : tbl'[r] = tbl[r] /\ tmp'[r] = tmp[r],
           NextEntry(s).type # "other" => tmp'[s] = Taken(log, (pos[s] + 1) + 1),
           \A k \in Slots :
              \/ Hits(s, k)' \subseteq Cached(hist[(pos[s] + 1) + 1])[k]
              \/ \E i \in 1..(pos[s] + 1) : Misread(log, i, k)
    PROVE  AnyInv'
<1>1. /\ pos'[s] = pos[s] + 1 /\ NextEntry(s) = log[pos[s] + 1]
      /\ DbAt(s)' = hist[(pos[s] + 1) + 1]
      /\ \A r \in Servers \ {s} : pos'[r] = pos[r] /\ DbAt(r)' = DbAt(r)
      /\ log' = log /\ files' = files
  BY HandleAny DEF dbVars
<1>2. RowsFollow' /\ PairsOK' /\ ChangesOK'
  BY LogAny
<1>3. TakenOK'
  <2> SUFFICES ASSUME NEW r \in Servers
               PROVE  \/ pos'[r] \in files \/ log[pos'[r]].type = "other"
                      \/ tmp'[r] = Taken(log, pos'[r] + 1)
    BY <1>1 DEF TakenOK
  <2>1. CASE r = s
    BY <1>1, <2>1
  <2>2. CASE r # s
    BY <1>1, <2>2 DEF AnyInv, TakenOK
  <2>3. QED  BY <2>1, <2>2
<1>4. StaleHitsWereMisread'
  <2> SUFFICES ASSUME NEW r \in Servers, NEW k \in Slots
               PROVE  \/ Hits(r, k)' \subseteq Cached(DbAt(r)')[k]
                      \/ \E i \in 1..pos'[r] : Misread(log, i, k)
    BY <1>1 DEF StaleHitsWereMisread, Cached
  <2>1. CASE r = s
    BY <1>1, <2>1
  <2>2. CASE r # s
    BY <1>1, <2>2 DEF AnyInv, StaleHitsWereMisread, Hits
  <2>3. QED  BY <2>1, <2>2
<1>5. QED  BY <1>2, <1>3, <1>4 DEF AnyInv

\* Maps, and events of other types.
LEMMA PassAny ==
    ASSUME AnyInv, WideInv', NEW s \in Servers, Handle(s), UNCHANGED <<dbVars, tbl>>,
           NextEntry(s).type \notin RowTypes,
           \A r \in Servers \ {s} : tmp'[r] = tmp[r],
           NextEntry(s).type # "other" => tmp'[s] = Taken(log, (pos[s] + 1) + 1)
    PROVE  AnyInv'
<1> DEFINE p == pos[s] + 1
<1>1. /\ p \in 1..Len(log) /\ pos[s] \in Nat /\ NextEntry(s) = log[p]
      /\ DbAt(s) = hist[p] /\ UNCHANGED dbVars
  BY HandleAny
<1>2. ASSUME NEW k \in Slots
      PROVE  \/ Hits(s, k)' \subseteq Cached(hist[p + 1])[k]
             \/ \E i \in 1..p : Misread(log, i, k)
  <2>1. \/ Explains(log[p], k, hist[p], hist[p + 1])
        \/ \E i \in 1..p : Misread(log, i, k)
    BY <1>1 DEF AnyInv, ChangesOK
  <2>2. \/ Hits(s, k) \subseteq Cached(hist[p])[k]
        \/ \E i \in 1..pos[s] : Misread(log, i, k)
    BY <1>1 DEF AnyInv, StaleHitsWereMisread
  <2>3. \A i \in 1..pos[s] : i \in 1..p
    BY <1>1
  <2>4. Hits(s, k)' = Hits(s, k)
    BY DEF Hits
  <2>5. Explains(log[p], k, hist[p], hist[p + 1]) =>
           Cached(hist[p + 1])[k] = Cached(hist[p])[k]
    BY <1>1 DEF Explains, Cached
  <2>6. QED  BY <2>1, <2>2, <2>3, <2>4, <2>5
<1>3. QED  BY <1>1, <1>2, HandledAny

\* What a row image that BinLogLoop takes does to the slots, on any table.
LEMMA AppliedAny ==
    ASSUME NEW t \in TableOf(Bodies), NEW e \in Entries, e.type \in RowTypes, ~Throws(e)
    PROVE  /\ \A k \in Slots : k # Gcnt(e.key) => Find(ApplyRow(t, e), k) = Find(t, k)
           /\ e.type = "update" /\ e.idx = 0 => ApplyRow(t, e) = t
           /\ ~(e.type = "update" /\ e.idx = 0) =>
                 Find(ApplyRow(t, e), Gcnt(e.key)) =
                    IF e.type = "write" THEN {RowBody(e.val)} ELSE {}
<1>1. CASE e.type = "update" /\ e.idx = 0
  BY <1>1 DEF ApplyRow
<1>2. CASE e.type = "write"
  <2>1. RowBody(e.val) \in Bodies
    <3>1. RowBody(<<>>) = ZeroBody
      BY LengthAssumption DEF RowBody, ZeroBody, Datalen
    <3>2. QED  BY <3>1 DEF Entries, Bodies
  <2>2. ApplyRow(t, e) = AddItem(t, Gcnt(e.key), RowBody(e.val)) /\ Gcnt(e.key) \in Slots
    BY <1>2 DEF ApplyRow, Throws
  <2>3. QED  BY <1>2, <2>1, <2>2, AddVisible
<1>3. CASE e.type = "delete" \/ (e.type = "update" /\ e.idx # 0)
  <2>1. ApplyRow(t, e) = DelItem(t, Gcnt(e.key)) /\ Gcnt(e.key) \in Slots
    BY <1>3 DEF ApplyRow, ItmValid, Throws
  <2>2. e.type # "write" /\ ~(e.type = "update" /\ e.idx = 0)
    BY <1>3
  <2>3. QED  BY <2>1, <2>2, DelVisible
<1>4. QED  BY <1>1, <1>2, <1>3 DEF RowTypes

\* A row: taken if the last map says so, which the entry before it has left in tmpevent.
LEMMA RowAny ==
    ASSUME AnyInv, WideInv', NEW s \in Servers, RowImage(s)
    PROVE  AnyInv'
<1> DEFINE p == pos[s] + 1
           e == NextEntry(s)
           t == tbl[s]
           u == IF tmp[s] THEN ApplyRow(t, e) ELSE t
<1>1. /\ Handle(s) /\ UNCHANGED <<dbVars, up, tmp, stop>> /\ e.type \in RowTypes
      /\ tmp[s] => ~Throws(e)
      /\ tbl' = IF tmp[s] THEN [tbl EXCEPT ![s] = ApplyRow(t, e)] ELSE tbl
  BY DEF RowImage
<1>2. /\ p \in 1..Len(log) /\ pos[s] \in Nat /\ e = log[p] /\ e \in Entries
      /\ DbAt(s) = hist[p]
  BY <1>1, HandleAny
<1>3. t \in TableOf(Bodies) /\ tbl \in [Servers -> TableOf(Bodies)]
  BY DEF AnyInv, WideInv, TypeOK
<1>4. tbl'[s] = u /\ \A r \in Servers \ {s} : tbl'[r] = tbl[r]
  BY <1>1, <1>3
<1>5. tmp[s] = Taken(log, p)
  <2>1. p - 1 = pos[s]
    BY <1>2
  <2>2. pos[s] \notin files /\ log[pos[s]].type # "other"
    BY <1>1, <1>2, <2>1 DEF AnyInv, RowsFollow
  <2>3. QED  BY <2>2 DEF AnyInv, TakenOK
<1>6. tmp'[s] = Taken(log, p + 1)
  <2>1. p \in Nat \ {0} /\ log[p].type # "map"
    BY <1>1, <1>2 DEF RowTypes
  <2> HIDE DEF p, e
  <2>2. Taken(log, p + 1) = Taken(log, p)
    BY <2>1, TakenNext
  <2>3. QED  BY <1>1, <1>5, <2>2
<1>7. tmp[s] => /\ \A k \in Slots : k # Gcnt(e.key) => Find(u, k) = Find(t, k)
                /\ e.type = "update" /\ e.idx = 0 => u = t
                /\ ~(e.type = "update" /\ e.idx = 0) =>
                      Find(u, Gcnt(e.key)) = IF e.type = "write" THEN {RowBody(e.val)} ELSE {}
  BY <1>1, <1>2, <1>3, AppliedAny
<1>8. ~tmp[s] => u = t
  OBVIOUS
<1> HIDE DEF e, t, u
<1>9. ASSUME NEW k \in Slots
      PROVE  \/ Hits(s, k)' \subseteq Cached(hist[p + 1])[k]
             \/ \E i \in 1..p : Misread(log, i, k)
  <2>1. \/ Explains(e, k, hist[p], hist[p + 1])
        \/ \E i \in 1..p : Misread(log, i, k)
    BY <1>2 DEF AnyInv, ChangesOK
  <2>2. \/ Hits(s, k) \subseteq Cached(hist[p])[k]
        \/ \E i \in 1..p : Misread(log, i, k)
    <3>1. \A i \in 1..pos[s] : i \in 1..p
      BY <1>2
    <3>2. QED  BY <1>2, <3>1 DEF AnyInv, StaleHitsWereMisread
  <2>3. SUFFICES ASSUME Explains(e, k, hist[p], hist[p + 1]),
                        Hits(s, k) \subseteq Cached(hist[p])[k],
                        ~Misread(log, p, k)
                 PROVE  Hits(s, k)' \subseteq Cached(hist[p + 1])[k]
    <3>1. p \in 1..p
      BY <1>2
    <3>2. QED  BY <2>1, <2>2, <3>1
  <2>4. /\ Hits(s, k) = {body \in Find(t, k) : body.len # 0}
        /\ Hits(s, k)' = {body \in Find(u, k) : body.len # 0}
    BY <1>4 DEF Hits, t
  <2>5. /\ Cached(hist[p])[k] = {RowBody(v) : v \in hist[p][k]}
        /\ Cached(hist[p + 1])[k] = {RowBody(v) : v \in hist[p + 1][k]}
    BY DEF Cached
  <2>6. Gcnt(k) = k
    BY KeyAssumption, SizeAssumption DEF Gcnt, Slots
  <2>7. CASE Gcnt(e.key) # k
    <3>1. Find(u, k) = Find(t, k)
      BY <1>7, <1>8, <2>7
    <3>2. hist[p + 1][k] = hist[p][k]
      BY <2>3, <2>6, <2>7 DEF Explains
    <3>3. QED  BY <2>3, <2>4, <2>5, <3>1, <3>2
  <2>8. CASE Gcnt(e.key) = k
    <3>1. (tmp[s] <=> e.table = "kvs") /\ e.key = k
      <4>1. tmp[s] \in BOOLEAN
        BY DEF AnyInv, WideInv, TypeOK
      <4>2. QED  BY <1>1, <1>2, <1>5, <2>3, <2>8, <4>1 DEF Misread, e
    <3>2. CASE ~tmp[s]
      <4>1. hist[p + 1][k] = hist[p][k]
        BY <2>3, <3>1, <3>2 DEF Explains
      <4>2. QED  BY <1>8, <2>3, <2>4, <2>5, <3>2, <4>1
    <3>3. CASE tmp[s] /\ e.type = "update" /\ e.idx = 0
      <4>1. hist[p + 1] = hist[p] /\ u = t
        BY <1>7, <2>3, <3>1, <3>3 DEF Explains, RowTypes
      <4>2. QED  BY <2>3, <2>4, <2>5, <4>1
    <3>4. CASE tmp[s] /\ e.type = "write"
      <4>1. hist[p + 1][k] = {e.val} /\ Find(u, k) = {RowBody(e.val)}
        BY <1>7, <2>3, <2>8, <3>1, <3>4 DEF Explains, RowTypes
      <4>2. QED  BY <2>4, <2>5, <4>1
    <3>5. CASE tmp[s] /\ e.type # "write" /\ ~(e.type = "update" /\ e.idx = 0)
      <4>1. Find(u, k) = {}
        BY <1>7, <2>8, <3>5
      <4>2. QED  BY <2>4, <4>1
    <3>6. QED  BY <3>2, <3>3, <3>4, <3>5
  <2>9. QED  BY <2>7, <2>8
<1>10. QED  BY <1>1, <1>4, <1>6, <1>9, HandledAny

LEMMA StopAny ==
    ASSUME AnyInv, WideInv', UNCHANGED <<dbVars, tbl, pos, tmp>>
    PROVE  AnyInv'
<1>1. RowsFollow' /\ PairsOK' /\ ChangesOK'
  BY LogAny
<1>2. TakenOK'
  BY DEF AnyInv, TakenOK, dbVars
<1>3. StaleHitsWereMisread'
  BY DEF AnyInv, StaleHitsWereMisread, Hits, DbAt, Cached, dbVars
<1>4. QED  BY <1>1, <1>2, <1>3 DEF AnyInv

LEMMA StartAny ==
    ASSUME AnyInv, WideInv', Start
    PROVE  AnyInv'
<1>1. /\ tbl' = [s \in Servers |-> ClearedTable(ZeroBody)]
      /\ pos' \in [Servers -> files] /\ UNCHANGED dbVars
  BY DEF Start
<1>2. TakenOK'
  BY <1>1 DEF TakenOK, dbVars
<1>3. StaleHitsWereMisread'
  <2>1. \A s \in Servers, k \in Slots : Hits(s, k)' = {}
    BY <1>1, ClearedHits
  <2>2. QED  BY <2>1 DEF StaleHitsWereMisread
<1>4. QED  BY <1>1, <1>2, <1>3, LogAny DEF AnyInv

LEMMA StepAny == ASSUME AnyInv, [Next]_vars PROVE AnyInv'
<1>1. WideInv'
  BY StepTyped DEF AnyInv
<1>2. ASSUME NEW s \in Servers, BinLogStep(s) PROVE AnyInv'
  <2>1. tmp \in [Servers -> BOOLEAN]
    BY DEF AnyInv, WideInv, TypeOK
  <2>2. CASE TableMapEvent(s)
    <3>1. /\ Handle(s) /\ UNCHANGED <<dbVars, tbl>> /\ NextEntry(s).type = "map"
          /\ tmp'[s] = Target(NextEntry(s).table)
          /\ \A r \in Servers \ {s} : tmp'[r] = tmp[r]
      BY <2>1, <2>2 DEF TableMapEvent
    <3>2. pos[s] + 1 \in Nat \ {0} /\ NextEntry(s) = log[pos[s] + 1]
      BY <3>1, HandleAny
    <3>3. tmp'[s] = Taken(log, (pos[s] + 1) + 1)
      BY <3>1, <3>2, TakenNext
    <3>4. NextEntry(s).type \notin RowTypes
      BY <3>1 DEF RowTypes
    <3>5. QED  BY <1>1, <3>1, <3>3, <3>4, PassAny
  <2>3. CASE IgnoredEvent(s)
    BY <1>1, <2>3, PassAny DEF IgnoredEvent, RowTypes
  <2>4. CASE RowThrows(s)
    BY <1>1, <2>4, StopAny DEF RowThrows
  <2>5. QED  BY <1>1, <1>2, <2>2, <2>3, <2>4, RowAny DEF BinLogStep
<1>3. CASE Crash
  BY <1>1, <1>3, StopAny DEF Crash
<1>4. CASE UNCHANGED vars
  BY <1>1, <1>4, StopAny DEF vars, serverVars
<1>5. QED  BY <1>1, <1>2, <1>3, <1>4, DatabaseAny, SetAny, StartAny DEF Next

LEMMA InitAny == Init => AnyInv
<1> SUFFICES ASSUME Init PROVE AnyInv
  OBVIOUS
<1>1. WideInv
  BY InitTyped
<1>2. Len(log) = 0
  BY DEF Init
<1>3. RowsFollow /\ PairsOK /\ ChangesOK
  BY <1>2 DEF RowsFollow, PairsOK, ChangesOK
<1>4. TakenOK
  BY DEF Init, TakenOK
<1>5. StaleHitsWereMisread
  BY EmptyHits DEF Init, StaleHitsWereMisread
<1>6. QED  BY <1>1, <1>3, <1>4, <1>5 DEF AnyInv

\* Whatever statements, tables and keys there are, a hit that is not what the database
\* held where the replay stands has a row of its key behind it that BinLogLoop judged by
\* the wrong map, cut to another key, or skipped though its key moved (server.cc:291-344).
THEOREM StaleHitsExplained == Spec => []StaleHitsWereMisread
<1>1. AnyInv => StaleHitsWereMisread
  BY DEF AnyInv
<1>2. QED  BY <1>1, InitAny, StepAny, PTL DEF Spec

-----------------------------------------------------------------------------
(* The refinement.                                                         *)

dbsBar   == [i \in 1..Len(hist) |-> Cached(hist[i])]
atBar    == [s \in Servers |-> pos[s] + 1]
viewsBar == [s \in Servers |-> [k \in Slots |-> Hits(s, k)]]

LEMMA InitMaps == Init => PR!Init
<1> SUFFICES ASSUME Init PROVE PR!Init
  OBVIOUS
<1>1. PICK db \in FirstDbs : hist = <<db>>
  BY DEF Init
<1>2. Len(hist) = 1 /\ Len(dbsBar) = 1
  BY <1>1 DEF dbsBar
<1>3. atBar = [s \in Servers |-> 1]
  BY DEF Init, atBar
<1>4. \A s \in Servers, k \in Slots : Hits(s, k) = {}
  BY EmptyHits DEF Init
<1>5. viewsBar = [s \in Servers |-> PR!Nothing]
  BY <1>4 DEF viewsBar, PR!Nothing
<1>6. QED  BY <1>2, <1>3, <1>5 DEF PR!Init, dbsBar, atBar, viewsBar

\* A statement extends the states of the database, and no server sees it yet.
LEMMA GrowthMaps ==
    ASSUME TypeOK, TypeOK', Grows
    PROVE  PR!Extend
<1>1. /\ Len(hist) \in Nat /\ Len(hist') \in Nat /\ Len(hist') >= Len(hist)
      /\ \A i \in 1..Len(hist) : hist'[i] = hist[i]
  BY DEF TypeOK, Grows
<1>2. Len(dbsBar) = Len(hist) /\ Len(dbsBar') = Len(hist')
  BY <1>1 DEF dbsBar
<1>3. ASSUME NEW i \in 1..Len(hist)
      PROVE  dbsBar'[i] = dbsBar[i]
  <2>1. i \in 1..Len(hist') /\ hist'[i] = hist[i]
    BY <1>1
  <2>2. dbsBar[i] = Cached(hist[i])
    BY DEF dbsBar
  <2>3. dbsBar'[i] = Cached(hist'[i])
    BY <2>1 DEF dbsBar
  <2>4. QED  BY <2>1, <2>2, <2>3
<1>4. atBar' = atBar /\ viewsBar' = viewsBar
  BY DEF Grows, atBar, viewsBar, Hits
<1>5. QED  BY <1>1, <1>2, <1>3, <1>4 DEF PR!Extend, dbsBar, atBar, viewsBar

LEMMA HandlingMaps ==
    ASSUME IInv, IInv', NEW s \in Servers, Handle(s), UNCHANGED dbVars,
           \A r \in Servers \ {s} : tbl'[r] = tbl[r]
    PROVE  PR!Advance(s)
<1>1. /\ pos[s] \in Nat /\ pos[s] + 1 \in 1..Len(log)
      /\ pos' \in [Servers -> 0..Len(log)] /\ pos'[s] = pos[s] + 1
      /\ \A r \in Servers \ {s} : pos'[r] = pos[r]
  BY HandleSteps
<1>2. Len(hist) = Len(log) + 1 /\ hist' = hist /\ Len(log) \in Nat /\ pos \in [Servers -> 0..Len(log)]
  BY DEF IInv, TypeOK, dbVars
<1>3. Len(dbsBar) = Len(hist) /\ dbsBar' = dbsBar
  BY <1>2 DEF dbsBar, Cached
<1>4. atBar[s] = pos[s] + 1 /\ atBar[s] < Len(dbsBar)
  BY <1>1, <1>2, <1>3 DEF atBar
<1>5. atBar' = [atBar EXCEPT ![s] = atBar[s] + 1]
  BY <1>1, <1>2 DEF atBar
<1>6. \A r \in Servers \ {s} : viewsBar'[r] = viewsBar[r]
  BY DEF viewsBar, Hits
<1>7. dbsBar[atBar[s] + 1] = Cached(hist[pos[s] + 2])
  <2>1. atBar[s] + 1 = pos[s] + 2 /\ pos[s] + 2 \in 1..Len(hist)
    BY <1>1, <1>2, <1>4
  <2>2. QED  BY <2>1 DEF dbsBar
<1>8. DbAt(s)' = hist[pos[s] + 2]
  <2>1. pos'[s] + 1 = pos[s] + 2
    BY <1>1
  <2>2. QED  BY <1>2, <2>1 DEF DbAt
<1>9. \A k \in Slots : viewsBar'[s][k] \subseteq dbsBar[atBar[s] + 1][k]
  <2>1. \A k \in Slots : Hits(s, k)' \subseteq Cached(DbAt(s)')[k]
    BY DEF IInv, HitIsCurrent, Cached
  <2>2. \A k \in Slots : viewsBar'[s][k] = Hits(s, k)'
    BY DEF viewsBar
  <2>3. QED  BY <1>7, <1>8, <2>1, <2>2
<1>10. QED  BY <1>3, <1>4, <1>5, <1>6, <1>9
            DEF PR!Advance, PR!CachesOf, dbsBar, atBar, viewsBar

LEMMA StartMaps ==
    ASSUME IInv, Start
    PROVE  PR!Restart
<1>1. \A s \in Servers : pos'[s] \in 0..Len(log) /\ tbl'[s] = ClearedTable(ZeroBody)
  BY StartKeeps
<1>2. Len(hist) = Len(log) + 1 /\ hist' = hist /\ Len(log) \in Nat
  BY DEF IInv, TypeOK, Start, dbVars
<1>3. Len(dbsBar) = Len(hist) /\ dbsBar' = dbsBar
  BY <1>2 DEF dbsBar, Cached
<1>4. \A s \in Servers : atBar'[s] \in 1..Len(dbsBar)
  BY <1>1, <1>2, <1>3 DEF atBar
<1>5. \A s \in Servers, k \in Slots : Hits(s, k)' = {}
  BY <1>1, ClearedHits
<1>6. \A s \in Servers : viewsBar'[s] = PR!Nothing
  BY <1>5 DEF viewsBar, PR!Nothing
<1>7. QED  BY <1>3, <1>4, <1>6 DEF PR!Restart, dbsBar, atBar, viewsBar

\* Steps that leave the database, the tables and the positions alone.
LEMMA StutterMaps ==
    ASSUME UNCHANGED <<hist, tbl, pos>>
    PROVE  UNCHANGED <<dbsBar, atBar, viewsBar>>
BY DEF dbsBar, atBar, viewsBar, Hits, Cached

LEMMA StepMaps ==
    ASSUME Plain, IInv, [Next]_vars
    PROVE  [PR!Next]_<<dbsBar, atBar, viewsBar>>
<1>0. IInv'
  BY StepOK
<1>1. TypeOK /\ TypeOK'
  BY <1>0 DEF IInv
<1>2. CASE Database
  BY <1>1, <1>2, DatabaseKeeps, GrowthMaps DEF PR!Next
<1>3. CASE \E key \in 0..S, val \in Values : OnRecieveSet(key, val)
  BY <1>1, <1>3, SetKeeps, GrowthMaps DEF PR!Next
<1>4. ASSUME NEW s \in Servers, BinLogStep(s)
      PROVE  [PR!Next]_<<dbsBar, atBar, viewsBar>>
  <2>1. CASE TableMapEvent(s)
    <3>1. PR!Advance(s)
      BY <1>0, <2>1, HandlingMaps DEF TableMapEvent
    <3>2. QED  BY <3>1 DEF PR!Next
  <2>2. CASE RowImage(s)
    <3>1. \A r \in Servers \ {s} : tbl'[r] = tbl[r]
      BY <2>2 DEF RowImage, IInv, TypeOK
    <3>2. PR!Advance(s)
      BY <1>0, <2>2, <3>1, HandlingMaps DEF RowImage
    <3>3. QED  BY <3>2 DEF PR!Next
  <2>3. CASE IgnoredEvent(s)
    <3>1. PR!Advance(s)
      BY <1>0, <2>3, HandlingMaps DEF IgnoredEvent
    <3>2. QED  BY <3>1 DEF PR!Next
  <2>4. CASE RowThrows(s)
    BY <2>4, StutterMaps DEF RowThrows, dbVars
  <2>5. QED  BY <1>4, <2>1, <2>2, <2>3, <2>4 DEF BinLogStep
<1>5. CASE Crash
  BY <1>5, StutterMaps DEF Crash, dbVars
<1>6. CASE Start
  BY <1>6, StartMaps DEF PR!Next
<1>7. CASE UNCHANGED vars
  BY <1>7, StutterMaps DEF vars, dbVars, serverVars
<1>8. QED  BY <1>2, <1>3, <1>4, <1>5, <1>6, <1>7 DEF Next

\* The servers with their binlogs are the caches of PartialReplica, however SETs, the
\* events of BinLogLoop and restarts are interleaved.
THEOREM ServersAreCaches == Plain => (Spec => ImplementsCache)
<1>1. Plain /\ IInv /\ [Next]_vars => IInv'
  BY StepOK
<1>2. Plain /\ IInv /\ [Next]_vars => [PR!Next]_<<dbsBar, atBar, viewsBar>>
  BY StepMaps
<1>3. SUFFICES ASSUME Plain PROVE Spec => ImplementsCache
  OBVIOUS
<1>4. IInv /\ [Next]_vars => IInv'
  BY <1>1, <1>3
<1>5. IInv /\ [Next]_vars => [PR!Next]_<<dbsBar, atBar, viewsBar>>
  BY <1>2, <1>3
<1>6. PR!Init /\ [][PR!Next]_<<dbsBar, atBar, viewsBar>> => ImplementsCache
  BY PTL DEF ImplementsCache, PR!Spec, dbsBar, atBar, viewsBar
<1>7. QED  BY <1>4, <1>5, <1>6, InitOK, InitMaps, PTL DEF Spec

=============================================================================
