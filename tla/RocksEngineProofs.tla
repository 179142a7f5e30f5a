------------------------- MODULE RocksEngineProofs --------------------------
(* The prefixes of idents across crashes: none is shared or used again while   *)
(* something is left under it, the compaction filter spares what a crash can   *)
(* bring back, and what it has to delete stays marked; and the number of       *)
(* records is right as long as commits and syncs of the counters do not        *)
(* overlap.  For any number of idents, units of work, prefixes, unsynced       *)
(* writes and restarts.                                                        *)
EXTENDS RocksEngine, TLAPS

(* The prefixes of an ident by the metadata of a content of the log, and       *)
(* whether it holds a key of the ident under a prefix, or the record of a unit *)
(* of work.                                                                    *)
PrefixesAt(n, i) == IF n = 0 THEN {} ELSE {n} \cup IF i = Oplog THEN {n + 1} ELSE {}
HasKey(c, i, p) == \E x \in Units \cup {"key"} : <<i, x>> \in c.data[p]
HasRecord(c, u) == \E p \in Prefixes : \E i \in Idents : <<i, u>> \in c.data[p]

(* Where the creation or the drop of an ident is, and what it has by then: the *)
(* oplog's second prefix is the next one until it is reserved.                 *)
DdlOK(i) ==
  /\ ddl[i] \in {"meta", "key", "tracker", "trackerKey", "drop"} => identMap[i] # 0
  /\ ddl[i] = "gone" => identMap[i] = 0
  /\ ddl[i] \in {"tracker", "trackerKey"} => i = Oplog
  /\ identMap[i] <= maxPrefix /\ identMap[i] < MaxPrefix
  /\ i = Oplog /\ ddl[i] \in {"meta", "key", "tracker"} => identMap[i] = maxPrefix
  /\ i = Oplog /\ ddl[i] = "trackerKey" => identMap[i] + 1 = maxPrefix
  /\ i = Oplog /\ identMap[i] # 0 /\ ddl[i] \in {"no", "drop"} => identMap[i] + 1 <= maxPrefix
DdlInv == \A i \in Idents : DdlOK(i)

(* No two idents have a prefix in common, and none has one that the filter     *)
(* deletes.                                                                    *)
OwnInv ==
  /\ \A i, j \in Idents : i # j => PrefixesOf(i) \cap PrefixesOf(j) = {}
  /\ \A i \in Idents : PrefixesOf(i) \cap droppedPrefixes = {}

(* A content that a crash can keep: its metadata...  *)
MetaOK(c, i) ==
  /\ c.meta[i] \in {0, identMap[i]}
  /\ ddl[i] \in {"meta", "drop", "gone"} => c.meta[i] = 0
  /\ PrefixesAt(c.meta[i], i) \cap c.marks = {}

(* ... its keys: those of an ident are under its prefixes; of one that is      *)
(* being dropped these are marked, and of one that is gone the filter knows    *)
(* them too...                                                                 *)
KeyOK(c, i) ==
  /\ ddl[i] = "drop" => PrefixesOf(i) \subseteq c.marks
  /\ \A p \in Prefixes : HasKey(c, i, p) =>
       /\ ddl[i] # "gone" => p \in PrefixesOf(i)
       /\ ddl[i] \notin {"drop", "gone"} => c.meta[i] = identMap[i]
       /\ ddl[i] = "gone" => p \in c.marks /\ p \in droppedPrefixes

(* ... and its records, of units of work whose commit is over. *)
ContentOK(c) ==
  /\ \A i \in Idents : MetaOK(c, i) /\ KeyOK(c, i)
  /\ \A u \in Units : unit[u].pc # "done" => ~HasRecord(c, u)
LogInv == \A k \in DOMAIN log : ContentOK(log[k])

(* The content last written. *)
LastOK(c) ==
  /\ \A i \in Idents :
       /\ ddl[i] \in {"key", "tracker", "trackerKey", "no"} => c.meta[i] = identMap[i]
       /\ ddl[i] # "drop" => PrefixesOf(i) \cap c.marks = {}
  /\ \A p \in droppedPrefixes \cup c.marks : p <= maxPrefix
LastInv == LastOK(db)

(* Units of work insert into idents that are there. *)
UnitOK(u) ==
  unit[u].pc \in {"added", "loaded", "updated"} =>
    unit[u].ident \in Idents /\ identMap[unit[u].ident] # 0 /\ ddl[unit[u].ident] = "no"
UnitInv == \A u \in Units : UnitOK(u)

IndInv ==
  /\ TypeOK
  /\ DdlInv
  /\ OwnInv
  /\ LogInv
  /\ LastInv
  /\ UnitInv
-----------------------------------------------------------------------------
(* The contents that the writes of the engine make, and what is in them. *)

MetaPut(c, i, n) == [c EXCEPT !.meta[i] = n]
MarksPut(c, M) == [c EXCEPT !.marks = M]
DropPut(c, i, S) == [c EXCEPT !.meta[i] = 0, !.marks = @ \cup S]
KeyIn(c, q, j, y) == <<j, y>> \in c.data[q]

(* A content is a record of its four parts. *)
LEMMA ContentFields ==
  ASSUME NEW c \in Content
  PROVE  /\ c.meta \in [Idents -> 0..MaxPrefix] /\ c.marks \in SUBSET Prefixes
         /\ c.data \in [Prefixes -> SUBSET (Idents \X (Units \cup {"key"}))]
         /\ c.stored \in [Idents -> Nat]
BY DEF Content

(* _createIdent's metadata. *)
LEMMA MetaWritten ==
  ASSUME NEW c \in Content, NEW i \in Idents, NEW n \in 0..MaxPrefix,
         NEW d, d = MetaPut(c, i, n)
  PROVE  /\ d \in Content /\ d.marks = c.marks /\ d.data = c.data /\ d.stored = c.stored
         /\ d.meta[i] = n /\ \A j \in Idents : j # i => d.meta[j] = c.meta[j]
<1>1. /\ d.marks = c.marks /\ d.data = c.data /\ d.stored = c.stored
      /\ d.meta = [c.meta EXCEPT ![i] = n] /\ d = [meta |-> d.meta, marks |-> d.marks, data |-> d.data, stored |-> d.stored]
  BY DEF Content, MetaPut
<1>2. d.meta \in [Idents -> 0..MaxPrefix] /\ d.meta[i] = n /\ \A j \in Idents : j # i => d.meta[j] = c.meta[j]
  BY <1>1, ContentFields
<1>3. d \in Content BY <1>1, <1>2, ContentFields DEF Content
<1> QED BY <1>1, <1>2, <1>3

(* The markers of dropIdent's batch, with or without its metadata, and those   *)
(* that the constructor of RocksEngine leaves.                                 *)
LEMMA MarksWritten ==
  ASSUME NEW c \in Content, NEW M \in SUBSET Prefixes, NEW d, d = MarksPut(c, M)
  PROVE  d \in Content /\ d.marks = M /\ d.data = c.data /\ d.stored = c.stored /\ d.meta = c.meta
<1>1. /\ d.marks = M /\ d.data = c.data /\ d.stored = c.stored
      /\ d.meta = c.meta /\ d = [meta |-> d.meta, marks |-> d.marks, data |-> d.data, stored |-> d.stored]
  BY DEF Content, MarksPut
<1>3. d \in Content BY <1>1, ContentFields DEF Content
<1> QED BY <1>1, <1>3

(* The batch of dropIdent. *)
LEMMA DropWritten ==
  ASSUME NEW c \in Content, NEW i \in Idents, NEW S \in SUBSET Prefixes,
         NEW d, d = DropPut(c, i, S)
  PROVE  /\ d \in Content /\ d.marks = c.marks \cup S /\ d.data = c.data /\ d.stored = c.stored
         /\ d.meta[i] = 0 /\ \A j \in Idents : j # i => d.meta[j] = c.meta[j]
<1>1. /\ d.marks = c.marks \cup S /\ d.data = c.data /\ d.stored = c.stored
      /\ d.meta = [c.meta EXCEPT ![i] = 0] /\ d = [meta |-> d.meta, marks |-> d.marks, data |-> d.data, stored |-> d.stored]
  BY Zenon DEF Content, DropPut
<1>0. 0 \in 0..MaxPrefix BY EngineAssumption
<1>2. d.meta \in [Idents -> 0..MaxPrefix] /\ d.meta[i] = 0 /\ \A j \in Idents : j # i => d.meta[j] = c.meta[j]
  BY <1>0, <1>1, ContentFields
<1>3. c.marks \cup S \in SUBSET Prefixes BY Zenon, ContentFields
<1>4. d \in Content BY Zenon, <1>1, <1>2, <1>3, ContentFields DEF Content
<1> QED BY <1>1, <1>2, <1>4

(* A key is written under a prefix: of the ident itself, or of a record. *)
LEMMA KeyWritten ==
  ASSUME NEW c \in Content, NEW p \in Prefixes, NEW i \in Idents, NEW x \in Units \cup {"key"},
         NEW d, d = Added(c, p, <<i, x>>)
  PROVE  /\ d \in Content /\ d.marks = c.marks /\ d.meta = c.meta /\ d.stored = c.stored
         /\ \A q \in Prefixes, j \in Idents, y \in Units \cup {"key"} :
              KeyIn(d, q, j, y) <=> KeyIn(c, q, j, y) \/ (q = p /\ j = i /\ y = x)
         /\ \A q \in Prefixes, j \in Idents : HasKey(d, j, q) => HasKey(c, j, q) \/ (q = p /\ j = i)
         /\ \A u \in Units : HasRecord(d, u) => HasRecord(c, u) \/ u = x
<1>1. /\ d.marks = c.marks /\ d.meta = c.meta /\ d.stored = c.stored
      /\ d.data = [c.data EXCEPT ![p] = @ \cup {<<i, x>>}]
      /\ d = [meta |-> d.meta, marks |-> d.marks, data |-> d.data, stored |-> d.stored]
  BY Zenon DEF Content, Added
<1>2. d.data = [q \in Prefixes |-> IF q = p THEN c.data[p] \cup {<<i, x>>} ELSE c.data[q]]
  BY Zenon, <1>1, ContentFields
<1>3. <<i, x>> \in Idents \X (Units \cup {"key"}) OBVIOUS
<1>4. d.data \in [Prefixes -> SUBSET (Idents \X (Units \cup {"key"}))]
  BY <1>2, <1>3, ContentFields
<1>5. d \in Content BY Zenon, <1>1, <1>4, ContentFields DEF Content
<1>6. ASSUME NEW q \in Prefixes, NEW j \in Idents, NEW y \in Units \cup {"key"}
      PROVE  <<j, y>> \in d.data[q] <=> <<j, y>> \in c.data[q] \/ (q = p /\ j = i /\ y = x)
  <2>1. d.data[q] = IF q = p THEN c.data[p] \cup {<<i, x>>} ELSE c.data[q] BY Zenon, <1>2
  <2> QED BY <2>1
<1>7. \A q \in Prefixes, j \in Idents : HasKey(d, j, q) => HasKey(c, j, q) \/ (q = p /\ j = i)
  BY Zenon, <1>6 DEF HasKey
<1>8. \A u \in Units : u \in Units \cup {"key"} OBVIOUS
<1>9. \A u \in Units : HasRecord(d, u) => HasRecord(c, u) \/ u = x
  BY Zenon, <1>6, <1>8 DEF HasRecord
<1>10. \A q \in Prefixes, j \in Idents, y \in Units \cup {"key"} :
         KeyIn(d, q, j, y) <=> KeyIn(c, q, j, y) \/ (q = p /\ j = i /\ y = x)
  BY Zenon, <1>6 DEF KeyIn
<1> QED BY Zenon, <1>1, <1>5, <1>7, <1>9, <1>10

(* Counters are stored. *)
LEMMA CountersWritten ==
  ASSUME NEW c \in Content, NEW puts \in Counts, NEW d, d = Stored(c, puts)
  PROVE  /\ d \in Content /\ d.marks = c.marks /\ d.meta = c.meta /\ d.data = c.data
         /\ \A i \in Idents : d.stored[i] = IF puts[i] = NoCount THEN c.stored[i] ELSE puts[i]
<1>1. /\ d.marks = c.marks /\ d.meta = c.meta /\ d.data = c.data
      /\ d.stored = [i \in Idents |-> IF puts[i] = NoCount THEN c.stored[i] ELSE puts[i]]
      /\ d = [meta |-> d.meta, marks |-> d.marks, data |-> d.data, stored |-> d.stored]
  BY DEF Content, Stored
<1>2. d.stored \in [Idents -> Nat] BY <1>1, ContentFields DEF Counts, NoCount
<1>3. d \in Content BY <1>1, <1>2, ContentFields DEF Content
<1> QED BY <1>1, <1>3

(* Contents with the same data have the same keys and records. *)
LEMMA SameKeys ==
  ASSUME NEW c, NEW d, d.data = c.data
  PROVE  /\ \A q \in Prefixes, j \in Idents : HasKey(d, j, q) => HasKey(c, j, q)
         /\ \A u \in Units : HasRecord(d, u) => HasRecord(c, u)
BY Zenon DEF HasKey, HasRecord
-----------------------------------------------------------------------------
(* The log. *)

(* The content last written is one that a crash can keep. *)
LEMMA LastInLog ==
  ASSUME TypeOK
  PROVE  /\ Len(log) \in DOMAIN log /\ db \in Content /\ db = log[Len(log)]
         /\ \A k \in DOMAIN log : log[k] \in Content
         /\ 1 \in DOMAIN log
<1>1. log \in Seq(Content) /\ log # <<>> BY DEF TypeOK
<1> QED BY <1>1 DEF db

(* What a write leaves in the log: what was there, and the new content. *)
LEMMA AfterWrite ==
  ASSUME TypeOK, NEW c \in Content, Write(c)
  PROVE  /\ log' \in Seq(Content) /\ log' # <<>> /\ db' = c
         /\ \A k \in DOMAIN log' : log'[k] = c \/ \E j \in DOMAIN log : log'[k] = log[j]
<1>1. log \in Seq(Content) /\ log' = Append(log, c) BY DEF TypeOK, Write
<1> QED BY <1>1 DEF db

(* What a synced write leaves. *)
LEMMA AfterSynced ==
  ASSUME NEW c \in Content, log' = <<c>>
  PROVE  /\ log' \in Seq(Content) /\ log' # <<>> /\ db' = c
         /\ \A k \in DOMAIN log' : log'[k] = c
BY DEF db

(* A content is right because of what it holds, wherever it is in the log. *)
LEMMA ContentAt ==
  ASSUME NEW d, NEW k, log'[k] = d, ContentOK(d)'
  PROVE  ContentOK(log[k])'
BY Zenon DEF ContentOK, MetaOK, KeyOK, HasKey, HasRecord

LEMMA LastAt ==
  ASSUME NEW d, db' = d, LastOK(d)'
  PROVE  LastInv'
BY Zenon DEF LastInv, LastOK

(* A write keeps the log right if the new content is, and if no content is     *)
(* made wrong by what changes in memory.                                       *)
LEMMA LogWrite ==
  ASSUME TypeOK, LogInv, NEW c \in Content, Write(c) \/ log' = <<c>>,
         \A d \in Content : ContentOK(d) => ContentOK(d)', ContentOK(c)'
  PROVE  LogInv'
<1>1. SUFFICES ASSUME NEW k \in DOMAIN log' PROVE ContentOK(log[k])' BY Zenon DEF LogInv
<1>2. log'[k] = c \/ \E j \in DOMAIN log : log'[k] = log[j]
  BY Zenon, AfterWrite, AfterSynced
<1>3. CASE log'[k] = c BY Zenon, <1>3, ContentAt
<1>4. CASE \E j \in DOMAIN log : log'[k] = log[j]
  <2>1. PICK j \in DOMAIN log : log'[k] = log[j] BY <1>4
  <2>2. PICK d \in Content : d = log[j] BY Zenon, LastInLog
  <2>3. ContentOK(d) BY Zenon, <2>2 DEF LogInv
  <2>4. ContentOK(d)' BY Zenon, <2>3
  <2> QED BY Zenon, <2>1, <2>2, <2>4, ContentAt
<1> QED BY <1>2, <1>3, <1>4

LEMMA LogSame ==
  ASSUME TypeOK, LogInv, log' = log, \A d \in Content : ContentOK(d) => ContentOK(d)'
  PROVE  LogInv'
<1>1. SUFFICES ASSUME NEW k \in DOMAIN log PROVE ContentOK(log[k])' BY Zenon DEF LogInv
<1>2. PICK d \in Content : d = log[k] BY Zenon, LastInLog
<1>3. ContentOK(d) BY Zenon, <1>2 DEF LogInv
<1>4. ContentOK(d)' BY Zenon, <1>3
<1> QED BY Zenon, <1>2, <1>4, ContentAt
-----------------------------------------------------------------------------
(* What steps that change little leave as it was. *)

(* The prefixes of an ident. *)
LEMMA PrefixFacts ==
  ASSUME TypeOK, DdlInv, NEW i \in Idents
  PROVE  /\ PrefixesOf(i) \subseteq Prefixes /\ PrefixesOf(i) = PrefixesAt(identMap[i], i)
         /\ identMap[i] = 0 => PrefixesOf(i) = {}
         /\ identMap[i] # 0 => identMap[i] \in PrefixesOf(i) /\ identMap[i] \in Prefixes
         /\ i = Oplog /\ identMap[i] # 0 =>
              identMap[i] + 1 \in PrefixesOf(i) /\ identMap[i] + 1 \in Prefixes
         /\ i # Oplog \/ ddl[i] \in {"no", "drop", "trackerKey", "gone"} =>
              \A p \in PrefixesOf(i) : p <= maxPrefix
<1>1. /\ identMap[i] \in 0..MaxPrefix /\ identMap[i] < MaxPrefix /\ identMap[i] <= maxPrefix
      /\ maxPrefix \in 0..MaxPrefix + 1
      /\ ddl[i] = "gone" => identMap[i] = 0
      /\ i = Oplog /\ identMap[i] # 0 /\ ddl[i] \in {"no", "drop", "trackerKey"} =>
           identMap[i] + 1 <= maxPrefix
  BY DEF TypeOK, DdlInv, DdlOK
<1>2. identMap[i] \in Nat /\ MaxPrefix \in Nat BY <1>1, EngineAssumption
<1>3. CASE identMap[i] = 0 BY Zenon, <1>3 DEF PrefixesOf, PrefixesAt
<1>4. CASE identMap[i] # 0
  <2>1. identMap[i] \in Prefixes /\ identMap[i] + 1 \in Prefixes BY <1>1, <1>2, <1>4 DEF Prefixes
  <2>2. PrefixesOf(i) = {identMap[i]} \cup IF i = Oplog THEN {identMap[i] + 1} ELSE {}
    BY Zenon, <1>4 DEF PrefixesOf
  <2>3. PrefixesAt(identMap[i], i) = PrefixesOf(i) BY Zenon, <1>4, <2>2 DEF PrefixesAt
  <2>4. i # Oplog => PrefixesOf(i) = {identMap[i]} BY Zenon, <2>2
  <2>5. i = Oplog => PrefixesOf(i) = {identMap[i], identMap[i] + 1} BY Zenon, <2>2
  <2>6. i # Oplog \/ ddl[i] \in {"no", "drop", "trackerKey", "gone"} =>
          \A p \in PrefixesOf(i) : p <= maxPrefix
    <3>1. CASE i # Oplog BY Zenon, <1>1, <2>4, <3>1
    <3>2. CASE i = Oplog
      <4>1. SUFFICES ASSUME ddl[i] \in {"no", "drop", "trackerKey", "gone"}, NEW p \in PrefixesOf(i)
                     PROVE  p <= maxPrefix
        BY Zenon, <3>2
      <4>2. ddl[i] \in {"no", "drop", "trackerKey"} BY Zenon, <1>1, <1>4, <4>1
      <4>3. identMap[i] + 1 <= maxPrefix BY Zenon, <1>1, <1>4, <3>2, <4>2
      <4>4. p \in {identMap[i], identMap[i] + 1} BY Zenon, <2>5, <3>2, <4>1
      <4> QED BY Zenon, <1>1, <1>2, <4>3, <4>4
    <3> QED BY Zenon, <3>1, <3>2
  <2> QED BY Zenon, <1>4, <2>1, <2>3, <2>4, <2>5, <2>6
<1> QED BY Zenon, <1>3, <1>4

LEMMA PrefixesKept ==
  ASSUME NEW i \in Idents, identMap'[i] = identMap[i]
  PROVE  PrefixesOf(i)' = PrefixesOf(i)
BY Zenon DEF PrefixesOf

(* A content, as far as one ident is concerned, *)
LEMMA IdentKept ==
  ASSUME NEW d, NEW j \in Idents, identMap'[j] = identMap[j], ddl'[j] = ddl[j],
         droppedPrefixes \subseteq droppedPrefixes', MetaOK(d, j), KeyOK(d, j)
  PROVE  MetaOK(d, j)' /\ KeyOK(d, j)'
<1>1. PrefixesOf(j)' = PrefixesOf(j) BY Zenon, PrefixesKept
<1>2. MetaOK(d, j)' BY Zenon DEF MetaOK, PrefixesAt
<1>3. \A p : p \in droppedPrefixes => p \in droppedPrefixes' OBVIOUS
<1>4. KeyOK(d, j)' BY Zenon, <1>1, <1>3 DEF KeyOK, HasKey
<1> QED BY Zenon, <1>2, <1>4

(* when only one ident changes, *)
LEMMA OneIdent ==
  ASSUME NEW d, NEW i \in Idents, \A j \in Idents : j # i => identMap'[j] = identMap[j] /\ ddl'[j] = ddl[j],
         droppedPrefixes \subseteq droppedPrefixes',
         \A u \in Units : unit[u].pc = "done" => unit'[u].pc = "done",
         ContentOK(d), MetaOK(d, i)', KeyOK(d, i)'
  PROVE  ContentOK(d)'
<1>1. \A j \in Idents : MetaOK(d, j)' /\ KeyOK(d, j)'
  <2>1. SUFFICES ASSUME NEW j \in Idents PROVE MetaOK(d, j)' /\ KeyOK(d, j)' OBVIOUS
  <2>2. CASE j = i BY Zenon, <2>2
  <2>3. CASE j # i
    <3>1. MetaOK(d, j) /\ KeyOK(d, j) BY Zenon DEF ContentOK
    <3> QED BY Zenon, <2>3, <3>1, IdentKept
  <2> QED BY Zenon, <2>2, <2>3
<1>2. \A u \in Units : unit'[u].pc # "done" => ~HasRecord(d, u) BY Zenon DEF ContentOK
<1> QED BY Zenon, <1>1, <1>2 DEF ContentOK, HasRecord

(* or none does. *)
LEMMA ContentKept ==
  ASSUME identMap' = identMap, ddl' = ddl, droppedPrefixes' = droppedPrefixes,
         \A u \in Units : unit[u].pc = "done" => unit'[u].pc = "done"
  PROVE  \A d \in Content : ContentOK(d) => ContentOK(d)'
<1>1. SUFFICES ASSUME NEW d \in Content, ContentOK(d) PROVE ContentOK(d)' OBVIOUS
<1>2. \A j \in Idents : MetaOK(d, j)' /\ KeyOK(d, j)'
  <2>1. SUFFICES ASSUME NEW j \in Idents PROVE MetaOK(d, j)' /\ KeyOK(d, j)' OBVIOUS
  <2>2. MetaOK(d, j) /\ KeyOK(d, j) BY Zenon, <1>1 DEF ContentOK
  <2>3. droppedPrefixes \subseteq droppedPrefixes' OBVIOUS
  <2> QED BY Zenon, <2>2, <2>3, IdentKept
<1>3. \A u \in Units : unit'[u].pc # "done" => ~HasRecord(d, u) BY Zenon, <1>1 DEF ContentOK
<1> QED BY Zenon, <1>2, <1>3 DEF ContentOK, HasRecord

LEMMA LastKept ==
  ASSUME NEW d, identMap' = identMap, ddl' = ddl, droppedPrefixes' = droppedPrefixes,
         maxPrefix' = maxPrefix, LastOK(d)
  PROVE  LastOK(d)'
<1>1. \A i \in Idents : PrefixesOf(i)' = PrefixesOf(i) BY Zenon, PrefixesKept
<1> QED BY Zenon, <1>1 DEF LastOK

LEMMA MemoryKept ==
  ASSUME DdlInv, OwnInv, identMap' = identMap, ddl' = ddl, droppedPrefixes' = droppedPrefixes,
         maxPrefix' = maxPrefix
  PROVE  DdlInv' /\ OwnInv'
<1>1. \A i \in Idents : PrefixesOf(i)' = PrefixesOf(i) BY Zenon, PrefixesKept
<1>2. OwnInv' BY Zenon, <1>1 DEF OwnInv
<1>3. DdlInv' BY DEF DdlInv, DdlOK
<1> QED BY Zenon, <1>2, <1>3

LEMMA UnitsKept ==
  ASSUME UnitInv, identMap' = identMap, ddl' = ddl, unit' = unit
  PROVE  UnitInv'
BY Zenon DEF UnitInv, UnitOK

(* A content that differs from a right one only where one ident, and units of  *)
(* work that are done, are concerned.                                          *)
LEMMA ContentDerived ==
  ASSUME NEW c, NEW d, NEW i \in Idents, ContentOK(c)', d.marks = c.marks,
         \A j \in Idents : j # i => d.meta[j] = c.meta[j],
         \A q \in Prefixes, j \in Idents : HasKey(d, j, q) => HasKey(c, j, q) \/ j = i,
         \A u \in Units : HasRecord(d, u) => HasRecord(c, u) \/ unit'[u].pc = "done",
         MetaOK(d, i)', KeyOK(d, i)'
  PROVE  ContentOK(d)'
<1>1. \A j \in Idents : MetaOK(d, j)' /\ KeyOK(d, j)'
  <2>1. SUFFICES ASSUME NEW j \in Idents PROVE MetaOK(d, j)' /\ KeyOK(d, j)' OBVIOUS
  <2>2. CASE j = i BY Zenon, <2>2
  <2>3. CASE j # i
    <3>1. MetaOK(c, j)' /\ KeyOK(c, j)' BY Zenon DEF ContentOK
    <3>2. d.meta[j] = c.meta[j] /\ \A q \in Prefixes : HasKey(d, j, q) => HasKey(c, j, q) BY Zenon, <2>3
    <3>3. MetaOK(d, j)' BY Zenon, <3>1, <3>2 DEF MetaOK, PrefixesAt
    <3>4. KeyOK(d, j)' BY Zenon, <3>1, <3>2 DEF KeyOK, HasKey
    <3> QED BY Zenon, <3>3, <3>4
  <2> QED BY Zenon, <2>2, <2>3
<1>2. \A u \in Units : unit'[u].pc # "done" => ~HasRecord(d, u)
  BY Zenon DEF ContentOK, HasRecord
<1> QED BY Zenon, <1>1, <1>2 DEF ContentOK, HasRecord
-----------------------------------------------------------------------------
(* One lemma for each step. *)

(* _createIdent takes the next prefix: it is no one's. *)
LEMMA CreateStep ==
  ASSUME IndInv, NEW i \in Idents, CreateIdent(i)
  PROVE  IndInv'
<1> USE DEF IndInv
<1>1. /\ ddl[i] = "no" /\ identMap[i] = 0 /\ MayCreate(i) /\ maxPrefix + 1 < MaxPrefix
      /\ maxPrefix' = maxPrefix + 1 /\ log' = log /\ droppedPrefixes' = droppedPrefixes
      /\ unit' = unit
  BY Zenon DEF CreateIdent
<1>2. /\ identMap'[i] = maxPrefix + 1 /\ ddl'[i] = "meta"
      /\ \A j \in Idents : j # i => identMap'[j] = identMap[j] /\ ddl'[j] = ddl[j]
  BY Zenon DEF CreateIdent, TypeOK
<1>3. TypeOK'
  BY EngineAssumption DEF TypeOK, CreateIdent, counterVars, history
<1>4. maxPrefix \in Nat /\ \A j \in Idents : identMap[j] \in Nat BY DEF TypeOK
<1>5. \A j \in Idents : j # Oplog \/ ddl[j] \in {"no", "drop", "gone"}
  <2>1. \A j \in Idents : ddl[j] \in {"no", "meta", "key", "tracker", "trackerKey", "drop", "gone"}
    BY DEF TypeOK
  <2> QED BY Zenon, <1>1, <2>1 DEF MayCreate
<1>6. \A j \in Idents : \A p \in PrefixesOf(j) : p <= maxPrefix BY Zenon, <1>5, PrefixFacts
<1>7. PrefixesOf(i)' \subseteq {maxPrefix + 1, maxPrefix + 2}
  BY <1>2, <1>4 DEF PrefixesOf
<1>8. \A j \in Idents : j # i => PrefixesOf(j)' = PrefixesOf(j) BY Zenon, <1>2, PrefixesKept
<1>9. \A j \in Idents : j # i => \A p \in PrefixesOf(j)' : p \in Prefixes /\ p <= maxPrefix
  BY Zenon, <1>6, <1>8, PrefixFacts
<1>10. ASSUME NEW p \in Nat, p <= maxPrefix PROVE p \notin PrefixesOf(i)'
  BY <1>4, <1>7, <1>10
<1>11. DdlInv'
  <2>1. SUFFICES ASSUME NEW j \in Idents PROVE DdlOK(j)' BY Zenon DEF DdlInv
  <2>2. DdlOK(j) BY Zenon DEF DdlInv
  <2>3. CASE j = i BY <1>1, <1>2, <1>4, <2>3, EngineAssumption DEF DdlOK
  <2>4. CASE j # i
    <3>1. identMap'[j] = identMap[j] /\ ddl'[j] = ddl[j] /\ identMap[j] \in Nat BY Zenon, <1>2, <1>4, <2>4
    <3>2. j = Oplog => ddl[j] \in {"no", "drop", "gone"} BY Zenon, <1>5
    <3> QED BY <1>1, <1>4, <2>2, <3>1, <3>2 DEF DdlOK
  <2> QED BY Zenon, <2>3, <2>4
<1>12. OwnInv'
  <2>0. \A p \in Prefixes : p \in Nat BY DEF Prefixes
  <2>1. \A j \in Idents : j # i => PrefixesOf(i)' \cap PrefixesOf(j)' = {} BY Zenon, <1>9, <1>10, <2>0
  <2>2. PrefixesOf(i)' \cap droppedPrefixes' = {}
    <3>0. droppedPrefixes \subseteq Prefixes BY Zenon DEF TypeOK
    <3>1. \A p \in droppedPrefixes : p <= maxPrefix BY Zenon DEF LastInv, LastOK
    <3> QED BY Zenon, <1>1, <1>10, <2>0, <3>0, <3>1
  <2>3. \A a, b \in Idents : a # b => PrefixesOf(a)' \cap PrefixesOf(b)' = {}
    <3>1. SUFFICES ASSUME NEW a \in Idents, NEW b \in Idents, a # b
                   PROVE  PrefixesOf(a)' \cap PrefixesOf(b)' = {}
      BY Zenon
    <3>2. CASE a = i BY Zenon, <2>1, <3>1, <3>2
    <3>3. CASE b = i
      <4>1. PrefixesOf(i)' \cap PrefixesOf(a)' = {} BY Zenon, <2>1, <3>1, <3>3
      <4> QED BY Zenon, <4>1, <3>3
    <3>4. CASE a # i /\ b # i BY Zenon, <1>8, <3>1, <3>4 DEF OwnInv
    <3> QED BY Zenon, <3>2, <3>3, <3>4
  <2>4. \A j \in Idents : PrefixesOf(j)' \cap droppedPrefixes' = {}
    BY Zenon, <1>1, <1>8, <2>2 DEF OwnInv
  <2> QED BY Zenon, <2>3, <2>4 DEF OwnInv
<1>13. ASSUME NEW d \in Content, ContentOK(d) PROVE ContentOK(d)'
  <2>1. MetaOK(d, i) /\ KeyOK(d, i) BY Zenon, <1>13 DEF ContentOK
  <2>2. d.meta[i] = 0 BY Zenon, <1>1, <2>1 DEF MetaOK
  <2>3. MetaOK(d, i)' BY Zenon, <2>2 DEF MetaOK, PrefixesAt
  <2>4. PrefixesOf(i) = {} BY Zenon, <1>1, PrefixFacts
  <2>5. \A p \in Prefixes : ~HasKey(d, i, p) BY Zenon, <1>1, <2>1, <2>4 DEF KeyOK
  <2>6. KeyOK(d, i)' BY Zenon, <1>2, <2>5 DEF KeyOK, HasKey
  <2>7. droppedPrefixes \subseteq droppedPrefixes' BY Zenon, <1>1
  <2>8. \A u \in Units : unit[u].pc = "done" => unit'[u].pc = "done" BY Zenon, <1>1
  <2> QED BY Zenon, <1>2, <1>13, <2>3, <2>6, <2>7, <2>8, OneIdent
<1>14. LogInv' BY Zenon, <1>1, <1>13, LogSame
<1>15. LastInv'
  <2>1. PICK c \in Content : c = db BY Zenon, LastInLog
  <2>2. LastOK(c) BY Zenon, <2>1 DEF LastInv, LastOK
  <2>3. c.marks \subseteq Prefixes BY Zenon, ContentFields
  <2>4. \A p \in c.marks : p \in Nat /\ p <= maxPrefix BY <2>2, <2>3 DEF LastOK, Prefixes
  <2>5. PrefixesOf(i)' \cap c.marks = {} BY Zenon, <1>10, <2>4
  <2>6. \A j \in Idents :
          /\ ddl'[j] \in {"key", "tracker", "trackerKey", "no"} => c.meta[j] = identMap'[j]
          /\ ddl'[j] # "drop" => PrefixesOf(j)' \cap c.marks = {}
    <3>1. SUFFICES ASSUME NEW j \in Idents
                   PROVE  /\ ddl'[j] \in {"key", "tracker", "trackerKey", "no"} => c.meta[j] = identMap'[j]
                          /\ ddl'[j] # "drop" => PrefixesOf(j)' \cap c.marks = {}
      BY Zenon
    <3>2. CASE j = i BY Zenon, <1>2, <2>5, <3>2
    <3>3. CASE j # i
      <4>1. identMap'[j] = identMap[j] /\ ddl'[j] = ddl[j] /\ PrefixesOf(j)' = PrefixesOf(j)
        BY Zenon, <1>2, <1>8, <3>3
      <4> QED BY Zenon, <2>2, <4>1 DEF LastOK
    <3> QED BY Zenon, <3>2, <3>3
  <2>7. \A p \in droppedPrefixes' \cup c.marks : p <= maxPrefix'
    <3>0. droppedPrefixes \subseteq Prefixes BY DEF TypeOK
    <3>1. \A p \in droppedPrefixes \cup c.marks : p <= maxPrefix BY Zenon, <2>2 DEF LastOK
    <3> QED BY <1>1, <1>4, <2>3, <3>0, <3>1 DEF Prefixes
  <2>8. LastOK(c)' BY Zenon, <2>6, <2>7 DEF LastOK
  <2>9. db' = c BY Zenon, <1>1, <2>1 DEF db
  <2> QED BY Zenon, <2>8, <2>9, LastAt
<1>16. UnitInv'
  BY Zenon, <1>1, <1>2 DEF UnitInv, UnitOK
<1> QED BY Zenon, <1>3, <1>11, <1>12, <1>14, <1>15, <1>16

(* The later steps of a creation: nothing changes for the contents that are in *)
(* the log, for the others, and for the units of work.                         *)
LEMMA CreatingKept ==
  ASSUME IndInv, NEW i \in Idents, ddl[i] \in {"meta", "key", "tracker", "trackerKey"},
         ddl'[i] \in {"key", "tracker", "trackerKey", "no"},
         \A j \in Idents : j # i => ddl'[j] = ddl[j],
         identMap' = identMap, droppedPrefixes' = droppedPrefixes, unit' = unit
  PROVE  /\ \A d \in Content : ContentOK(d) => ContentOK(d)'
         /\ OwnInv' /\ UnitInv'
<1> USE DEF IndInv
<1>1. PrefixesOf(i)' = PrefixesOf(i) BY Zenon, PrefixesKept
<1>2. ddl[i] \notin {"no", "drop", "gone"} /\ ddl'[i] \notin {"meta", "drop", "gone"} OBVIOUS
<1>3. ASSUME NEW d \in Content, ContentOK(d) PROVE ContentOK(d)'
  <2>1. MetaOK(d, i) /\ KeyOK(d, i) BY Zenon, <1>3 DEF ContentOK
  <2>2. MetaOK(d, i)' BY Zenon, <1>2, <2>1 DEF MetaOK, PrefixesAt
  <2>3. ddl[i] # "gone" /\ ddl'[i] # "gone" /\ ddl'[i] # "drop" BY Zenon, <1>2
  <2>4. KeyOK(d, i)' BY Zenon, <1>1, <1>2, <2>1, <2>3 DEF KeyOK, HasKey
  <2>5. droppedPrefixes \subseteq droppedPrefixes' OBVIOUS
  <2>6. \A j \in Idents : j # i => identMap'[j] = identMap[j] /\ ddl'[j] = ddl[j] BY Zenon
  <2>7. \A u \in Units : unit[u].pc = "done" => unit'[u].pc = "done" BY Zenon
  <2> QED BY Zenon, <1>3, <2>2, <2>4, <2>5, <2>6, <2>7, OneIdent
<1>4. \A j \in Idents : PrefixesOf(j)' = PrefixesOf(j) BY Zenon, PrefixesKept
<1>5. OwnInv' BY Zenon, <1>4 DEF OwnInv
<1>6. ddl[i] # "no" BY Zenon, <1>2
<1>7. UnitInv' BY Zenon, <1>6 DEF UnitInv, UnitOK
<1> QED BY Zenon, <1>3, <1>5, <1>7

(* The content last written, after one of these steps. *)
LEMMA CreatingLast ==
  ASSUME IndInv, NEW i \in Idents, ddl[i] \in {"meta", "key", "tracker", "trackerKey"},
         ddl'[i] \in {"key", "tracker", "trackerKey", "no"},
         \A j \in Idents : j # i => ddl'[j] = ddl[j],
         identMap' = identMap, droppedPrefixes' = droppedPrefixes,
         maxPrefix' \in Nat, maxPrefix <= maxPrefix',
         NEW c0 \in Content, LastOK(c0), NEW c \in Content, db' = c, c.marks = c0.marks,
         c.meta[i] = identMap[i], \A j \in Idents : j # i => c.meta[j] = c0.meta[j]
  PROVE  LastInv'
<1> USE DEF IndInv
<1>1. ddl[i] # "drop" BY Zenon
<1>2. \A j \in Idents : PrefixesOf(j)' = PrefixesOf(j) BY Zenon, PrefixesKept
<1>3. \A j \in Idents : ddl'[j] \in {"key", "tracker", "trackerKey", "no"} => c.meta[j] = identMap'[j]
  BY Zenon DEF LastOK
<1>4. \A j \in Idents : ddl'[j] # "drop" => PrefixesOf(j)' \cap c.marks = {}
  BY Zenon, <1>1, <1>2 DEF LastOK
<1>5. \A p \in droppedPrefixes' \cup c.marks : p <= maxPrefix'
  <2>1. maxPrefix \in Nat /\ droppedPrefixes \subseteq Prefixes /\ c.marks \subseteq Prefixes
    BY ContentFields DEF TypeOK
  <2>2. \A p \in droppedPrefixes \cup c.marks : p <= maxPrefix BY Zenon DEF LastOK
  <2>3. \A p \in Prefixes : p \in Nat BY DEF Prefixes
  <2>4. \A p \in droppedPrefixes' \cup c.marks : p \in Nat /\ p <= maxPrefix BY Zenon, <2>1, <2>2, <2>3
  <2> QED BY <2>1, <2>4
<1>6. LastOK(c)' BY Zenon, <1>3, <1>4, <1>5 DEF LastOK
<1> QED BY Zenon, <1>6, LastAt

(* A content stays right when a key of an ident is added, under its prefix, *)
LEMMA KeyAdded ==
  ASSUME NEW c \in Content, NEW i \in Idents, NEW p \in Prefixes, NEW x \in Units \cup {"key"},
         p \in PrefixesOf(i)', x \in Units => unit'[x].pc = "done",
         ContentOK(c)', c.meta[i] = identMap'[i], ddl'[i] \notin {"drop", "gone"},
         NEW d, d = Added(c, p, <<i, x>>)
  PROVE  ContentOK(d)'
<1>1. d.marks = c.marks /\ d.meta = c.meta BY KeyWritten
<1>2. \A q \in Prefixes, j \in Idents : HasKey(d, j, q) => HasKey(c, j, q) \/ (q = p /\ j = i)
  BY KeyWritten
<1>3. \A u \in Units : HasRecord(d, u) => HasRecord(c, u) \/ u = x BY KeyWritten
<1>4. MetaOK(c, i)' /\ KeyOK(c, i)' BY Zenon DEF ContentOK
<1>5. MetaOK(d, i)' BY Zenon, <1>1, <1>4 DEF MetaOK, PrefixesAt
<1>6. ddl'[i] # "drop" /\ ddl'[i] # "gone" OBVIOUS
<1>7. \A q \in Prefixes : HasKey(d, i, q)' => q \in PrefixesOf(i)'
  BY Zenon, <1>2, <1>4, <1>6 DEF KeyOK, HasKey
<1>8. KeyOK(d, i)' BY Zenon, <1>1, <1>6, <1>7 DEF KeyOK
<1>9. \A j \in Idents : j # i => d.meta[j] = c.meta[j] BY Zenon, <1>1
<1>10. \A q \in Prefixes, j \in Idents : HasKey(d, j, q) => HasKey(c, j, q) \/ j = i BY Zenon, <1>2
<1>11. \A u \in Units : HasRecord(d, u) => HasRecord(c, u) \/ unit'[u].pc = "done" BY Zenon, <1>3
<1> QED BY Zenon, <1>1, <1>5, <1>8, <1>9, <1>10, <1>11, ContentDerived

(* and when it has no more than its keys, whatever its counters. *)
LEMMA NoMoreKeys ==
  ASSUME NEW c, NEW d, d.meta = c.meta, d.marks = c.marks, ContentOK(c)',
         \A q \in Prefixes, j \in Idents : HasKey(d, j, q) => HasKey(c, j, q),
         \A u \in Units : HasRecord(d, u) => HasRecord(c, u)
  PROVE  ContentOK(d)'
<1>2. \A j \in Idents : MetaOK(d, j)'
  BY Zenon DEF ContentOK, MetaOK, PrefixesAt
<1>3. ASSUME NEW j \in Idents PROVE KeyOK(d, j)'
  <2>1. KeyOK(c, j)' BY Zenon DEF ContentOK
  <2>2. \A q \in Prefixes : HasKey(d, j, q) => HasKey(c, j, q) BY Zenon
  <2> QED BY Zenon, <2>1, <2>2 DEF KeyOK, HasKey
<1>4. \A u \in Units : unit'[u].pc # "done" => ~HasRecord(d, u)
  BY Zenon DEF ContentOK, HasRecord
<1> QED BY Zenon, <1>2, <1>3, <1>4 DEF ContentOK, HasRecord

(* _createIdent stores the metadata. *)
LEMMA PutMetadataStep ==
  ASSUME IndInv, NEW i \in Idents, PutMetadata(i)
  PROVE  IndInv'
<1> USE DEF IndInv
<1>0. PICK c \in Content : c = db BY Zenon, LastInLog
<1>1. PICK d : d = MetaPut(c, i, identMap[i]) BY Zenon
<1>2. /\ ddl[i] = "meta" /\ Write(d) /\ ddl' = [ddl EXCEPT ![i] = "key"]
      /\ identMap' = identMap /\ maxPrefix' = maxPrefix /\ droppedPrefixes' = droppedPrefixes
      /\ unit' = unit
  BY Zenon, <1>0, <1>1 DEF PutMetadata, memory, MetaPut
<1>3. ddl'[i] = "key" /\ \A j \in Idents : j # i => ddl'[j] = ddl[j] BY Zenon, <1>2 DEF TypeOK
<1>4. identMap[i] \in 0..MaxPrefix /\ maxPrefix \in Nat /\ maxPrefix <= maxPrefix' BY <1>2 DEF TypeOK
<1>5. /\ d \in Content /\ d.marks = c.marks /\ d.data = c.data
      /\ d.meta[i] = identMap[i] /\ \A j \in Idents : j # i => d.meta[j] = c.meta[j]
  BY <1>1, <1>4, MetaWritten
<1>6. log' \in Seq(Content) /\ log' # <<>> /\ db' = d BY Zenon, <1>2, <1>5, AfterWrite
<1>7. TypeOK' BY Zenon, <1>2, <1>6 DEF TypeOK, PutMetadata, counterVars, history
<1>8. DdlInv'
  <2>1. \A j \in Idents : DdlOK(j) BY Zenon DEF DdlInv
  <2> QED BY Zenon, <1>2, <1>3, <2>1 DEF DdlInv, DdlOK
<1>9. (\A e \in Content : ContentOK(e) => ContentOK(e)') /\ OwnInv' /\ UnitInv'
  BY Zenon, <1>2, <1>3, CreatingKept
<1>10. LastOK(c) BY Zenon, <1>0 DEF LastInv, LastOK
<1>11. ContentOK(c)
  BY Zenon, <1>0, LastInLog DEF LogInv
<1>12. ContentOK(c)' BY Zenon, <1>9, <1>11
<1>13. PrefixesOf(i)' = PrefixesOf(i) /\ PrefixesOf(i) = PrefixesAt(identMap[i], i)
  BY Zenon, <1>2, PrefixesKept, PrefixFacts
<1>14. PrefixesOf(i) \cap c.marks = {} BY Zenon, <1>2, <1>10 DEF LastOK
<1>15. MetaOK(d, i)' BY Zenon, <1>2, <1>3, <1>5, <1>13, <1>14 DEF MetaOK, PrefixesAt
<1>16. KeyOK(d, i)'
  <2>1. KeyOK(c, i)' BY Zenon, <1>12 DEF ContentOK
  <2>2. \A q \in Prefixes : HasKey(d, i, q) => HasKey(c, i, q) BY Zenon, <1>5, SameKeys
  <2> QED BY Zenon, <1>2, <1>3, <1>5, <2>1, <2>2 DEF KeyOK, HasKey
<1>17. ContentOK(d)'
  <2>1. \A q \in Prefixes, j \in Idents : HasKey(d, j, q) => HasKey(c, j, q) \/ j = i
    BY Zenon, <1>5, SameKeys
  <2>2. \A u \in Units : HasRecord(d, u) => HasRecord(c, u) \/ unit'[u].pc = "done"
    BY Zenon, <1>5, SameKeys
  <2> QED BY Zenon, <1>5, <1>12, <1>15, <1>16, <2>1, <2>2, ContentDerived
<1>18. LogInv' BY Zenon, <1>2, <1>5, <1>9, <1>17, LogWrite
<1>19. LastInv' BY Zenon, <1>2, <1>3, <1>4, <1>5, <1>6, <1>10, CreatingLast
<1> QED BY Zenon, <1>7, <1>8, <1>9, <1>18, <1>19

(* It stores a key with the prefix, *)
LEMMA PutPrefixKeyStep ==
  ASSUME IndInv, NEW i \in Idents, PutPrefixKey(i)
  PROVE  IndInv'
<1> USE DEF IndInv
<1>0. PICK c \in Content : c = db BY Zenon, LastInLog
<1>1. PICK d : d = Added(c, identMap[i], <<i, "key">>) BY Zenon
<1>2. /\ ddl[i] = "key" /\ Write(d)
      /\ ddl' = [ddl EXCEPT ![i] = IF i = Oplog THEN "tracker" ELSE "no"]
      /\ identMap' = identMap /\ maxPrefix' = maxPrefix /\ droppedPrefixes' = droppedPrefixes
      /\ unit' = unit
  BY Zenon, <1>0, <1>1 DEF PutPrefixKey, memory
<1>3. /\ ddl'[i] = IF i = Oplog THEN "tracker" ELSE "no"
      /\ ddl'[i] \in {"tracker", "no"}
      /\ \A j \in Idents : j # i => ddl'[j] = ddl[j]
  BY Zenon, <1>2 DEF TypeOK
<1>4. identMap[i] # 0 /\ maxPrefix \in Nat /\ maxPrefix <= maxPrefix'
  BY <1>2 DEF TypeOK, DdlInv, DdlOK
<1>5. identMap[i] \in PrefixesOf(i) /\ identMap[i] \in Prefixes BY Zenon, <1>4, PrefixFacts
<1>6. "key" \in Units \cup {"key"} /\ "key" \notin Units BY Zenon, EngineAssumption
<1>7. d \in Content /\ d.marks = c.marks /\ d.meta = c.meta BY <1>1, <1>5, <1>6, KeyWritten
<1>8. log' \in Seq(Content) /\ log' # <<>> /\ db' = d BY Zenon, <1>2, <1>7, AfterWrite
<1>9. TypeOK' BY Zenon, <1>2, <1>8 DEF TypeOK, PutPrefixKey, counterVars, history
<1>10. DdlInv'
  <2>1. \A j \in Idents : DdlOK(j) BY Zenon DEF DdlInv
  <2> QED BY <1>2, <1>3, <2>1 DEF DdlInv, DdlOK
<1>11. (\A e \in Content : ContentOK(e) => ContentOK(e)') /\ OwnInv' /\ UnitInv'
  BY Zenon, <1>2, <1>3, CreatingKept
<1>12. LastOK(c) BY Zenon, <1>0 DEF LastInv, LastOK
<1>13. ContentOK(c)' BY Zenon, <1>0, <1>11, LastInLog DEF LogInv
<1>14. c.meta[i] = identMap[i] BY Zenon, <1>2, <1>12 DEF LastOK
<1>15. PrefixesOf(i)' = PrefixesOf(i) BY Zenon, <1>2, PrefixesKept
<1>16. ContentOK(d)'
  <2>1. ddl'[i] \notin {"drop", "gone"} BY Zenon, <1>3
  <2>2. identMap[i] \in PrefixesOf(i)' /\ c.meta[i] = identMap'[i] BY Zenon, <1>2, <1>5, <1>14, <1>15
  <2> QED BY Zenon, <1>1, <1>5, <1>6, <1>13, <2>1, <2>2, KeyAdded
<1>17. LogInv' BY Zenon, <1>2, <1>7, <1>11, <1>16, LogWrite
<1>18. d.meta[i] = identMap[i] /\ \A j \in Idents : j # i => d.meta[j] = c.meta[j] BY Zenon, <1>7, <1>14
<1>19. LastInv' BY <1>2, <1>3, <1>4, <1>7, <1>8, <1>12, <1>18, CreatingLast
<1> QED BY Zenon, <1>9, <1>10, <1>11, <1>17, <1>19

(* createRecordStore takes the next prefix for the tracker of the oplog, *)
LEMMA ReserveTrackerStep ==
  ASSUME IndInv, NEW i \in Idents, ReserveTracker(i)
  PROVE  IndInv'
<1> USE DEF IndInv
<1>0. PICK c \in Content : c = db BY Zenon, LastInLog
<1>1. /\ ddl[i] = "tracker" /\ log' = log /\ ddl' = [ddl EXCEPT ![i] = "trackerKey"]
      /\ identMap' = identMap /\ maxPrefix' = maxPrefix + 1 /\ droppedPrefixes' = droppedPrefixes
      /\ unit' = unit
  BY Zenon DEF ReserveTracker
<1>2. ddl'[i] = "trackerKey" /\ \A j \in Idents : j # i => ddl'[j] = ddl[j] BY Zenon, <1>1 DEF TypeOK
<1>3. /\ i = Oplog /\ identMap[i] = maxPrefix /\ identMap[i] < MaxPrefix
      /\ maxPrefix \in Nat /\ MaxPrefix \in Nat /\ \A j \in Idents : identMap[j] \in Nat
  BY <1>1, EngineAssumption DEF TypeOK, DdlInv, DdlOK
<1>4. maxPrefix' \in 0..MaxPrefix + 1 /\ maxPrefix' \in Nat /\ maxPrefix <= maxPrefix' BY <1>1, <1>3
<1>5. TypeOK' BY Zenon, <1>1, <1>4 DEF TypeOK, ReserveTracker, counterVars, history
<1>6. DdlInv'
  <2>1. SUFFICES ASSUME NEW j \in Idents PROVE DdlOK(j)' BY Zenon DEF DdlInv
  <2>2. DdlOK(j) BY Zenon DEF DdlInv
  <2>3. CASE j = i BY <1>1, <1>2, <1>3, <2>2, <2>3 DEF DdlOK
  <2>4. CASE j # i BY <1>1, <1>2, <1>3, <2>2, <2>4 DEF DdlOK
  <2> QED BY Zenon, <2>3, <2>4
<1>7. (\A e \in Content : ContentOK(e) => ContentOK(e)') /\ OwnInv' /\ UnitInv'
  BY Zenon, <1>1, <1>2, CreatingKept
<1>8. LogInv' BY Zenon, <1>1, <1>7, LogSame
<1>9. LastOK(c) BY Zenon, <1>0 DEF LastInv, LastOK
<1>10. db' = c BY Zenon, <1>0, <1>1 DEF db
<1>11. c.meta[i] = identMap[i] BY Zenon, <1>1, <1>9 DEF LastOK
<1>12. LastInv' BY Zenon, <1>1, <1>2, <1>4, <1>9, <1>10, <1>11, CreatingLast
<1> QED BY Zenon, <1>5, <1>6, <1>7, <1>8, <1>12

(* and stores its key. *)
LEMMA PutTrackerKeyStep ==
  ASSUME IndInv, NEW i \in Idents, PutTrackerKey(i)
  PROVE  IndInv'
<1> USE DEF IndInv
<1>0. PICK c \in Content : c = db BY Zenon, LastInLog
<1>1. PICK d : d = Added(c, maxPrefix, <<i, "key">>) BY Zenon
<1>2. /\ ddl[i] = "trackerKey" /\ Write(d) /\ ddl' = [ddl EXCEPT ![i] = "no"]
      /\ identMap' = identMap /\ maxPrefix' = maxPrefix /\ droppedPrefixes' = droppedPrefixes
      /\ unit' = unit
  BY Zenon, <1>0, <1>1 DEF PutTrackerKey, memory
<1>3. ddl'[i] = "no" /\ \A j \in Idents : j # i => ddl'[j] = ddl[j] BY Zenon, <1>2 DEF TypeOK
<1>4. i = Oplog /\ identMap[i] # 0 /\ identMap[i] + 1 = maxPrefix /\ maxPrefix \in Nat /\ maxPrefix <= maxPrefix'
  BY <1>2 DEF TypeOK, DdlInv, DdlOK
<1>5. maxPrefix \in PrefixesOf(i) /\ maxPrefix \in Prefixes BY Zenon, <1>4, PrefixFacts
<1>6. "key" \in Units \cup {"key"} /\ "key" \notin Units BY Zenon, EngineAssumption
<1>7. d \in Content /\ d.marks = c.marks /\ d.meta = c.meta BY <1>1, <1>5, <1>6, KeyWritten
<1>8. log' \in Seq(Content) /\ log' # <<>> /\ db' = d BY Zenon, <1>2, <1>7, AfterWrite
<1>9. TypeOK' BY Zenon, <1>2, <1>8 DEF TypeOK, PutTrackerKey, counterVars, history
<1>10. DdlInv'
  <2>1. \A j \in Idents : DdlOK(j) BY Zenon DEF DdlInv
  <2> QED BY Zenon, <1>2, <1>3, <1>4, <2>1 DEF DdlInv, DdlOK
<1>11. (\A e \in Content : ContentOK(e) => ContentOK(e)') /\ OwnInv' /\ UnitInv'
  BY Zenon, <1>2, <1>3, CreatingKept
<1>12. LastOK(c) BY Zenon, <1>0 DEF LastInv, LastOK
<1>13. ContentOK(c)' BY Zenon, <1>0, <1>11, LastInLog DEF LogInv
<1>14. c.meta[i] = identMap[i] BY Zenon, <1>2, <1>12 DEF LastOK
<1>15. PrefixesOf(i)' = PrefixesOf(i) BY Zenon, <1>2, PrefixesKept
<1>16. ContentOK(d)'
  <2>1. ddl'[i] \notin {"drop", "gone"} BY Zenon, <1>3
  <2>2. maxPrefix \in PrefixesOf(i)' /\ c.meta[i] = identMap'[i] BY Zenon, <1>2, <1>5, <1>14, <1>15
  <2> QED BY Zenon, <1>1, <1>5, <1>6, <1>13, <2>1, <2>2, KeyAdded
<1>17. LogInv' BY Zenon, <1>2, <1>7, <1>11, <1>16, LogWrite
<1>18. d.meta[i] = identMap[i] /\ \A j \in Idents : j # i => d.meta[j] = c.meta[j] BY Zenon, <1>7, <1>14
<1>19. LastInv' BY <1>2, <1>3, <1>4, <1>7, <1>8, <1>12, <1>18, CreatingLast
<1> QED BY Zenon, <1>9, <1>10, <1>11, <1>17, <1>19

(* A synced write leaves nothing else. *)
LEMMA LogSynced ==
  ASSUME NEW c \in Content, log' = <<c>>, ContentOK(c)'
  PROVE  LogInv'
<1>1. SUFFICES ASSUME NEW k \in DOMAIN log' PROVE ContentOK(log[k])' BY Zenon DEF LogInv
<1>2. log'[k] = c BY Zenon, AfterSynced
<1> QED BY Zenon, <1>2, ContentAt

(* dropIdent removes the metadata and leaves markers, on disk at once. *)
LEMMA DropIdentStep ==
  ASSUME IndInv, NEW i \in Idents, DropIdent(i)
  PROVE  IndInv'
<1> USE DEF IndInv
<1>0. PICK c \in Content : c = db BY Zenon, LastInLog
<1>1. PICK d : d = DropPut(c, i, PrefixesOf(i)) BY Zenon
<1>2. /\ ddl[i] = "no" /\ identMap[i] # 0 /\ Unused(i) /\ log' = <<d>> /\ ddl' = [ddl EXCEPT ![i] = "drop"]
      /\ identMap' = identMap /\ maxPrefix' = maxPrefix /\ droppedPrefixes' = droppedPrefixes
      /\ unit' = unit
  BY Zenon, <1>0, <1>1 DEF DropIdent, memory, DropPut, WriteSynced, PrefixesToDrop
<1>3. ddl'[i] = "drop" /\ \A j \in Idents : j # i => ddl'[j] = ddl[j] BY Zenon, <1>2 DEF TypeOK
<1>4. PrefixesOf(i) \in SUBSET Prefixes /\ \A p \in PrefixesOf(i) : p <= maxPrefix
  BY Zenon, <1>2, PrefixFacts
<1>5. /\ d \in Content /\ d.marks = c.marks \cup PrefixesOf(i) /\ d.data = c.data
      /\ d.meta[i] = 0 /\ \A j \in Idents : j # i => d.meta[j] = c.meta[j]
  BY <1>1, <1>4, DropWritten
<1>6. log' \in Seq(Content) /\ log' # <<>> /\ db' = d BY Zenon, <1>2, <1>5, AfterSynced
<1>7. TypeOK' BY Zenon, <1>2, <1>6 DEF TypeOK, DropIdent, counterVars, history
<1>8. DdlInv'
  <2>1. \A j \in Idents : DdlOK(j) BY Zenon DEF DdlInv
  <2> QED BY Zenon, <1>2, <1>3, <2>1 DEF DdlInv, DdlOK
<1>9. \A j \in Idents : PrefixesOf(j)' = PrefixesOf(j) BY Zenon, <1>2, PrefixesKept
<1>10. OwnInv' BY Zenon, <1>2, <1>9 DEF OwnInv
<1>11. LastOK(c) BY Zenon, <1>0 DEF LastInv, LastOK
<1>12. ContentOK(c) BY Zenon, <1>0, LastInLog DEF LogInv
<1>13. \A j \in Idents : j # i => PrefixesOf(j) \cap PrefixesOf(i) = {} BY Zenon DEF OwnInv
<1>14. \A q \in Prefixes, j \in Idents : HasKey(d, j, q) => HasKey(c, j, q) BY Zenon, <1>5, SameKeys
<1>15. ASSUME NEW j \in Idents, j # i PROVE MetaOK(d, j)' /\ KeyOK(d, j)'
  <2>1. MetaOK(c, j) /\ KeyOK(c, j) BY Zenon, <1>12 DEF ContentOK
  <2>2. d.meta[j] = c.meta[j] /\ ddl'[j] = ddl[j] BY Zenon, <1>3, <1>5, <1>15
  <2>3. PrefixesAt(c.meta[j], j) \subseteq PrefixesOf(j)
    <3>1. CASE c.meta[j] = 0 BY Zenon, <3>1 DEF PrefixesAt
    <3>2. CASE c.meta[j] = identMap[j] BY Zenon, <3>2, PrefixFacts
    <3> QED BY Zenon, <2>1, <3>1, <3>2 DEF MetaOK
  <2>4. PrefixesAt(c.meta[j], j) \cap d.marks = {} BY Zenon, <1>5, <1>13, <1>15, <2>1, <2>3 DEF MetaOK
  <2>5. MetaOK(d, j)' BY Zenon, <1>2, <2>1, <2>2, <2>4 DEF MetaOK, PrefixesAt
  <2>6. PrefixesOf(j) \subseteq c.marks => PrefixesOf(j) \subseteq d.marks BY Zenon, <1>5
  <2>7. \A p : p \in c.marks => p \in d.marks BY Zenon, <1>5
  <2>8. \A q \in Prefixes : HasKey(d, j, q) => HasKey(c, j, q) BY Zenon, <1>14
  <2>9. KeyOK(d, j)' BY Zenon, <1>2, <1>9, <2>1, <2>2, <2>6, <2>7, <2>8 DEF KeyOK, HasKey
  <2> QED BY Zenon, <2>5, <2>9
<1>16. MetaOK(d, i)' BY Zenon, <1>5 DEF MetaOK, PrefixesAt
<1>17. KeyOK(d, i)'
  <2>1. KeyOK(c, i) BY Zenon, <1>12 DEF ContentOK
  <2>2. PrefixesOf(i) \subseteq d.marks BY Zenon, <1>5
  <2>3. \A q \in Prefixes : HasKey(d, i, q) => q \in PrefixesOf(i) BY Zenon, <1>2, <1>14, <2>1 DEF KeyOK
  <2> QED BY Zenon, <1>3, <1>9, <2>2, <2>3 DEF KeyOK, HasKey
<1>18. ContentOK(d)'
  <2>1. \A j \in Idents : MetaOK(d, j)' /\ KeyOK(d, j)' BY Zenon, <1>15, <1>16, <1>17
  <2>2. \A u \in Units : HasRecord(d, u) => HasRecord(c, u) BY Zenon, <1>5, SameKeys
  <2>3. \A u \in Units : unit'[u].pc # "done" => ~HasRecord(d, u) BY Zenon, <1>2, <1>12, <2>2 DEF ContentOK
  <2> QED BY Zenon, <2>1, <2>3 DEF ContentOK, HasRecord
<1>19. LogInv' BY Zenon, <1>2, <1>5, <1>18, LogSynced
<1>20. LastInv'
  <2>1. \A j \in Idents :
          /\ ddl'[j] \in {"key", "tracker", "trackerKey", "no"} => d.meta[j] = identMap'[j]
          /\ ddl'[j] # "drop" => PrefixesOf(j)' \cap d.marks = {}
    <3>1. SUFFICES ASSUME NEW j \in Idents
                   PROVE  /\ ddl'[j] \in {"key", "tracker", "trackerKey", "no"} => d.meta[j] = identMap'[j]
                          /\ ddl'[j] # "drop" => PrefixesOf(j)' \cap d.marks = {}
      BY Zenon
    <3>2. CASE j = i BY Zenon, <1>3, <3>2
    <3>3. CASE j # i
      <4>1. /\ ddl[j] \in {"key", "tracker", "trackerKey", "no"} => c.meta[j] = identMap[j]
            /\ ddl[j] # "drop" => PrefixesOf(j) \cap c.marks = {}
        BY Zenon, <1>11 DEF LastOK
      <4>2. PrefixesOf(j) \cap PrefixesOf(i) = {} BY Zenon, <1>13, <3>3
      <4>3. PrefixesOf(j)' = PrefixesOf(j) /\ d.meta[j] = c.meta[j] /\ ddl'[j] = ddl[j]
        BY Zenon, <1>3, <1>5, <1>9, <3>3
      <4> QED BY Zenon, <1>2, <1>5, <4>1, <4>2, <4>3
    <3> QED BY Zenon, <3>2, <3>3
  <2>2. \A p \in droppedPrefixes' \cup d.marks : p <= maxPrefix'
    BY Zenon, <1>2, <1>4, <1>5, <1>11 DEF LastOK
  <2>3. LastOK(d)' BY Zenon, <2>1, <2>2 DEF LastOK
  <2> QED BY Zenon, <1>6, <2>3, LastAt
<1>21. UnitInv' BY Zenon, <1>2, <1>3 DEF UnitInv, UnitOK, Unused
<1> QED BY Zenon, <1>7, <1>8, <1>10, <1>19, <1>20, <1>21

(* Then the filter is told, and the ident is gone. *)
LEMMA DropFinishStep ==
  ASSUME IndInv, NEW i \in Idents, DropFinish(i)
  PROVE  IndInv'
<1> USE DEF IndInv
<1>0. PICK c \in Content : c = db BY Zenon, LastInLog
<1>1. /\ ddl[i] = "drop" /\ log' = log /\ maxPrefix' = maxPrefix /\ unit' = unit
      /\ droppedPrefixes' = droppedPrefixes \cup PrefixesOf(i)
  BY Zenon DEF DropFinish, PrefixesToDrop
<1>2. /\ ddl'[i] = "gone" /\ identMap'[i] = 0
      /\ \A j \in Idents : j # i => identMap'[j] = identMap[j] /\ ddl'[j] = ddl[j]
  BY Zenon DEF DropFinish, TypeOK
<1>3. PrefixesOf(i) \subseteq Prefixes /\ \A p \in PrefixesOf(i) : p <= maxPrefix BY Zenon, <1>1, PrefixFacts
<1>4. TypeOK' BY <1>1, <1>3, EngineAssumption DEF TypeOK, DropFinish, history
<1>5. DdlInv'
  <2>1. \A j \in Idents : DdlOK(j) BY Zenon DEF DdlInv
  <2>2. 0 <= maxPrefix /\ 0 < MaxPrefix BY EngineAssumption DEF TypeOK
  <2> QED BY Zenon, <1>1, <1>2, <2>1, <2>2 DEF DdlInv, DdlOK
<1>6. PrefixesOf(i)' = {} /\ \A j \in Idents : j # i => PrefixesOf(j)' = PrefixesOf(j)
  BY Zenon, <1>2, PrefixesKept DEF PrefixesOf
<1>7. OwnInv'
  <2>1. \A a, b \in Idents : a # b => PrefixesOf(a)' \cap PrefixesOf(b)' = {}
    <3>1. SUFFICES ASSUME NEW a \in Idents, NEW b \in Idents, a # b
                   PROVE  PrefixesOf(a)' \cap PrefixesOf(b)' = {}
      BY Zenon
    <3>2. CASE a = i \/ b = i BY Zenon, <1>6, <3>2
    <3>3. CASE a # i /\ b # i BY Zenon, <1>6, <3>1, <3>3 DEF OwnInv
    <3> QED BY Zenon, <3>2, <3>3
  <2>2. \A j \in Idents : PrefixesOf(j)' \cap droppedPrefixes' = {}
    <3>1. SUFFICES ASSUME NEW j \in Idents PROVE PrefixesOf(j)' \cap droppedPrefixes' = {} BY Zenon
    <3>2. CASE j = i BY Zenon, <1>6, <3>2
    <3>3. CASE j # i
      <4>1. PrefixesOf(j) \cap PrefixesOf(i) = {} /\ PrefixesOf(j) \cap droppedPrefixes = {}
        BY Zenon, <3>3 DEF OwnInv
      <4>2. PrefixesOf(j)' = PrefixesOf(j) BY Zenon, <1>6, <3>3
      <4> QED BY Zenon, <1>1, <4>1, <4>2
    <3> QED BY Zenon, <3>2, <3>3
  <2> QED BY Zenon, <2>1, <2>2 DEF OwnInv
<1>8. ASSUME NEW d \in Content, ContentOK(d) PROVE ContentOK(d)'
  <2>1. MetaOK(d, i) /\ KeyOK(d, i) BY Zenon, <1>8 DEF ContentOK
  <2>2. d.meta[i] = 0 BY Zenon, <1>1, <2>1 DEF MetaOK
  <2>3. MetaOK(d, i)' BY Zenon, <2>2 DEF MetaOK, PrefixesAt
  <2>4. PrefixesOf(i) \subseteq d.marks /\ \A p \in Prefixes : HasKey(d, i, p) => p \in PrefixesOf(i)
    BY Zenon, <1>1, <2>1 DEF KeyOK
  <2>5. \A p \in Prefixes : HasKey(d, i, p) => p \in d.marks /\ p \in droppedPrefixes'
    BY Zenon, <1>1, <2>4
  <2>6. KeyOK(d, i)' BY Zenon, <1>2, <2>5 DEF KeyOK, HasKey
  <2>7. droppedPrefixes \subseteq droppedPrefixes' BY <1>1
  <2>8. \A u \in Units : unit[u].pc = "done" => unit'[u].pc = "done" BY Zenon, <1>1
  <2> QED BY Zenon, <1>2, <1>8, <2>3, <2>6, <2>7, <2>8, OneIdent
<1>9. LogInv' BY Zenon, <1>1, <1>8, LogSame
<1>10. LastInv'
  <2>1. LastOK(c) BY Zenon, <1>0 DEF LastInv, LastOK
  <2>2. \A j \in Idents :
          /\ ddl'[j] \in {"key", "tracker", "trackerKey", "no"} => c.meta[j] = identMap'[j]
          /\ ddl'[j] # "drop" => PrefixesOf(j)' \cap c.marks = {}
    <3>1. SUFFICES ASSUME NEW j \in Idents
                   PROVE  /\ ddl'[j] \in {"key", "tracker", "trackerKey", "no"} => c.meta[j] = identMap'[j]
                          /\ ddl'[j] # "drop" => PrefixesOf(j)' \cap c.marks = {}
      BY Zenon
    <3>2. CASE j = i BY Zenon, <1>2, <1>6, <3>2
    <3>3. CASE j # i
      <4>1. identMap'[j] = identMap[j] /\ ddl'[j] = ddl[j] /\ PrefixesOf(j)' = PrefixesOf(j)
        BY Zenon, <1>2, <1>6, <3>3
      <4> QED BY Zenon, <2>1, <4>1 DEF LastOK
    <3> QED BY Zenon, <3>2, <3>3
  <2>3. \A p \in droppedPrefixes' \cup c.marks : p <= maxPrefix'
    BY Zenon, <1>1, <1>3, <2>1 DEF LastOK
  <2>4. LastOK(c)' BY Zenon, <2>2, <2>3 DEF LastOK
  <2>5. db' = c BY Zenon, <1>0, <1>1 DEF db
  <2> QED BY Zenon, <2>4, <2>5, LastAt
<1>11. UnitInv'
  <2>1. ddl[i] # "no" BY Zenon, <1>1
  <2> QED BY Zenon, <1>1, <1>2, <2>1 DEF UnitInv, UnitOK
<1> QED BY Zenon, <1>4, <1>5, <1>7, <1>9, <1>10, <1>11

(* A compaction takes a key out of every content. *)
Compacted(c, p, key) == [c EXCEPT !.data[p] = @ \ {key}]

LEMMA KeyCompacted ==
  ASSUME NEW c \in Content, NEW p \in Prefixes, NEW key, NEW d, d = Compacted(c, p, key)
  PROVE  /\ d \in Content /\ d.marks = c.marks /\ d.meta = c.meta /\ d.stored = c.stored
         /\ \A q \in Prefixes : d.data[q] \subseteq c.data[q]
         /\ \A q \in Prefixes : q # p => d.data[q] = c.data[q]
         /\ \A q \in Prefixes, j \in Idents : HasKey(d, j, q) => HasKey(c, j, q)
         /\ \A u \in Units : HasRecord(d, u) => HasRecord(c, u)
<1>1. /\ d.marks = c.marks /\ d.meta = c.meta /\ d.stored = c.stored
      /\ d.data = [c.data EXCEPT ![p] = @ \ {key}]
      /\ d = [meta |-> d.meta, marks |-> d.marks, data |-> d.data, stored |-> d.stored]
  BY Zenon DEF Content, Compacted
<1>2. d.data = [q \in Prefixes |-> IF q = p THEN c.data[p] \ {key} ELSE c.data[q]]
  BY Zenon, <1>1, ContentFields
<1>3. d.data \in [Prefixes -> SUBSET (Idents \X (Units \cup {"key"}))]
  BY <1>2, ContentFields
<1>4. d \in Content BY Zenon, <1>1, <1>3, ContentFields DEF Content
<1>5. \A q \in Prefixes : d.data[q] \subseteq c.data[q] BY Zenon, <1>2
<1>6. \A q \in Prefixes : q # p => d.data[q] = c.data[q] BY Zenon, <1>2
<1>7. \A q \in Prefixes : \A x : x \in d.data[q] => x \in c.data[q] BY Zenon, <1>5
<1>8. \A q \in Prefixes, j \in Idents : HasKey(d, j, q) => HasKey(c, j, q) BY Zenon, <1>7 DEF HasKey
<1>9. \A u \in Units : HasRecord(d, u) => HasRecord(c, u) BY Zenon, <1>7 DEF HasRecord
<1> QED BY Zenon, <1>1, <1>4, <1>5, <1>6, <1>8, <1>9

LEMMA CompactStep ==
  ASSUME IndInv, NEW p \in Prefixes, NEW key, Compact(p, key)
  PROVE  IndInv'
<1> USE DEF IndInv
<1>1. /\ log' = [k \in DOMAIN log |-> Compacted(log[k], p, key)]
      /\ identMap' = identMap /\ maxPrefix' = maxPrefix /\ droppedPrefixes' = droppedPrefixes
      /\ unit' = unit /\ ddl' = ddl
  BY Zenon DEF Compact, memory, Compacted
<1>2. \A k \in DOMAIN log : log[k] \in Content BY Zenon, LastInLog
<1>3. DOMAIN log' = DOMAIN log /\ \A k \in DOMAIN log : log'[k] = Compacted(log[k], p, key) BY Zenon, <1>1
<1>4. \A k \in DOMAIN log : Compacted(log[k], p, key) \in Content BY <1>2, KeyCompacted
<1>5. log' \in Seq(Content) /\ log' # <<>> /\ Len(log') = Len(log)
  <2>1. log \in Seq(Content) /\ log # <<>> BY Zenon DEF TypeOK
  <2> QED BY <1>3, <1>4, <2>1, <1>1
<1>6. TypeOK' BY Zenon, <1>1, <1>5 DEF TypeOK, Compact, counterVars, history
<1>7. DdlInv' /\ OwnInv' BY Zenon, <1>1, MemoryKept
<1>8. \A e \in Content : ContentOK(e) => ContentOK(e)'
  <2>1. \A u \in Units : unit[u].pc = "done" => unit'[u].pc = "done" BY Zenon, <1>1
  <2> QED BY Zenon, <1>1, <2>1, ContentKept
<1>9. LogInv'
  <2>1. SUFFICES ASSUME NEW k \in DOMAIN log PROVE ContentOK(log[k])' BY Zenon, <1>3 DEF LogInv
  <2>2. PICK c \in Content : c = log[k] BY Zenon, <1>2
  <2>3. PICK d : d = Compacted(c, p, key) BY Zenon
  <2>4. ContentOK(c)' BY Zenon, <1>8, <2>2 DEF LogInv
  <2>5. /\ d.marks = c.marks /\ d.meta = c.meta
        /\ \A q \in Prefixes, j \in Idents : HasKey(d, j, q) => HasKey(c, j, q)
        /\ \A u \in Units : HasRecord(d, u) => HasRecord(c, u)
    BY <2>3, KeyCompacted
  <2>6. ContentOK(d)' BY Zenon, <2>4, <2>5, NoMoreKeys
  <2> QED BY Zenon, <1>3, <2>2, <2>3, <2>6, ContentAt
<1>10. LastInv'
  <2>1. PICK c \in Content : c = db BY Zenon, LastInLog
  <2>2. PICK d : d = Compacted(c, p, key) BY Zenon
  <2>3. db' = d BY Zenon, <1>3, <1>5, <2>1, <2>2, LastInLog DEF db
  <2>4. d.marks = c.marks /\ d.meta = c.meta BY <2>2, KeyCompacted
  <2>5. LastOK(c) BY Zenon, <2>1 DEF LastInv, LastOK
  <2>6. LastOK(c)' BY Zenon, <1>1, <2>5, LastKept
  <2>7. LastOK(d)' BY Zenon, <2>4, <2>6 DEF LastOK
  <2> QED BY Zenon, <2>3, <2>7, LastAt
<1>11. UnitInv' BY Zenon, <1>1, UnitsKept
<1> QED BY Zenon, <1>6, <1>7, <1>9, <1>10, <1>11

(* The log is synced. *)
LEMMA SyncLogStep ==
  ASSUME IndInv, SyncLog
  PROVE  IndInv'
<1> USE DEF IndInv
<1>0. PICK c \in Content : c = db BY Zenon, LastInLog
<1>1. /\ log' = <<c>>
      /\ identMap' = identMap /\ maxPrefix' = maxPrefix /\ droppedPrefixes' = droppedPrefixes
      /\ unit' = unit /\ ddl' = ddl
  BY Zenon, <1>0 DEF SyncLog, memory
<1>2. log' \in Seq(Content) /\ log' # <<>> /\ db' = c BY Zenon, <1>1, AfterSynced
<1>3. TypeOK' BY Zenon, <1>1, <1>2 DEF TypeOK, SyncLog, counterVars, history
<1>4. DdlInv' /\ OwnInv' BY Zenon, <1>1, MemoryKept
<1>5. ContentOK(c)'
  <2>1. \A u \in Units : unit[u].pc = "done" => unit'[u].pc = "done" BY Zenon, <1>1
  <2>2. ContentOK(c) BY Zenon, <1>0, LastInLog DEF LogInv
  <2> QED BY Zenon, <1>1, <2>1, <2>2, ContentKept
<1>6. LogInv' BY Zenon, <1>1, <1>5, LogSynced
<1>7. LastInv'
  <2>1. LastOK(c) BY Zenon, <1>0 DEF LastInv, LastOK
  <2> QED BY Zenon, <1>1, <1>2, <2>1, LastKept, LastAt
<1>8. UnitInv' BY Zenon, <1>1, UnitsKept
<1> QED BY Zenon, <1>3, <1>4, <1>6, <1>7, <1>8

(* Steps that write nothing to the log, and leave idents alone. *)
LEMMA NothingWritten ==
  ASSUME IndInv, log' = log, identMap' = identMap, maxPrefix' = maxPrefix,
         droppedPrefixes' = droppedPrefixes, ddl' = ddl,
         \A u \in Units : unit[u].pc = "done" => unit'[u].pc = "done"
  PROVE  DdlInv' /\ OwnInv' /\ LogInv' /\ LastInv'
<1> USE DEF IndInv
<1>1. DdlInv' /\ OwnInv' BY Zenon, MemoryKept
<1>2. LogInv' BY Zenon, ContentKept, LogSame
<1>3. LastInv'
  <2>1. PICK c \in Content : c = db BY Zenon, LastInLog
  <2>2. LastOK(c) BY Zenon, <2>1 DEF LastInv, LastOK
  <2>3. db' = c BY Zenon, <2>1 DEF db
  <2> QED BY Zenon, <2>2, <2>3, LastKept, LastAt
<1> QED BY Zenon, <1>1, <1>2, <1>3

(* Steps that write a content with no other metadata and markers. *)
LEMMA SomethingWritten ==
  ASSUME IndInv, NEW c \in Content, c = db, NEW d \in Content, Write(d), d.meta = c.meta, d.marks = c.marks,
         identMap' = identMap, maxPrefix' = maxPrefix, droppedPrefixes' = droppedPrefixes, ddl' = ddl,
         \A u \in Units : unit[u].pc = "done" => unit'[u].pc = "done",
         ContentOK(c)' => ContentOK(d)'
  PROVE  DdlInv' /\ OwnInv' /\ LogInv' /\ LastInv' /\ log' \in Seq(Content) /\ log' # <<>>
<1> USE DEF IndInv
<1>1. DdlInv' /\ OwnInv' BY Zenon, MemoryKept
<1>2. log' \in Seq(Content) /\ log' # <<>> /\ db' = d BY Zenon, AfterWrite
<1>3. \A e \in Content : ContentOK(e) => ContentOK(e)' BY Zenon, ContentKept
<1>4. ContentOK(c) BY Zenon, LastInLog DEF LogInv
<1>5. ContentOK(d)' BY Zenon, <1>3, <1>4
<1>6. LogInv' BY Zenon, <1>3, <1>5, LogWrite
<1>7. LastInv'
  <2>1. LastOK(c) BY Zenon DEF LastInv, LastOK
  <2>2. LastOK(c)' BY Zenon, <2>1, LastKept
  <2>3. LastOK(d)' BY Zenon, <2>2 DEF LastOK
  <2> QED BY Zenon, <1>2, <2>3, LastAt
<1> QED BY Zenon, <1>1, <1>2, <1>6, <1>7

(* The fields of a unit of work, and the records that its steps make. *)
LEMMA UnitFields ==
  ASSUME TypeOK, NEW u \in Units
  PROVE  /\ unit[u] \in UnitOfWork /\ unit[u].ident \in Idents \cup {Oplog}
         /\ unit[u].value \in Nat /\ unit[u].puts \in Counts
<1>1. unit[u] \in UnitOfWork BY Zenon DEF TypeOK
<1> QED BY Zenon, <1>1 DEF UnitOfWork

LEMMA NoCountersType == NoCounters \in Counts /\ NoUnit \in UnitOfWork /\ NoUnit.pc = "idle"
<1>1. NoCounters \in Counts BY Zenon DEF NoCounters, Counts
<1> QED BY Zenon, <1>1 DEF NoUnit, UnitOfWork

(* A unit of work changes, not one that is done. *)
LEMMA UnitChanged ==
  ASSUME TypeOK, NEW u \in Units, NEW r \in UnitOfWork, unit' = [unit EXCEPT ![u] = r], unit[u].pc # "done"
  PROVE  /\ unit' \in [Units -> UnitOfWork] /\ unit'[u] = r /\ \A v \in Units : v # u => unit'[v] = unit[v]
         /\ \A v \in Units : unit[v].pc = "done" => unit'[v].pc = "done"
<1>1. unit \in [Units -> UnitOfWork] BY Zenon DEF TypeOK
<1>2. unit' \in [Units -> UnitOfWork] BY Zenon, <1>1
<1>3. unit'[u] = r /\ \A v \in Units : v # u => unit'[v] = unit[v] BY Zenon, <1>1
<1>4. \A v \in Units : unit[v].pc = "done" => unit'[v].pc = "done" BY Zenon, <1>3
<1> QED BY Zenon, <1>2, <1>3, <1>4

(* The other units of work are as they were. *)
LEMMA UnitsButOne ==
  ASSUME UnitInv, NEW u \in Units, \A v \in Units : v # u => unit'[v] = unit[v],
         identMap' = identMap, ddl' = ddl, UnitOK(u)'
  PROVE  UnitInv'
<1>1. SUFFICES ASSUME NEW v \in Units PROVE UnitOK(v)' BY Zenon DEF UnitInv
<1>2. CASE v = u BY Zenon, <1>2
<1>3. CASE v # u BY Zenon, <1>3 DEF UnitInv, UnitOK
<1> QED BY Zenon, <1>2, <1>3

(* A commit counts its record. *)
LEMMA AddDeltaStep ==
  ASSUME IndInv, NEW u \in Units, NEW i \in Idents, AddDelta(u, i)
  PROVE  IndInv'
<1> USE DEF IndInv
<1>1. PICK r : r = [NoUnit EXCEPT !.pc = "added", !.ident = i] BY Zenon
<1>2. r \in UnitOfWork /\ r.pc = "added" /\ r.ident = i BY Zenon, <1>1, NoCountersType DEF UnitOfWork
<1>3. /\ unit[u].pc = "idle" /\ identMap[i] # 0 /\ ddl[i] = "no" /\ log' = log
      /\ identMap' = identMap /\ maxPrefix' = maxPrefix /\ droppedPrefixes' = droppedPrefixes
      /\ ddl' = ddl /\ unit' = [unit EXCEPT ![u] = r]
  BY Zenon, <1>1 DEF AddDelta, memory
<1>4. unit[u].pc # "done" BY <1>3
<1>5. /\ unit' \in [Units -> UnitOfWork] /\ unit'[u] = r /\ \A v \in Units : v # u => unit'[v] = unit[v]
      /\ \A v \in Units : unit[v].pc = "done" => unit'[v].pc = "done"
  BY Zenon, <1>2, <1>3, <1>4, UnitChanged
<1>6. numRecords' \in [Idents -> Nat] /\ overlapped' \in BOOLEAN BY DEF AddDelta, TypeOK
<1>7. TypeOK' BY Zenon, <1>3, <1>5, <1>6 DEF TypeOK, AddDelta
<1>8. DdlInv' /\ OwnInv' /\ LogInv' /\ LastInv' BY Zenon, <1>3, <1>5, NothingWritten
<1>9. UnitOK(u)' BY Zenon, <1>2, <1>3, <1>5 DEF UnitOK
<1>10. UnitInv' BY Zenon, <1>3, <1>5, <1>9, UnitsButOne
<1> QED BY Zenon, <1>7, <1>8, <1>10

LEMMA LoadValueStep ==
  ASSUME IndInv, NEW u \in Units, LoadValue(u)
  PROVE  IndInv'
<1> USE DEF IndInv
<1>1. PICK r : r = [unit[u] EXCEPT !.pc = "loaded", !.value = numRecords[unit[u].ident]] BY Zenon
<1>2. /\ unit[u].pc = "added" /\ log' = log
      /\ identMap' = identMap /\ maxPrefix' = maxPrefix /\ droppedPrefixes' = droppedPrefixes
      /\ ddl' = ddl
  BY Zenon DEF LoadValue, memory
<1>3. UnitOK(u) /\ unit[u].ident \in Idents BY Zenon, <1>2 DEF UnitInv, UnitOK
<1>4. numRecords[unit[u].ident] \in Nat BY Zenon, <1>3 DEF TypeOK
<1>5. r \in UnitOfWork /\ r.pc = "loaded" /\ r.ident = unit[u].ident
  BY Zenon, <1>1, <1>4, UnitFields DEF UnitOfWork
<1>6. unit' = [unit EXCEPT ![u] = r] BY Zenon, <1>1 DEF LoadValue, TypeOK
<1>7. unit[u].pc # "done" BY <1>2
<1>8. /\ unit' \in [Units -> UnitOfWork] /\ unit'[u] = r /\ \A v \in Units : v # u => unit'[v] = unit[v]
      /\ \A v \in Units : unit[v].pc = "done" => unit'[v].pc = "done"
  BY Zenon, <1>5, <1>6, <1>7, UnitChanged
<1>9. TypeOK' BY Zenon, <1>2, <1>8 DEF TypeOK, LoadValue, counterVars, history
<1>10. DdlInv' /\ OwnInv' /\ LogInv' /\ LastInv' BY Zenon, <1>2, <1>8, NothingWritten
<1>11. UnitOK(u)' BY Zenon, <1>2, <1>3, <1>5, <1>8 DEF UnitOK
<1>12. UnitInv' BY Zenon, <1>2, <1>8, <1>11, UnitsButOne
<1> QED BY Zenon, <1>9, <1>10, <1>12

(* RocksCounterManager::updateCounter. *)
LEMMA UpdateCounterStep ==
  ASSUME IndInv, NEW u \in Units, UpdateCounter(u)
  PROVE  IndInv'
<1> USE DEF IndInv
<1> DEFINE i == unit[u].ident
           mine == [counters EXCEPT ![i] = unit[u].value]
           due == syncing = NoCounters /\ syncCounter + 1 >= kSyncEvery
           puts == IF crashSafe THEN [NoCounters EXCEPT ![i] = unit[u].value]
                                ELSE IF due THEN mine ELSE NoCounters
<1>1. PICK r : r = [unit[u] EXCEPT !.pc = "updated", !.puts = puts] BY Zenon
<1>2. /\ unit[u].pc = "loaded" /\ log' = log
      /\ identMap' = identMap /\ maxPrefix' = maxPrefix /\ droppedPrefixes' = droppedPrefixes
      /\ ddl' = ddl /\ unit' = [unit EXCEPT ![u].pc = "updated", ![u].puts = puts]
  BY Zenon DEF UpdateCounter, memory
<1>3. UnitOK(u) /\ i \in Idents BY Zenon, <1>2 DEF UnitInv, UnitOK
<1>4. unit[u].value \in Nat \cup {NoCount} BY Zenon, UnitFields
<1>5. mine \in Counts
  <2>1. counters \in Counts BY Zenon DEF TypeOK
  <2> QED BY Zenon, <1>3, <1>4, <2>1 DEF Counts
<1>6. puts \in Counts
  <2>1. [NoCounters EXCEPT ![i] = unit[u].value] \in Counts BY Zenon, <1>3, <1>4, NoCountersType DEF Counts
  <2> HIDE DEF mine, due
  <2> QED BY Zenon, <1>5, <2>1, NoCountersType
<1>7. counters' \in Counts /\ syncCounter' \in Nat
  <2>1. \/ counters' = counters /\ syncCounter' = syncCounter
        \/ counters' \in {NoCounters, mine} /\ syncCounter' \in {0, syncCounter + 1}
    BY Zenon DEF UpdateCounter
  <2> HIDE DEF mine
  <2> QED BY <1>5, <2>1, NoCountersType DEF TypeOK
<1>8. unit' = [unit EXCEPT ![u] = r]
  <2> HIDE DEF puts
  <2> QED BY Zenon, <1>1, <1>2 DEF TypeOK
<1>9. r \in UnitOfWork /\ r.pc = "updated" /\ r.ident = i
  <2> HIDE DEF puts
  <2> QED BY Zenon, <1>1, <1>6, UnitFields DEF UnitOfWork
<1>10. unit[u].pc # "done" BY Zenon, <1>2
<1>11. /\ unit' \in [Units -> UnitOfWork] /\ unit'[u] = r /\ \A v \in Units : v # u => unit'[v] = unit[v]
       /\ \A v \in Units : unit[v].pc = "done" => unit'[v].pc = "done"
  BY Zenon, <1>8, <1>9, <1>10, UnitChanged
<1>12. /\ syncing' = syncing /\ numRecords' = numRecords /\ restarts' = restarts
       /\ overlapped' = overlapped /\ crashed' = crashed /\ crashSafe' = crashSafe
  BY Zenon DEF UpdateCounter, history
<1> HIDE DEF puts, mine, due
<1>13. TypeOK' BY Zenon, <1>2, <1>7, <1>11, <1>12 DEF TypeOK
<1>14. DdlInv' /\ OwnInv' /\ LogInv' /\ LastInv' BY Zenon, <1>2, <1>11, NothingWritten
<1>15. UnitOK(u)' BY Zenon, <1>2, <1>3, <1>9, <1>11 DEF UnitOK
<1>16. UnitInv' BY Zenon, <1>2, <1>11, <1>15, UnitsButOne
<1> QED BY Zenon, <1>13, <1>14, <1>16

(* The batch of a unit of work is written. *)
LEMMA WriteBatchStep ==
  ASSUME IndInv, NEW u \in Units, WriteBatch(u)
  PROVE  IndInv'
<1> USE DEF IndInv
<1> DEFINE i == unit[u].ident
<1>0. PICK c \in Content : c = db BY Zenon, LastInLog
<1>1. PICK a : a = Added(c, identMap[i], <<i, u>>) BY Zenon
<1>2. PICK d : d = Stored(a, unit[u].puts) BY Zenon
<1>3. PICK r : r = [NoUnit EXCEPT !.pc = "done"] BY Zenon
<1>4. /\ unit[u].pc = "updated" /\ Write(d) /\ unit' = [unit EXCEPT ![u] = r]
      /\ identMap' = identMap /\ maxPrefix' = maxPrefix /\ droppedPrefixes' = droppedPrefixes
      /\ ddl' = ddl
  BY Zenon, <1>0, <1>1, <1>2, <1>3 DEF WriteBatch, memory
<1>5. i \in Idents /\ identMap[i] # 0 /\ ddl[i] = "no" BY Zenon, <1>4 DEF UnitInv, UnitOK
<1>6. r \in UnitOfWork /\ r.pc = "done" BY Zenon, <1>3, NoCountersType DEF UnitOfWork
<1>7. unit[u].pc # "done" /\ unit[u].puts \in Counts BY Zenon, <1>4, UnitFields
<1>8. /\ unit' \in [Units -> UnitOfWork] /\ unit'[u] = r /\ \A v \in Units : v # u => unit'[v] = unit[v]
      /\ \A v \in Units : unit[v].pc = "done" => unit'[v].pc = "done"
  BY Zenon, <1>4, <1>6, <1>7, UnitChanged
<1>9. identMap[i] \in Prefixes /\ identMap[i] \in PrefixesOf(i) BY Zenon, <1>5, PrefixFacts
<1>10. PICK p \in Prefixes : p = identMap[i] BY Zenon, <1>9
<1>11. u \in Units \cup {"key"} /\ a = Added(c, p, <<i, u>>) BY Zenon, <1>1, <1>10
<1>12. PICK j \in Idents : j = i BY Zenon, <1>5
<1> HIDE DEF i
<1>13. a = Added(c, p, <<j, u>>) BY Zenon, <1>11, <1>12
<1>14. a \in Content /\ a.meta = c.meta /\ a.marks = c.marks BY <1>11, <1>13, KeyWritten
<1>15. d \in Content /\ d.meta = a.meta /\ d.marks = a.marks /\ d.data = a.data
  BY <1>2, <1>7, <1>14, CountersWritten
<1>16. ASSUME ContentOK(c)' PROVE ContentOK(d)'
  <2>1. LastOK(c) BY Zenon, <1>0 DEF LastInv, LastOK
  <2>2. c.meta[j] = identMap'[j] /\ ddl'[j] \notin {"drop", "gone"}
    BY Zenon, <1>4, <1>5, <1>12, <2>1 DEF LastOK
  <2>3. p \in PrefixesOf(j)' BY Zenon, <1>4, <1>9, <1>10, <1>12, PrefixesKept
  <2>4. unit'[u].pc = "done" BY Zenon, <1>6, <1>8
  <2>5. ContentOK(a)' BY Zenon, <1>11, <1>13, <1>16, <2>2, <2>3, <2>4, KeyAdded
  <2> QED BY Zenon, <1>15, <2>5, SameKeys, NoMoreKeys
<1>17. DdlInv' /\ OwnInv' /\ LogInv' /\ LastInv' /\ log' \in Seq(Content) /\ log' # <<>>
  <2>1. d.meta = c.meta /\ d.marks = c.marks BY Zenon, <1>14, <1>15
  <2> QED BY Zenon, <1>0, <1>4, <1>8, <1>15, <1>16, <2>1, SomethingWritten
<1>18. TypeOK' BY Zenon, <1>4, <1>8, <1>17 DEF TypeOK, WriteBatch, counterVars, history
<1>19. UnitOK(u)' BY Zenon, <1>6, <1>8 DEF UnitOK
<1>20. UnitInv' BY Zenon, <1>4, <1>8, <1>19, UnitsButOne
<1> QED BY Zenon, <1>17, <1>18, <1>20

(* RocksCounterManager::sync takes the counters, *)
LEMMA SyncStartStep ==
  ASSUME IndInv, SyncStart
  PROVE  IndInv'
<1> USE DEF IndInv
<1>1. /\ log' = log /\ unit' = unit
      /\ identMap' = identMap /\ maxPrefix' = maxPrefix /\ droppedPrefixes' = droppedPrefixes
      /\ ddl' = ddl
  BY Zenon DEF SyncStart, memory
<1>2. /\ counters' = NoCounters /\ syncing' = counters /\ syncCounter' = 0 /\ overlapped' \in BOOLEAN
      /\ numRecords' = numRecords /\ crashSafe' = crashSafe /\ restarts' = restarts /\ crashed' = crashed
  BY Zenon DEF SyncStart, TypeOK
<1>3. TypeOK' BY Zenon, <1>1, <1>2, NoCountersType DEF TypeOK
<1>4. DdlInv' /\ OwnInv' /\ LogInv' /\ LastInv' BY Zenon, <1>1, NothingWritten
<1>5. UnitInv' BY Zenon, <1>1, UnitsKept
<1> QED BY Zenon, <1>3, <1>4, <1>5

(* and writes them. *)
LEMMA SyncWriteStep ==
  ASSUME IndInv, SyncWrite
  PROVE  IndInv'
<1> USE DEF IndInv
<1>0. PICK c \in Content : c = db BY Zenon, LastInLog
<1>1. PICK d : d = Stored(c, syncing) BY Zenon
<1>2. /\ Write(d) /\ unit' = unit
      /\ identMap' = identMap /\ maxPrefix' = maxPrefix /\ droppedPrefixes' = droppedPrefixes
      /\ ddl' = ddl
  BY Zenon, <1>0, <1>1 DEF SyncWrite, memory
<1>3. syncing \in Counts BY Zenon DEF TypeOK
<1>4. d \in Content /\ d.meta = c.meta /\ d.marks = c.marks /\ d.data = c.data
  BY <1>1, <1>3, CountersWritten
<1>5. ContentOK(c)' => ContentOK(d)' BY Zenon, <1>4, SameKeys, NoMoreKeys
<1>6. DdlInv' /\ OwnInv' /\ LogInv' /\ LastInv' /\ log' \in Seq(Content) /\ log' # <<>>
  <2>1. \A v \in Units : unit[v].pc = "done" => unit'[v].pc = "done" BY Zenon, <1>2
  <2> QED BY Zenon, <1>0, <1>2, <1>4, <1>5, <2>1, SomethingWritten
<1>7. TypeOK' BY Zenon, <1>2, <1>6, NoCountersType DEF TypeOK, SyncWrite, history
<1>8. UnitInv' BY Zenon, <1>2, UnitsKept
<1> QED BY Zenon, <1>6, <1>7, <1>8
-----------------------------------------------------------------------------
(* That the constructor of RocksEngine finds the largest prefix in use. *)
LargestFound(c) ==
  /\ LargestPrefix(c) \in 0..MaxPrefix
  /\ \A i \in Idents : c.meta[i] <= LargestPrefix(c)
  /\ \A p \in Prefixes : c.data[p] # {} => p <= LargestPrefix(c)

(* The engine opens what is in the database, and nothing is being committed. *)
LEMMA OpenStep ==
  ASSUME IndInv, NEW c \in Content, ContentOK(c), LargestFound(c), Open(c),
         \A u \in Units : unit'[u].pc \in {"idle", "done"},
         \A u \in Units : unit'[u].pc # "done" => ~HasRecord(c, u),
         unit' \in [Units -> UnitOfWork], crashSafe' = crashSafe, overlapped' = overlapped,
         crashed' \in BOOLEAN
  PROVE  IndInv'
<1> USE DEF IndInv
<1> DEFINE alive == {p \in c.marks : c.data[p] # {}}
<1>1. /\ identMap' = c.meta /\ maxPrefix' = LargestPrefix(c) + 1 /\ droppedPrefixes' = alive
      /\ ddl' = [i \in Idents |-> IF c.meta[i] = 0 /\ ddl[i] \in {"drop", "gone"} THEN "gone" ELSE "no"]
      /\ numRecords' = LoadCounters(c)
      /\ counters' = NoCounters /\ syncCounter' = 0 /\ syncing' = NoCounters
      /\ restarts' = restarts + 1
  BY Zenon DEF Open
<1>2. alive \subseteq c.marks /\ alive \in SUBSET Prefixes BY Zenon, ContentFields
<1>3. PICK e : e = MarksPut(c, alive) BY Zenon
<1>4. log' = IF alive = c.marks THEN <<c>> ELSE <<c, e>> BY Zenon, <1>3 DEF Open, MarksPut
<1>5. \A p \in alive : c.data[p] # {} BY Zenon
<1>6. \A p \in Prefixes, j \in Idents : HasKey(c, j, p) /\ p \in c.marks => p \in alive
  BY Zenon DEF HasKey
<1> HIDE DEF alive
<1>7. e \in Content /\ e.marks = alive /\ e.data = c.data /\ e.meta = c.meta
  BY <1>2, <1>3, MarksWritten
<1>8. /\ LargestPrefix(c) \in 0..MaxPrefix /\ \A i \in Idents : c.meta[i] <= LargestPrefix(c)
      /\ \A p \in Prefixes : c.data[p] # {} => p <= LargestPrefix(c)
  BY Zenon DEF LargestFound
<1>9. /\ c.meta \in [Idents -> 0..MaxPrefix] /\ c.stored \in [Idents -> Nat] /\ MaxPrefix \in Nat
  BY Zenon, ContentFields, EngineAssumption
<1>10. log' \in Seq(Content) /\ log' # <<>> /\ (\A k \in DOMAIN log' : log'[k] \in {c, e})
  BY <1>4, <1>7
<1>11. PICK l \in {c, e} : db' = l /\ l.marks = alive /\ l.meta = c.meta
  <2>1. CASE alive = c.marks BY Zenon, <1>4, <2>1 DEF db
  <2>2. CASE alive # c.marks BY Zenon, <1>4, <1>7, <2>2 DEF db
  <2> QED BY Zenon, <2>1, <2>2
<1>12. \A j \in Idents : /\ ddl'[j] \in {"no", "gone"}
                         /\ ddl'[j] = "gone" => c.meta[j] = 0 /\ ddl[j] \in {"drop", "gone"}
                         /\ ddl'[j] = "no" => c.meta[j] # 0 \/ ddl[j] \notin {"drop", "gone"}
  BY Zenon, <1>1
<1>13. TypeOK'
  <2>1. ddl' \in [Idents -> {"no", "meta", "key", "tracker", "trackerKey", "drop", "gone"}] BY Zenon, <1>1
  <2>2. numRecords' \in [Idents -> Nat] BY Zenon, <1>1, <1>9 DEF LoadCounters
  <2>3. maxPrefix' \in 0..MaxPrefix + 1 BY <1>1, <1>8, <1>9
  <2>4. restarts' \in Nat /\ crashSafe' \in BOOLEAN /\ overlapped' \in BOOLEAN BY <1>1 DEF TypeOK
  <2> QED BY Zenon, <1>1, <1>2, <1>9, <1>10, <2>1, <2>2, <2>3, <2>4, NoCountersType DEF TypeOK
<1>14. \A j \in Idents : MetaOK(c, j) /\ KeyOK(c, j) BY Zenon DEF ContentOK
<1>15. \A j \in Idents : PrefixesOf(j)' = PrefixesAt(c.meta[j], j)
  BY Zenon, <1>1 DEF PrefixesOf, PrefixesAt
<1>16. \A j \in Idents : /\ c.meta[j] = identMap[j] => PrefixesOf(j)' = PrefixesOf(j)
                         /\ PrefixesOf(j)' \subseteq PrefixesOf(j)
  <2>1. SUFFICES ASSUME NEW j \in Idents PROVE /\ c.meta[j] = identMap[j] => PrefixesOf(j)' = PrefixesOf(j)
                                               /\ PrefixesOf(j)' \subseteq PrefixesOf(j)
    BY Zenon
  <2>2. CASE c.meta[j] = identMap[j]
    <3>1. PrefixesOf(j)' = PrefixesOf(j) BY Zenon, <1>1, <2>2, PrefixesKept
    <3> QED BY Zenon, <3>1
  <2>3. CASE c.meta[j] # identMap[j]
    <3>1. c.meta[j] = 0 BY Zenon, <1>14, <2>3 DEF MetaOK
    <3>2. PrefixesOf(j)' = {} BY Zenon, <1>15, <3>1 DEF PrefixesAt
    <3> QED BY Zenon, <2>3, <3>2
  <2> QED BY Zenon, <2>2, <2>3
<1>17. DdlInv'
  <2>1. SUFFICES ASSUME NEW j \in Idents PROVE DdlOK(j)' BY Zenon DEF DdlInv
  <2>2. c.meta[j] \in Nat /\ c.meta[j] <= LargestPrefix(c) /\ LargestPrefix(c) \in Nat
    BY <1>8, <1>9
  <2>3. c.meta[j] < MaxPrefix
    <3>1. c.meta[j] \in {0, identMap[j]} BY Zenon, <1>14 DEF MetaOK
    <3>2. identMap[j] < MaxPrefix BY Zenon DEF DdlInv, DdlOK
    <3> QED BY <3>1, <3>2, EngineAssumption
  <2>4. identMap'[j] = c.meta[j] /\ maxPrefix' = LargestPrefix(c) + 1 BY Zenon, <1>1
  <2>5. ddl'[j] \in {"no", "gone"} /\ (ddl'[j] = "gone" => c.meta[j] = 0) BY Zenon, <1>12
  <2> QED BY <2>2, <2>3, <2>4, <2>5 DEF DdlOK
<1>18. OwnInv'
  <2>1. \A a, b \in Idents : a # b => PrefixesOf(a)' \cap PrefixesOf(b)' = {}
    <3>1. SUFFICES ASSUME NEW a \in Idents, NEW b \in Idents, a # b
                   PROVE  PrefixesOf(a)' \cap PrefixesOf(b)' = {}
      BY Zenon
    <3>2. PrefixesOf(a) \cap PrefixesOf(b) = {} BY Zenon, <3>1 DEF OwnInv
    <3>3. PrefixesOf(a)' \subseteq PrefixesOf(a) /\ PrefixesOf(b)' \subseteq PrefixesOf(b) BY Zenon, <1>16
    <3> QED BY Zenon, <3>2, <3>3
  <2>2. \A j \in Idents : PrefixesOf(j)' \cap droppedPrefixes' = {}
    <3>1. SUFFICES ASSUME NEW j \in Idents PROVE PrefixesOf(j)' \cap droppedPrefixes' = {} BY Zenon
    <3>2. PrefixesAt(c.meta[j], j) \cap c.marks = {} BY Zenon, <1>14 DEF MetaOK
    <3>3. PrefixesOf(j)' \cap c.marks = {} BY Zenon, <1>15, <3>2
    <3> QED BY Zenon, <1>1, <1>2, <3>3
  <2> QED BY Zenon, <2>1, <2>2 DEF OwnInv
<1>19. ASSUME NEW d, d.meta = c.meta, d.data = c.data, alive \subseteq d.marks, d.marks \subseteq c.marks
       PROVE  ContentOK(d)'
  <2>1. \A p \in Prefixes, j \in Idents : HasKey(d, j, p) => HasKey(c, j, p) BY Zenon, <1>19, SameKeys
  <2>2. ASSUME NEW j \in Idents PROVE MetaOK(d, j)'
    <3>1. PrefixesAt(c.meta[j], j) \cap c.marks = {} BY Zenon, <1>14 DEF MetaOK
    <3>2. PrefixesAt(d.meta[j], j) \cap d.marks = {} BY Zenon, <1>19, <3>1
    <3>3. d.meta[j] = identMap'[j] BY Zenon, <1>1, <1>19
    <3>4. ddl'[j] \in {"meta", "drop", "gone"} => d.meta[j] = 0 BY Zenon, <1>12, <1>19
    <3>5. PrefixesAt(d.meta[j], j)' = PrefixesAt(d.meta[j], j) BY Zenon DEF PrefixesAt
    <3> QED BY Zenon, <3>2, <3>3, <3>4, <3>5 DEF MetaOK
  <2>3. ASSUME NEW j \in Idents PROVE KeyOK(d, j)'
    <3>1. KeyOK(c, j) /\ MetaOK(c, j) BY Zenon, <1>14
    <3>2. ASSUME NEW p \in Prefixes, HasKey(d, j, p)
          PROVE  /\ ddl'[j] # "gone" => p \in PrefixesOf(j)'
                 /\ ddl'[j] = "gone" => p \in d.marks /\ p \in droppedPrefixes'
      <4>1. HasKey(c, j, p) BY Zenon, <2>1, <3>2
      <4>2. CASE ddl[j] \in {"drop", "gone"}
        <5>1. c.meta[j] = 0 BY Zenon, <3>1, <4>2 DEF MetaOK
        <5>2. ddl'[j] = "gone" BY Zenon, <1>12, <4>2, <5>1
        <5>3. p \in c.marks BY Zenon, <3>1, <4>1, <4>2 DEF KeyOK
        <5>4. p \in alive BY Zenon, <1>6, <4>1, <5>3
        <5> QED BY Zenon, <1>1, <1>19, <5>2, <5>4
      <4>3. CASE ddl[j] \notin {"drop", "gone"}
        <5>1. ddl'[j] # "gone" BY Zenon, <1>12, <4>3
        <5>2. p \in PrefixesOf(j) /\ c.meta[j] = identMap[j] BY Zenon, <3>1, <4>1, <4>3 DEF KeyOK
        <5>3. PrefixesOf(j)' = PrefixesOf(j) BY Zenon, <1>16, <5>2
        <5> QED BY Zenon, <5>1, <5>2, <5>3
      <4> QED BY Zenon, <4>2, <4>3
    <3>3. ddl'[j] # "drop" BY Zenon, <1>12
    <3>4. d.meta[j] = identMap'[j] BY Zenon, <1>1, <1>19
    <3> QED BY Zenon, <3>2, <3>3, <3>4 DEF KeyOK, HasKey
  <2>4. \A u \in Units : unit'[u].pc # "done" => ~HasRecord(d, u) BY Zenon, <1>19, SameKeys
  <2> QED BY Zenon, <2>2, <2>3, <2>4 DEF ContentOK, HasRecord
<1>20. ContentOK(c)' BY Zenon, <1>2, <1>19
<1>21. ContentOK(e)' BY Zenon, <1>2, <1>7, <1>19
<1>22. LogInv'
  <2>1. SUFFICES ASSUME NEW k \in DOMAIN log' PROVE ContentOK(log[k])' BY Zenon DEF LogInv
  <2>2. log'[k] = c \/ log'[k] = e BY Zenon, <1>10
  <2> QED BY Zenon, <1>20, <1>21, <2>2, ContentAt
<1>23. LastInv'
  <2>1. \A j \in Idents : l.meta[j] = identMap'[j] BY Zenon, <1>1, <1>11
  <2>2. \A j \in Idents : PrefixesOf(j)' \cap l.marks = {}
    BY Zenon, <1>1, <1>11, <1>18 DEF OwnInv
  <2>3. \A p \in droppedPrefixes' \cup l.marks : p <= maxPrefix'
    <3>1. \A p \in alive : p \in Prefixes /\ p <= LargestPrefix(c) BY Zenon, <1>2, <1>5, <1>8
    <3> QED BY <1>1, <1>8, <1>11, <3>1 DEF Prefixes
  <2>4. LastOK(l)' BY Zenon, <2>1, <2>2, <2>3 DEF LastOK
  <2> QED BY Zenon, <1>11, <2>4, LastAt
<1>24. UnitInv'
  <2>1. \A u \in Units : unit'[u].pc \notin {"added", "loaded", "updated"} BY Zenon
  <2> QED BY Zenon, <2>1 DEF UnitInv, UnitOK
<1> QED BY Zenon, <1>13, <1>17, <1>18, <1>22, <1>23, <1>24

(* A crash keeps a content of the log, and the units of work whose records are *)
(* in it.                                                                      *)
LEMMA CrashStep ==
  ASSUME IndInv, Crash, \A c \in Content : LargestFound(c)
  PROVE  IndInv'
<1> USE DEF IndInv
<1>1. PICK k \in DOMAIN log : Open(log[k]) /\ unit' = Surviving(log[k]) BY Zenon DEF Crash
<1>2. PICK c \in Content : c = log[k] BY Zenon, LastInLog
<1>3. ContentOK(c) BY Zenon, <1>2 DEF LogInv
<1>4. Open(c) /\ unit' = Surviving(c) BY Zenon, <1>1, <1>2
<1>5. \A u \in Units : unit'[u] = IF HasRecord(c, u) THEN unit[u] ELSE NoUnit
  BY Zenon, <1>4 DEF Surviving, HasRecord
<1>6. \A u \in Units : HasRecord(c, u) => unit[u].pc = "done" BY Zenon, <1>3 DEF ContentOK
<1>7. \A u \in Units : unit'[u].pc \in {"idle", "done"} BY Zenon, <1>5, <1>6, NoCountersType
<1>8. \A u \in Units : unit'[u].pc # "done" => ~HasRecord(c, u) BY Zenon, <1>5, <1>6
<1>9. unit' \in [Units -> UnitOfWork]
  <2>1. \A u \in Units : unit[u] \in UnitOfWork /\ NoUnit \in UnitOfWork BY Zenon, UnitFields, NoCountersType
  <2> QED BY Zenon, <1>4, <2>1 DEF Surviving
<1>10. crashSafe' = crashSafe /\ overlapped' = overlapped /\ crashed' \in BOOLEAN BY Zenon DEF Crash
<1> QED BY Zenon, <1>3, <1>4, <1>7, <1>8, <1>9, <1>10, OpenStep

(* cleanShutdown stores the counters before the engine is opened again. *)
LEMMA CleanRestartStep ==
  ASSUME IndInv, CleanRestart, \A c \in Content : LargestFound(c)
  PROVE  IndInv'
<1> USE DEF IndInv
<1>1. PICK c \in Content : c = db BY Zenon, LastInLog
<1>2. PICK d : d = Stored(c, counters) BY Zenon
<1>3. counters \in Counts BY Zenon DEF TypeOK
<1>4. d \in Content /\ d.meta = c.meta /\ d.marks = c.marks /\ d.data = c.data
  BY <1>2, <1>3, CountersWritten
<1>5. ContentOK(c) BY Zenon, <1>1, LastInLog DEF LogInv
<1>6. ContentOK(d)
  <2>1. /\ \A q \in Prefixes, j \in Idents : HasKey(d, j, q) => HasKey(c, j, q)
        /\ \A u \in Units : HasRecord(d, u) => HasRecord(c, u)
    BY Zenon, <1>4, SameKeys
  <2>2. \A j \in Idents : MetaOK(d, j) BY Zenon, <1>4, <1>5 DEF ContentOK, MetaOK
  <2>3. ASSUME NEW j \in Idents PROVE KeyOK(d, j)
    <3>1. KeyOK(c, j) BY Zenon, <1>5 DEF ContentOK
    <3> QED BY Zenon, <1>4, <2>1, <3>1 DEF KeyOK
  <2>4. \A u \in Units : unit[u].pc # "done" => ~HasRecord(d, u) BY Zenon, <1>5, <2>1 DEF ContentOK
  <2> QED BY Zenon, <2>2, <2>3, <2>4 DEF ContentOK
<1>7. /\ Open(d) /\ unit' = unit /\ ~Committing /\ crashSafe' = crashSafe /\ overlapped' = overlapped
      /\ crashed' = crashed
  BY Zenon, <1>1, <1>2 DEF CleanRestart
<1>8. \A u \in Units : unit[u].pc \in {"idle", "added", "loaded", "updated", "done"}
  BY Zenon, UnitFields DEF UnitOfWork
<1>9. \A u \in Units : unit'[u].pc \in {"idle", "done"} BY Zenon, <1>7, <1>8 DEF Committing
<1>10. \A u \in Units : unit'[u].pc # "done" => ~HasRecord(d, u) BY Zenon, <1>6, <1>7 DEF ContentOK
<1>11. unit' \in [Units -> UnitOfWork] /\ crashed' \in BOOLEAN BY Zenon, <1>7 DEF TypeOK
<1> QED BY Zenon, <1>4, <1>6, <1>7, <1>9, <1>10, <1>11, OpenStep

(* The engine of a new database. *)
LEMMA InitIndInv == Init => IndInv
<1> SUFFICES ASSUME Init PROVE IndInv BY Zenon
<1>1. MaxPrefix \in Nat /\ MaxPrefix > 0 BY EngineAssumption
<1>2. Empty \in Content BY <1>1 DEF Empty, Content
<1>3. log = <<Empty>> /\ log \in Seq(Content) /\ log # <<>> /\ db = Empty /\ \A k \in DOMAIN log : log[k] = Empty
  BY <1>2 DEF Init, db
<1>4. /\ \A i \in Idents : identMap[i] = 0 /\ ddl[i] = "no" /\ Empty.meta[i] = 0
      /\ Empty.marks = {} /\ \A p \in Prefixes : Empty.data[p] = {}
      /\ \A u \in Units : unit[u] = NoUnit
      /\ maxPrefix = 1 /\ droppedPrefixes = {}
  BY Zenon DEF Init, Empty
<1>5. TypeOK
  <2>1. identMap \in [Idents -> 0..MaxPrefix] /\ maxPrefix \in 0..MaxPrefix + 1 /\ droppedPrefixes \subseteq Prefixes
    BY <1>1 DEF Init
  <2>2. /\ ddl \in [Idents -> {"no", "meta", "key", "tracker", "trackerKey", "drop", "gone"}]
        /\ numRecords \in [Idents -> Nat]
    BY Zenon DEF Init
  <2>3. counters \in Counts /\ syncing \in Counts /\ syncCounter \in Nat /\ unit \in [Units -> UnitOfWork]
    BY Zenon, NoCountersType DEF Init
  <2>4. crashSafe \in BOOLEAN /\ overlapped \in BOOLEAN /\ crashed \in BOOLEAN /\ restarts \in Nat
    BY Zenon DEF Init
  <2> QED BY Zenon, <1>3, <2>1, <2>2, <2>3, <2>4 DEF TypeOK
<1>6. DdlInv BY <1>1, <1>4 DEF DdlInv, DdlOK
<1>7. \A i \in Idents : PrefixesOf(i) = {} BY Zenon, <1>4 DEF PrefixesOf
<1>8. OwnInv BY Zenon, <1>4, <1>7 DEF OwnInv
<1>9. ContentOK(Empty)
  <2>1. \A i \in Idents : MetaOK(Empty, i) BY Zenon, <1>4 DEF MetaOK, PrefixesAt
  <2>2. \A i \in Idents, p \in Prefixes : ~HasKey(Empty, i, p) BY Zenon, <1>4 DEF HasKey
  <2>3. \A i \in Idents : KeyOK(Empty, i) BY Zenon, <1>4, <2>2 DEF KeyOK
  <2>4. \A u \in Units : ~HasRecord(Empty, u) BY Zenon, <1>4 DEF HasRecord
  <2> QED BY Zenon, <2>1, <2>3, <2>4 DEF ContentOK
<1>10. LogInv BY Zenon, <1>3, <1>9 DEF LogInv
<1>11. LastInv BY Zenon, <1>3, <1>4, <1>7 DEF LastInv, LastOK
<1>12. UnitInv BY Zenon, <1>4, NoCountersType DEF UnitInv, UnitOK
<1> QED BY Zenon, <1>5, <1>6, <1>8, <1>10, <1>11, <1>12 DEF IndInv

(* Nothing changes. *)
LEMMA StutterStep ==
  ASSUME IndInv, UNCHANGED vars
  PROVE  IndInv'
<1> USE DEF IndInv
<1>1. /\ log' = log /\ unit' = unit /\ ddl' = ddl
      /\ identMap' = identMap /\ maxPrefix' = maxPrefix /\ droppedPrefixes' = droppedPrefixes
  BY Zenon DEF vars, memory
<1>2. TypeOK' BY Zenon DEF TypeOK, vars, memory, counterVars, history
<1>3. DdlInv' /\ OwnInv' /\ LogInv' /\ LastInv' BY Zenon, <1>1, NothingWritten
<1>4. UnitInv' BY Zenon, <1>1, UnitsKept
<1> QED BY Zenon, <1>2, <1>3, <1>4

-----------------------------------------------------------------------------
(* The number of records, as long as commits and syncs of the counters do not  *)
(* overlap.  A unit of work is alone with the counters from AddDelta until its *)
(* batch is written; the counter that will have been stored last is the one in *)
(* _counters, else the one being synced or in the batch, else the stored one.  *)
Count(c, i) == Cardinality(Records(c, i))
Flying(u) == unit[u].pc \in {"added", "loaded", "updated"}
LatestOf(a, b, s) == IF a # NoCount THEN a ELSE IF b # NoCount THEN b ELSE s
Exact == ~overlapped /\ (crashSafe \/ ~crashed)

AloneInv ==
  /\ \A u, v \in Units : Flying(u) /\ Flying(v) => u = v
  /\ syncing # NoCounters => \A u \in Units : ~Flying(u)
  /\ crashSafe => counters = NoCounters /\ syncing = NoCounters
  /\ \A u \in Units : unit[u].pc = "loaded" => unit[u].value = numRecords[unit[u].ident]

NumberOK(c, i) ==
  /\ (\A u \in Units : Flying(u) => unit[u].ident # i) => numRecords[i] = Count(c, i)
  /\ \A u \in Units : Flying(u) /\ unit[u].ident = i => numRecords[i] = Count(c, i) + 1

LatestOK(c, i) ==
  /\ (\A u \in Units : unit[u].pc # "updated") =>
       LatestOf(counters[i], syncing[i], c.stored[i]) = Count(c, i)
  /\ \A u \in Units : unit[u].pc = "updated" =>
       LatestOf(counters[i], unit[u].puts[i], c.stored[i])
         = Count(c, i) + IF unit[u].ident = i THEN 1 ELSE 0

StoredOK(c) == \A i \in Idents : ddl[i] \notin {"drop", "gone"} => c.stored[i] = Count(c, i)

LastCountOK(c) ==
  \A i \in Idents : /\ ddl[i] # "gone" => NumberOK(c, i)
                    /\ ddl[i] \notin {"drop", "gone"} => LatestOK(c, i)

CountInv == Exact => /\ AloneInv
                     /\ LastCountOK(db)
                     /\ crashSafe => \A k \in DOMAIN log : StoredOK(log[k])

(* What is used of the cardinality of sets of units of work. *)
UnitsCount ==
  /\ Cardinality({}) = 0
  /\ \A S \in SUBSET Units :
       Cardinality(S) \in Nat /\ \A u \in Units \ S : Cardinality(S \cup {u}) = Cardinality(S) + 1

(* The records of an ident, when a key is added, *)
LEMMA RecordsAdded ==
  ASSUME NEW c \in Content, NEW p \in Prefixes, NEW i \in Idents, NEW x \in Units \cup {"key"},
         NEW d, d = Added(c, p, <<i, x>>)
  PROVE  /\ \A j \in Idents : j # i \/ x \notin Units => Records(d, j) = Records(c, j)
         /\ x \in Units => Records(d, i) = Records(c, i) \cup {x}
<1>1. \A q \in Prefixes, j \in Idents, y \in Units \cup {"key"} :
        KeyIn(d, q, j, y) <=> KeyIn(c, q, j, y) \/ (q = p /\ j = i /\ y = x)
  BY KeyWritten
<1>2. ASSUME NEW j \in Idents, NEW u \in Units
      PROVE  u \in Records(d, j) <=> u \in Records(c, j) \/ (j = i /\ u = x)
  <2>1. \A q \in Prefixes : <<j, u>> \in d.data[q] <=> <<j, u>> \in c.data[q] \/ (q = p /\ j = i /\ u = x)
    BY Zenon, <1>1 DEF KeyIn
  <2>2. u \in Records(d, j) <=> \E q \in Prefixes : <<j, u>> \in d.data[q] BY Zenon DEF Records
  <2>3. u \in Records(c, j) <=> \E q \in Prefixes : <<j, u>> \in c.data[q] BY Zenon DEF Records
  <2> QED BY Zenon, <2>1, <2>2, <2>3
<1>3. \A j \in Idents : Records(d, j) \subseteq Units /\ Records(c, j) \subseteq Units BY Zenon DEF Records
<1>4. ASSUME NEW j \in Idents, j # i \/ x \notin Units PROVE Records(d, j) = Records(c, j)
  <2>1. \A u \in Units : u \in Records(d, j) <=> u \in Records(c, j) BY Zenon, <1>2, <1>4
  <2> QED BY Zenon, <1>3, <2>1
<1>5. ASSUME x \in Units PROVE Records(d, i) = Records(c, i) \cup {x}
  <2>1. \A u \in Units : u \in Records(d, i) <=> u \in Records(c, i) \/ u = x BY Zenon, <1>2
  <2> QED BY <1>3, <1>5, <2>1
<1> QED BY Zenon, <1>4, <1>5

(* when data are the same, *)
LEMMA RecordsSame ==
  ASSUME NEW c, NEW d, d.data = c.data
  PROVE  \A j \in Idents : Records(d, j) = Records(c, j)
BY Zenon DEF Records

(* and when a compaction deletes one, which is not of an ident that is there. *)
LEMMA RecordsCompacted ==
  ASSUME IndInv, NEW c \in Content, ContentOK(c), NEW p \in Prefixes, p \in droppedPrefixes, NEW key,
         NEW d, d = Compacted(c, p, key), NEW j \in Idents, ddl[j] # "gone"
  PROVE  Records(d, j) = Records(c, j)
<1> USE DEF IndInv
<1>1. KeyOK(c, j) BY Zenon DEF ContentOK
<1>2. p \notin PrefixesOf(j) BY DEF OwnInv
<1>3. ~HasKey(c, j, p) BY Zenon, <1>1, <1>2 DEF KeyOK
<1>4. \A u \in Units : u \in Units \cup {"key"} OBVIOUS
<1>5. \A u \in Units : <<j, u>> \notin c.data[p] BY Zenon, <1>3, <1>4 DEF HasKey
<1>6. /\ \A q \in Prefixes : d.data[q] \subseteq c.data[q]
      /\ \A q \in Prefixes : q # p => d.data[q] = c.data[q]
  BY KeyCompacted
<1>7. \A u \in Units, q \in Prefixes : <<j, u>> \in d.data[q] <=> <<j, u>> \in c.data[q]
  BY Zenon, <1>5, <1>6
<1> QED BY Zenon, <1>7 DEF Records

(* Counters are right because of the content last written. *)
LEMMA CountAt ==
  ASSUME NEW d, db' = d,
         Exact' => AloneInv' /\ LastCountOK(d)' /\ (crashSafe' => \A k \in DOMAIN log' : StoredOK(log[k])')
  PROVE  CountInv'
<1>1. \A i \in Idents : NumberOK(d, i)' => NumberOK(db, i)' BY Zenon DEF NumberOK, Count, Records
<1>2. \A i \in Idents : LatestOK(d, i)' => LatestOK(db, i)' BY Zenon DEF LatestOK, Count, Records
<1>3. LastCountOK(d)' => LastCountOK(db)' BY Zenon, <1>1, <1>2 DEF LastCountOK
<1> QED BY Zenon, <1>3 DEF CountInv

LEMMA StoredAt ==
  ASSUME NEW d, NEW k, log'[k] = d, StoredOK(d)'
  PROVE  StoredOK(log[k])'
BY Zenon DEF StoredOK, Count, Records

(* No ident comes back that is being dropped. *)
NoneBack ==
  \A i \in Idents : /\ ddl[i] = "gone" => ddl'[i] = "gone"
                    /\ ddl[i] \in {"drop", "gone"} => ddl'[i] \in {"drop", "gone"}

LEMMA StoredKept ==
  ASSUME NoneBack
  PROVE  \A e \in Content : StoredOK(e) => StoredOK(e)'
BY Zenon DEF NoneBack, StoredOK, Count, Records

(* The log of a database with crash safe counters, after a write. *)
LEMMA StoredWrite ==
  ASSUME TypeOK, NoneBack, NEW d \in Content, Write(d) \/ log' = <<d>> \/ log' = log,
         \A k \in DOMAIN log : StoredOK(log[k]), StoredOK(d)'
  PROVE  \A k \in DOMAIN log' : StoredOK(log[k])'
<1>1. SUFFICES ASSUME NEW k \in DOMAIN log' PROVE StoredOK(log[k])' OBVIOUS
<1>2. log'[k] = d \/ \E j \in DOMAIN log : log'[k] = log[j] BY Zenon, AfterWrite, AfterSynced
<1>3. CASE log'[k] = d BY Zenon, <1>3, StoredAt
<1>4. CASE \E j \in DOMAIN log : log'[k] = log[j]
  <2>1. PICK j \in DOMAIN log : log'[k] = log[j] BY <1>4
  <2>2. PICK e \in Content : e = log[j] BY Zenon, LastInLog
  <2>3. StoredOK(e) BY Zenon, <2>2
  <2>4. StoredOK(e)' BY Zenon, <2>3, StoredKept
  <2> QED BY Zenon, <2>1, <2>2, <2>4, StoredAt
<1> QED BY <1>2, <1>3, <1>4

(* Steps that change neither counters nor units of work, nor the records and   *)
(* the stored counters of any ident that stays.                                *)
LEMMA CountsKept ==
  ASSUME IndInv, CountInv, NoneBack, NEW c \in Content, c = db, NEW d \in Content, db' = d,
         numRecords' = numRecords, counters' = counters, syncing' = syncing, unit' = unit,
         crashSafe' = crashSafe, overlapped' = overlapped, crashed' = crashed,
         \A j \in Idents : ddl[j] # "gone" => Records(d, j) = Records(c, j) /\ d.stored[j] = c.stored[j],
         Exact /\ crashSafe => \A k \in DOMAIN log' : StoredOK(log[k])'
  PROVE  CountInv'
<1>1. SUFFICES ASSUME Exact PROVE AloneInv' /\ LastCountOK(d)' BY Zenon, CountAt DEF Exact
<1>2. AloneInv /\ LastCountOK(c) BY Zenon, <1>1 DEF CountInv, LastCountOK, NumberOK, LatestOK
<1>3. AloneInv' BY Zenon, <1>2 DEF AloneInv, Flying
<1>4. ASSUME NEW i \in Idents PROVE /\ ddl'[i] # "gone" => NumberOK(d, i)'
                                    /\ ddl'[i] \notin {"drop", "gone"} => LatestOK(d, i)'
  <2>1. CASE ddl[i] = "gone" BY Zenon, <2>1 DEF NoneBack
  <2>2. CASE ddl[i] # "gone"
    <3>1. Count(d, i) = Count(c, i) /\ d.stored[i] = c.stored[i] BY Zenon, <2>2 DEF Count
    <3>2. Count(d, i)' = Count(d, i) BY Zenon DEF Count, Records
    <3>3. NumberOK(c, i) BY Zenon, <1>2, <2>2 DEF LastCountOK
    <3>4. NumberOK(d, i)' BY Zenon, <3>1, <3>2, <3>3 DEF NumberOK, Flying
    <3>5. ddl[i] \notin {"drop", "gone"} => LatestOK(c, i) BY Zenon, <1>2 DEF LastCountOK
    <3>6. LatestOK(c, i) => LatestOK(d, i)' BY Zenon, <3>1, <3>2 DEF LatestOK
    <3> QED BY Zenon, <3>4, <3>5, <3>6 DEF NoneBack
  <2> QED BY Zenon, <2>1, <2>2
<1>5. LastCountOK(d)' BY Zenon, <1>4 DEF LastCountOK
<1> QED BY <1>3, <1>5

(* A write that leaves every record and every stored counter. *)
LEMMA CountsWrite ==
  ASSUME IndInv, CountInv, NoneBack, NEW c \in Content, c = db, NEW d \in Content,
         Write(d) \/ log' = <<d>> \/ (log' = log /\ d = c),
         d.stored = c.stored, \A j \in Idents : Records(d, j) = Records(c, j),
         numRecords' = numRecords, counters' = counters, syncing' = syncing, unit' = unit,
         crashSafe' = crashSafe, overlapped' = overlapped, crashed' = crashed
  PROVE  CountInv'
<1> USE DEF IndInv
<1>1. db' = d
  <2>1. CASE Write(d) BY Zenon, <2>1, AfterWrite
  <2>2. CASE log' = <<d>> BY Zenon, <2>2, AfterSynced
  <2>3. CASE log' = log /\ d = c BY Zenon, <2>3 DEF db
  <2> QED BY Zenon, <2>1, <2>2, <2>3
<1>2. ASSUME Exact, crashSafe PROVE \A k \in DOMAIN log' : StoredOK(log[k])'
  <2>1. \A k \in DOMAIN log : StoredOK(log[k]) BY Zenon, <1>2 DEF CountInv
  <2>2. StoredOK(c) BY Zenon, <2>1, LastInLog
  <2>3. StoredOK(d) BY Zenon, <2>2 DEF StoredOK, Count
  <2>4. StoredOK(d)' BY Zenon, <2>3, StoredKept
  <2> QED BY Zenon, <2>1, <2>4, StoredWrite
<1>3. \A j \in Idents : ddl[j] # "gone" => Records(d, j) = Records(c, j) /\ d.stored[j] = c.stored[j] BY Zenon
<1> QED BY Zenon, <1>1, <1>2, <1>3, CountsKept

(* Creations, and drops until the ident is gone. *)
LEMMA CreateCount ==
  ASSUME IndInv, CountInv, NEW i \in Idents, CreateIdent(i) \/ ReserveTracker(i)
  PROVE  CountInv'
<1> USE DEF IndInv
<1>0. PICK c \in Content : c = db BY Zenon, LastInLog
<1>1. /\ log' = log /\ numRecords' = numRecords /\ counters' = counters /\ syncing' = syncing /\ unit' = unit
      /\ crashSafe' = crashSafe /\ overlapped' = overlapped /\ crashed' = crashed
  BY Zenon DEF CreateIdent, ReserveTracker, counterVars, history
<1>2. ddl[i] \in {"no", "tracker"} /\ \A j \in Idents : j # i => ddl'[j] = ddl[j]
  BY Zenon DEF CreateIdent, ReserveTracker, TypeOK
<1>3. NoneBack BY Zenon, <1>2 DEF NoneBack
<1> QED BY Zenon, <1>0, <1>1, <1>3, CountsWrite

LEMMA PutMetadataCount ==
  ASSUME IndInv, CountInv, NEW i \in Idents, PutMetadata(i)
  PROVE  CountInv'
<1> USE DEF IndInv
<1>0. PICK c \in Content : c = db BY Zenon, LastInLog
<1>1. PICK d : d = MetaPut(c, i, identMap[i]) BY Zenon
<1>2. /\ Write(d) /\ numRecords' = numRecords /\ counters' = counters /\ syncing' = syncing /\ unit' = unit
      /\ crashSafe' = crashSafe /\ overlapped' = overlapped /\ crashed' = crashed
  BY Zenon, <1>0, <1>1 DEF PutMetadata, MetaPut, counterVars, history
<1>3. ddl[i] = "meta" /\ \A j \in Idents : j # i => ddl'[j] = ddl[j] BY Zenon DEF PutMetadata, TypeOK
<1>4. NoneBack BY Zenon, <1>3 DEF NoneBack
<1>5. identMap[i] \in 0..MaxPrefix BY Zenon DEF TypeOK
<1>6. d \in Content /\ d.stored = c.stored /\ d.data = c.data BY <1>1, <1>5, MetaWritten
<1>7. \A j \in Idents : Records(d, j) = Records(c, j) BY Zenon, <1>6, RecordsSame
<1> QED BY Zenon, <1>0, <1>2, <1>4, <1>6, <1>7, CountsWrite

LEMMA PutKeyCount ==
  ASSUME IndInv, CountInv, NEW i \in Idents, PutPrefixKey(i) \/ PutTrackerKey(i)
  PROVE  CountInv'
<1> USE DEF IndInv
<1>0. PICK c \in Content : c = db BY Zenon, LastInLog
<1>1. \E p \in Prefixes : Write(Added(c, p, <<i, "key">>))
  <2>1. CASE PutPrefixKey(i)
    <3>1. ddl[i] = "key" /\ Write(Added(c, identMap[i], <<i, "key">>)) BY Zenon, <1>0, <2>1 DEF PutPrefixKey
    <3>2. identMap[i] # 0 BY Zenon, <3>1 DEF DdlInv, DdlOK
    <3> QED BY Zenon, <3>1, <3>2, PrefixFacts
  <2>2. CASE PutTrackerKey(i)
    <3>1. ddl[i] = "trackerKey" /\ Write(Added(c, maxPrefix, <<i, "key">>)) BY Zenon, <1>0, <2>2 DEF PutTrackerKey
    <3>2. i = Oplog /\ identMap[i] # 0 /\ identMap[i] + 1 = maxPrefix BY Zenon, <3>1 DEF DdlInv, DdlOK
    <3> QED BY Zenon, <3>1, <3>2, PrefixFacts
  <2> QED BY Zenon, <2>1, <2>2
<1>2. PICK p \in Prefixes : Write(Added(c, p, <<i, "key">>)) BY Zenon, <1>1
<1>3. PICK d : d = Added(c, p, <<i, "key">>) BY Zenon
<1>4. Write(d) BY Zenon, <1>2, <1>3
<1>5. /\ numRecords' = numRecords /\ counters' = counters /\ syncing' = syncing /\ unit' = unit
      /\ crashSafe' = crashSafe /\ overlapped' = overlapped /\ crashed' = crashed
  BY Zenon DEF PutPrefixKey, PutTrackerKey, counterVars, history
<1>6. ddl[i] \in {"key", "trackerKey"} /\ \A j \in Idents : j # i => ddl'[j] = ddl[j]
  BY Zenon DEF PutPrefixKey, PutTrackerKey, TypeOK
<1>7. NoneBack BY Zenon, <1>6 DEF NoneBack
<1>8. "key" \in Units \cup {"key"} /\ "key" \notin Units BY Zenon, EngineAssumption
<1>9. d \in Content /\ d.stored = c.stored BY <1>3, <1>8, KeyWritten
<1>10. \A j \in Idents : Records(d, j) = Records(c, j) BY <1>3, <1>8, RecordsAdded
<1> QED BY Zenon, <1>0, <1>4, <1>5, <1>7, <1>9, <1>10, CountsWrite

LEMMA DropIdentCount ==
  ASSUME IndInv, CountInv, NEW i \in Idents, DropIdent(i)
  PROVE  CountInv'
<1> USE DEF IndInv
<1>0. PICK c \in Content : c = db BY Zenon, LastInLog
<1>1. PICK d : d = DropPut(c, i, PrefixesOf(i)) BY Zenon
<1>2. /\ log' = <<d>> /\ numRecords' = numRecords /\ counters' = counters /\ syncing' = syncing /\ unit' = unit
      /\ crashSafe' = crashSafe /\ overlapped' = overlapped /\ crashed' = crashed
  BY Zenon, <1>0, <1>1 DEF DropIdent, DropPut, WriteSynced, PrefixesToDrop, counterVars, history
<1>3. ddl[i] = "no" /\ \A j \in Idents : j # i => ddl'[j] = ddl[j] BY Zenon DEF DropIdent, TypeOK
<1>4. NoneBack BY Zenon, <1>3 DEF NoneBack
<1>5. PrefixesOf(i) \in SUBSET Prefixes BY Zenon, PrefixFacts
<1>6. d \in Content /\ d.stored = c.stored /\ d.data = c.data BY <1>1, <1>5, DropWritten
<1>7. \A j \in Idents : Records(d, j) = Records(c, j) BY Zenon, <1>6, RecordsSame
<1> QED BY Zenon, <1>0, <1>2, <1>4, <1>6, <1>7, CountsWrite

(* The log is synced, or nothing happens. *)
LEMMA SyncLogCount ==
  ASSUME IndInv, CountInv, SyncLog \/ UNCHANGED vars
  PROVE  CountInv'
<1> USE DEF IndInv
<1>0. PICK c \in Content : c = db BY Zenon, LastInLog
<1>1. /\ log' = <<c>> \/ log' = log
      /\ numRecords' = numRecords /\ counters' = counters /\ syncing' = syncing /\ unit' = unit
      /\ crashSafe' = crashSafe /\ overlapped' = overlapped /\ crashed' = crashed /\ ddl' = ddl
  BY Zenon, <1>0 DEF SyncLog, vars, counterVars, history
<1>2. NoneBack BY Zenon, <1>1 DEF NoneBack
<1> QED BY Zenon, <1>0, <1>1, <1>2, CountsWrite

(* The ident is gone. *)
LEMMA DropFinishCount ==
  ASSUME IndInv, CountInv, NEW i \in Idents, DropFinish(i)
  PROVE  CountInv'
<1> USE DEF IndInv
<1>0. PICK c \in Content : c = db BY Zenon, LastInLog
<1>1. /\ log' = log /\ counters' = counters /\ syncing' = syncing /\ unit' = unit
      /\ crashSafe' = crashSafe /\ overlapped' = overlapped /\ crashed' = crashed
      /\ \A j \in Idents : j # i => numRecords'[j] = numRecords[j]
  BY Zenon DEF DropFinish, history, TypeOK
<1>2. ddl[i] = "drop" /\ ddl'[i] = "gone" /\ \A j \in Idents : j # i => ddl'[j] = ddl[j]
  BY Zenon DEF DropFinish, TypeOK
<1>3. NoneBack BY Zenon, <1>2 DEF NoneBack
<1>4. db' = c BY Zenon, <1>0, <1>1 DEF db
<1>5. SUFFICES ASSUME Exact
               PROVE  AloneInv' /\ LastCountOK(c)' /\ (crashSafe => \A k \in DOMAIN log : StoredOK(log[k])')
  BY Zenon, <1>1, <1>4, CountAt DEF Exact
<1>6. /\ AloneInv /\ LastCountOK(c) /\ (crashSafe => \A k \in DOMAIN log : StoredOK(log[k]))
  BY Zenon, <1>0, <1>5 DEF CountInv, LastCountOK, NumberOK, LatestOK
<1>7. crashSafe => \A k \in DOMAIN log : StoredOK(log[k])'
  <2>1. SUFFICES ASSUME crashSafe, NEW k \in DOMAIN log PROVE StoredOK(log[k])' OBVIOUS
  <2>2. PICK a \in Content : a = log[k] BY Zenon, LastInLog
  <2>3. StoredOK(a)' BY Zenon, <1>3, <1>6, <2>1, <2>2, StoredKept
  <2> QED BY Zenon, <1>1, <2>2, <2>3, StoredAt
<1>8. \A u \in Units : unit[u].pc = "loaded" => unit[u].ident \in Idents /\ unit[u].ident # i
  <2>1. ddl[i] # "no" BY Zenon, <1>2
  <2> QED BY Zenon, <2>1 DEF UnitInv, UnitOK
<1>9. AloneInv' BY Zenon, <1>1, <1>6, <1>8 DEF AloneInv, Flying
<1>10. ASSUME NEW j \in Idents PROVE /\ ddl'[j] # "gone" => NumberOK(c, j)'
                                     /\ ddl'[j] \notin {"drop", "gone"} => LatestOK(c, j)'
  <2>1. CASE j = i BY Zenon, <1>2, <2>1
  <2>2. CASE j # i
    <3>1. numRecords'[j] = numRecords[j] /\ ddl'[j] = ddl[j] BY Zenon, <1>1, <1>2, <2>2
    <3>2. Count(c, j)' = Count(c, j) BY Zenon DEF Count, Records
    <3>3. NumberOK(c, j) => NumberOK(c, j)' BY Zenon, <1>1, <3>1, <3>2 DEF NumberOK, Flying
    <3>4. LatestOK(c, j) => LatestOK(c, j)' BY Zenon, <1>1, <3>1, <3>2 DEF LatestOK
    <3> QED BY Zenon, <1>6, <3>1, <3>3, <3>4 DEF LastCountOK
  <2> QED BY Zenon, <2>1, <2>2
<1>11. LastCountOK(c)' BY Zenon, <1>10 DEF LastCountOK
<1> QED BY Zenon, <1>7, <1>9, <1>11

(* A compaction deletes no record of an ident that is there. *)
LEMMA CompactCount ==
  ASSUME IndInv, CountInv, NEW p \in Prefixes, NEW key, Compact(p, key)
  PROVE  CountInv'
<1> USE DEF IndInv
<1>0. PICK c \in Content : c = db BY Zenon, LastInLog
<1>1. /\ log' = [k \in DOMAIN log |-> Compacted(log[k], p, key)] /\ p \in droppedPrefixes
      /\ numRecords' = numRecords /\ counters' = counters /\ syncing' = syncing /\ unit' = unit
      /\ crashSafe' = crashSafe /\ overlapped' = overlapped /\ crashed' = crashed /\ ddl' = ddl
  BY Zenon DEF Compact, Compacted, counterVars, history
<1>2. NoneBack BY Zenon, <1>1 DEF NoneBack
<1>3. DOMAIN log' = DOMAIN log /\ \A k \in DOMAIN log : log'[k] = Compacted(log[k], p, key) BY Zenon, <1>1
<1>4. Len(log') = Len(log)
  <2>1. log \in Seq(Content) BY Zenon DEF TypeOK
  <2> QED BY <1>1, <2>1
<1>5. PICK d : d = Compacted(c, p, key) BY Zenon
<1>6. db' = d BY Zenon, <1>0, <1>3, <1>4, <1>5, LastInLog DEF db
<1>7. ASSUME NEW a \in Content, NEW b, b = Compacted(a, p, key), ContentOK(a)
      PROVE  /\ b \in Content
             /\ \A j \in Idents : ddl[j] # "gone" => Records(b, j) = Records(a, j) /\ b.stored[j] = a.stored[j]
  <2>1. b \in Content /\ b.stored = a.stored BY <1>7, KeyCompacted
  <2>2. ASSUME NEW j \in Idents, ddl[j] # "gone" PROVE Records(b, j) = Records(a, j)
    BY <1>1, <1>7, <2>2, RecordsCompacted
  <2> QED BY Zenon, <2>1, <2>2
<1>8. ContentOK(c) BY Zenon, <1>0, LastInLog DEF LogInv
<1>9. /\ d \in Content
      /\ \A j \in Idents : ddl[j] # "gone" => Records(d, j) = Records(c, j) /\ d.stored[j] = c.stored[j]
  BY Zenon, <1>5, <1>7, <1>8
<1>10. ASSUME Exact, crashSafe, NEW k \in DOMAIN log' PROVE StoredOK(log[k])'
  <2>1. PICK a \in Content : a = log[k] BY Zenon, <1>3, LastInLog
  <2>2. PICK b : b = Compacted(a, p, key) BY Zenon
  <2>3. StoredOK(a) /\ ContentOK(a) BY Zenon, <1>3, <1>10, <2>1 DEF CountInv, LogInv
  <2>4. /\ b \in Content
        /\ \A j \in Idents : ddl[j] # "gone" => Records(b, j) = Records(a, j) /\ b.stored[j] = a.stored[j]
    BY Zenon, <1>7, <2>2, <2>3
  <2>5. \A j \in Idents : ddl[j] \notin {"drop", "gone"} => ddl[j] # "gone" BY Zenon
  <2>6. StoredOK(b) BY Zenon, <2>3, <2>4, <2>5 DEF StoredOK, Count
  <2>7. StoredOK(b)' BY Zenon, <1>2, <2>4, <2>6, StoredKept
  <2> QED BY Zenon, <1>3, <2>1, <2>2, <2>7, StoredAt
<1> QED BY Zenon, <1>0, <1>1, <1>2, <1>6, <1>9, <1>10, CountsKept

LEMMA NoCountersAt ==
  /\ \A j \in Idents : NoCounters[j] = NoCount
  /\ \A n \in Nat : n # NoCount
  /\ \A a, s : LatestOf(NoCount, NoCount, s) = s /\ LatestOf(a, NoCount, s) = LatestOf(NoCount, a, s)
  /\ \A a, s : LatestOf(NoCount, a, s) = IF a = NoCount THEN s ELSE a
  /\ \A n \in Nat : \A b, s : LatestOf(n, b, s) = n
<1>1. \A j \in Idents : NoCounters[j] = NoCount BY Zenon DEF NoCounters
<1>2. \A n \in Nat : n # NoCount BY DEF NoCount
<1> QED BY Zenon, <1>1, <1>2 DEF LatestOf

(* Counts are numbers. *)
LEMMA CountsAreNumbers ==
  ASSUME UnitsCount, NEW c, NEW i
  PROVE  Count(c, i) \in Nat
<1>1. Records(c, i) \in SUBSET Units BY Zenon DEF Records
<1> QED BY Zenon, <1>1 DEF UnitsCount, Count

(* Steps that write nothing. *)
LEMMA CountsInMemory ==
  ASSUME IndInv, CountInv, NEW c \in Content, c = db, log' = log, ddl' = ddl, crashSafe' = crashSafe,
         crashed' = crashed, overlapped => overlapped',
         Exact /\ Exact' /\ AloneInv /\ LastCountOK(c) => AloneInv' /\ LastCountOK(c)'
  PROVE  CountInv'
<1> USE DEF IndInv
<1>1. Exact' => Exact BY Zenon DEF Exact
<1>2. db' = c BY Zenon DEF db
<1>3. SUFFICES ASSUME Exact, Exact' PROVE AloneInv' /\ LastCountOK(c)' /\ (crashSafe' => \A k \in DOMAIN log' : StoredOK(log[k])')
  BY Zenon, <1>1, <1>2, CountAt
<1>4. AloneInv /\ LastCountOK(c) BY Zenon, <1>3 DEF CountInv, LastCountOK, NumberOK, LatestOK
<1>5. NoneBack BY Zenon DEF NoneBack
<1>6. ASSUME crashSafe, NEW k \in DOMAIN log PROVE StoredOK(log[k])'
  <2>1. PICK a \in Content : a = log[k] BY Zenon, <1>6, LastInLog
  <2>2. StoredOK(a) BY Zenon, <1>3, <1>6, <2>1 DEF CountInv
  <2>3. StoredOK(a)' BY Zenon, <1>5, <2>2, StoredKept
  <2> QED BY Zenon, <2>1, <2>3, StoredAt
<1> QED BY Zenon, <1>3, <1>4, <1>6

(* A commit begins. *)
LEMMA AddDeltaCount ==
  ASSUME IndInv, CountInv, NEW u \in Units, NEW i \in Idents, AddDelta(u, i)
  PROVE  CountInv'
<1> USE DEF IndInv
<1>0. PICK c \in Content : c = db BY Zenon, LastInLog
<1>1. PICK r : r = [NoUnit EXCEPT !.pc = "added", !.ident = i] BY Zenon
<1>2. r \in UnitOfWork /\ r.pc = "added" /\ r.ident = i BY Zenon, <1>1, NoCountersType DEF UnitOfWork
<1>3. /\ unit[u].pc = "idle" /\ log' = log /\ ddl' = ddl /\ unit' = [unit EXCEPT ![u] = r]
      /\ crashSafe' = crashSafe /\ crashed' = crashed /\ counters' = counters /\ syncing' = syncing
      /\ overlapped' = (overlapped \/ Committing \/ syncing # NoCounters)
      /\ numRecords' = [numRecords EXCEPT ![i] = @ + 1]
  BY Zenon, <1>1 DEF AddDelta
<1>4. unit[u].pc # "done" BY Zenon, <1>3
<1>5. unit'[u] = r /\ \A v \in Units : v # u => unit'[v] = unit[v] BY Zenon, <1>2, <1>3, <1>4, UnitChanged
<1>6. overlapped => overlapped' BY Zenon, <1>3
<1>7. SUFFICES ASSUME Exact, Exact', AloneInv, LastCountOK(c) PROVE AloneInv' /\ LastCountOK(c)'
  BY Zenon, <1>0, <1>3, <1>6, CountsInMemory
<1>8. ~Committing /\ syncing = NoCounters BY Zenon, <1>3, <1>7 DEF Exact
<1>9. \A v \in Units : ~Flying(v) BY Zenon, <1>8 DEF Committing, Flying
<1>10. \A v \in Units : unit'[v].pc \in {"added", "loaded", "updated"} => v = u BY Zenon, <1>5, <1>9 DEF Flying
<1>11. unit'[u].pc = "added" /\ unit'[u].ident = i BY Zenon, <1>2, <1>5
<1>12. AloneInv'
  <2>1. \A v \in Units : unit'[v].pc # "loaded" BY Zenon, <1>10, <1>11
  <2>2. crashSafe' => counters' = NoCounters /\ syncing' = NoCounters BY Zenon, <1>3, <1>7 DEF AloneInv
  <2> QED BY Zenon, <1>3, <1>8, <1>10, <2>1, <2>2 DEF AloneInv, Flying, NoCounters
<1>13. numRecords'[i] = numRecords[i] + 1 /\ \A j \in Idents : j # i => numRecords'[j] = numRecords[j]
  BY Zenon, <1>3 DEF TypeOK
<1>14. ASSUME NEW j \in Idents PROVE /\ ddl'[j] # "gone" => NumberOK(c, j)'
                                     /\ ddl'[j] \notin {"drop", "gone"} => LatestOK(c, j)'
  <2>1. Count(c, j)' = Count(c, j) BY Zenon DEF Count, Records
  <2>2. ddl[j] # "gone" => numRecords[j] = Count(c, j) BY Zenon, <1>7, <1>9 DEF LastCountOK, NumberOK
  <2>3. ddl'[j] # "gone" => NumberOK(c, j)'
    <3>1. CASE j = i BY Zenon, <1>3, <1>5, <1>10, <1>11, <1>13, <2>1, <2>2, <3>1 DEF NumberOK, Flying
    <3>2. CASE j # i BY Zenon, <1>3, <1>5, <1>10, <1>11, <1>13, <2>1, <2>2, <3>2 DEF NumberOK, Flying
    <3> QED BY Zenon, <3>1, <3>2
  <2>4. \A v \in Units : unit[v].pc # "updated" BY Zenon, <1>9 DEF Flying
  <2>5. \A v \in Units : unit'[v].pc # "updated" BY Zenon, <1>5, <1>11, <2>4
  <2>6. LatestOK(c, j) => LatestOK(c, j)' BY Zenon, <1>3, <2>1, <2>4, <2>5 DEF LatestOK
  <2> QED BY Zenon, <1>3, <1>7, <2>3, <2>6 DEF LastCountOK
<1>15. LastCountOK(c)' BY Zenon, <1>14 DEF LastCountOK
<1> QED BY Zenon, <1>12, <1>15

LEMMA LoadValueCount ==
  ASSUME IndInv, CountInv, NEW u \in Units, LoadValue(u)
  PROVE  CountInv'
<1> USE DEF IndInv
<1>0. PICK c \in Content : c = db BY Zenon, LastInLog
<1>1. PICK r : r = [unit[u] EXCEPT !.pc = "loaded", !.value = numRecords[unit[u].ident]] BY Zenon
<1>2. /\ unit[u].pc = "added" /\ log' = log /\ ddl' = ddl
      /\ crashSafe' = crashSafe /\ crashed' = crashed /\ counters' = counters /\ syncing' = syncing
      /\ overlapped' = overlapped /\ numRecords' = numRecords
  BY Zenon DEF LoadValue, counterVars, history
<1>3. unit[u].ident \in Idents BY Zenon, <1>2 DEF UnitInv, UnitOK
<1>4. numRecords[unit[u].ident] \in Nat BY Zenon, <1>3 DEF TypeOK
<1>5. r \in UnitOfWork /\ r.pc = "loaded" /\ r.ident = unit[u].ident /\ r.value = numRecords[unit[u].ident]
  BY Zenon, <1>1, <1>4, UnitFields DEF UnitOfWork
<1>6. unit' = [unit EXCEPT ![u] = r] BY Zenon, <1>1 DEF LoadValue, TypeOK
<1>7. unit[u].pc # "done" BY Zenon, <1>2
<1>8. unit'[u] = r /\ \A v \in Units : v # u => unit'[v] = unit[v] BY Zenon, <1>5, <1>6, <1>7, UnitChanged
<1>9. SUFFICES ASSUME AloneInv, LastCountOK(c) PROVE AloneInv' /\ LastCountOK(c)'
  BY Zenon, <1>0, <1>2, CountsInMemory
<1>10. \A v \in Units : /\ unit'[v].ident = unit[v].ident
                        /\ Flying(v)' <=> Flying(v)
                        /\ unit'[v].pc = "updated" <=> unit[v].pc = "updated"
  <2>1. unit'[u].pc = "loaded" /\ unit'[u].ident = unit[u].ident BY Zenon, <1>5, <1>8
  <2> QED BY Zenon, <1>2, <1>8, <2>1 DEF Flying
<1>11. \A v \in Units : unit[v].pc = "updated" => unit'[v] = unit[v] BY Zenon, <1>2, <1>8
<1>12. AloneInv'
  <2>1. \A v \in Units : unit'[v].pc = "loaded" => unit'[v].value = numRecords[unit'[v].ident]
    BY Zenon, <1>5, <1>8, <1>9 DEF AloneInv
  <2>2. syncing' # NoCounters' => \A v \in Units : ~Flying(v)' BY Zenon, <1>2, <1>9, <1>10 DEF AloneInv, NoCounters
  <2>3. \A v, w \in Units : Flying(v)' /\ Flying(w)' => v = w BY Zenon, <1>9, <1>10 DEF AloneInv
  <2>4. crashSafe' => counters' = NoCounters' /\ syncing' = NoCounters' BY Zenon, <1>2, <1>9 DEF AloneInv, NoCounters
  <2> QED BY Zenon, <1>2, <2>1, <2>2, <2>3, <2>4 DEF AloneInv
<1>13. ASSUME NEW j \in Idents PROVE /\ NumberOK(c, j) => NumberOK(c, j)'
                                     /\ LatestOK(c, j) => LatestOK(c, j)'
  <2>1. Count(c, j)' = Count(c, j) BY Zenon DEF Count, Records
  <2>2. NumberOK(c, j) => NumberOK(c, j)' BY Zenon, <1>2, <1>10, <2>1 DEF NumberOK
  <2>3. LatestOK(c, j) => LatestOK(c, j)' BY Zenon, <1>2, <1>10, <1>11, <2>1 DEF LatestOK
  <2> QED BY Zenon, <2>2, <2>3
<1>14. LastCountOK(c)' BY Zenon, <1>2, <1>9, <1>13 DEF LastCountOK
<1> QED BY Zenon, <1>12, <1>14

(* RocksCounterManager::updateCounter: what has been stored last, once the     *)
(* batch is written, is the value it is called with.                           *)
LEMMA UpdateCounterCount ==
  ASSUME IndInv, CountInv, UnitsCount, NEW u \in Units, UpdateCounter(u)
  PROVE  CountInv'
<1> USE DEF IndInv
<1> DEFINE i == unit[u].ident
           n == unit[u].value
           mine == [counters EXCEPT ![i] = n]
           due == syncing = NoCounters /\ syncCounter + 1 >= kSyncEvery
           puts == IF crashSafe THEN [NoCounters EXCEPT ![i] = n]
                                ELSE IF due THEN mine ELSE NoCounters
<1>0. PICK c \in Content : c = db BY Zenon, LastInLog
<1>1. PICK r : r = [unit[u] EXCEPT !.pc = "updated", !.puts = puts] BY Zenon
<1>2. /\ unit[u].pc = "loaded" /\ log' = log /\ ddl' = ddl
      /\ crashSafe' = crashSafe /\ crashed' = crashed /\ syncing' = syncing
      /\ overlapped' = overlapped /\ numRecords' = numRecords
      /\ unit' = [unit EXCEPT ![u].pc = "updated", ![u].puts = puts]
      /\ IF crashSafe THEN counters' = counters ELSE counters' = IF due THEN NoCounters ELSE mine
  BY Zenon DEF UpdateCounter, history
<1>3. i \in Idents /\ ddl[i] = "no" BY Zenon, <1>2 DEF UnitInv, UnitOK
<1>4. n \in Nat /\ unit[u] \in UnitOfWork BY Zenon, UnitFields
<1>5. counters \in Counts /\ NoCounters \in Counts BY Zenon, NoCountersType DEF TypeOK
<1>6. mine[i] = n /\ \A j \in Idents : j # i => mine[j] = counters[j] BY Zenon, <1>3, <1>5 DEF Counts
<1>7. \/ crashSafe /\ counters' = counters /\ puts[i] = n /\ \A j \in Idents : j # i => puts[j] = NoCount
      \/ ~crashSafe /\ counters' = NoCounters /\ puts = mine
      \/ ~crashSafe /\ counters' = mine /\ puts = NoCounters
  <2>1. CASE crashSafe
    <3>1. puts = [NoCounters EXCEPT ![i] = n] BY Zenon, <2>1
    <3>2. puts[i] = n /\ \A j \in Idents : j # i => puts[j] = NoCount
      <4> HIDE DEF puts
      <4> QED BY Zenon, <1>3, <1>5, <3>1, NoCountersAt DEF Counts
    <3> QED BY Zenon, <1>2, <2>1, <3>2
  <2>2. CASE ~crashSafe
    <3> HIDE DEF mine, due
    <3> QED BY Zenon, <1>2, <2>2
  <2> QED BY Zenon, <2>1, <2>2
<1>8. puts \in Counts
  <2>1. mine \in Counts BY Zenon, <1>3, <1>4, <1>5 DEF Counts
  <2>2. [NoCounters EXCEPT ![i] = n] \in Counts BY Zenon, <1>3, <1>4, <1>5 DEF Counts
  <2> HIDE DEF mine, due
  <2> QED BY Zenon, <1>5, <2>1, <2>2
<1> HIDE DEF puts, mine, due
<1>9. unit' = [unit EXCEPT ![u] = r] BY Zenon, <1>1, <1>2 DEF TypeOK
<1>10. r \in UnitOfWork /\ r.pc = "updated" /\ r.ident = i /\ r.puts = puts
  BY Zenon, <1>1, <1>4, <1>8 DEF UnitOfWork
<1>11. unit[u].pc # "done" BY Zenon, <1>2
<1>12. unit'[u] = r /\ \A v \in Units : v # u => unit'[v] = unit[v] BY Zenon, <1>9, <1>10, <1>11, UnitChanged
<1>13. SUFFICES ASSUME AloneInv, LastCountOK(c) PROVE AloneInv' /\ LastCountOK(c)'
  BY Zenon, <1>0, <1>2, CountsInMemory
<1>14. Flying(u) BY Zenon, <1>2 DEF Flying
<1>15. syncing = NoCounters /\ n = numRecords[i] /\ \A v \in Units : Flying(v) => v = u
  BY Zenon, <1>2, <1>13, <1>14 DEF AloneInv
<1>16. unit'[u].pc = "updated" /\ unit'[u].ident = i /\ unit'[u].puts = puts BY Zenon, <1>10, <1>12
<1>17. \A v \in Units : (Flying(v)' <=> v = u) /\ (unit'[v].pc = "updated" <=> v = u) /\ unit'[v].pc # "loaded"
  <2>1. \A v \in Units : v # u => unit[v].pc \notin {"added", "loaded", "updated"} BY Zenon, <1>15 DEF Flying
  <2> QED BY Zenon, <1>12, <1>16, <2>1 DEF Flying
<1>18. \A v \in Units : unit[v].pc # "updated" BY Zenon, <1>2, <1>15 DEF Flying
<1>19. AloneInv'
  <2>1. crashSafe' => counters' = NoCounters' /\ syncing' = NoCounters'
    BY Zenon, <1>2, <1>7, <1>13 DEF AloneInv, NoCounters
  <2>2. syncing' = NoCounters' BY Zenon, <1>2, <1>15 DEF NoCounters
  <2> QED BY Zenon, <1>17, <2>1, <2>2 DEF AloneInv
<1>20. n = Count(c, i) + 1 BY Zenon, <1>3, <1>13, <1>14, <1>15 DEF LastCountOK, NumberOK
<1>21. ASSUME NEW j \in Idents PROVE /\ ddl'[j] # "gone" => NumberOK(c, j)'
                                     /\ ddl'[j] \notin {"drop", "gone"} => LatestOK(c, j)'
  <2>1. Count(c, j)' = Count(c, j) BY Zenon DEF Count, Records
  <2>2. ddl[j] # "gone" => NumberOK(c, j) BY Zenon, <1>13 DEF LastCountOK
  <2>3. NumberOK(c, j) => NumberOK(c, j)' BY Zenon, <1>2, <1>14, <1>15, <1>16, <1>17, <2>1 DEF NumberOK
  <2>4. ASSUME ddl[j] \notin {"drop", "gone"} PROVE LatestOK(c, j)'
    <3>1. LatestOf(counters[j], NoCount, c.stored[j]) = Count(c, j)
      BY Zenon, <1>13, <1>15, <1>18, <2>4, NoCountersAt DEF LastCountOK, LatestOK
    <3>2. SUFFICES LatestOf(counters'[j], puts[j], c.stored[j]) = Count(c, j) + IF i = j THEN 1 ELSE 0
      BY Zenon, <1>16, <1>17, <2>1 DEF LatestOK
    <3>3. CASE j = i
      <4>1. \/ counters'[j] = NoCount /\ puts[j] = n
            \/ counters'[j] = n
        <5>1. crashSafe => counters = NoCounters BY Zenon, <1>13 DEF AloneInv
        <5>2. NoCounters[i] = NoCount BY Zenon, <1>3, NoCountersAt
        <5> HIDE DEF i, n
        <5> QED BY Zenon, <1>6, <1>7, <3>3, <5>1, <5>2
      <4>2. n # NoCount BY Zenon, <1>4, NoCountersAt
      <4>3. LatestOf(counters'[j], puts[j], c.stored[j]) = n BY Zenon, <4>1, <4>2 DEF LatestOf
      <4> QED BY Zenon, <1>20, <3>3, <4>3
    <3>4. CASE j # i
      <4>1. \/ counters'[j] = NoCount /\ puts[j] = counters[j]
            \/ counters'[j] = counters[j] /\ puts[j] = NoCount
        BY Zenon, <1>6, <1>7, <3>4, NoCountersAt
      <4>2. LatestOf(counters'[j], puts[j], c.stored[j]) = Count(c, j) BY Zenon, <3>1, <4>1 DEF LatestOf
      <4>3. Count(c, j) + 0 = Count(c, j)
        <5>1. Count(c, j) \in Nat BY Zenon, CountsAreNumbers
        <5> QED BY <5>1
      <4> QED BY Zenon, <3>4, <4>2, <4>3
    <3> QED BY Zenon, <3>3, <3>4
  <2> QED BY Zenon, <1>2, <2>2, <2>3, <2>4
<1>22. LastCountOK(c)' BY Zenon, <1>21 DEF LastCountOK
<1> QED BY Zenon, <1>19, <1>22

(* The batch of a unit of work is written, with its record and with counters.  *)
LEMMA WriteBatchCount ==
  ASSUME IndInv, CountInv, UnitsCount, NEW u \in Units, WriteBatch(u)
  PROVE  CountInv'
<1> USE DEF IndInv
<1>0. PICK c \in Content : c = db BY Zenon, LastInLog
<1>1. unit[u].pc = "updated" BY Zenon DEF WriteBatch
<1>2. PICK i \in Idents : i = unit[u].ident BY Zenon, <1>1 DEF UnitInv, UnitOK
<1>3. ddl[i] = "no" /\ identMap[i] # 0 BY Zenon, <1>1, <1>2 DEF UnitInv, UnitOK
<1>4. PICK p \in Prefixes : p = identMap[i] BY Zenon, <1>3, PrefixFacts
<1>5. PICK puts \in Counts : puts = unit[u].puts BY Zenon, UnitFields
<1>6. PICK a : a = Added(c, p, <<i, u>>) BY Zenon
<1>7. PICK d : d = Stored(a, puts) BY Zenon
<1>8. PICK r : r = [NoUnit EXCEPT !.pc = "done"] BY Zenon
<1>9. /\ Write(d) /\ unit' = [unit EXCEPT ![u] = r] /\ ddl' = ddl
      /\ crashSafe' = crashSafe /\ crashed' = crashed /\ overlapped' = overlapped
      /\ counters' = counters /\ syncing' = syncing /\ numRecords' = numRecords
  BY Zenon, <1>0, <1>2, <1>4, <1>5, <1>6, <1>7, <1>8 DEF WriteBatch, counterVars, history
<1>10. r \in UnitOfWork /\ r.pc = "done" BY Zenon, <1>8, NoCountersType DEF UnitOfWork
<1>11. unit[u].pc # "done" BY Zenon, <1>1
<1>12. unit'[u] = r /\ \A v \in Units : v # u => unit'[v] = unit[v] BY Zenon, <1>9, <1>10, <1>11, UnitChanged
<1>13. u \in Units \cup {"key"} BY Zenon
<1>14. a \in Content /\ a.stored = c.stored BY <1>6, <1>13, KeyWritten
<1>15. /\ d \in Content /\ d.data = a.data
       /\ \A j \in Idents : d.stored[j] = IF puts[j] = NoCount THEN c.stored[j] ELSE puts[j]
  <2>1. d.data = a.data /\ \A j \in Idents : d.stored[j] = IF puts[j] = NoCount THEN a.stored[j] ELSE puts[j]
    BY <1>7, <1>14, CountersWritten
  <2>2. d \in Content BY Zenon, <1>7, <1>14, CountersWritten
  <2> QED BY Zenon, <1>14, <2>1, <2>2
<1>16. (\A j \in Idents : j # i => Records(a, j) = Records(c, j)) /\ Records(a, i) = Records(c, i) \cup {u}
  BY <1>6, <1>13, RecordsAdded
<1>17. \A j \in Idents : Records(d, j) = Records(a, j) BY Zenon, <1>15, RecordsSame
<1>18. u \notin Records(c, i)
  <2>1. ContentOK(c) BY Zenon, <1>0, LastInLog DEF LogInv
  <2>2. ~HasRecord(c, u) BY Zenon, <1>11, <2>1 DEF ContentOK
  <2> QED BY Zenon, <2>2 DEF HasRecord, Records
<1>19. /\ Count(d, i) = Count(c, i) + 1
       /\ \A j \in Idents : j # i => Count(d, j) = Count(c, j)
       /\ \A j \in Idents : Count(c, j) \in Nat
  <2>1. Records(c, i) \in SUBSET Units BY Zenon DEF Records
  <2>2. Cardinality(Records(c, i) \cup {u}) = Cardinality(Records(c, i)) + 1 BY Zenon, <1>18, <2>1 DEF UnitsCount
  <2>3. \A j \in Idents : Count(c, j) \in Nat BY Zenon, CountsAreNumbers
  <2> QED BY Zenon, <1>16, <1>17, <2>2, <2>3 DEF Count
<1>20. db' = d BY Zenon, <1>9, <1>15, AfterWrite
<1>21. SUFFICES ASSUME Exact
                PROVE  AloneInv' /\ LastCountOK(d)' /\ (crashSafe => \A k \in DOMAIN log' : StoredOK(log[k])')
  BY Zenon, <1>9, <1>20, CountAt DEF Exact
<1>22. AloneInv /\ LastCountOK(c) BY Zenon, <1>0, <1>21 DEF CountInv, LastCountOK, NumberOK, LatestOK
<1>23. Flying(u) BY Zenon, <1>1 DEF Flying
<1>24. syncing = NoCounters /\ \A v \in Units : Flying(v) => v = u BY Zenon, <1>22, <1>23 DEF AloneInv
<1>25. \A v \in Units : unit'[v].pc \notin {"added", "loaded", "updated"}
  <2>1. unit'[u].pc = "done" BY Zenon, <1>10, <1>12
  <2>2. \A v \in Units : v # u => unit[v].pc \notin {"added", "loaded", "updated"} BY Zenon, <1>24 DEF Flying
  <2> QED BY Zenon, <1>12, <2>1, <2>2
<1>26. AloneInv'
  <2>1. syncing' = NoCounters' /\ (crashSafe' => counters' = NoCounters')
    BY Zenon, <1>9, <1>22, <1>24 DEF AloneInv, NoCounters
  <2> QED BY Zenon, <1>25, <2>1 DEF AloneInv, Flying
<1>27. ASSUME NEW j \in Idents
       PROVE  /\ ddl[j] # "gone" => numRecords[j] = Count(d, j)
              /\ ddl[j] \notin {"drop", "gone"} => LatestOf(counters[j], NoCount, d.stored[j]) = Count(d, j)
  <2>1. ddl[j] # "gone" => NumberOK(c, j) BY Zenon, <1>22 DEF LastCountOK
  <2>2. ddl[j] \notin {"drop", "gone"} =>
          LatestOf(counters[j], puts[j], c.stored[j]) = Count(c, j) + IF i = j THEN 1 ELSE 0
    BY Zenon, <1>1, <1>2, <1>5, <1>22 DEF LastCountOK, LatestOK
  <2>3. LatestOf(counters[j], NoCount, d.stored[j]) = LatestOf(counters[j], puts[j], c.stored[j])
    BY Zenon, <1>15 DEF LatestOf
  <2>4. CASE j = i
    <3>1. numRecords[j] = Count(c, j) + 1 BY Zenon, <1>2, <1>3, <1>23, <2>1, <2>4 DEF NumberOK
    <3> QED BY Zenon, <1>19, <2>2, <2>3, <2>4, <3>1
  <2>5. CASE j # i
    <3>1. ddl[j] # "gone" => numRecords[j] = Count(c, j) BY Zenon, <1>2, <1>24, <2>1, <2>5 DEF NumberOK
    <3>2. Count(c, j) + 0 = Count(c, j) BY <1>19
    <3> QED BY Zenon, <1>19, <2>2, <2>3, <2>5, <3>1, <3>2
  <2> QED BY Zenon, <2>4, <2>5
<1>28. \A j \in Idents : /\ Count(d, j)' = Count(d, j) /\ numRecords'[j] = numRecords[j]
                         /\ ddl'[j] = ddl[j] /\ counters'[j] = counters[j] /\ syncing'[j] = NoCount
  BY Zenon, <1>9, <1>24, NoCountersAt DEF Count, Records
<1>29. ASSUME NEW j \in Idents PROVE /\ ddl'[j] # "gone" => NumberOK(d, j)'
                                     /\ ddl'[j] \notin {"drop", "gone"} => LatestOK(d, j)'
  <2>1. ddl'[j] # "gone" => NumberOK(d, j)' BY Zenon, <1>25, <1>27, <1>28 DEF NumberOK, Flying
  <2>2. ddl'[j] \notin {"drop", "gone"} => LatestOK(d, j)'
    <3>1. \A v \in Units : unit'[v].pc # "updated" BY Zenon, <1>25
    <3> QED BY Zenon, <1>27, <1>28, <3>1 DEF LatestOK, LatestOf, NoCount
  <2> QED BY Zenon, <2>1, <2>2
<1>30. LastCountOK(d)' BY Zenon, <1>29 DEF LastCountOK
<1>31. ASSUME crashSafe PROVE \A k \in DOMAIN log' : StoredOK(log[k])'
  <2>1. NoneBack BY Zenon, <1>9 DEF NoneBack
  <2>2. counters = NoCounters BY Zenon, <1>22, <1>31 DEF AloneInv
  <2>3. \A j \in Idents : LatestOf(counters[j], NoCount, d.stored[j]) = d.stored[j] BY Zenon, <2>2, NoCountersAt
  <2>4. StoredOK(d)
    <3>1. SUFFICES ASSUME NEW j \in Idents, ddl[j] \notin {"drop", "gone"} PROVE d.stored[j] = Count(d, j)
      BY Zenon DEF StoredOK
    <3> QED BY Zenon, <1>27, <2>3, <3>1
  <2>5. StoredOK(d)' BY Zenon, <1>15, <2>1, <2>4, StoredKept
  <2>6. \A k \in DOMAIN log : StoredOK(log[k]) BY Zenon, <1>21, <1>31 DEF CountInv
  <2> QED BY Zenon, <1>9, <1>15, <2>1, <2>5, <2>6, StoredWrite
<1> QED BY Zenon, <1>26, <1>30, <1>31

(* RocksCounterManager::sync takes the counters, *)
LEMMA SyncStartCount ==
  ASSUME IndInv, CountInv, SyncStart
  PROVE  CountInv'
<1> USE DEF IndInv
<1>0. PICK c \in Content : c = db BY Zenon, LastInLog
<1>1. /\ syncing = NoCounters /\ counters # NoCounters /\ syncing' = counters /\ counters' = NoCounters
      /\ overlapped' = (overlapped \/ Committing) /\ log' = log /\ ddl' = ddl /\ numRecords' = numRecords
      /\ unit' = unit /\ crashSafe' = crashSafe /\ crashed' = crashed
  BY Zenon DEF SyncStart
<1>2. overlapped => overlapped' BY Zenon, <1>1
<1>3. SUFFICES ASSUME Exact, Exact', AloneInv, LastCountOK(c) PROVE AloneInv' /\ LastCountOK(c)'
  BY Zenon, <1>0, <1>1, <1>2, CountsInMemory
<1>4. \A u \in Units : ~Flying(u) BY Zenon, <1>1, <1>3 DEF Exact, Committing, Flying
<1>5. \A u \in Units : ~Flying(u)' /\ unit'[u].pc # "loaded" /\ unit[u].pc # "updated" /\ unit'[u].pc # "updated"
  BY Zenon, <1>1, <1>4 DEF Flying
<1>6. ~crashSafe BY Zenon, <1>1, <1>3 DEF AloneInv
<1>7. AloneInv' BY Zenon, <1>1, <1>5, <1>6 DEF AloneInv
<1>8. ASSUME NEW j \in Idents PROVE /\ NumberOK(c, j) => NumberOK(c, j)'
                                    /\ LatestOK(c, j) => LatestOK(c, j)'
  <2>1. Count(c, j)' = Count(c, j) BY Zenon DEF Count, Records
  <2>2. NumberOK(c, j) => NumberOK(c, j)' BY Zenon, <1>1, <1>4, <1>5, <2>1 DEF NumberOK
  <2>3. LatestOf(counters[j], syncing[j], c.stored[j]) = LatestOf(counters'[j], syncing'[j], c.stored[j])
    BY Zenon, <1>1, NoCountersAt DEF LatestOf
  <2>4. LatestOK(c, j) => LatestOK(c, j)' BY Zenon, <1>5, <2>1, <2>3 DEF LatestOK, LatestOf, NoCount
  <2> QED BY Zenon, <2>2, <2>4
<1>9. LastCountOK(c)' BY Zenon, <1>1, <1>3, <1>8 DEF LastCountOK
<1> QED BY Zenon, <1>7, <1>9

(* and writes them. *)
LEMMA SyncWriteCount ==
  ASSUME IndInv, CountInv, SyncWrite
  PROVE  CountInv'
<1> USE DEF IndInv
<1>0. PICK c \in Content : c = db BY Zenon, LastInLog
<1>1. PICK d : d = Stored(c, syncing) BY Zenon
<1>2. /\ syncing # NoCounters /\ Write(d) /\ syncing' = NoCounters /\ counters' = counters
      /\ overlapped' = overlapped /\ ddl' = ddl /\ numRecords' = numRecords
      /\ unit' = unit /\ crashSafe' = crashSafe /\ crashed' = crashed
  BY Zenon, <1>0, <1>1 DEF SyncWrite, history
<1>3. syncing \in Counts BY Zenon DEF TypeOK
<1>4. /\ d \in Content /\ d.data = c.data
      /\ \A j \in Idents : d.stored[j] = IF syncing[j] = NoCount THEN c.stored[j] ELSE syncing[j]
  BY <1>1, <1>3, CountersWritten
<1>5. db' = d BY Zenon, <1>2, <1>4, AfterWrite
<1>6. SUFFICES ASSUME Exact
               PROVE  AloneInv' /\ LastCountOK(d)' /\ ~crashSafe
  BY Zenon, <1>2, <1>5, CountAt DEF Exact
<1>7. AloneInv /\ LastCountOK(c) BY Zenon, <1>0, <1>6 DEF CountInv, LastCountOK, NumberOK, LatestOK
<1>8. ~crashSafe /\ \A u \in Units : ~Flying(u) BY Zenon, <1>2, <1>7 DEF AloneInv
<1>9. \A u \in Units : ~Flying(u)' /\ unit'[u].pc # "loaded" /\ unit[u].pc # "updated" /\ unit'[u].pc # "updated"
  BY Zenon, <1>2, <1>8 DEF Flying
<1>10. AloneInv' BY Zenon, <1>2, <1>8, <1>9 DEF AloneInv
<1>11. ASSUME NEW j \in Idents PROVE /\ NumberOK(c, j) => NumberOK(d, j)'
                                     /\ LatestOK(c, j) => LatestOK(d, j)'
  <2>1. Records(d, j) = Records(c, j) BY Zenon, <1>4, RecordsSame
  <2>2. Count(d, j)' = Count(c, j) BY Zenon, <2>1 DEF Count, Records
  <2>3. NumberOK(c, j) => NumberOK(d, j)' BY Zenon, <1>2, <1>8, <1>9, <2>2 DEF NumberOK
  <2>4. LatestOf(counters[j], syncing[j], c.stored[j]) = LatestOf(counters'[j], syncing'[j], d.stored[j])
    BY Zenon, <1>2, <1>4, NoCountersAt DEF LatestOf
  <2>5. LatestOK(c, j) => LatestOK(d, j)' BY Zenon, <1>9, <2>2, <2>4 DEF LatestOK, LatestOf, NoCount
  <2> QED BY Zenon, <2>3, <2>5
<1>12. LastCountOK(d)' BY Zenon, <1>2, <1>7, <1>11 DEF LastCountOK
<1> QED BY Zenon, <1>8, <1>10, <1>12

(* The constructors load right counters from a content where they are right. *)
LEMMA OpenCount ==
  ASSUME IndInv, UnitsCount, NEW c \in Content, ContentOK(c), StoredOK(c), Open(c),
         \A u \in Units : unit'[u].pc \in {"idle", "done"}
  PROVE  CountInv'
<1> USE DEF IndInv
<1> DEFINE alive == {p \in c.marks : c.data[p] # {}}
<1>1. /\ ddl' = [i \in Idents |-> IF c.meta[i] = 0 /\ ddl[i] \in {"drop", "gone"} THEN "gone" ELSE "no"]
      /\ numRecords' = [i \in Idents |-> IF c.meta[i] = 0 THEN 0 ELSE c.stored[i]]
      /\ counters' = NoCounters /\ syncing' = NoCounters
  BY Zenon DEF Open, LoadCounters
<1>2. alive \in SUBSET Prefixes BY Zenon, ContentFields
<1>3. PICK e : e = MarksPut(c, alive) BY Zenon
<1>4. log' = IF alive = c.marks THEN <<c>> ELSE <<c, e>> BY Zenon, <1>3 DEF Open, MarksPut
<1> HIDE DEF alive
<1>5. e \in Content /\ e.data = c.data /\ e.stored = c.stored BY <1>2, <1>3, MarksWritten
<1>6. \A k \in DOMAIN log' : log'[k] \in {c, e} BY <1>4
<1>7. PICK l \in {c, e} : db' = l
  <2>1. CASE alive = c.marks BY Zenon, <1>4, <2>1 DEF db
  <2>2. CASE alive # c.marks BY Zenon, <1>4, <2>2 DEF db
  <2> QED BY Zenon, <2>1, <2>2
<1>8. \A x \in {c, e} : \A j \in Idents : Records(x, j) = Records(c, j) /\ x.stored[j] = c.stored[j]
  BY Zenon, <1>5, RecordsSame
<1>9. ASSUME NEW j \in Idents, ddl'[j] # "gone"
      PROVE  c.stored[j] = Count(c, j) /\ numRecords'[j] = Count(c, j)
  <2>1. MetaOK(c, j) /\ KeyOK(c, j) BY Zenon DEF ContentOK
  <2>2. c.meta[j] # 0 \/ ddl[j] \notin {"drop", "gone"} BY Zenon, <1>1, <1>9
  <2>3. ddl[j] \notin {"drop", "gone"} BY Zenon, <2>1, <2>2 DEF MetaOK
  <2>4. c.stored[j] = Count(c, j) BY Zenon, <2>3 DEF StoredOK
  <2>5. CASE c.meta[j] # 0 BY Zenon, <1>1, <2>4, <2>5
  <2>6. CASE c.meta[j] = 0
    <3>1. \A p \in Prefixes : ~HasKey(c, j, p)
      <4>1. SUFFICES ASSUME NEW p \in Prefixes, HasKey(c, j, p) PROVE FALSE BY Zenon
      <4>2. identMap[j] = 0 /\ p \in PrefixesOf(j) BY Zenon, <2>1, <2>3, <2>6, <4>1 DEF KeyOK
      <4> QED BY Zenon, <4>2, PrefixFacts
    <3>2. \A u \in Units : u \in Units \cup {"key"} BY Zenon
    <3>3. Records(c, j) = {} BY Zenon, <3>1, <3>2 DEF Records, HasKey
    <3>4. Count(c, j) = 0 BY Zenon, <3>3 DEF Count, UnitsCount
    <3> QED BY Zenon, <1>1, <2>4, <2>6, <3>4
  <2> QED BY Zenon, <2>5, <2>6
<1>10. AloneInv'
  <2>1. \A u \in Units : unit'[u].pc \notin {"added", "loaded", "updated"} BY Zenon
  <2> QED BY Zenon, <1>1, <2>1 DEF AloneInv, Flying
<1>11. ASSUME NEW x \in {c, e} PROVE StoredOK(x)' /\ LastCountOK(x)'
  <2>1. ASSUME NEW j \in Idents, ddl'[j] # "gone"
        PROVE  x.stored[j] = Count(x, j)' /\ numRecords'[j] = Count(x, j)'
    <3>1. Count(x, j)' = Count(c, j) BY Zenon, <1>8, <1>11, <2>1 DEF Count, Records
    <3>2. x.stored[j] = c.stored[j] BY Zenon, <1>8, <1>11, <2>1
    <3> QED BY Zenon, <1>9, <2>1, <3>1, <3>2
  <2>2. \A u \in Units : unit'[u].pc # "updated" /\ unit'[u].pc \notin {"added", "loaded", "updated"} BY Zenon
  <2>3. StoredOK(x)' BY Zenon, <2>1 DEF StoredOK
  <2>4. ASSUME NEW j \in Idents, ddl'[j] # "gone" PROVE NumberOK(x, j)' /\ LatestOK(x, j)'
    <3>1. NumberOK(x, j)' BY Zenon, <2>1, <2>2, <2>4 DEF NumberOK, Flying
    <3>2. counters'[j] = NoCount /\ syncing'[j] = NoCount BY Zenon, <1>1, NoCountersAt
    <3>3. LatestOK(x, j)' BY Zenon, <2>1, <2>2, <2>4, <3>2 DEF LatestOK, LatestOf, NoCount
    <3> QED BY Zenon, <3>1, <3>3
  <2>5. LastCountOK(x)' BY Zenon, <2>4 DEF LastCountOK
  <2> QED BY Zenon, <2>3, <2>5
<1>12. \A k \in DOMAIN log' : StoredOK(log[k])' BY Zenon, <1>6, <1>11, StoredAt
<1>13. LastCountOK(l)' BY Zenon, <1>11
<1> QED BY Zenon, <1>7, <1>10, <1>12, <1>13, CountAt

(* Only crash safe counters are right after a crash: every content that the    *)
(* crash can keep has them.                                                    *)
LEMMA CrashCount ==
  ASSUME IndInv, CountInv, UnitsCount, Crash
  PROVE  CountInv'
<1> USE DEF IndInv
<1>1. PICK k \in DOMAIN log : Open(log[k]) /\ unit' = Surviving(log[k]) BY Zenon DEF Crash
<1>2. PICK c \in Content : c = log[k] BY Zenon, LastInLog
<1>3. ContentOK(c) BY Zenon, <1>2 DEF LogInv
<1>4. Open(c) /\ unit' = Surviving(c) BY Zenon, <1>1, <1>2
<1>5. crashSafe' = crashSafe /\ overlapped' = overlapped /\ crashed' = TRUE BY Zenon DEF Crash
<1>6. CASE ~Exact' BY Zenon, <1>6 DEF CountInv
<1>7. CASE Exact'
  <2>1. Exact /\ crashSafe BY Zenon, <1>5, <1>7 DEF Exact
  <2>2. StoredOK(c) BY Zenon, <1>2, <2>1 DEF CountInv
  <2>3. \A u \in Units : unit'[u] = IF HasRecord(c, u) THEN unit[u] ELSE NoUnit
    BY Zenon, <1>4 DEF Surviving, HasRecord
  <2>4. \A u \in Units : HasRecord(c, u) => unit[u].pc = "done" BY Zenon, <1>3 DEF ContentOK
  <2>5. \A u \in Units : unit'[u].pc \in {"idle", "done"} BY Zenon, <2>3, <2>4, NoCountersType
  <2> QED BY Zenon, <1>3, <1>4, <2>2, <2>5, OpenCount
<1> QED BY Zenon, <1>6, <1>7

(* cleanShutdown stores what is in _counters. *)
LEMMA CleanRestartCount ==
  ASSUME IndInv, CountInv, UnitsCount, CleanRestart
  PROVE  CountInv'
<1> USE DEF IndInv
<1>0. PICK c \in Content : c = db BY Zenon, LastInLog
<1>1. PICK d : d = Stored(c, counters) BY Zenon
<1>2. /\ Open(d) /\ unit' = unit /\ ~Committing /\ syncing = NoCounters
      /\ crashSafe' = crashSafe /\ overlapped' = overlapped /\ crashed' = crashed
  BY Zenon, <1>0, <1>1 DEF CleanRestart
<1>3. CASE ~Exact' BY Zenon, <1>3 DEF CountInv
<1>4. CASE Exact'
  <2>1. Exact BY Zenon, <1>2, <1>4 DEF Exact
  <2>2. counters \in Counts BY Zenon DEF TypeOK
  <2>3. /\ d \in Content /\ d.meta = c.meta /\ d.marks = c.marks /\ d.data = c.data
        /\ \A j \in Idents : d.stored[j] = IF counters[j] = NoCount THEN c.stored[j] ELSE counters[j]
    BY <1>1, <2>2, CountersWritten
  <2>4. ContentOK(d)
    <3>1. ContentOK(c) BY Zenon, <1>0, LastInLog DEF LogInv
    <3> QED BY Zenon, <2>3, <3>1 DEF ContentOK, MetaOK, KeyOK, HasKey, HasRecord
  <2>5. StoredOK(d)
    <3>1. SUFFICES ASSUME NEW j \in Idents, ddl[j] \notin {"drop", "gone"} PROVE d.stored[j] = Count(d, j)
      BY Zenon DEF StoredOK
    <3>2. LastCountOK(c) BY Zenon, <1>0, <2>1 DEF CountInv, LastCountOK, NumberOK, LatestOK
    <3>3. \A u \in Units : unit[u].pc # "updated" BY Zenon, <1>2 DEF Committing
    <3>4. LatestOf(counters[j], syncing[j], c.stored[j]) = Count(c, j)
      BY Zenon, <3>1, <3>2, <3>3 DEF LastCountOK, LatestOK
    <3>5. syncing[j] = NoCount BY Zenon, <1>2, NoCountersAt
    <3>6. Count(d, j) = Count(c, j) BY Zenon, <2>3 DEF Count, Records
    <3> QED BY Zenon, <2>3, <3>4, <3>5, <3>6 DEF LatestOf
  <2>6. \A u \in Units : unit'[u].pc \in {"idle", "done"}
    <3>1. \A u \in Units : unit[u].pc \in {"idle", "added", "loaded", "updated", "done"}
      BY Zenon, UnitFields DEF UnitOfWork
    <3> QED BY Zenon, <1>2, <3>1 DEF Committing
  <2> QED BY Zenon, <1>2, <2>3, <2>4, <2>5, <2>6, OpenCount
<1> QED BY Zenon, <1>3, <1>4

(* No records, and no counters. *)
LEMMA InitCountInv ==
  ASSUME UnitsCount, Init
  PROVE  CountInv
<1>1. /\ log = <<Empty>> /\ counters = NoCounters /\ syncing = NoCounters
      /\ \A i \in Idents : numRecords[i] = 0 /\ Empty.stored[i] = 0
      /\ \A p \in Prefixes : Empty.data[p] = {}
      /\ \A u \in Units : unit[u] = NoUnit
  BY Zenon DEF Init, Empty
<1>2. db = Empty /\ \A k \in DOMAIN log : log[k] = Empty BY <1>1 DEF db
<1>3. \A i \in Idents : Count(Empty, i) = 0
  <2>1. \A i \in Idents : Records(Empty, i) = {} BY Zenon, <1>1 DEF Records
  <2> QED BY Zenon, <2>1 DEF Count, UnitsCount
<1>4. \A u \in Units : unit[u].pc \notin {"added", "loaded", "updated"} /\ unit[u].pc # "updated"
  <2>1. NoUnit.pc = "idle" BY Zenon, NoCountersType
  <2> QED BY Zenon, <1>1, <2>1
<1>5. AloneInv BY Zenon, <1>1, <1>4 DEF AloneInv, Flying
<1>6. StoredOK(Empty) BY Zenon, <1>1, <1>3 DEF StoredOK
<1>7. \A i \in Idents : NumberOK(Empty, i) BY Zenon, <1>1, <1>3, <1>4 DEF NumberOK, Flying
<1>8. \A i \in Idents : LatestOK(Empty, i) BY Zenon, <1>1, <1>3, <1>4, NoCountersAt DEF LatestOK
<1>9. LastCountOK(Empty) BY Zenon, <1>7, <1>8 DEF LastCountOK
<1> QED BY Zenon, <1>2, <1>5, <1>6, <1>9 DEF CountInv

(* Nothing is being committed. *)
LEMMA CountersRightThen ==
  ASSUME IndInv, CountInv
  PROVE  CountersAreRight
<1> USE DEF IndInv
<1>1. SUFFICES ASSUME ~Committing, ~overlapped, crashSafe \/ ~crashed, NEW i \in Idents, identMap[i] # 0
             PROVE  numRecords[i] = Cardinality(Records(db, i))
  BY Zenon DEF CountersAreRight
<1>2. Exact BY Zenon, <1>1 DEF Exact
<1>3. ddl[i] # "gone" BY Zenon, <1>1 DEF DdlInv, DdlOK
<1>4. NumberOK(db, i) BY Zenon, <1>1, <1>2, <1>3 DEF CountInv, LastCountOK
<1>5. \A u \in Units : ~Flying(u) BY Zenon, <1>1 DEF Committing, Flying
<1> QED BY Zenon, <1>4, <1>5 DEF NumberOK, Count

(* The specification's notions, which the library used below defines again. *)
IsFinite(S) == IsFiniteSet(S)
NumberOf(S) == Cardinality(S)

(* There are finitely many units of work, and that is all UnitsCount needs. *)
LEMMA UnitsFinite == IsFinite(Units) /\ (UnitsCount <=>
  /\ NumberOf({}) = 0
  /\ \A S \in SUBSET Units :
       NumberOf(S) \in Nat /\ \A u \in Units \ S : NumberOf(S \cup {u}) = NumberOf(S) + 1)
<1>1. IsFinite(Units) BY Zenon, EngineAssumption DEF IsFinite
<1>2. \A S : NumberOf(S) = Cardinality(S) BY Zenon DEF NumberOf
<1> QED BY Zenon, <1>1, <1>2 DEF UnitsCount

USE DEF IsFiniteSet, Cardinality
-----------------------------------------------------------------------------
LOCAL INSTANCE FiniteSetTheorems

(* What LargestPrefix of the constructor of RocksEngine chooses: a set of      *)
(* numbers with a bound has a greatest element.                                *)
LEMMA GreatestOf ==
  ASSUME NEW N \in Nat, NEW S, S \subseteq 0..N, S # {}
  PROVE  Greatest(S) \in S /\ \A y \in S : Greatest(S) >= y
<1> DEFINE T == {n \in Nat : \E y \in S : n = N - y}
<1>1. T \subseteq Nat /\ T # {}
  <2>1. PICK y \in S : y \in 0..N BY Zenon
  <2>2. N - y \in T BY <2>1
  <2> QED BY Zenon, <2>2
<1>2. \E x \in T : \A y \in T : ~ (<<y, x>> \in OpToRel(<, Nat))
  <2> HIDE DEF T
  <2> QED BY Zenon, <1>1, NatLessThanWellFounded, WFMin
<1>3. PICK x \in T : \A y \in T : ~ (<<y, x>> \in OpToRel(<, Nat)) BY Zenon, <1>2
<1>4. \A y \in T : ~ (y < x)
  <2>1. \A a, b \in Nat : a < b => <<a, b>> \in OpToRel(<, Nat)
    BY Zenon DEF OpToRel
  <2> HIDE DEF T
  <2> QED BY <1>1, <1>3, <2>1, Zenon
<1>5. PICK z \in S : x = N - z BY Zenon
<1>6. \A y \in S : z >= y
  BY <1>4, <1>5
<1> QED BY Zenon, <1>6 DEF Greatest

(* The constructor of RocksEngine finds the largest prefix that is in use. *)
LEMMA LargestIsInUse ==
  ASSUME NEW c \in Content
  PROVE  LargestFound(c)
<1> DEFINE S == {0} \cup {p \in Prefixes : c.data[p] # {}} \cup {c.meta[i] : i \in Idents}
<1>1. MaxPrefix \in Nat BY Zenon, EngineAssumption
<1>2. S \subseteq 0..MaxPrefix /\ S # {} BY <1>1, ContentFields DEF Prefixes
<1>3. (\A i \in Idents : c.meta[i] \in S) /\ \A p \in Prefixes : c.data[p] # {} => p \in S BY Zenon
<1>4. LargestPrefix(c) = Greatest(S) BY Zenon DEF LargestPrefix
<1> HIDE DEF S
<1>5. Greatest(S) \in S /\ \A y \in S : Greatest(S) >= y BY Zenon, <1>1, <1>2, GreatestOf
<1>6. \A y \in S : y <= Greatest(S) BY <1>1, <1>2, <1>5
<1> QED BY Zenon, <1>2, <1>3, <1>4, <1>5, <1>6 DEF LargestFound

LEMMA NextIndInv == IndInv /\ [Next]_vars => IndInv'
<1> SUFFICES ASSUME IndInv, [Next]_vars PROVE IndInv' BY Zenon
<1>1. CASE UNCHANGED vars BY Zenon, <1>1, StutterStep
<1>2. ASSUME NEW i \in Idents, CreateIdent(i) \/ PutMetadata(i) \/ PutPrefixKey(i) \/ ReserveTracker(i)
                               \/ PutTrackerKey(i) \/ DropIdent(i) \/ DropFinish(i)
      PROVE  IndInv'
  BY Zenon, <1>2, CreateStep, PutMetadataStep, PutPrefixKeyStep, ReserveTrackerStep, PutTrackerKeyStep,
     DropIdentStep, DropFinishStep
<1>3. ASSUME NEW p \in Prefixes, NEW key, Compact(p, key) PROVE IndInv' BY Zenon, <1>3, CompactStep
<1>4. ASSUME NEW u \in Units, LoadValue(u) \/ UpdateCounter(u) \/ WriteBatch(u) PROVE IndInv'
  BY Zenon, <1>4, LoadValueStep, UpdateCounterStep, WriteBatchStep
<1>5. ASSUME NEW u \in Units, NEW i \in Idents, AddDelta(u, i) PROVE IndInv' BY Zenon, <1>5, AddDeltaStep
<1>6. CASE SyncLog \/ SyncStart \/ SyncWrite \/ Crash \/ CleanRestart
  BY Zenon, <1>6, SyncLogStep, SyncStartStep, SyncWriteStep, CrashStep, CleanRestartStep, LargestIsInUse
<1> QED BY Zenon, <1>1, <1>2, <1>3, <1>4, <1>5, <1>6 DEF Next

(* Every variable has its type: in particular prefixes are never beyond their  *)
(* bound, and the log is never empty.                                          *)
THEOREM TypeCorrect == Spec => []TypeOK
<1>1. IndInv => TypeOK BY Zenon DEF IndInv
<1> QED BY <1>1, InitIndInv, NextIndInv, PTL DEF Spec

(* No two idents share a prefix, and nothing of another ident is under the     *)
(* prefix of one, however _maxPrefix was found again after crashes.            *)
THEOREM PrefixesStayOwn == Spec => []PrefixesAreOwn
<1>1. IndInv => PrefixesAreOwn
  <2> USE DEF IndInv
  <2>1. SUFFICES ASSUME IndInv, NEW i \in Idents, NEW p \in PrefixesOf(i)
                 PROVE  /\ \A j \in Idents \ {i} : p \notin PrefixesOf(j)
                        /\ \A key \in db.data[p] : key[1] = i
    BY Zenon DEF PrefixesAreOwn
  <2>2. \A j \in Idents : j # i => PrefixesOf(i) \cap PrefixesOf(j) = {} BY Zenon, <2>1 DEF OwnInv
  <2>3. \A j \in Idents \ {i} : p \notin PrefixesOf(j) BY Zenon, <2>2
  <2>4. PICK c \in Content : c = db BY Zenon, <2>1, LastInLog
  <2>5. ContentOK(c) BY Zenon, <2>1, <2>4, LastInLog DEF LogInv
  <2>6. p \in Prefixes BY Zenon, <2>1, PrefixFacts
  <2>7. ASSUME NEW key \in c.data[p] PROVE key[1] = i
    <3>1. PICK j \in Idents, x \in Units \cup {"key"} : key = <<j, x>> BY <2>6, ContentFields
    <3>2. HasKey(c, j, p) BY Zenon, <2>7, <3>1 DEF HasKey
    <3>3. KeyOK(c, j) BY Zenon, <2>5 DEF ContentOK
    <3>4. p \notin droppedPrefixes BY Zenon, <2>1 DEF OwnInv
    <3>5. p \in PrefixesOf(j) BY Zenon, <2>6, <3>2, <3>3, <3>4 DEF KeyOK
    <3>6. j = i BY Zenon, <2>2, <3>5
    <3> QED BY Zenon, <3>1, <3>6
  <2> QED BY Zenon, <2>3, <2>4, <2>7
<1> QED BY <1>1, InitIndInv, NextIndInv, PTL DEF Spec

(* The compaction filter is never told, in memory or by a marker, to delete    *)
(* the data of an ident whose metadata a crash can bring back.                 *)
THEOREM FilterNeverHitsLive == Spec => []FilterSparesLive
<1>1. IndInv => FilterSparesLive
  <2> USE DEF IndInv
  <2>1. SUFFICES ASSUME IndInv, NEW k \in DOMAIN log, NEW i \in Idents, log[k].meta[i] # 0
                 PROVE  log[k].meta[i] \notin droppedPrefixes \cup log[k].marks
    BY Zenon DEF FilterSparesLive
  <2>2. PICK c \in Content : c = log[k] BY Zenon, <2>1, LastInLog
  <2>3. MetaOK(c, i) BY Zenon, <2>1, <2>2 DEF LogInv, ContentOK
  <2>4. c.meta[i] = identMap[i] /\ identMap[i] # 0 BY Zenon, <2>1, <2>2, <2>3 DEF MetaOK
  <2>5. identMap[i] \in PrefixesOf(i) /\ PrefixesOf(i) = PrefixesAt(identMap[i], i)
    BY Zenon, <2>1, <2>4, PrefixFacts
  <2>6. identMap[i] \notin droppedPrefixes BY Zenon, <2>1, <2>5 DEF OwnInv
  <2>7. identMap[i] \notin c.marks BY Zenon, <2>3, <2>4, <2>5 DEF MetaOK
  <2> QED BY Zenon, <2>2, <2>4, <2>6, <2>7
<1> QED BY <1>1, InitIndInv, NextIndInv, PTL DEF Spec

(* Whatever a crash keeps, data of an ident without metadata have a marker. *)
THEOREM DroppedStaysMarked == Spec => []DroppedIsMarked
<1>1. IndInv => DroppedIsMarked
  <2> USE DEF IndInv
  <2>1. SUFFICES ASSUME IndInv, NEW k \in DOMAIN log, NEW p \in Prefixes, NEW key \in log[k].data[p],
                        log[k].meta[key[1]] = 0
                 PROVE  p \in log[k].marks
    BY Zenon DEF DroppedIsMarked
  <2>2. PICK c \in Content : c = log[k] BY Zenon, <2>1, LastInLog
  <2> SUFFICES p \in c.marks BY Zenon, <2>2
  <2>3. key \in c.data[p] /\ c.meta[key[1]] = 0 BY Zenon, <2>1, <2>2
  <2>4. PICK j \in Idents, x \in Units \cup {"key"} : key = <<j, x>> BY <2>3, ContentFields
  <2>5. c.meta[j] = 0 /\ key[1] = j BY Zenon, <2>3, <2>4
  <2>6. HasKey(c, j, p) BY Zenon, <2>3, <2>4 DEF HasKey
  <2>7. KeyOK(c, j) BY Zenon, <2>1, <2>2 DEF LogInv, ContentOK
  <2>8. CASE ddl[j] = "gone" BY Zenon, <2>6, <2>7, <2>8 DEF KeyOK
  <2>9. CASE ddl[j] = "drop" BY Zenon, <2>6, <2>7, <2>9 DEF KeyOK
  <2>10. CASE ddl[j] \notin {"drop", "gone"}
    <3>1. p \in PrefixesOf(j) /\ identMap[j] = 0 BY Zenon, <2>5, <2>6, <2>7, <2>10 DEF KeyOK
    <3>2. PrefixesOf(j) = {} BY Zenon, <2>1, <3>1, PrefixFacts
    <3> QED BY Zenon, <3>1, <3>2
  <2> QED BY Zenon, <2>8, <2>9, <2>10
<1> QED BY <1>1, InitIndInv, NextIndInv, PTL DEF Spec

(* The cardinality of finite sets. *)
LEMMA CountOfUnits == UnitsCount
<1>0. (\A S : IsFinite(S) <=> IsFiniteSet(S)) /\ \A S : NumberOf(S) = Cardinality(S)
  BY Zenon DEF IsFinite, NumberOf, IsFiniteSet, Cardinality
<1>1. IsFiniteSet(Units) BY Zenon, <1>0, UnitsFinite
<1>2. ASSUME NEW S \in SUBSET Units
      PROVE  Cardinality(S) \in Nat /\ \A u \in Units \ S : Cardinality(S \cup {u}) = Cardinality(S) + 1
  <2>1. IsFiniteSet(S) BY Zenon, <1>1, FS_Subset
  <2>2. Cardinality(S) \in Nat BY Zenon, <2>1, FS_CardinalityType
  <2>3. ASSUME NEW u \in Units \ S PROVE Cardinality(S \cup {u}) = Cardinality(S) + 1
    <3>1. u \notin S BY Zenon
    <3> QED BY <2>1, <3>1, FS_AddElement
  <2> QED BY Zenon, <2>2, <2>3
<1>3. Cardinality({}) = 0 BY Zenon, FS_EmptySet
<1> QED BY Zenon, <1>0, <1>2, <1>3, UnitsFinite

LEMMA NextCountInv == IndInv /\ CountInv /\ [Next]_vars => CountInv'
<1> SUFFICES ASSUME IndInv, CountInv, [Next]_vars PROVE CountInv' BY Zenon
<1>0. UnitsCount BY Zenon, CountOfUnits
<1>1. CASE UNCHANGED vars BY Zenon, <1>1, SyncLogCount
<1>2. ASSUME NEW i \in Idents, CreateIdent(i) \/ PutMetadata(i) \/ PutPrefixKey(i) \/ ReserveTracker(i)
                               \/ PutTrackerKey(i) \/ DropIdent(i) \/ DropFinish(i)
      PROVE  CountInv'
  BY Zenon, <1>2, CreateCount, PutMetadataCount, PutKeyCount, DropIdentCount, DropFinishCount
<1>3. ASSUME NEW p \in Prefixes, NEW key, Compact(p, key) PROVE CountInv' BY Zenon, <1>3, CompactCount
<1>4. ASSUME NEW u \in Units, LoadValue(u) \/ UpdateCounter(u) \/ WriteBatch(u) PROVE CountInv'
  BY Zenon, <1>0, <1>4, LoadValueCount, UpdateCounterCount, WriteBatchCount
<1>5. ASSUME NEW u \in Units, NEW i \in Idents, AddDelta(u, i) PROVE CountInv' BY Zenon, <1>5, AddDeltaCount
<1>6. CASE SyncLog \/ SyncStart \/ SyncWrite \/ Crash \/ CleanRestart
  BY Zenon, <1>0, <1>6, SyncLogCount, SyncStartCount, SyncWriteCount, CrashCount, CleanRestartCount
<1> QED BY Zenon, <1>1, <1>2, <1>3, <1>4, <1>5, <1>6 DEF Next

(* As long as commits and syncs of the counters do not overlap, the number of  *)
(* records of every collection is right whenever nothing is being committed,   *)
(* after a crash too if counters are crash safe.                               *)
THEOREM CountersStayRight == Spec => []CountersAreRight
<1>1. IndInv /\ CountInv => CountersAreRight BY Zenon, CountersRightThen
<1>2. Init => CountInv BY Zenon, CountOfUnits, InitCountInv
<1> QED BY <1>1, <1>2, InitIndInv, NextIndInv, NextCountInv, PTL DEF Spec
=============================================================================
