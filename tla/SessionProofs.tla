--------------------------- MODULE SessionProofs ---------------------------
(***************************************************************************)
(* Proofs about Session: what a file holds, whatever fails or is killed,      *)
(* and what a restore gives back, or leaves when it fails.                  *)
(***************************************************************************)
EXTENDS Session, SequenceTheorems, FiniteSetTheorems, TLAPS

\* Types of what TypeOK does not speak of.
TypeKept ==
  /\ file \in Seq(Records) \cup {Nothing}
  /\ gucs \in GucsSaved \cup {Nothing} /\ prep \in PreparedSaved \cup {Nothing}
  /\ pc = "read" => todo \in Seq(Records)
  /\ pc = "prepare" => todo \in Seq(Names)

TableRecords(s) == {TableRecord(s, t) : t \in Tabulated(s)}

\* How far the dump of a session has come.
Progress ==
  /\ pc = "dump_gucs" => file = <<>>
  /\ pc = "dump_prepared" /\ damage = "none" => file = <<GucsRecord(session)>>
  /\ pc = "dump_tables" => todo \in Seq(Tabulated(session))
  /\ pc = "dump_tables" /\ damage = "none" =>
       /\ Len(file) >= 2 /\ Len(file) + Len(todo) = 2 + Cardinality(Tabulated(session))
       /\ file[1] = GucsRecord(session) /\ file[2] = PreparedRecord(session)
       /\ {file[k] : k \in 3 .. Len(file)}
            \cup {TableRecord(session, todo[k]) : k \in DOMAIN todo} = TableRecords(session)
  /\ Dumping => dumped = session /\ SessionFile /\ damage # "cut" /\ connect = Nothing

\* A record of the file was dumped, of a table perhaps in part.
Genuine(r) == PartOf(dumped, r)

\* What the files hold.
Files ==
  /\ file # Nothing => dumped \in Sessions /\ \A i \in DOMAIN file : Genuine(file[i])
  /\ file # Nothing /\ damage = "none" /\ ~Dumping => Image(dumped, file)
  /\ connect = TRUE \/ SessionFile => file # Nothing /\ damage # "cut"
  /\ connect = TRUE => ~Dumping /\ ~SessionFile
  /\ pc \in {"read", "prepare"} => ~SessionFile /\ file # Nothing /\ result = Nothing
  /\ result # Nothing => pc = "idle"

\* A record of a file that is whole.
Exact(r) ==
  \/ r = GucsRecord(dumped) \/ r = PreparedRecord(dumped)
  \/ r \in TableRecords(dumped)

Has(type) == \E i \in DOMAIN todo : todo[i].type = type

\* How far the reading of the file has come.
Reading ==
  pc = "read" =>
    /\ target.prepared = saved.prepared /\ target.gucs = saved.gucs
    /\ \A i \in DOMAIN todo : Genuine(todo[i])
    /\ TablesKept
    /\ prep # Nothing => prep = PreparedRecord(dumped).stmts
    /\ damage = "none" =>
         /\ \A i \in DOMAIN todo : Exact(todo[i])
         /\ Has("gucs") \/ gucs = GucsRecord(dumped).vals
         /\ Has("prepared") \/ prep = PreparedRecord(dumped).stmts
         /\ \A t \in Tabulated(dumped) :
              \/ target.tables[t] = dumped.tables[t]
              \/ TableRecord(dumped, t) \in Range(todo)

TablesBack == \A t \in Tabulated(dumped) : target.tables[t] = dumped.tables[t]
GucsBack == \A g \in Gucs \ Forbidden : target.gucs[g] = dumped.gucs[g]
Readable(n) == dumped.prepared[n].table \in Tabulated(dumped) \cup {Nothing}
Back(n) == target.prepared[n] = dumped.prepared[n]

\* How far the statements have come.
Preparing ==
  pc = "prepare" =>
    /\ TablesKept /\ StatementsKept
    /\ todo # <<>> => /\ prep = PreparedRecord(dumped).stmts
                      /\ Range(todo) \subseteq DOMAIN prep \ {Unnamed}
    /\ damage = "none" =>
         /\ TablesBack
         /\ prep = PreparedRecord(dumped).stmts
         /\ saved = Fresh =>
              /\ GucsBack
              /\ \A n \in PreparedOf(dumped) \ {Unnamed} :
                   \/ Back(n)
                   \/ n \in Range(todo) /\ target.prepared[n] = Nothing
                   \/ ~Readable(n) \/ n \in skipped

Results == FailsCleanly /\ RoundTrip

IInv == TypeOK /\ TypeKept /\ Progress /\ Files /\ Reading /\ Preparing /\ Results

----------------------------------------------------------------------------
(* Sessions and records.                                                   *)

LEMMA FreshSession == Fresh \in Sessions
BY SessionAssumption DEF Fresh, Sessions

LEMMA UsedSession == Used \in Sessions
<1>1. [t \in Tables |-> [rows |-> MaxRows, typed |-> FALSE]] \in [Tables -> Table \cup {Nothing}]
  BY SessionAssumption DEF Table
<1>2. [n \in Names |-> [from_sql |-> FALSE, table |-> Nothing]]
        \in [Names -> Statements \cup {Nothing}]
  BY DEF Statements
<1> QED BY <1>1, <1>2, SessionAssumption DEF Used, Fresh, Sessions

\* A session in which one thing has changed.
LEMMA WithSetting ==
  ASSUME NEW s \in Sessions, NEW f \in [Gucs -> Values]
  PROVE  [s EXCEPT !.gucs = f] \in Sessions
BY DEF Sessions

LEMMA WithStatement ==
  ASSUME NEW s \in Sessions, NEW n \in Names, NEW v \in Statements \cup {Nothing}
  PROVE  LET new == [s EXCEPT !.prepared[n] = v]
         IN /\ new \in Sessions /\ new.gucs = s.gucs /\ new.tables = s.tables
            /\ new.prepared = [s.prepared EXCEPT ![n] = v]
<1> DEFINE f == [s.prepared EXCEPT ![n] = v]
<1>1. f \in [Names -> Statements \cup {Nothing}]
  BY DEF Sessions
<1> HIDE DEF f
<1>2. [s EXCEPT !.prepared = f] \in Sessions
  BY <1>1 DEF Sessions
<1>3. [s EXCEPT !.prepared[n] = v] = [s EXCEPT !.prepared = f]
  BY DEF f, Sessions
<1>4. LET new == [s EXCEPT !.prepared = f]
      IN new.gucs = s.gucs /\ new.tables = s.tables /\ new.prepared = f
  BY DEF Sessions
<1> QED BY <1>2, <1>3, <1>4 DEF f

LEMMA WithTable ==
  ASSUME NEW s \in Sessions, NEW t \in Tables, NEW v \in Table \cup {Nothing}
  PROVE  LET new == [s EXCEPT !.tables[t] = v]
         IN /\ new \in Sessions /\ new.gucs = s.gucs /\ new.prepared = s.prepared
            /\ new.tables = [s.tables EXCEPT ![t] = v]
<1> DEFINE f == [s.tables EXCEPT ![t] = v]
<1>1. f \in [Tables -> Table \cup {Nothing}]
  BY DEF Sessions
<1> HIDE DEF f
<1>2. [s EXCEPT !.tables = f] \in Sessions
  BY <1>1 DEF Sessions
<1>3. [s EXCEPT !.tables[t] = v] = [s EXCEPT !.tables = f]
  BY DEF f, Sessions
<1>4. LET new == [s EXCEPT !.tables = f]
      IN new.gucs = s.gucs /\ new.prepared = s.prepared /\ new.tables = f
  BY DEF Sessions
<1> QED BY <1>2, <1>3, <1>4 DEF f

\* The records that a dump writes.
LEMMA GucsRecordType ==
  ASSUME NEW s \in Sessions
  PROVE  /\ GucsRecord(s) \in Records /\ GucsRecord(s).type = "gucs"
         /\ GucsRecord(s).vals \in GucsSaved
<1> DEFINE f == [g \in GucsOf(s) |-> s.gucs[g]]
<1>1. GucsOf(s) \in SUBSET Gucs /\ f \in [GucsOf(s) -> Values]
  BY DEF GucsOf, Sessions
<1>2. f \in GucsSaved
  BY <1>1 DEF GucsSaved
<1> HIDE DEF f
<1>3. GucsRecord(s) = [type |-> "gucs", vals |-> f]
  BY DEF GucsRecord, f
<1> QED BY <1>2, <1>3 DEF Records

LEMMA PreparedRecordType ==
  ASSUME NEW s \in Sessions
  PROVE  /\ PreparedRecord(s) \in Records /\ PreparedRecord(s).type = "prepared"
         /\ PreparedRecord(s).stmts \in PreparedSaved
         /\ DOMAIN PreparedRecord(s).stmts = PreparedOf(s)
         /\ PreparedOf(s) \subseteq Names
<1> DEFINE f == [n \in PreparedOf(s) |-> s.prepared[n]]
<1>1. PreparedOf(s) \in SUBSET Names /\ f \in [PreparedOf(s) -> Statements]
  BY DEF PreparedOf, Sessions
<1>2. f \in PreparedSaved /\ DOMAIN f = PreparedOf(s)
  BY <1>1 DEF PreparedSaved
<1> HIDE DEF f
<1>3. PreparedRecord(s) = [type |-> "prepared", stmts |-> f]
  BY DEF PreparedRecord, f
<1> QED BY <1>1, <1>2, <1>3 DEF Records

LEMMA TableRecordType ==
  ASSUME NEW s \in Sessions, NEW t \in Tabulated(s)
  PROVE  /\ TableRecord(s, t) \in Records /\ TableRecord(s, t).type = "table"
         /\ TableRecord(s, t).name = t /\ TableRecord(s, t).content = s.tables[t]
         /\ s.tables[t] \in Table /\ t \in Tables
<1>1. s.tables[t] \in Table /\ t \in Tables
  BY DEF Tabulated, Sessions
<1> DEFINE b == s.tables[t].typed /\ PathShows(s)
<1>2. b \in BOOLEAN
  BY <1>1 DEF Table, PathShows
<1> HIDE DEF b
<1>3. TableRecord(s, t) = [type |-> "table", name |-> t, content |-> s.tables[t], bare |-> b]
  BY DEF TableRecord, b
<1> QED BY <1>1, <1>2, <1>3 DEF Records

\* What a record of each kind holds.
LEMMA RecordFields ==
  ASSUME NEW r \in Records
  PROVE  /\ r.type \in {"gucs", "prepared", "table"}
         /\ r.type = "gucs" => r.vals \in GucsSaved
         /\ r.type = "prepared" => r.stmts \in PreparedSaved
         /\ r.type = "table" => r.name \in Tables /\ r.content \in Table
BY DEF Records

\* A sequence of all elements of a finite set.
LEMMA Listing ==
  ASSUME NEW S, IsFiniteSet(S)
  PROVE  /\ SetToSeq(S) \in Seq(S) /\ Len(SetToSeq(S)) = Cardinality(S)
         /\ Range(SetToSeq(S)) = S
<1> DEFINE n == Cardinality(S)
           f == SetToSeq(S)
<1>1. n \in Nat /\ ExistsBijection(1 .. n, S)
  BY FS_CardinalityType
<1>2. PICK g \in [1 .. n -> S] : IsInjective(g)
  BY <1>1 DEF ExistsBijection, Bijection, Injection
<1>3. f \in [1 .. n -> S] /\ IsInjective(f)
  BY <1>2 DEF SetToSeq
<1>4. IsFiniteSet(1 .. n) /\ Cardinality(1 .. n) = n
  BY <1>1, FS_Interval
<1>5. f \in Surjection(1 .. n, S)
  BY <1>3, <1>4, FS_Injection DEF Injection
<1> HIDE DEF f, n
<1>6. f \in Seq(S) /\ Len(f) = n
  BY <1>1, <1>3
<1>7. Range(f) = S
  BY <1>5 DEF Surjection, Range
<1> QED BY <1>6, <1>7 DEF f, n

----------------------------------------------------------------------------
(* Types.                                                                  *)

\* What the captured client does.
LEMMA Works ==
  ASSUME TypeOK,
         \/ \E g \in Gucs : Set(g)
         \/ \E n \in Names : Prepare(n) \/ Deallocate(n)
         \/ \E t \in Tables : Change(t)
  PROVE  \E new \in Sessions : Worked(new)
<1>0. session \in Sessions
  BY DEF TypeOK
<1>1. CASE \E g \in Gucs : Set(g)
  <2>1. PICK g \in Gucs, v \in Values : Worked([session EXCEPT !.gucs[g] = v])
    BY <1>1 DEF Set
  <2>2. [session EXCEPT !.gucs[g] = v] \in Sessions
    BY <1>0 DEF Sessions
  <2> QED BY <2>1, <2>2
<1>2. CASE \E n \in Names : Prepare(n)
  <2>1. PICK n \in Names, s \in Statements : Worked([session EXCEPT !.prepared[n] = s])
    BY <1>2 DEF Prepare
  <2> QED BY <1>0, <2>1, WithStatement
<1>3. CASE \E n \in Names : Deallocate(n)
  <2>1. PICK n \in Names : Worked([session EXCEPT !.prepared[n] = Nothing])
    BY <1>3 DEF Deallocate
  <2> QED BY <1>0, <2>1, WithStatement
<1>4. CASE \E t \in Tables : Change(t)
  <2>1. PICK t \in Tables : Change(t)
    BY <1>4
  <2>2. CASE \E table \in Table : Worked([session EXCEPT !.tables[t] = table])
    BY <1>0, <2>2, WithTable
  <2>3. CASE Worked([session EXCEPT !.tables[t] = Nothing])
    BY <1>0, <2>3, WithTable
  <2>4. CASE /\ session.tables[t] # Nothing /\ session.tables[t].rows < MaxRows
             /\ Worked([session EXCEPT !.tables[t].rows = @ + 1])
    <3> DEFINE old == session.tables[t]
               v == [old EXCEPT !.rows = old.rows + 1]
    <3>1. old \in Table
      BY <1>0, <2>4 DEF Sessions
    <3>2. v \in Table
      BY <2>4, <3>1, SessionAssumption DEF Table
    <3>3. [session EXCEPT !.tables[t].rows = @ + 1] = [session EXCEPT !.tables[t] = v]
      OBVIOUS
    <3> QED BY <1>0, <2>4, <3>2, <3>3, WithTable
  <2> QED BY <2>1, <2>2, <2>3, <2>4 DEF Change
<1> QED BY <1>1, <1>2, <1>3, <1>4

\* The kinds of steps that the proofs tell apart.
LEMMA Steps ==
  ASSUME TypeOK, [Next]_vars
  PROVE  \/ \E new \in Sessions : Worked(new)
         \/ session_start \/ DumpGucs \/ DumpPrepared \/ DumpTable \/ DumpDone
         \/ DumpFails \/ session_stop \/ go_live \/ Killed
         \/ session_restore \/ ReadTable \/ ReadShort \/ ReadRecord \/ apply_gucs
         \/ apply_one_prepared \/ RestoreDone
         \/ pc \in {"read", "prepare"} /\ Fails
         \/ UNCHANGED vars
<1>1. CASE \/ \E g \in Gucs : Set(g)
           \/ \E n \in Names : Prepare(n) \/ Deallocate(n)
           \/ \E t \in Tables : Change(t)
  BY <1>1, Works
<1>2. TypeMissing \/ RestoreFails => pc \in {"read", "prepare"} /\ Fails
  BY DEF TypeMissing, RestoreFails
<1>3. ASSUME session_start_fails PROVE session_stop \/ UNCHANGED vars
  <2>1. /\ pc = "idle" /\ SessionFile \in BOOLEAN /\ SessionFile' = FALSE
        /\ UNCHANGED <<session, commands, file, dumped, damage, connect, todo, pc, restoring>>
    BY <1>3 DEF session_start_fails, TypeOK
  <2> QED BY <2>1 DEF session_stop, vars, capturing
<1> QED BY <1>1, <1>2, <1>3 DEF Next

\* The first of a sequence and the others.
LEMMA HeadAndTail ==
  ASSUME NEW S, NEW s \in Seq(S), s # <<>>
  PROVE  /\ Head(s) \in S /\ Tail(s) \in Seq(S) /\ Len(Tail(s)) = Len(s) - 1
         /\ Len(s) \in Nat \ {0} /\ 1 \in DOMAIN s /\ Head(s) = s[1]
         /\ Range(s) = Range(Tail(s)) \cup {Head(s)}
         /\ \A i \in DOMAIN Tail(s) : \E j \in DOMAIN s : Tail(s)[i] = s[j]
         /\ \A j \in DOMAIN s : s[j] = Head(s) \/ \E i \in DOMAIN Tail(s) : Tail(s)[i] = s[j]
<1> DEFINE t == Tail(s)
           n == Len(s)
<1>1. n \in Nat /\ n # 0 /\ DOMAIN s = 1 .. n
  BY EmptySeq, LenProperties
<1>2. /\ Head(s) \in S /\ t \in Seq(S) /\ Len(t) = n - 1
      /\ \A i \in 1 .. n - 1 : t[i] = s[i + 1]
  BY HeadTailProperties
<1>3. Head(s) = s[1]
  OBVIOUS
<1> HIDE DEF t
<1>4. DOMAIN t = 1 .. n - 1
  BY <1>2, LenProperties
<1> HIDE DEF n
<1>5. 1 \in 1 .. n /\ \A i \in 1 .. n - 1 : i + 1 \in 1 .. n
  BY <1>1
<1>6. \A j \in 1 .. n : j = 1 \/ (j - 1 \in 1 .. n - 1 /\ (j - 1) + 1 = j)
  BY <1>1
<1>7. \A i \in DOMAIN t : \E j \in DOMAIN s : t[i] = s[j]
  BY <1>1, <1>2, <1>4, <1>5
<1>8. \A j \in DOMAIN s : s[j] = s[1] \/ \E i \in DOMAIN t : t[i] = s[j]
  <2> SUFFICES ASSUME NEW j \in 1 .. n, j # 1 PROVE \E i \in DOMAIN t : t[i] = s[j]
    BY <1>1
  <2>1. t[j - 1] = s[j] /\ j - 1 \in DOMAIN t
    BY <1>2, <1>4, <1>6
  <2> QED BY <2>1
<1>9. Range(s) = Range(t) \cup {s[1]}
  BY <1>1, <1>5, <1>7, <1>8 DEF Range
<1> QED BY <1>1, <1>2, <1>3, <1>5, <1>7, <1>8, <1>9 DEF t, n

\* The table that the dump writes next.
LEMMA NextTable ==
  ASSUME TypeOK, TypeKept, Progress, pc = "dump_tables", todo # <<>>
  PROVE  /\ Head(todo) \in Tabulated(session) /\ Tail(todo) \in Seq(Tabulated(session))
         /\ TableRecord(session, Head(todo)) \in Records
         /\ file \in Seq(Records)
<1>1. todo \in Seq(Tabulated(session)) /\ session \in Sessions
  BY DEF Progress, TypeOK
<1>2. Head(todo) \in Tabulated(session) /\ Tail(todo) \in Seq(Tabulated(session))
  BY <1>1, HeadAndTail
<1>3. file \in Seq(Records)
  BY DEF TypeKept, TypeOK, Dumping
<1> QED BY <1>1, <1>2, <1>3, TableRecordType

\* A record is written.
LEMMA FileGrows ==
  ASSUME NEW f \in Seq(Records), NEW r \in Records
  PROVE  LET g == Append(f, r)
         IN /\ g \in Seq(Records) /\ Len(g) = Len(f) + 1 /\ Len(f) \in Nat
            /\ DOMAIN f = 1 .. Len(f) /\ DOMAIN g = 1 .. Len(f) + 1
            /\ \A i \in 1 .. Len(f) : g[i] = f[i]
            /\ g[Len(f) + 1] = r
            /\ \A i \in DOMAIN g : g[i] = r \/ \E j \in DOMAIN f : g[i] = f[j]
<1> DEFINE g == Append(f, r)
           n == Len(f)
<1>1. /\ g \in Seq(Records) /\ Len(g) = n + 1
  BY AppendProperties
<1>2. \A i \in 1 .. n : g[i] = f[i]
  BY AppendProperties
<1>3. g[n + 1] = r
  BY AppendProperties
<1>4. n \in Nat /\ DOMAIN f = 1 .. n
  BY LenProperties
<1> HIDE DEF g, n
<1>5. DOMAIN g = 1 .. n + 1
  BY <1>1, LenProperties
<1>6. \A i \in 1 .. n + 1 : i = n + 1 \/ i \in 1 .. n
  BY <1>4
<1>7. \A i \in DOMAIN g : g[i] = r \/ \E j \in DOMAIN f : g[i] = f[j]
  BY <1>2, <1>3, <1>4, <1>5, <1>6
<1> QED BY <1>1, <1>2, <1>3, <1>4, <1>5, <1>7 DEF g, n

\* What a torn table record is.
LEMMA TornType ==
  ASSUME NEW r \in Records, r.type = "table", NEW x \in Torn(r)
  PROVE  /\ x \in Records /\ x.type = "table" /\ x.name = r.name
         /\ x.content \in Table /\ x.content.rows <= r.content.rows
<1>1. PICK m \in 0 .. r.content.rows : x = [r EXCEPT !.content.rows = m]
  BY DEF Torn
<1> DEFINE c == [r.content EXCEPT !.rows = m]
<1>2. r.content \in Table /\ r.name \in Tables
  BY RecordFields
<1>3. c \in Table /\ c.rows = m /\ m <= r.content.rows
  BY <1>2, SessionAssumption DEF Table
<1>4. x = [r EXCEPT !.content = c]
  BY <1>1
<1> HIDE DEF c
<1> QED BY <1>2, <1>3, <1>4 DEF Records

\* What a record of the dump says of a table.
LEMMA GenuineRecord ==
  ASSUME NEW r, Genuine(r), dumped \in Sessions
  PROVE  /\ r.type = "gucs" => r = GucsRecord(dumped)
         /\ r.type = "prepared" => r = PreparedRecord(dumped)
         /\ r.type = "table" => /\ r.name \in Tabulated(dumped)
                                /\ r.content.rows <= dumped.tables[r.name].rows
<1>1. GucsRecord(dumped).type = "gucs" /\ PreparedRecord(dumped).type = "prepared"
  BY GucsRecordType, PreparedRecordType
<1> QED BY <1>1 DEF Genuine, PartOf

\* Part of a table that was dumped was dumped.
LEMMA GenuineTorn ==
  ASSUME NEW r \in Records, r.type = "table", Genuine(r), dumped \in Sessions, NEW x \in Torn(r)
  PROVE  Genuine(x)
<1>1. /\ x.type = "table" /\ x.name = r.name /\ x.content \in Table
      /\ x.content.rows <= r.content.rows
  BY TornType
<1>2. r.name \in Tabulated(dumped) /\ r.content.rows <= dumped.tables[r.name].rows
  BY GenuineRecord
<1>3. r.content \in Table /\ dumped.tables[r.name] \in Table
  BY <1>2, RecordFields, TableRecordType
<1>4. x.content.rows <= dumped.tables[r.name].rows
  BY <1>1, <1>2, <1>3, SessionAssumption DEF Table
<1> QED BY <1>1, <1>2, <1>4 DEF Genuine, PartOf

\* What is in the file when a record is lost.
LEMMA LostRecords ==
  ASSUME NEW r \in Records, file \in Seq(Records), NEW f \in Lost(r)
  PROVE  \/ f = file
         \/ r.type = "table" /\ \E x \in Torn(r) : x \in Records /\ f = Append(file, x)
<1>1. CASE r.type = "table"
  <2>1. f = file \/ \E x \in Torn(r) : f = Append(file, x)
    BY <1>1 DEF Lost
  <2>2. \A x \in Torn(r) : x \in Records
    BY <1>1, TornType
  <2> QED BY <1>1, <2>1, <2>2
<1>2. CASE r.type # "table"
  BY <1>2 DEF Lost
<1> QED BY <1>1, <1>2

\* What the dump has written or is about to write.
LEMMA UpcomingRecords ==
  ASSUME TypeOK, TypeKept, Progress, Dumping
  PROVE  /\ Upcoming \in Seq(Records)
         /\ \A i \in DOMAIN Upcoming :
              \/ \E j \in DOMAIN file : Upcoming[i] = file[j]
              \/ Upcoming[i] \in TableRecords(session)
<1>0. file \in Seq(Records) /\ session \in Sessions
  BY DEF TypeKept, TypeOK
<1>1. Len(file) \in Nat /\ DOMAIN file = 1 .. Len(file)
  BY <1>0, LenProperties
<1>3. CASE pc = "dump_tables" /\ todo # <<>>
  <2> DEFINE x == TableRecord(session, Head(todo))
             n == Len(file)
             u == Append(file, x)
  <2>1. x \in Records /\ x \in TableRecords(session)
    BY <1>3, NextTable DEF TableRecords
  <2>2. Upcoming = file \o <<x>>
    BY <1>3 DEF Upcoming
  <2> HIDE DEF x
  <2>3. Upcoming = u
    BY <1>0, <2>1, <2>2, AppendIsConcat
  <2>4. u \in Seq(Records) /\ DOMAIN u = 1 .. n + 1
    BY <1>0, <2>1, AppendProperties, LenProperties
  <2>5. \A i \in 1 .. n : u[i] = file[i]
    BY <1>0, <2>1, AppendProperties
  <2>6. u[n + 1] = x
    BY <1>0, <2>1, AppendProperties
  <2> HIDE DEF u, n
  <2>7. n \in Nat /\ DOMAIN file = 1 .. n
    BY <1>1 DEF n
  <2>8. \A i \in 1 .. n + 1 : i = n + 1 \/ i \in 1 .. n
    BY <2>7
  <2> QED BY <2>1, <2>3, <2>4, <2>5, <2>6, <2>7, <2>8
<1>4. CASE ~(pc = "dump_tables" /\ todo # <<>>)
  <2>1. Upcoming = file
    BY <1>0, <1>4, ConcatEmptySeq DEF Upcoming
  <2> QED BY <1>0, <2>1
<1> QED BY <1>3, <1>4

\* The first records of a sequence.
LEMMA FirstRecords ==
  ASSUME NEW s \in Seq(Records), NEW k \in DOMAIN s
  PROVE  LET f == SubSeq(s, 1, k - 1)
         IN /\ f \in Seq(Records) /\ \A i \in DOMAIN f : \E j \in DOMAIN s : f[i] = s[j]
<1> DEFINE n == k - 1
           r == SubSeq(s, 1, n)
<1>1. Len(s) \in Nat /\ DOMAIN s = 1 .. Len(s) /\ \A i \in DOMAIN s : s[i] \in Records
  BY LenProperties
<1>2. n \in Nat /\ n <= Len(s)
  BY <1>1
<1> HIDE DEF n
<1>3. \A i \in 1 .. n : i \in DOMAIN s /\ s[i] \in Records
  BY <1>1, <1>2
<1>4. r \in Seq(Records) /\ Len(r) = n /\ \A i \in 1 .. n : r[i] = s[i]
  BY <1>2, <1>3, SubSeqProperties
<1> HIDE DEF r
<1>5. DOMAIN r = 1 .. n
  BY <1>4, LenProperties
<1> QED BY <1>3, <1>4, <1>5 DEF r, n

\* What a killed dump leaves is made of records of the file and part of another.
LEMMA CutRecords ==
  ASSUME TypeOK, TypeKept, Progress, Dumping, NEW f \in Cuts
  PROVE  /\ f \in Seq(Records)
         /\ \A i \in DOMAIN f :
              \/ \E j \in DOMAIN file : f[i] = file[j]
              \/ \E j \in DOMAIN Upcoming : f[i] = Upcoming[j]
              \/ \E j \in DOMAIN Upcoming : Upcoming[j].type = "table" /\ f[i] \in Torn(Upcoming[j])
<1> DEFINE u == Upcoming
<1>0. file \in Seq(Records)
  BY DEF TypeKept, TypeOK
<1>1. u \in Seq(Records) /\ \A i \in DOMAIN u : u[i] \in Records
  BY UpcomingRecords, LenProperties
<1> HIDE DEF u
<1>2. CASE f = file
  BY <1>0, <1>2
<1>3. CASE \E k \in Unflushed(file) : f = SubSeq(file, 1, k - 1)
  <2>1. PICK k \in DOMAIN file : f = SubSeq(file, 1, k - 1)
    BY <1>3 DEF Unflushed
  <2> QED BY <1>0, <2>1, FirstRecords
<1>4. CASE \E k \in Unflushed(u) : \E x \in Torn(u[k]) : f = Append(SubSeq(u, 1, k - 1), x)
  <2>0. PICK k \in DOMAIN u :
          u[k].type = "table" /\ \E x \in Torn(u[k]) : f = Append(SubSeq(u, 1, k - 1), x)
    BY <1>4 DEF Unflushed
  <2>1. PICK x \in Torn(u[k]) : f = Append(SubSeq(u, 1, k - 1), x)
    BY <2>0
  <2> DEFINE s == SubSeq(u, 1, k - 1)
  <2>2. s \in Seq(Records) /\ \A i \in DOMAIN s : \E j \in DOMAIN u : s[i] = u[j]
    BY <1>1, FirstRecords
  <2>3. x \in Records
    BY <1>1, <2>0, TornType
  <2>4. f = Append(s, x)
    BY <2>1
  <2> HIDE DEF s
  <2>5. f \in Seq(Records) /\ \A i \in DOMAIN f : f[i] = x \/ \E j \in DOMAIN s : f[i] = s[j]
    BY <2>2, <2>3, <2>4, FileGrows
  <2> QED BY <2>0, <2>2, <2>5 DEF u
<1>5. \/ f = file \/ \E k \in Unflushed(file) : f = SubSeq(file, 1, k - 1)
      \/ \E k \in Unflushed(u) : f \in {Append(SubSeq(u, 1, k - 1), x) : x \in Torn(u[k])}
  BY DEF Cuts, u
<1> QED BY <1>2, <1>3, <1>4, <1>5

\* A step of the captured client.
LEMMA WorkedFrame ==
  ASSUME NEW new \in Sessions, Worked(new)
  PROVE  /\ pc = "idle" /\ result = Nothing /\ session' = new
         /\ UNCHANGED <<SessionFile, file, dumped, damage, connect, todo, pc, restoring>>
BY DEF Worked

\* What a restore makes of the settings of the target.
LEMMA AppliedGucs ==
  ASSUME TypeOK, gucs \in GucsSaved
  PROVE  [g \in Gucs |-> Applied(g)] \in [Gucs -> Values]
<1>1. PICK G \in SUBSET Gucs : gucs \in [G -> Values]
  BY DEF GucsSaved
<1>2. target.gucs \in [Gucs -> Values]
  BY DEF TypeOK, Sessions
<1>3. \A g \in Gucs : Applied(g) \in Values
  BY <1>1, <1>2 DEF Applied
<1> QED BY <1>3

\* The order in which the statements of a file are prepared.
LEMMA Ordered ==
  ASSUME NEW p \in PreparedSaved
  PROVE  LET order == SetToSeq(DOMAIN p \ {Unnamed})
         IN /\ order \in Seq(Names) /\ Range(order) = DOMAIN p \ {Unnamed}
            /\ \A n \in DOMAIN p : p[n] \in Statements
<1> DEFINE S == DOMAIN p \ {Unnamed}
           order == SetToSeq(S)
<1>1. PICK N \in SUBSET Names : p \in [N -> Statements]
  BY DEF PreparedSaved
<1>2. S \subseteq Names /\ \A n \in DOMAIN p : p[n] \in Statements
  BY <1>1
<1>3. IsFiniteSet(S)
  BY <1>2, FS_Subset, SessionAssumption
<1> HIDE DEF S
<1>4. order \in Seq(S) /\ Range(order) = S
  BY <1>3, Listing
<1> HIDE DEF order
<1>5. order \in Seq(Names)
  BY <1>2, <1>4, SeqMonotonic
<1> QED BY <1>2, <1>4, <1>5 DEF order, S

\* A restore that fails leaves a session.
LEMMA RolledBackType ==
  ASSUME TypeOK
  PROVE  /\ RolledBack \in Sessions
         /\ target.prepared = saved.prepared => RolledBack = saved
BY DEF RolledBack, TypeOK, Sessions

\* Every step keeps the types.
LEMMA TypeStep ==
  ASSUME TypeOK, TypeKept, Progress, Files, Preparing, [Next]_vars
  PROVE  TypeOK' /\ TypeKept'
<1>0. Nothing \notin Seq(Records)
  BY NothingAssumption
<1>1. ASSUME NEW new \in Sessions, Worked(new) PROVE TypeOK' /\ TypeKept'
  <2>1. commands' \in 0 .. MaxCommands
    BY <1>1, SessionAssumption DEF Worked, TypeOK
  <2>2. TypeOK'
    BY <1>1, <2>1, WorkedFrame DEF TypeOK, restoring, Dumping
  <2>3. TypeKept'
    BY <1>1, WorkedFrame DEF TypeKept, restoring
  <2> QED BY <2>2, <2>3
<1>2. CASE session_start
  <2>1. <<>> \in Seq(Records)
    BY EmptySeq
  <2>2. /\ pc' = "dump_gucs" /\ SessionFile' = TRUE /\ file' = <<>> /\ dumped' = session
        /\ damage' = "none" /\ UNCHANGED <<session, commands, connect, todo, restoring>>
    BY <1>2 DEF session_start
  <2>3. TypeOK'
    BY <1>0, <2>1, <2>2 DEF TypeOK, restoring, Dumping
  <2>4. TypeKept'
    BY <2>1, <2>2 DEF TypeKept, restoring
  <2> QED BY <2>3, <2>4
<1>3. ASSUME NEW r \in Records, NEW next \in {"dump_prepared", "dump_tables"},
             Dumping, Write(r, next)
      PROVE  TypeOK' /\ TypeKept'
  <2>1. file \in Seq(Records)
    BY <1>3 DEF TypeKept, TypeOK
  <2>2. /\ file' = Append(file, r) \/ file' \in Lost(r)
        /\ pc' = next /\ SessionFile = TRUE /\ damage' \in {"none", "lost", "cut"}
        /\ UNCHANGED <<session, commands, SessionFile, dumped, connect, restoring>>
    BY <1>3 DEF Write, TypeOK
  <2>3. file' \in Seq(Records)
    <3>1. CASE file' = Append(file, r)
      BY <2>1, <3>1, AppendProperties
    <3>2. CASE file' \in Lost(r)
      BY <2>1, <3>2, LostRecords, AppendProperties
    <3> QED BY <2>2, <3>1, <3>2
  <2>4. TypeOK'
    BY <1>0, <2>2, <2>3 DEF TypeOK, restoring, Dumping
  <2>5. TypeKept'
    BY <2>2, <2>3 DEF TypeKept, restoring
  <2> QED BY <2>4, <2>5
<1>4. CASE DumpGucs \/ DumpPrepared
  BY <1>3, <1>4, GucsRecordType, PreparedRecordType DEF DumpGucs, DumpPrepared, Dumping, TypeOK
<1>5. CASE DumpTable
  BY <1>3, <1>5, NextTable DEF DumpTable, Dumping
<1>6. CASE DumpDone \/ DumpFails \/ session_stop \/ go_live
  <2>1. /\ pc' = "idle" /\ SessionFile' \in BOOLEAN /\ connect' \in {TRUE, FALSE, Nothing}
        /\ file' = file \/ file' = Nothing
        /\ UNCHANGED <<session, commands, dumped, damage, restoring>>
    BY <1>6 DEF DumpDone, DumpFails, session_stop, go_live, Abandoned, capturing, TypeOK
  <2>2. TypeOK'
    BY <2>1 DEF TypeOK, restoring, Dumping
  <2>3. TypeKept'
    BY <2>1 DEF TypeKept, restoring
  <2> QED BY <2>2, <2>3
<1>7. CASE Killed
  <2>1. /\ pc' = "idle" /\ SessionFile' = FALSE /\ session' = Fresh
        /\ UNCHANGED <<commands, dumped, connect, restoring>>
    BY <1>7 DEF Killed
  <2>2. damage' \in {"none", "lost", "cut"} /\ file' \in Seq(Records) \cup {Nothing}
    BY <1>7, CutRecords DEF Killed, TypeOK, TypeKept
  <2>3. TypeOK'
    BY <2>1, <2>2, FreshSession DEF TypeOK, restoring, Dumping
  <2>4. TypeKept'
    BY <2>1, <2>2 DEF TypeKept, restoring
  <2> QED BY <2>3, <2>4
<1>8. CASE session_restore
  <2>1. /\ pc' = "read" /\ saved' = target /\ gucs' = Nothing /\ prep' = Nothing
        /\ todo' = file /\ file # Nothing /\ skipped' = {}
        /\ UNCHANGED <<capturing, target, result>>
    BY <1>8 DEF session_restore
  <2>2. TypeOK'
    BY <2>1 DEF TypeOK, capturing, Dumping
  <2>3. TypeKept'
    BY <2>1 DEF TypeKept, capturing
  <2> QED BY <2>2, <2>3
<1>9. CASE ReadTable
  <2> DEFINE r == Head(todo)
  <2>1. todo \in Seq(Records) /\ todo # <<>> /\ r.type = "table" /\ pc = "read"
    BY <1>9 DEF ReadTable, TypeKept
  <2>2. r \in Records /\ Tail(todo) \in Seq(Records)
    BY <2>1, HeadAndTail
  <2>3. r.name \in Tables /\ r.content \in Table
    BY <2>1, <2>2, RecordFields
  <2>4. /\ target' = [target EXCEPT !.tables[r.name] = r.content] /\ todo' = Tail(todo)
        /\ UNCHANGED <<capturing, saved, result, gucs, prep, skipped, pc>>
    BY <1>9 DEF ReadTable, Keeping, Restored
  <2> HIDE DEF r
  <2>5. target' \in Sessions
    BY <2>3, <2>4, WithTable DEF TypeOK
  <2>6. TypeOK'
    BY <2>1, <2>4, <2>5 DEF TypeOK, capturing, Dumping
  <2>7. TypeKept'
    BY <2>1, <2>2, <2>4 DEF TypeKept, capturing
  <2> QED BY <2>6, <2>7
<1>9a. CASE ReadShort
  <2> DEFINE r == Head(todo)
  <2>1. /\ todo \in Seq(Records) /\ todo # <<>> /\ pc = "read"
        /\ UNCHANGED <<session, commands, SessionFile, file, dumped, connect, saved, gucs, prep,
                       skipped, pc, result>>
        /\ damage' \in {"none", "lost", "cut"}
    BY <1>9a DEF ReadShort, TypeKept, TypeOK
  <2>2. r \in Records /\ Tail(todo) \in Seq(Records) /\ <<>> \in Seq(Records)
    BY <2>1, HeadAndTail, EmptySeq
  <2>3. todo' \in Seq(Records)
    BY <1>9a, <2>2 DEF ReadShort
  <2>4. target' \in Sessions
    <3>1. CASE UNCHANGED target
      BY <3>1 DEF TypeOK
    <3>2. CASE r.type = "table" /\ \E x \in Torn(r) :
                 target' = [target EXCEPT !.tables[x.name] = Restored(x)]
      <4>1. PICK x \in Torn(r) : target' = [target EXCEPT !.tables[x.name] = x.content]
        BY <3>2 DEF Restored
      <4>2. x.name \in Tables /\ x.content \in Table
        BY <2>2, <3>2, TornType, RecordFields
      <4> QED BY <4>1, <4>2, WithTable DEF TypeOK
    <3> QED BY <1>9a, <3>1, <3>2 DEF ReadShort
  <2> HIDE DEF r
  <2>5. TypeOK'
    BY <2>1, <2>4 DEF TypeOK, Dumping
  <2>6. TypeKept'
    BY <2>1, <2>3 DEF TypeKept
  <2> QED BY <2>5, <2>6
<1>10. CASE ReadRecord
  <2>1. todo \in Seq(Records) /\ todo # <<>> /\ pc = "read"
    BY <1>10 DEF ReadRecord, TypeKept
  <2>2. Head(todo) \in Records /\ Tail(todo) \in Seq(Records)
    BY <2>1, HeadAndTail
  <2>3. /\ \/ gucs' \in GucsSaved /\ prep' = prep
           \/ prep' \in PreparedSaved /\ gucs' = gucs
        /\ todo' = Tail(todo) /\ UNCHANGED <<capturing, saved, result, target, skipped, pc>>
    BY <1>10, <2>2, RecordFields DEF ReadRecord, Keeping
  <2>4. TypeOK'
    BY <2>1, <2>3 DEF TypeOK, capturing, Dumping
  <2>5. TypeKept'
    BY <2>1, <2>2, <2>3 DEF TypeKept, capturing
  <2> QED BY <2>4, <2>5
<1>11. CASE apply_gucs
  <2>1. /\ pc' = "prepare" /\ UNCHANGED <<capturing, saved, result, gucs, prep, skipped>>
        /\ target' = IF gucs = Nothing THEN target
                     ELSE [target EXCEPT !.gucs = [g \in Gucs |-> Applied(g)]]
        /\ todo' = IF prep = Nothing THEN <<>> ELSE ApplyOrder
    BY <1>11 DEF apply_gucs, Keeping
  <2>2. target' \in Sessions
    BY <2>1, AppliedGucs, WithSetting DEF TypeOK, TypeKept
  <2>3. todo' \in Seq(Names)
    BY <2>1, Ordered, EmptySeq DEF TypeKept, ApplyOrder
  <2>4. TypeOK'
    BY <2>1, <2>2 DEF TypeOK, capturing, Dumping
  <2>5. TypeKept'
    BY <2>1, <2>3 DEF TypeKept, capturing
  <2> QED BY <2>4, <2>5
<1>12. CASE apply_one_prepared
  <2> DEFINE n == Head(todo)
  <2>1. todo \in Seq(Names) /\ todo # <<>> /\ pc = "prepare"
    BY <1>12 DEF apply_one_prepared, TypeKept
  <2>2. n \in Names /\ Tail(todo) \in Seq(Names) /\ n \in Range(todo)
    BY <2>1, HeadAndTail
  <2>3. prep \in PreparedSaved /\ n \in DOMAIN prep
    <3>1. dumped \in Sessions
      BY <2>1 DEF Files
    <3>2. prep = PreparedRecord(dumped).stmts /\ Range(todo) \subseteq DOMAIN prep
      BY <2>1 DEF Preparing
    <3> QED BY <2>2, <3>1, <3>2, PreparedRecordType
  <2>4. prep[n] \in Statements
    BY <2>3, Ordered
  <2>5. /\ target' = target \/ target' = [target EXCEPT !.prepared[n] = prep[n]]
        /\ skipped' = skipped \/ skipped' = skipped \cup {n}
        /\ todo' = Tail(todo) /\ UNCHANGED <<capturing, saved, result, gucs, prep, pc>>
    BY <1>12 DEF apply_one_prepared, Keeping
  <2> HIDE DEF n
  <2>6. target' \in Sessions
    BY <2>2, <2>4, <2>5, WithStatement DEF TypeOK
  <2>7. TypeOK'
    BY <2>1, <2>2, <2>5, <2>6 DEF TypeOK, capturing, Dumping
  <2>8. TypeKept'
    BY <2>1, <2>2, <2>5 DEF TypeKept, capturing
  <2> QED BY <2>7, <2>8
<1>13. CASE RestoreDone \/ Fails
  <2>1. /\ pc' = "idle" /\ result' \in {0, 1} /\ target' \in Sessions
        /\ UNCHANGED <<capturing, saved, gucs, prep, skipped>>
    BY <1>13, RolledBackType DEF RestoreDone, Fails, TypeOK
  <2>2. TypeOK'
    BY <2>1 DEF TypeOK, capturing, Dumping
  <2>3. TypeKept'
    BY <2>1 DEF TypeKept, capturing
  <2> QED BY <2>2, <2>3
<1>14. CASE UNCHANGED vars
  <2>1. TypeOK'
    BY <1>14 DEF vars, TypeOK, capturing, restoring, Dumping
  <2>2. TypeKept'
    BY <1>14 DEF vars, TypeKept, capturing, restoring
  <2> QED BY <2>1, <2>2
<1> QED BY <1>1, <1>2, <1>4, <1>5, <1>6, <1>7, <1>8, <1>9, <1>9a, <1>10, <1>11, <1>12,
           <1>13, <1>14, Steps

----------------------------------------------------------------------------
(* What the files hold.                                                    *)

\* Steps that the dump and the files do not see.
LEMMA SameFiles ==
  ASSUME Progress, Files, UNCHANGED <<SessionFile, file, dumped, connect, result>>,
         damage' = damage \/ (damage = "none" /\ damage' = "lost"),
         pc \notin {"dump_gucs", "dump_prepared", "dump_tables"},
         pc' \in {pc, "idle"} \/ (pc' = "prepare" /\ pc = "read"),
         result # Nothing => pc = "idle"
  PROVE  Progress' /\ Files'
<1>1. ~Dumping /\ ~Dumping'
  BY DEF Dumping
<1>2. Progress'
  BY <1>1 DEF Progress, Dumping
<1>3. \A i \in DOMAIN file : Genuine(file[i])' <=> Genuine(file[i])
  BY DEF Genuine
<1>4. file # Nothing /\ damage' = "none" => Image(dumped, file)'
  BY <1>1 DEF Files, Image
<1>5. Files'
  BY <1>1, <1>3, <1>4 DEF Files
<1> QED BY <1>2, <1>5

\* The records from the third on.
LEMMA RangeOfRest ==
  ASSUME NEW s \in Seq(Records), Len(s) >= 2
  PROVE  Range(SubSeq(s, 3, Len(s))) = {s[k] : k \in 3 .. Len(s)}
<1> DEFINE n == Len(s)
           r == SubSeq(s, 3, n)
<1>1. n \in Nat /\ DOMAIN s = 1 .. n /\ \A i \in 1 .. n : s[i] \in Records
  BY LenProperties
<1> HIDE DEF n
<1>2. n >= 2
  BY DEF n
<1>3. \A i \in 3 .. n : s[i] \in Records
  BY <1>1
<1>4. /\ r \in Seq(Records) /\ Len(r) = IF 3 <= n THEN n - 3 + 1 ELSE 0
      /\ \A i \in 1 .. n - 3 + 1 : r[i] = s[3 + i - 1]
  BY <1>1, <1>3, SubSeqProperties
<1> HIDE DEF r
<1>5. Len(r) = n - 2
  BY <1>1, <1>2, <1>4
<1>6. DOMAIN r = 1 .. n - 2 /\ \A i \in 1 .. n - 2 : r[i] = s[i + 2]
  <2>1. \A i \in 1 .. n - 2 : i \in 1 .. n - 3 + 1 /\ 3 + i - 1 = i + 2
    BY <1>1
  <2> QED BY <1>4, <1>5, <2>1, LenProperties
<1>7. \A i \in 1 .. n - 2 : i + 2 \in 3 .. n
  BY <1>1
<1>8. \A k \in 3 .. n : k - 2 \in 1 .. n - 2 /\ (k - 2) + 2 = k
  BY <1>1
<1>9. Range(r) \subseteq {s[k] : k \in 3 .. n}
  BY <1>6, <1>7 DEF Range
<1>10. ASSUME NEW k \in 3 .. n PROVE s[k] \in Range(r)
  <2>1. r[k - 2] = s[k] /\ k - 2 \in DOMAIN r
    BY <1>6, <1>8
  <2> QED BY <2>1 DEF Range
<1> QED BY <1>9, <1>10 DEF r, n

\* A step of the dump that writes a record.
LEMMA FilesWrite ==
  ASSUME TypeOK, TypeKept, Progress, Files, Dumping, NEW r \in Records, NEW next,
         Write(r, next), next \in {"dump_prepared", "dump_tables"}, Genuine(r)
  PROVE  Files'
<1>1. /\ pc' = next /\ Dumping'
      /\ UNCHANGED <<session, SessionFile, dumped, connect, result>>
  BY DEF Write, Dumping, restoring
<1>2. file \in Seq(Records) /\ file # Nothing
  BY DEF TypeOK, TypeKept
<1>4. /\ dumped \in Sessions /\ \A j \in DOMAIN file : Genuine(file[j])
      /\ damage # "cut" /\ connect = Nothing /\ result = Nothing
  BY <1>2 DEF Files, Progress, Dumping
<1>3. ASSUME NEW x \in Records, Genuine(x), file' = Append(file, x)
      PROVE  file' \in Seq(Records) /\ \A i \in DOMAIN file' : Genuine(file'[i])
  <2>1. /\ file' \in Seq(Records)
        /\ \A i \in DOMAIN file' : file'[i] = x \/ \E j \in DOMAIN file : file'[i] = file[j]
    BY <1>2, <1>3, FileGrows
  <2> QED BY <1>3, <1>4, <2>1
<1>5. file' \in Seq(Records) /\ \A i \in DOMAIN file' : Genuine(file'[i])
  <2>1. CASE file' = Append(file, r)
    BY <1>3, <2>1
  <2>2. CASE file' \in Lost(r)
    <3>1. CASE file' = file
      BY <1>2, <1>4, <3>1
    <3>2. CASE r.type = "table" /\ \E x \in Torn(r) : x \in Records /\ file' = Append(file, x)
      <4>1. PICK x \in Torn(r) : x \in Records /\ file' = Append(file, x)
        BY <3>2
      <4>2. Genuine(x)
        BY <1>4, <3>2, GenuineTorn
      <4> QED BY <1>3, <4>1, <4>2
    <3> QED BY <1>2, <2>2, <3>1, <3>2, LostRecords
  <2> QED BY <2>1, <2>2 DEF Write
<1>6. \A i \in DOMAIN file' : Genuine(file[i])'
  BY <1>1, <1>5 DEF Genuine
<1>7. file' # Nothing /\ Nothing # TRUE
  BY <1>5, NothingAssumption
<1>8. damage' # "cut"
  BY <1>4 DEF Write
<1> QED BY <1>1, <1>4, <1>6, <1>7, <1>8 DEF Files, Dumping

\* What a dump writes of a table is genuine.
LEMMA GenuineTable ==
  ASSUME NEW t \in Tabulated(dumped), dumped \in Sessions
  PROVE  Genuine(TableRecord(dumped, t))
<1>1. dumped.tables[t].rows <= dumped.tables[t].rows
  BY TableRecordType, SessionAssumption DEF Table
<1> QED BY <1>1, TableRecordType DEF Genuine, PartOf

LEMMA FilesDump ==
  ASSUME TypeOK, TypeKept, Progress, Files, DumpGucs \/ DumpPrepared \/ DumpTable
  PROVE  Files'
<1>1. session \in Sessions /\ dumped = session /\ Dumping
  BY DEF DumpGucs, DumpPrepared, DumpTable, Dumping, Progress, TypeOK
<1>2. CASE DumpGucs
  <2>1. GucsRecord(session) \in Records /\ Genuine(GucsRecord(session))
    BY <1>1, GucsRecordType DEF Genuine, PartOf
  <2> QED BY <1>1, <1>2, <2>1, FilesWrite DEF DumpGucs
<1>3. CASE DumpPrepared
  <2>1. PreparedRecord(session) \in Records /\ Genuine(PreparedRecord(session))
    BY <1>1, PreparedRecordType DEF Genuine, PartOf
  <2> QED BY <1>1, <1>3, <2>1, FilesWrite DEF DumpPrepared
<1>4. CASE DumpTable
  <2> DEFINE r == TableRecord(session, Head(todo))
  <2>1. r \in Records /\ Genuine(r)
    BY <1>1, <1>4, NextTable, GenuineTable DEF DumpTable
  <2>2. Write(r, "dump_tables")
    BY <1>4 DEF DumpTable
  <2> HIDE DEF r
  <2> QED BY <1>1, <2>1, <2>2, FilesWrite
<1> QED BY <1>2, <1>3, <1>4

\* The dump goes on with what it has not written, and nothing has been lost.
LEMMA WholeDump ==
  ASSUME TypeOK, TypeKept, Progress, DumpGucs \/ DumpPrepared \/ DumpTable, damage' = "none"
  PROVE  Progress'
<1> DEFINE G == GucsRecord(session)
           P == PreparedRecord(session)
           T == Tabulated(session)
           N == Cardinality(T)
<1>0. /\ session \in Sessions /\ dumped = session /\ SessionFile /\ damage = "none" /\ connect = Nothing
      /\ file \in Seq(Records)
  BY DEF DumpGucs, DumpPrepared, DumpTable, Write, Dumping, Progress, TypeOK, TypeKept
<1>1. G \in Records /\ P \in Records
  BY <1>0, GucsRecordType, PreparedRecordType
<1>2. UNCHANGED <<session, dumped, SessionFile, damage, connect>>
  BY DEF DumpGucs, DumpPrepared, DumpTable, Write
<1>3. G' = G /\ P' = P /\ T' = T /\ TableRecords(session)' = TableRecords(session)
  BY <1>2 DEF GucsRecord, GucsOf, PreparedRecord, PreparedOf, Tabulated, TableRecords,
              TableRecord, PathShows
<1>4. CASE DumpGucs
  <2>1. /\ file = <<>> /\ file' = Append(file, G) /\ pc' = "dump_prepared"
    BY <1>4 DEF DumpGucs, Write, Progress
  <2> HIDE DEF G
  <2>2. file' = <<G>>
    BY <2>1
  <2> QED BY <1>0, <1>2, <1>3, <2>1, <2>2 DEF Progress, Dumping, G
<1>5. CASE DumpPrepared
  <2>1. /\ file = <<G>> /\ file' = Append(file, P) /\ pc' = "dump_tables"
        /\ todo' = SetToSeq(T)
    BY <1>5 DEF DumpPrepared, Write, Progress
  <2>2. IsFiniteSet(T)
    BY SessionAssumption, FS_Subset DEF Tabulated
  <2> HIDE DEF T
  <2>3. todo' \in Seq(T) /\ Len(todo') = N /\ Range(todo') = T
    BY <2>1, <2>2, Listing
  <2>4. N \in Nat
    BY <2>2, FS_CardinalityType
  <2> HIDE DEF G, P, N
  <2>5. Len(file) = 1 /\ file[1] = G
    BY <2>1
  <2>6. Len(file') = Len(file) + 1 /\ file'[1] = G /\ file'[Len(file) + 1] = P
    BY <1>0, <1>1, <2>1, <2>5, FileGrows
  <2>7. Len(file') = 2 /\ file'[2] = P
    BY <2>5, <2>6
  <2>8. {file'[k] : k \in 3 .. Len(file')} = {}
    BY <2>7
  <2>9. {TableRecord(session, todo'[k]) : k \in DOMAIN todo'} = TableRecords(session)
    <3>1. T = {todo'[k] : k \in DOMAIN todo'}
      BY <2>3 DEF Range
    <3> QED BY <3>1 DEF TableRecords, T
  <2>10. {file[k] : k \in 3 .. Len(file)}'
           \cup {TableRecord(session, todo[k]) : k \in DOMAIN todo}' = TableRecords(session)'
    <3>1. {TableRecord(session, todo[k]) : k \in DOMAIN todo}'
            = {TableRecord(session, todo'[k]) : k \in DOMAIN todo'}
      BY <1>2 DEF TableRecord, PathShows
    <3> QED BY <1>3, <2>8, <2>9, <3>1
  <2>11. Len(file') + Len(todo') = 2 + N
    BY <2>3, <2>4, <2>7
  <2>12. /\ todo' \in Seq(Tabulated(session))' /\ (2 + Cardinality(Tabulated(session)))' = 2 + N
    BY <1>2, <2>3 DEF T, N, Tabulated
  <2>13. file'[1] = GucsRecord(session)' /\ file'[2] = PreparedRecord(session)'
    BY <1>3, <2>6, <2>7 DEF G, P
  <2> QED BY <1>0, <1>2, <2>1, <2>7, <2>10, <2>11, <2>12, <2>13 DEF Progress, Dumping
<1>6. CASE DumpTable
  <2> DEFINE h == Head(todo)
             r == TableRecord(session, h)
             t == Tail(todo)
             m == Len(file)
  <2>1. /\ pc = "dump_tables" /\ todo # <<>> /\ file' = Append(file, r)
        /\ pc' = "dump_tables" /\ todo' = t
    BY <1>6 DEF DumpTable, Write
  <2>2. /\ todo \in Seq(T) /\ m >= 2 /\ m + Len(todo) = 2 + N
        /\ file[1] = G /\ file[2] = P
        /\ {file[k] : k \in 3 .. m}
             \cup {TableRecord(session, todo[k]) : k \in DOMAIN todo} = TableRecords(session)
    BY <1>0, <2>1 DEF Progress
  <2>3. r \in Records
    BY <2>1, NextTable
  <2> HIDE DEF T, G, P
  <2>4. /\ t \in Seq(T) /\ Len(t) = Len(todo) - 1 /\ Len(todo) \in Nat \ {0}
        /\ Range(todo) = Range(t) \cup {h}
    BY <2>1, <2>2, HeadAndTail
  <2> HIDE DEF h, r, t
  <2>5. /\ m \in Nat /\ Len(file') = m + 1 /\ \A i \in 1 .. m : file'[i] = file[i]
        /\ file'[m + 1] = r
    BY <1>0, <2>1, <2>3, FileGrows
  <2> HIDE DEF m
  <2>6. {file'[k] : k \in 3 .. m + 1} = {file[k] : k \in 3 .. m} \cup {r}
    <3>1. \A k \in 3 .. m : k \in 3 .. m + 1 /\ k \in 1 .. m
      BY <2>5
    <3>2. \A k \in 3 .. m + 1 : k = m + 1 \/ k \in 3 .. m
      BY <2>5
    <3>3. m + 1 \in 3 .. m + 1
      BY <2>2, <2>5
    <3> HIDE DEF m
    <3>4. \A k \in 3 .. m : file'[k] = file[k]
      BY <2>5, <3>1
    <3>5. \A k \in 3 .. m + 1 : file'[k] \in {file[l] : l \in 3 .. m} \cup {r}
      BY <2>5, <3>2, <3>4
    <3>6. \A l \in 3 .. m : file[l] \in {file'[k] : k \in 3 .. m + 1}
      BY <3>1, <3>4
    <3>7. r \in {file'[k] : k \in 3 .. m + 1}
      BY <2>5, <3>3
    <3> QED BY <3>5, <3>6, <3>7
  <2>7. {TableRecord(session, todo[k]) : k \in DOMAIN todo}
          = {TableRecord(session, t[k]) : k \in DOMAIN t} \cup {r}
    <3>1. {todo[k] : k \in DOMAIN todo} = {t[k] : k \in DOMAIN t} \cup {h}
      BY <2>4 DEF Range
    <3> QED BY <3>1 DEF r
  <2>8. {file'[k] : k \in 3 .. m + 1} \cup {TableRecord(session, t[k]) : k \in DOMAIN t}
          = TableRecords(session)
    BY <2>2, <2>6, <2>7
  <2>9. {file[k] : k \in 3 .. Len(file)}'
          \cup {TableRecord(session, todo[k]) : k \in DOMAIN todo}' = TableRecords(session)'
    <3>1. {TableRecord(session, todo[k]) : k \in DOMAIN todo}'
            = {TableRecord(session, t[k]) : k \in DOMAIN t}
      BY <1>2, <2>1 DEF TableRecord, PathShows
    <3>2. {file[k] : k \in 3 .. Len(file)}' = {file'[k] : k \in 3 .. m + 1}
      BY <2>5
    <3> QED BY <1>3, <2>8, <3>1, <3>2
  <2>10. N \in Nat
    <3>1. IsFiniteSet(T)
      BY SessionAssumption, FS_Subset DEF Tabulated, T
    <3> QED BY <3>1, FS_CardinalityType
  <2> HIDE DEF N
  <2>11. Len(file') + Len(todo') = 2 + N /\ Len(file') >= 2
    <3> DEFINE l == Len(todo)
    <3>1. Len(todo') = l - 1 /\ l \in Nat
      BY <2>1, <2>4
    <3>2. m + l = 2 + N /\ m >= 2
      BY <2>2
    <3> HIDE DEF l
    <3> QED BY <2>5, <2>10, <3>1, <3>2
  <2>12. /\ todo' \in Seq(Tabulated(session))' /\ (2 + Cardinality(Tabulated(session)))' = 2 + N
    BY <1>2, <2>1, <2>4 DEF T, N, Tabulated
  <2>13. file'[1] = GucsRecord(session)' /\ file'[2] = PreparedRecord(session)'
    <3>1. 1 \in 1 .. m /\ 2 \in 1 .. m
      BY <2>2, <2>5
    <3> QED BY <1>3, <2>2, <2>5, <3>1 DEF G, P
  <2> QED BY <1>0, <1>2, <2>1, <2>9, <2>11, <2>12, <2>13 DEF Progress, Dumping
<1> QED BY <1>4, <1>5, <1>6

\* The dump goes on, whatever was lost.
LEMMA ProgressDump ==
  ASSUME TypeOK, TypeKept, Progress, DumpGucs \/ DumpPrepared \/ DumpTable
  PROVE  Progress'
<1>1. CASE damage' = "none"
  BY <1>1, WholeDump
<1>2. CASE damage' # "none"
  <2>1. /\ session \in Sessions /\ dumped = session /\ SessionFile /\ damage # "cut"
        /\ connect = Nothing
    BY DEF DumpGucs, DumpPrepared, DumpTable, Dumping, Progress, TypeOK
  <2>2. /\ UNCHANGED <<session, dumped, SessionFile, connect>> /\ damage' # "cut"
        /\ pc' \in {"dump_prepared", "dump_tables"}
    BY <2>1 DEF DumpGucs, DumpPrepared, DumpTable, Write
  <2>3. ASSUME pc' = "dump_tables" PROVE todo' \in Seq(Tabulated(session))
    <3>1. CASE DumpPrepared
      <4>1. IsFiniteSet(Tabulated(session))
        BY SessionAssumption, FS_Subset DEF Tabulated
      <4> QED BY <3>1, <4>1, Listing DEF DumpPrepared
    <3>2. CASE DumpTable
      BY <3>2, NextTable DEF DumpTable
    <3> QED BY <2>3, <3>1, <3>2 DEF DumpGucs, Write
  <2>4. pc' = "dump_tables" => todo' \in Seq(Tabulated(session))'
    BY <2>2, <2>3 DEF Tabulated
  <2> QED BY <1>2, <2>1, <2>2, <2>4 DEF Progress, Dumping
<1> QED BY <1>1, <1>2

\* A dump that is done leaves a whole file, if nothing was lost.
LEMMA FilesDone ==
  ASSUME TypeOK, TypeKept, Progress, Files, DumpDone
  PROVE  Progress' /\ Files'
<1>1. /\ pc = "dump_tables" /\ todo = <<>> /\ pc' = "idle"
      /\ UNCHANGED <<session, SessionFile, file, dumped, damage, connect, result>>
  BY DEF DumpDone, capturing, restoring
<1>2. /\ dumped = session /\ SessionFile /\ damage # "cut" /\ connect = Nothing /\ Dumping
      /\ file \in Seq(Records) /\ file # Nothing /\ session \in Sessions
  BY <1>1 DEF Progress, Dumping, TypeOK, TypeKept
<1>3. ASSUME damage = "none" PROVE Image(dumped, file)'
  <2>1. /\ Len(file) >= 2 /\ Len(file) + Len(todo) = 2 + Cardinality(Tabulated(session))
        /\ file[1] = GucsRecord(session) /\ file[2] = PreparedRecord(session)
        /\ {file[k] : k \in 3 .. Len(file)}
             \cup {TableRecord(session, todo[k]) : k \in DOMAIN todo} = TableRecords(session)
    BY <1>1, <1>3 DEF Progress
  <2>2. Len(todo) = 0 /\ {TableRecord(session, todo[k]) : k \in DOMAIN todo} = {}
    BY <1>1
  <2>3. Range(SubSeq(file, 3, Len(file))) = TableRecords(session)
    BY <1>2, <2>1, <2>2, RangeOfRest
  <2>4. Len(file) = 2 + Cardinality(Tabulated(session))
    <3>1. Len(file) \in Nat
      BY <1>2, LenProperties
    <3> QED BY <2>1, <2>2, <3>1
  <2>5. Image(dumped, file)
    BY <1>2, <2>1, <2>3, <2>4 DEF Image, TableRecords
  <2> QED BY <1>1, <2>5 DEF Image
<1>4. \A i \in DOMAIN file : Genuine(file[i])' <=> Genuine(file[i])
  BY <1>1 DEF Genuine
<1>5. ~Dumping' /\ Progress'
  BY <1>1 DEF Progress, Dumping
<1>6. Nothing # TRUE
  BY NothingAssumption
<1>7. result = Nothing
  BY <1>1 DEF Files
<1> QED BY <1>1, <1>2, <1>3, <1>4, <1>5, <1>6, <1>7 DEF Files

\* A dump begins, fails, or its file is closed.
LEMMA FilesControl ==
  ASSUME TypeOK, TypeKept, Progress, Files,
         session_start \/ DumpFails \/ session_stop \/ go_live
  PROVE  Progress' /\ Files'
<1>0. Nothing \notin BOOLEAN /\ <<>> # Nothing
  BY NothingAssumption, EmptySeq
<1>1. CASE session_start
  <2>1. /\ pc' = "dump_gucs" /\ SessionFile' = TRUE /\ file' = <<>> /\ dumped' = session
        /\ damage' = "none" /\ connect = Nothing /\ result = Nothing
        /\ UNCHANGED <<session, connect, result>>
    BY <1>1 DEF session_start, restoring
  <2>2. Progress'
    BY <2>1 DEF Progress, Dumping
  <2>3. dumped' \in Sessions /\ \A i \in DOMAIN file' : Genuine(file[i])'
    BY <2>1 DEF TypeOK
  <2>4. Files'
    BY <1>0, <2>1, <2>3 DEF Files, Dumping
  <2> QED BY <2>2, <2>4
<1>2. CASE DumpFails
  <2>1. /\ pc' = "idle" /\ SessionFile' = FALSE /\ file' = Nothing /\ Dumping
        /\ UNCHANGED <<session, dumped, damage, connect, result>>
    BY <1>2 DEF DumpFails, Abandoned, restoring
  <2>2. connect = Nothing /\ result = Nothing
    BY <2>1 DEF Progress, Files, Dumping
  <2>3. Progress'
    BY <2>1 DEF Progress, Dumping
  <2>4. Files'
    BY <1>0, <2>1, <2>2 DEF Files, Dumping
  <2> QED BY <2>3, <2>4
<1>3. CASE session_stop \/ go_live
  <2>1. /\ pc = "idle" /\ pc' = "idle" /\ SessionFile' = FALSE
        /\ connect' = connect \/ connect' = SessionFile
        /\ UNCHANGED <<session, file, dumped, damage, result>>
    BY <1>3 DEF session_stop, go_live, restoring
  <2>2. ~Dumping /\ ~Dumping' /\ SessionFile \in BOOLEAN
    BY <2>1 DEF Dumping, TypeOK
  <2>3. Progress'
    BY <2>1 DEF Progress, Dumping
  <2>4. \A i \in DOMAIN file : Genuine(file[i])' <=> Genuine(file[i])
    BY <2>1 DEF Genuine
  <2>5. file # Nothing /\ damage = "none" => Image(dumped, file)'
    BY <2>1, <2>2 DEF Files, Image
  <2>6. file # Nothing => dumped \in Sessions /\ \A i \in DOMAIN file : Genuine(file[i])
    BY DEF Files
  <2>7. connect' = TRUE => file # Nothing /\ damage # "cut"
    BY <2>1, <2>2 DEF Files
  <2>8. Files'
    BY <2>1, <2>2, <2>4, <2>5, <2>6, <2>7 DEF Files
  <2> QED BY <2>3, <2>8
<1> QED BY <1>1, <1>2, <1>3

\* The backend is killed.
LEMMA FilesKilled ==
  ASSUME TypeOK, TypeKept, Progress, Files, Killed
  PROVE  Progress' /\ Files'
<1>1. /\ pc' = "idle" /\ SessionFile' = FALSE
      /\ UNCHANGED <<dumped, connect, result>>
  BY DEF Killed, restoring
<1>2. ~Dumping' /\ Progress'
  BY <1>1 DEF Progress, Dumping
<1>3. CASE Dumping
  <2>1. file' \in Cuts /\ damage' = "cut"
    BY <1>3 DEF Killed
  <2>2. /\ dumped = session /\ session \in Sessions /\ connect = Nothing /\ result = Nothing
        /\ file \in Seq(Records) /\ file # Nothing
    BY <1>3 DEF Progress, Files, Dumping, TypeOK, TypeKept
  <2>3. \A j \in DOMAIN file : Genuine(file[j])
    BY <2>2 DEF Files
  <2>4. \A r \in TableRecords(dumped) : Genuine(r)
    BY <2>2, GenuineTable DEF TableRecords
  <2>5. \A j \in DOMAIN Upcoming : Upcoming[j] \in Records /\ Genuine(Upcoming[j])
    BY <1>3, <2>2, <2>3, <2>4, UpcomingRecords, LenProperties
  <2>5a. \A j \in DOMAIN Upcoming : Upcoming[j].type = "table" =>
           \A x \in Torn(Upcoming[j]) : Genuine(x)
    BY <2>2, <2>5, GenuineTorn
  <2>6. \A i \in DOMAIN file' : Genuine(file'[i])
    BY <1>3, <2>1, <2>3, <2>5, <2>5a, CutRecords
  <2>7. \A i \in DOMAIN file' : Genuine(file[i])'
    BY <1>1, <2>6 DEF Genuine
  <2>8. Nothing # TRUE
    BY NothingAssumption
  <2> QED BY <1>1, <1>2, <2>1, <2>2, <2>7, <2>8 DEF Files
<1>4. CASE ~Dumping
  <2>1. UNCHANGED <<file, damage>> /\ pc = "idle" /\ SessionFile
    BY <1>4 DEF Killed
  <2>2. \A i \in DOMAIN file : Genuine(file[i])' <=> Genuine(file[i])
    BY <1>1, <2>1 DEF Genuine
  <2>3. file # Nothing /\ damage = "none" => Image(dumped, file)'
    BY <1>1, <1>4, <2>1 DEF Files, Image
  <2> QED BY <1>1, <1>2, <2>1, <2>2, <2>3 DEF Files
<1> QED BY <1>3, <1>4

\* Every step keeps what the files hold.
LEMMA FilesStep ==
  ASSUME TypeOK, TypeKept, Progress, Files, [Next]_vars
  PROVE  Progress' /\ Files'
<1>1. ASSUME NEW new \in Sessions, Worked(new) PROVE Progress' /\ Files'
  BY <1>1, WorkedFrame, SameFiles DEF restoring
<1>2. CASE DumpGucs \/ DumpPrepared \/ DumpTable
  BY <1>2, FilesDump, ProgressDump
<1>3. CASE session_restore
  <2>1. /\ pc = "idle" /\ pc' = "read" /\ file # Nothing /\ ~SessionFile /\ result = Nothing
        /\ UNCHANGED <<SessionFile, file, dumped, damage, connect, result>>
    BY <1>3 DEF session_restore, capturing
  <2>2. ~Dumping /\ ~Dumping' /\ Progress'
    BY <2>1 DEF Dumping, Progress
  <2>3. \A i \in DOMAIN file : Genuine(file[i])' <=> Genuine(file[i])
    BY <2>1 DEF Genuine
  <2>4. file # Nothing /\ damage = "none" => Image(dumped, file)'
    BY <2>1, <2>2 DEF Files, Image
  <2>5. Files'
    BY <2>1, <2>2, <2>3, <2>4 DEF Files
  <2> QED BY <2>2, <2>5
<1>4. CASE ReadTable \/ ReadShort \/ ReadRecord \/ apply_gucs \/ apply_one_prepared
  <2>1. /\ pc \in {"read", "prepare"} /\ (pc' = pc \/ (pc' = "prepare" /\ pc = "read"))
        /\ UNCHANGED <<SessionFile, file, dumped, connect, result>>
        /\ damage' = damage \/ (damage = "none" /\ damage' = "lost")
    BY <1>4 DEF ReadTable, ReadShort, ReadRecord, apply_gucs, apply_one_prepared, Keeping, capturing
  <2>2. result # Nothing => pc = "idle"
    BY DEF Files
  <2> QED BY <2>1, <2>2, SameFiles
<1>5. CASE RestoreDone \/ (pc \in {"read", "prepare"} /\ Fails)
  <2>1. /\ pc \in {"read", "prepare"} /\ pc' = "idle"
        /\ UNCHANGED <<SessionFile, file, dumped, damage, connect>>
    BY <1>5 DEF RestoreDone, Fails, capturing
  <2>2. ~Dumping /\ ~Dumping' /\ Progress'
    BY <2>1 DEF Dumping, Progress
  <2>3. \A i \in DOMAIN file : Genuine(file[i])' <=> Genuine(file[i])
    BY <2>1 DEF Genuine
  <2>4. file # Nothing /\ damage = "none" => Image(dumped, file)'
    BY <2>1, <2>2 DEF Files, Image
  <2>5. Files'
    BY <2>1, <2>2, <2>3, <2>4 DEF Files
  <2> QED BY <2>2, <2>5
<1>6. CASE UNCHANGED vars
  <2>1. UNCHANGED <<SessionFile, file, dumped, damage, connect, session, todo, pc, result>>
    BY <1>6 DEF vars, capturing, restoring
  <2>2. Progress'
    BY <2>1 DEF Progress, Dumping, GucsRecord, GucsOf, PreparedRecord, PreparedOf, TableRecords,
                TableRecord, Tabulated, PathShows
  <2>3. Files'
    BY <2>1 DEF Files, Dumping, Genuine, Tabulated, Image
  <2> QED BY <2>2, <2>3
<1> QED BY <1>1, <1>2, <1>3, <1>4, <1>5, <1>6, FilesDone, FilesControl, FilesKilled, Steps

----------------------------------------------------------------------------
(* Reading a file.                                                         *)

\* The records of a whole file.
LEMMA WholeFile ==
  ASSUME NEW s \in Sessions, NEW f \in Seq(Records), Image(s, f)
  PROVE  /\ 1 \in DOMAIN f /\ f[1] = GucsRecord(s)
         /\ 2 \in DOMAIN f /\ f[2] = PreparedRecord(s)
         /\ \A i \in DOMAIN f :
              f[i] = GucsRecord(s) \/ f[i] = PreparedRecord(s) \/ f[i] \in TableRecords(s)
         /\ TableRecords(s) \subseteq Range(f)
<1> DEFINE n == Len(f)
           N == Cardinality(Tabulated(s))
           R == {f[k] : k \in 3 .. n}
<1>1. n = 2 + N /\ f[1] = GucsRecord(s) /\ f[2] = PreparedRecord(s)
  BY DEF Image
<1>2. N \in Nat
  <2>1. IsFiniteSet(Tabulated(s))
    BY SessionAssumption, FS_Subset DEF Tabulated
  <2> QED BY <2>1, FS_CardinalityType
<1>3. DOMAIN f = 1 .. n
  BY LenProperties
<1> HIDE DEF N
<1>4. n \in Nat /\ n >= 2
  BY <1>1, <1>2
<1>5. R = TableRecords(s)
  BY <1>4, RangeOfRest DEF Image, TableRecords
<1> HIDE DEF n
<1>6. 1 \in 1 .. n /\ 2 \in 1 .. n
  BY <1>4
<1>7. \A i \in 1 .. n : i = 1 \/ i = 2 \/ i \in 3 .. n
  BY <1>4
<1>8. 3 .. n \subseteq 1 .. n
  BY <1>4
<1>9. R \subseteq Range(f)
  BY <1>3, <1>8 DEF Range
<1>10. \A i \in DOMAIN f :
         f[i] = GucsRecord(s) \/ f[i] = PreparedRecord(s) \/ f[i] \in TableRecords(s)
  BY <1>1, <1>3, <1>5, <1>7
<1> QED BY <1>1, <1>3, <1>5, <1>6, <1>9, <1>10

\* A restore begins.
LEMMA ReadingBegins ==
  ASSUME TypeOK, TypeKept, Files, session_restore
  PROVE  Reading' /\ Preparing'
<1>1. /\ pc = "idle" /\ pc' = "read" /\ file # Nothing /\ saved' = target /\ todo' = file
      /\ prep' = Nothing /\ UNCHANGED <<target, dumped, damage>>
  BY DEF session_restore, capturing
<1>2. /\ file \in Seq(Records) /\ dumped \in Sessions /\ \A i \in DOMAIN file : Genuine(file[i])
      /\ damage = "none" => Image(dumped, file)
  BY <1>1 DEF TypeKept, Files, Dumping
<1>3. \A i \in DOMAIN todo' : Genuine(todo[i])'
  BY <1>1, <1>2 DEF Genuine
<1>4. TablesKept'
  BY <1>1 DEF TablesKept
<1>5. ASSUME damage = "none"
      PROVE  /\ \A i \in DOMAIN todo' : Exact(todo[i])'
             /\ Has("gucs")' /\ Has("prepared")'
             /\ \A t \in Tabulated(dumped)' : TableRecord(dumped, t)' \in Range(todo')
  <2>1. /\ 1 \in DOMAIN file /\ file[1] = GucsRecord(dumped)
        /\ 2 \in DOMAIN file /\ file[2] = PreparedRecord(dumped)
        /\ \A i \in DOMAIN file : Exact(file[i])
        /\ TableRecords(dumped) \subseteq Range(file)
    BY <1>2, <1>5, WholeFile DEF Exact
  <2>2. GucsRecord(dumped).type = "gucs" /\ PreparedRecord(dumped).type = "prepared"
    BY <1>2, GucsRecordType, PreparedRecordType
  <2>3. Has("gucs")' /\ Has("prepared")'
    BY <1>1, <2>1, <2>2 DEF Has
  <2>4. \A i \in DOMAIN todo' : Exact(todo'[i])
    BY <1>1, <2>1
  <2>5. \A i \in DOMAIN todo' : Exact(todo[i])'
    BY <1>1, <2>4 DEF Exact
  <2>6. \A t \in Tabulated(dumped) : TableRecord(dumped, t) \in Range(todo')
    BY <1>1, <2>1 DEF TableRecords
  <2>7. \A t \in Tabulated(dumped)' : TableRecord(dumped, t)' \in Range(todo')
    BY <1>1, <2>6 DEF Tabulated, TableRecord, PathShows
  <2> QED BY <2>3, <2>5, <2>7
<1>6. Reading'
  BY <1>1, <1>3, <1>4, <1>5 DEF Reading
<1>7. Preparing'
  BY <1>1 DEF Preparing
<1> QED BY <1>6, <1>7

\* The record that is read next, and those behind it.
LEMMA NextRecord ==
  ASSUME TypeKept, Reading, pc = "read", todo # <<>>
  PROVE  /\ Head(todo) \in Records /\ Genuine(Head(todo))
         /\ \A i \in DOMAIN Tail(todo) : Genuine(Tail(todo)[i])
         /\ damage = "none" => Exact(Head(todo)) /\ \A i \in DOMAIN Tail(todo) : Exact(Tail(todo)[i])
         /\ \A type : Has(type) =>
              \/ Head(todo).type = type
              \/ \E i \in DOMAIN Tail(todo) : Tail(todo)[i].type = type
         /\ Range(todo) = Range(Tail(todo)) \cup {Head(todo)}
<1> DEFINE h == Head(todo)
           t == Tail(todo)
<1>1. todo \in Seq(Records)
  BY DEF TypeKept
<1>2. /\ h \in Records /\ 1 \in DOMAIN todo /\ h = todo[1]
      /\ Range(todo) = Range(t) \cup {h}
      /\ \A i \in DOMAIN t : \E j \in DOMAIN todo : t[i] = todo[j]
      /\ \A j \in DOMAIN todo : todo[j] = h \/ \E i \in DOMAIN t : t[i] = todo[j]
  BY <1>1, HeadAndTail
<1> HIDE DEF h, t
<1>3. /\ \A i \in DOMAIN todo : Genuine(todo[i])
      /\ damage = "none" => \A i \in DOMAIN todo : Exact(todo[i])
  BY DEF Reading
<1>4. Genuine(h) /\ \A i \in DOMAIN t : Genuine(t[i])
  BY <1>2, <1>3
<1>5. damage = "none" => Exact(h) /\ \A i \in DOMAIN t : Exact(t[i])
  BY <1>2, <1>3
<1>6. \A type : Has(type) => h.type = type \/ \E i \in DOMAIN t : t[i].type = type
  BY <1>2 DEF Has
<1> QED BY <1>2, <1>4, <1>5, <1>6 DEF h, t

\* What a record of a whole file is by its type.
LEMMA ExactRecord ==
  ASSUME dumped \in Sessions, NEW r, Exact(r)
  PROVE  /\ r.type = "gucs" => r = GucsRecord(dumped)
         /\ r.type = "prepared" => r = PreparedRecord(dumped)
         /\ r.type = "table" => r.name \in Tabulated(dumped) /\ r = TableRecord(dumped, r.name)
                                /\ r.content = dumped.tables[r.name]
<1>1. GucsRecord(dumped).type = "gucs" /\ PreparedRecord(dumped).type = "prepared"
  BY GucsRecordType, PreparedRecordType
<1>2. ASSUME r \in TableRecords(dumped)
      PROVE  /\ r.type = "table" /\ r.name \in Tabulated(dumped)
             /\ r = TableRecord(dumped, r.name) /\ r.content = dumped.tables[r.name]
  BY <1>2, TableRecordType DEF TableRecords
<1> QED BY <1>1, <1>2 DEF Exact

\* A table is made of what the file has of it.
LEMMA TableMade ==
  ASSUME TypeOK, Files, Reading, pc = "read", NEW r \in Records, r.type = "table", Genuine(r),
         target' = [target EXCEPT !.tables[r.name] = r.content], UNCHANGED <<dumped, saved>>
  PROVE  /\ TablesKept' /\ target'.prepared = target.prepared /\ target'.gucs = target.gucs
         /\ target'.tables[r.name] = r.content
         /\ \A u \in Tables : u # r.name => target'.tables[u] = target.tables[u]
<1>1. r.name \in Tables /\ r.content \in Table /\ r.content # Nothing
  BY RecordFields, NothingAssumption
<1>2. target \in Sessions /\ dumped \in Sessions
  BY DEF TypeOK, Files
<1>3. /\ target'.prepared = target.prepared /\ target'.gucs = target.gucs
      /\ target'.tables = [target.tables EXCEPT ![r.name] = r.content]
  BY <1>1, <1>2, WithTable
<1>4. target.tables \in [Tables -> Table \cup {Nothing}]
  BY <1>2 DEF Sessions
<1>5. target'.tables[r.name] = r.content
  BY <1>1, <1>3, <1>4
<1>6. \A u \in Tables : u # r.name => target'.tables[u] = target.tables[u]
  BY <1>3, <1>4
<1>7. r.name \in Tabulated(dumped) /\ r.content.rows <= dumped.tables[r.name].rows
  BY <1>2, GenuineRecord
<1>8. TablesKept'
  <2> SUFFICES ASSUME NEW u \in Tables, target'.tables[u] # saved.tables[u]
               PROVE  /\ u \in Tabulated(dumped)
                      /\ target'.tables[u] # Nothing
                      /\ target'.tables[u].rows <= dumped.tables[u].rows
    BY DEF TablesKept, Tabulated
  <2>1. CASE u = r.name
    BY <1>1, <1>5, <1>7, <2>1
  <2>2. CASE u # r.name
    BY <1>6, <2>2 DEF Reading, TablesKept
  <2> QED BY <2>1, <2>2
<1> QED BY <1>3, <1>5, <1>6, <1>8

\* A record other than the one that is read stays to be read.
LEMMA ReadingTable ==
  ASSUME TypeOK, TypeKept, Files, Reading, ReadTable
  PROVE  Reading' /\ Preparing'
<1> DEFINE h == Head(todo)
           t == Tail(todo)
<1>1. /\ pc = "read" /\ pc' = "read" /\ todo # <<>> /\ h.type = "table" /\ todo' = t
      /\ target' = [target EXCEPT !.tables[h.name] = h.content]
      /\ UNCHANGED <<dumped, damage, saved, gucs, prep>>
  BY DEF ReadTable, Keeping, capturing, Restored
<1>2. /\ h \in Records /\ Genuine(h) /\ \A i \in DOMAIN t : Genuine(t[i])
      /\ damage = "none" => Exact(h) /\ \A i \in DOMAIN t : Exact(t[i])
      /\ \A type : Has(type) => h.type = type \/ \E i \in DOMAIN t : t[i].type = type
      /\ Range(todo) = Range(t) \cup {h}
  BY <1>1, NextRecord
<1> HIDE DEF h, t
<1>4. dumped \in Sessions
  BY <1>1 DEF Files
<1>5. /\ TablesKept' /\ target'.prepared = target.prepared /\ target'.gucs = target.gucs
      /\ target'.tables[h.name] = h.content
      /\ \A u \in Tables : u # h.name => target'.tables[u] = target.tables[u]
  BY <1>1, <1>2, TableMade
<1>9. /\ target.prepared = saved.prepared /\ target.gucs = saved.gucs
      /\ prep # Nothing => prep = PreparedRecord(dumped).stmts
      /\ damage = "none" => /\ Has("gucs") \/ gucs = GucsRecord(dumped).vals
                            /\ Has("prepared") \/ prep = PreparedRecord(dumped).stmts
                            /\ \A u \in Tabulated(dumped) :
                                 \/ target.tables[u] = dumped.tables[u]
                                 \/ TableRecord(dumped, u) \in Range(todo)
  BY <1>1 DEF Reading
<1>12. \A i \in DOMAIN todo' : Genuine(todo[i])'
  BY <1>1, <1>2 DEF Genuine
<1>13. ASSUME damage = "none"
       PROVE  /\ \A i \in DOMAIN todo' : Exact(todo'[i])
              /\ Has("gucs")' \/ gucs = GucsRecord(dumped).vals
              /\ Has("prepared")' \/ prep = PreparedRecord(dumped).stmts
              /\ \A u \in Tabulated(dumped) :
                   \/ target'.tables[u] = dumped.tables[u]
                   \/ TableRecord(dumped, u) \in Range(todo')
  <2>1. \A i \in DOMAIN todo' : Exact(todo'[i])
    BY <1>1, <1>2, <1>13
  <2>2. /\ Has("gucs") => Has("gucs")'
        /\ Has("prepared") => Has("prepared")'
    BY <1>1, <1>2 DEF Has
  <2>3. ASSUME NEW u \in Tabulated(dumped), target'.tables[u] # dumped.tables[u]
        PROVE  TableRecord(dumped, u) \in Range(t)
    <3>1. h.content = dumped.tables[h.name]
      BY <1>1, <1>2, <1>4, <1>13, ExactRecord
    <3>2. u # h.name
      BY <1>5, <2>3, <3>1
    <3>3. u \in Tables /\ TableRecord(dumped, u).name = u
      BY <1>4, TableRecordType
    <3>4. TableRecord(dumped, u) \in Range(todo)
      BY <1>5, <1>9, <1>13, <2>3, <3>2, <3>3
    <3> QED BY <1>2, <3>2, <3>3, <3>4
  <2> QED BY <1>1, <1>9, <1>13, <2>1, <2>2, <2>3
<1>14. damage' = "none" => /\ \A i \in DOMAIN todo' : Exact(todo[i])'
                           /\ Has("gucs")' \/ (gucs = GucsRecord(dumped).vals)'
                           /\ Has("prepared")' \/ (prep = PreparedRecord(dumped).stmts)'
                           /\ \A u \in Tabulated(dumped)' :
                                \/ (target.tables[u] = dumped.tables[u])'
                                \/ TableRecord(dumped, u)' \in Range(todo')
  BY <1>1, <1>13 DEF Exact
<1>15. Reading'
  BY <1>1, <1>5, <1>9, <1>12, <1>14 DEF Reading
<1>16. Preparing'
  BY <1>1 DEF Preparing
<1> QED BY <1>15, <1>16

\* The file is not read to its end, or a table is not.
LEMMA ReadingShort ==
  ASSUME TypeOK, TypeKept, Files, Reading, ReadShort
  PROVE  Reading' /\ Preparing'
<1>1. /\ pc = "read" /\ pc' = "read" /\ todo # <<>> /\ damage' # "none"
      /\ UNCHANGED <<dumped, saved, prep>>
  BY DEF ReadShort
<1>2. /\ Head(todo) \in Records /\ Genuine(Head(todo))
      /\ \A i \in DOMAIN Tail(todo) : Genuine(Tail(todo)[i])
  BY <1>1, NextRecord
<1>3. /\ target.prepared = saved.prepared /\ target.gucs = saved.gucs /\ TablesKept
      /\ prep # Nothing => prep = PreparedRecord(dumped).stmts
  BY <1>1 DEF Reading
<1>4. todo' = <<>> \/ todo' = Tail(todo)
  BY DEF ReadShort
<1>5. \A i \in DOMAIN todo' : Genuine(todo'[i])
  <2>1. CASE todo' = <<>>
    <3>1. DOMAIN todo' = {}
      BY <2>1
    <3> QED BY <3>1
  <2>2. CASE todo' = Tail(todo)
    BY <1>2, <2>2
  <2> QED BY <1>4, <2>1, <2>2
<1>6. \A i \in DOMAIN todo' : Genuine(todo[i])'
  BY <1>1, <1>5 DEF Genuine
<1>7. TablesKept' /\ target'.prepared = saved.prepared /\ target'.gucs = saved.gucs
  <2>1. CASE UNCHANGED target
    BY <1>1, <1>3, <2>1 DEF TablesKept, Tabulated
  <2>2. CASE /\ Head(todo).type = "table"
             /\ \E x \in Torn(Head(todo)) :
                  target' = [target EXCEPT !.tables[x.name] = Restored(x)]
    <3>1. PICK x \in Torn(Head(todo)) : target' = [target EXCEPT !.tables[x.name] = x.content]
      BY <2>2 DEF Restored
    <3>2. dumped \in Sessions
      BY <1>1 DEF Files
    <3>3. x \in Records /\ x.type = "table" /\ Genuine(x)
      BY <1>2, <2>2, <3>2, TornType, GenuineTorn
    <3> QED BY <1>1, <1>3, <3>1, <3>3, TableMade
  <2> QED BY <2>1, <2>2 DEF ReadShort
<1>8. Reading'
  BY <1>1, <1>3, <1>6, <1>7 DEF Reading
<1>9. Preparing'
  BY <1>1 DEF Preparing
<1> QED BY <1>8, <1>9

\* Settings or statements are read.
LEMMA ReadingRecord ==
  ASSUME TypeOK, TypeKept, Files, Reading, ReadRecord
  PROVE  Reading' /\ Preparing'
<1> DEFINE h == Head(todo)
           t == Tail(todo)
<1>1. /\ pc = "read" /\ pc' = "read" /\ todo # <<>> /\ h.type # "table" /\ todo' = t
      /\ IF h.type = "gucs" THEN gucs' = h.vals /\ prep' = prep
                            ELSE prep' = h.stmts /\ gucs' = gucs
      /\ UNCHANGED <<dumped, damage, saved, target>>
  BY DEF ReadRecord, Keeping, capturing
<1>2. /\ h \in Records /\ Genuine(h) /\ \A i \in DOMAIN t : Genuine(t[i])
      /\ damage = "none" => Exact(h) /\ \A i \in DOMAIN t : Exact(t[i])
      /\ \A type : Has(type) => h.type = type \/ \E i \in DOMAIN t : t[i].type = type
      /\ Range(todo) = Range(t) \cup {h}
  BY <1>1, NextRecord
<1> HIDE DEF h, t
<1>3. h.type = "gucs" \/ h.type = "prepared"
  BY <1>1, <1>2, RecordFields
<1>4. dumped \in Sessions
  BY <1>1 DEF TypeOK, Files
<1>5. /\ target.prepared = saved.prepared /\ target.gucs = saved.gucs /\ TablesKept
      /\ damage = "none" => /\ Has("gucs") \/ gucs = GucsRecord(dumped).vals
                            /\ Has("prepared") \/ prep = PreparedRecord(dumped).stmts
                            /\ \A u \in Tabulated(dumped) :
                                 \/ target.tables[u] = dumped.tables[u]
                                 \/ TableRecord(dumped, u) \in Range(todo)
  BY <1>1 DEF Reading
<1>6. TablesKept'
  BY <1>1, <1>5 DEF TablesKept, Tabulated
<1>7. \A i \in DOMAIN todo' : Genuine(todo[i])'
  BY <1>1, <1>2 DEF Genuine
<1>8. ASSUME damage = "none"
      PROVE  /\ \A i \in DOMAIN todo' : Exact(todo'[i])
             /\ Has("gucs")' \/ gucs' = GucsRecord(dumped).vals
             /\ Has("prepared")' \/ prep' = PreparedRecord(dumped).stmts
             /\ \A u \in Tabulated(dumped) :
                  \/ target'.tables[u] = dumped.tables[u]
                  \/ TableRecord(dumped, u) \in Range(todo')
  <2>1. \A i \in DOMAIN todo' : Exact(todo'[i])
    BY <1>1, <1>2, <1>8
  <2>2. /\ h.type = "gucs" => h = GucsRecord(dumped)
        /\ h.type = "prepared" => h = PreparedRecord(dumped)
    BY <1>2, <1>4, <1>8, ExactRecord
  <2>3. /\ Has("gucs") => Has("gucs")' \/ h.type = "gucs"
        /\ Has("prepared") => Has("prepared")' \/ h.type = "prepared"
    BY <1>1, <1>2 DEF Has
  <2>4. CASE h.type = "gucs"
    <3>1. gucs' = GucsRecord(dumped).vals
      BY <1>1, <2>2, <2>4
    <3>2. Has("prepared")' \/ prep' = PreparedRecord(dumped).stmts
      BY <1>1, <1>5, <1>8, <2>3, <2>4
    <3>3. ASSUME NEW u \in Tabulated(dumped) PROVE TableRecord(dumped, u) # h
      BY <1>4, <2>4, TableRecordType
    <3> QED BY <1>1, <1>2, <1>5, <1>8, <2>1, <3>1, <3>2, <3>3
  <2>5. CASE h.type = "prepared"
    <3>1. prep' = PreparedRecord(dumped).stmts
      BY <1>1, <2>2, <2>5
    <3>2. Has("gucs")' \/ gucs' = GucsRecord(dumped).vals
      BY <1>1, <1>5, <1>8, <2>3, <2>5
    <3>3. ASSUME NEW u \in Tabulated(dumped) PROVE TableRecord(dumped, u) # h
      BY <1>4, <2>5, TableRecordType
    <3> QED BY <1>1, <1>2, <1>5, <1>8, <2>1, <3>1, <3>2, <3>3
  <2> QED BY <1>3, <2>4, <2>5
<1>8a. prep' # Nothing => prep' = PreparedRecord(dumped).stmts
  <2>1. prep # Nothing => prep = PreparedRecord(dumped).stmts
    BY <1>1 DEF Reading
  <2>2. h.type = "prepared" => h = PreparedRecord(dumped)
    BY <1>2, <1>4, GenuineRecord
  <2> QED BY <1>1, <1>3, <2>1, <2>2
<1>9. damage' = "none" => /\ \A i \in DOMAIN todo' : Exact(todo[i])'
                          /\ Has("gucs")' \/ (gucs = GucsRecord(dumped).vals)'
                          /\ Has("prepared")' \/ (prep = PreparedRecord(dumped).stmts)'
                          /\ \A u \in Tabulated(dumped)' :
                               \/ (target.tables[u] = dumped.tables[u])'
                               \/ TableRecord(dumped, u)' \in Range(todo')
  BY <1>1, <1>8 DEF Exact
<1>10. Reading'
  BY <1>1, <1>5, <1>6, <1>7, <1>8a, <1>9 DEF Reading
<1>11. Preparing'
  BY <1>1 DEF Preparing
<1> QED BY <1>10, <1>11

----------------------------------------------------------------------------
(* Settings and statements.                                                *)

\* All tables are there: the settings are applied.
LEMMA PreparingBegins ==
  ASSUME TypeOK, TypeKept, Files, Reading, apply_gucs
  PROVE  Reading' /\ Preparing'
<1>1. /\ pc = "read" /\ pc' = "prepare" /\ todo = <<>>
      /\ UNCHANGED <<dumped, damage, saved, gucs, prep>>
      /\ target' = IF gucs = Nothing THEN target
                   ELSE [target EXCEPT !.gucs = [g \in Gucs |-> Applied(g)]]
      /\ todo' = IF prep = Nothing THEN <<>> ELSE ApplyOrder
  BY DEF apply_gucs, Keeping, capturing
<1>2. target \in Sessions /\ dumped \in Sessions
  BY <1>1 DEF TypeOK, Files
<1>3. target'.tables = target.tables /\ target'.prepared = target.prepared
  BY <1>1, <1>2 DEF Sessions
<1>4. target.prepared = saved.prepared /\ target.gucs = saved.gucs /\ TablesKept
  BY <1>1 DEF Reading
<1>5. DOMAIN todo = {} /\ Range(todo) = {}
  BY <1>1 DEF Range
<1>6. damage = "none" => gucs = GucsRecord(dumped).vals /\ prep = PreparedRecord(dumped).stmts /\ TablesBack
  BY <1>1, <1>5 DEF Reading, Has, TablesBack
<1>7. TablesKept'
  BY <1>1, <1>3, <1>4 DEF TablesKept, Tabulated
<1>7a. StatementsKept'
  BY <1>1, <1>3, <1>4 DEF StatementsKept
<1>8. todo' # <<>> => /\ prep' = PreparedRecord(dumped').stmts
                      /\ Range(todo') \subseteq DOMAIN prep' \ {Unnamed}
  <2> SUFFICES ASSUME prep # Nothing
               PROVE  /\ prep = PreparedRecord(dumped).stmts
                      /\ Range(ApplyOrder) \subseteq DOMAIN prep \ {Unnamed}
    BY <1>1
  <2>1. prep \in PreparedSaved
    BY DEF TypeKept
  <2>2. prep = PreparedRecord(dumped).stmts
    BY <1>1 DEF Reading
  <2> QED BY <2>1, <2>2, Ordered DEF ApplyOrder
<1>9. damage = "none" => TablesBack' /\ prep' = PreparedRecord(dumped').stmts
  BY <1>1, <1>3, <1>6 DEF TablesBack, Tabulated
<1>10. ASSUME damage = "none", saved = Fresh
       PROVE  GucsBack'
  <2>1. gucs = GucsRecord(dumped).vals /\ gucs \in GucsSaved /\ gucs # Nothing
    BY <1>2, <1>6, <1>10, GucsRecordType, NothingAssumption
  <2>2. target'.gucs = [g \in Gucs |-> Applied(g)]
    BY <1>1, <1>2, <2>1 DEF Sessions
  <2>3. gucs = [g \in GucsOf(dumped) |-> dumped.gucs[g]]
    BY <2>1 DEF GucsRecord
  <2>4. \A g \in Gucs : target.gucs[g] = Default
    BY <1>4, <1>10 DEF Fresh
  <2>5. \A g \in Gucs \ Forbidden : Applied(g) = dumped.gucs[g]
    BY <2>3, <2>4 DEF Applied, GucsOf
  <2> QED BY <1>1, <2>2, <2>5 DEF GucsBack
<1>11. ASSUME damage = "none", saved = Fresh, NEW n \in PreparedOf(dumped) \ {Unnamed}
       PROVE  n \in Range(todo') /\ target'.prepared[n] = Nothing
  <2>1. /\ prep \in PreparedSaved /\ prep # Nothing /\ DOMAIN prep = PreparedOf(dumped)
        /\ n \in Names
    BY <1>2, <1>6, <1>11, PreparedRecordType, NothingAssumption
  <2>2. n \in Range(todo')
    BY <1>1, <1>11, <2>1, Ordered DEF ApplyOrder
  <2>3. target'.prepared[n] = Nothing
    BY <1>3, <1>4, <1>11, <2>1 DEF Fresh
  <2> QED BY <2>2, <2>3
<1>12. Preparing'
  <2>1. damage' = "none" /\ saved' = Fresh =>
          /\ GucsBack'
          /\ \A n \in (PreparedOf(dumped) \ {Unnamed})' :
               n \in Range(todo') /\ target'.prepared[n] = Nothing
    BY <1>1, <1>10, <1>11
  <2> QED BY <1>1, <1>7, <1>7a, <1>8, <1>9, <2>1 DEF Preparing
<1>13. Reading'
  BY <1>1 DEF Reading
<1> QED BY <1>12, <1>13

\* A statement is prepared, or cannot be.
LEMMA PreparingOne ==
  ASSUME TypeOK, TypeKept, Files, Preparing, apply_one_prepared
  PROVE  Reading' /\ Preparing'
<1> DEFINE h == Head(todo)
           t == Tail(todo)
<1>1. /\ pc = "prepare" /\ pc' = "prepare" /\ todo # <<>> /\ todo' = t
      /\ UNCHANGED <<dumped, damage, saved, gucs, prep>>
      /\ \/ /\ Preparable(h) /\ target' = [target EXCEPT !.prepared[h] = prep[h]]
            /\ skipped' = skipped
         \/ ~Preparable(h) /\ target' = target /\ skipped' = skipped
         \/ target' = target /\ skipped' = skipped \cup {h}
  BY DEF apply_one_prepared, Keeping, capturing
<1>2. target \in Sessions /\ dumped \in Sessions /\ todo \in Seq(Names)
  BY <1>1 DEF TypeOK, TypeKept, Files
<1>3. h \in Names /\ Range(todo) = Range(t) \cup {h}
  BY <1>1, <1>2, HeadAndTail
<1> HIDE DEF h, t
<1>4. /\ TablesKept /\ StatementsKept
      /\ prep = PreparedRecord(dumped).stmts /\ Range(todo) \subseteq DOMAIN prep \ {Unnamed}
      /\ damage = "none" => TablesBack /\ prep = PreparedRecord(dumped).stmts
      /\ damage = "none" /\ saved = Fresh =>
           /\ GucsBack
           /\ \A n \in PreparedOf(dumped) \ {Unnamed} :
                \/ Back(n)
                \/ n \in Range(todo) /\ target.prepared[n] = Nothing
                \/ ~Readable(n) \/ n \in skipped
  BY <1>1 DEF Preparing
<1>5. /\ h \in DOMAIN prep \ {Unnamed} /\ prep[h] \in Statements
      /\ h \in PreparedOf(dumped) /\ prep[h] = dumped.prepared[h]
  <2>1. /\ prep \in PreparedSaved /\ DOMAIN prep = PreparedOf(dumped)
        /\ prep = [n \in PreparedOf(dumped) |-> dumped.prepared[n]]
    BY <1>2, <1>4, PreparedRecordType DEF PreparedRecord
  <2> QED BY <1>3, <1>4, <2>1, Ordered
<1>6. /\ target'.tables = target.tables /\ target'.gucs = target.gucs
      /\ \A n \in Names : n # h => target'.prepared[n] = target.prepared[n]
      /\ \/ /\ Preparable(h) /\ target'.prepared[h] = prep[h] /\ skipped' = skipped
         \/ ~Preparable(h) /\ target'.prepared[h] = target.prepared[h] /\ skipped' = skipped
         \/ target'.prepared[h] = target.prepared[h] /\ skipped' = skipped \cup {h}
  <2>1. CASE /\ Preparable(h) /\ target' = [target EXCEPT !.prepared[h] = prep[h]]
             /\ skipped' = skipped
    <3>1. /\ target'.tables = target.tables /\ target'.gucs = target.gucs
          /\ target'.prepared = [target.prepared EXCEPT ![h] = prep[h]]
      BY <1>2, <1>3, <1>5, <2>1, WithStatement
    <3>2. DOMAIN target.prepared = Names
      BY <1>2 DEF Sessions
    <3> QED BY <1>3, <2>1, <3>1, <3>2
  <2>2. CASE /\ target' = target
             /\ \/ ~Preparable(h) /\ skipped' = skipped
                \/ skipped' = skipped \cup {h}
    BY <2>2
  <2> QED BY <1>1, <2>1, <2>2
<1>7. TablesKept'
  BY <1>1, <1>4, <1>6 DEF TablesKept, Tabulated
<1>7a. StatementsKept'
  <2> SUFFICES ASSUME NEW n \in Names, target'.prepared[n] # saved.prepared[n]
               PROVE  /\ saved.prepared[n] = Nothing /\ n \in PreparedOf(dumped) \ {Unnamed}
                      /\ target'.prepared[n] = dumped.prepared[n]
    BY <1>1 DEF StatementsKept, PreparedOf
  <2>1. CASE target'.prepared[n] = target.prepared[n]
    BY <1>4, <2>1 DEF StatementsKept
  <2>2. CASE n = h /\ Preparable(h) /\ target'.prepared[h] = prep[h]
    <3>1. target.prepared[n] = Nothing /\ dumped.prepared[n] # Nothing
      BY <1>5, <2>2 DEF Preparable, PreparedOf
    <3>2. saved.prepared[n] = Nothing
      BY <1>4, <3>1 DEF StatementsKept
    <3> QED BY <1>5, <2>2, <3>2
  <2> QED BY <1>6, <2>1, <2>2
<1>8. Range(todo') \subseteq DOMAIN prep' \ {Unnamed} /\ prep' = PreparedRecord(dumped').stmts
  BY <1>1, <1>3, <1>4
<1>9. damage = "none" => TablesBack'
  BY <1>1, <1>4, <1>6 DEF TablesBack, Tabulated
<1>10. damage = "none" /\ saved = Fresh => GucsBack'
  BY <1>1, <1>4, <1>6 DEF GucsBack
<1>11. ASSUME damage = "none", saved = Fresh, NEW n \in PreparedOf(dumped) \ {Unnamed}
       PROVE  \/ target'.prepared[n] = dumped.prepared[n]
              \/ n \in Range(todo') /\ target'.prepared[n] = Nothing
              \/ ~Readable(n) \/ n \in skipped'
  <2>1. n \in Names /\ dumped.prepared[n] # Nothing
    BY <1>11 DEF PreparedOf
  <2>2. CASE n # h
    BY <1>1, <1>3, <1>4, <1>6, <1>11, <2>1, <2>2 DEF Back
  <2>3. CASE n = h
    <3>1. CASE Back(n)
      <4>1. ~Preparable(h)
        BY <2>1, <2>3, <3>1 DEF Back, Preparable
      <4> QED BY <1>6, <2>3, <3>1, <4>1 DEF Back
    <3>2. CASE target.prepared[n] = Nothing /\ Readable(n)
      <4>1. prep[n] = dumped.prepared[n]
        BY <1>4, <1>11 DEF PreparedRecord
      <4>2. Tabulated(dumped) \subseteq Tabulated(target)
        BY <1>4, <1>11 DEF TablesBack, Tabulated
      <4>3. Preparable(n)
        BY <3>2, <4>1, <4>2 DEF Preparable, Readable
      <4> QED BY <1>6, <2>3, <4>1, <4>3
    <3>3. n \in skipped => n \in skipped'
      BY <1>6
    <3> QED BY <1>4, <1>11, <3>1, <3>2, <3>3
  <2> QED BY <2>2, <2>3
<1>12. damage' = "none" /\ saved' = Fresh =>
         /\ GucsBack'
         /\ \A n \in (PreparedOf(dumped) \ {Unnamed})' :
              \/ Back(n)'
              \/ n \in Range(todo') /\ target'.prepared[n] = Nothing
              \/ ~Readable(n)' \/ n \in skipped'
  BY <1>1, <1>10, <1>11 DEF Back, Readable
<1>13. damage' = "none" => TablesBack' /\ prep' = PreparedRecord(dumped').stmts
  BY <1>1, <1>4, <1>9
<1>14. Preparing'
  BY <1>1, <1>4, <1>7, <1>7a, <1>8, <1>12, <1>13 DEF Preparing
<1>15. Reading'
  BY <1>1 DEF Reading
<1> QED BY <1>14, <1>15

\* Every step keeps how far a restore has come.
LEMMA RestoreStep ==
  ASSUME TypeOK, TypeKept, Files, Reading, Preparing, [Next]_vars
  PROVE  Reading' /\ Preparing'
<1>1. ASSUME pc' \notin {"read", "prepare"} PROVE Reading' /\ Preparing'
  BY <1>1 DEF Reading, Preparing
<1>2. ASSUME NEW new \in Sessions, Worked(new) PROVE Reading' /\ Preparing'
  BY <1>1, <1>2, WorkedFrame
<1>3. CASE session_start \/ DumpGucs \/ DumpPrepared \/ DumpTable \/ DumpDone \/ DumpFails
           \/ session_stop \/ go_live \/ Killed \/ RestoreDone \/ Fails
  <2>1. pc' \notin {"read", "prepare"}
    BY <1>3 DEF session_start, DumpGucs, DumpPrepared, DumpTable, Write, DumpDone, DumpFails,
                session_stop, go_live, Killed, RestoreDone, Fails
  <2> QED BY <1>1, <2>1
<1>4. CASE UNCHANGED vars
  <2>1. UNCHANGED <<pc, target, saved, todo, dumped, damage, gucs, prep, skipped>>
    BY <1>4 DEF vars, capturing, restoring
  <2>2. Reading'
    BY <2>1 DEF Reading, Genuine, TablesKept, Exact, Has, TableRecords, Tabulated
  <2>3. Preparing'
    BY <2>1 DEF Preparing, TablesKept, StatementsKept, PreparedOf, TablesBack, GucsBack, Back, Readable,
                    Tabulated
  <2> QED BY <2>2, <2>3
<1> QED BY <1>2, <1>3, <1>4, ReadingBegins, ReadingTable, ReadingShort, ReadingRecord,
           PreparingBegins, PreparingOne, Steps

----------------------------------------------------------------------------
(* Results.                                                                *)

\* A restore that went through.
LEMMA Succeeds ==
  ASSUME TypeOK, TypeKept, Files, Preparing, RestoreDone
  PROVE  Results'
<1>1. /\ pc = "prepare" /\ todo = <<>> /\ result' = 1
      /\ UNCHANGED <<dumped, damage, target, saved, skipped>>
  BY DEF RestoreDone, capturing
<1>2. target \in Sessions /\ dumped \in Sessions
  BY <1>1 DEF TypeOK, Files
<1>3. Range(todo) = {}
  BY <1>1 DEF Range
<1>4. /\ TablesKept /\ StatementsKept
      /\ damage = "none" => TablesBack
      /\ damage = "none" /\ saved = Fresh =>
           /\ GucsBack
           /\ \A n \in PreparedOf(dumped) \ {Unnamed} : Back(n) \/ ~Readable(n) \/ n \in skipped
  BY <1>1, <1>3 DEF Preparing
<1>5. ASSUME damage = "none", saved = Fresh PROVE target.tables = dumped.tables
  <2>1. ASSUME NEW t \in Tables PROVE target.tables[t] = dumped.tables[t]
    <3>1. CASE t \in Tabulated(dumped)
      BY <1>4, <1>5, <3>1 DEF TablesBack
    <3>2. CASE t \notin Tabulated(dumped)
      <4>1. dumped.tables[t] = Nothing
        BY <3>2 DEF Tabulated
      <4>2. target.tables[t] = saved.tables[t]
        BY <1>4, <3>2 DEF TablesKept
      <4> QED BY <1>5, <4>1, <4>2 DEF Fresh
    <3> QED BY <3>1, <3>2
  <2>2. /\ target.tables \in [Tables -> Table \cup {Nothing}]
        /\ dumped.tables \in [Tables -> Table \cup {Nothing}]
    BY <1>2 DEF Sessions
  <2> QED BY <2>1, <2>2
<1>6. FailsCleanly'
  BY <1>1 DEF FailsCleanly
<1>7. TablesKept' /\ StatementsKept'
  BY <1>1, <1>4 DEF TablesKept, StatementsKept, Tabulated, PreparedOf
<1>8. RoundTrip'
  BY <1>1, <1>4, <1>5, <1>7 DEF RoundTrip, TablesBack, GucsBack, Back, Readable
<1> QED BY <1>6, <1>8 DEF Results

\* A restore that failed.
LEMMA RollsBack ==
  ASSUME TypeOK, Reading, Preparing, pc \in {"read", "prepare"}, Fails
  PROVE  Results'
<1>1. target' = RolledBack /\ result' = 0 /\ UNCHANGED <<saved, dumped>>
  BY DEF Fails, capturing
<1>2. /\ target'.gucs = saved'.gucs /\ target'.tables = saved'.tables
      /\ target'.prepared = target.prepared
  BY <1>1 DEF RolledBack, TypeOK, Sessions
<1>3. StatementsKept
  BY DEF Reading, Preparing, StatementsKept
<1>4. StatementsKept'
  BY <1>1, <1>2, <1>3 DEF StatementsKept, PreparedOf
<1> QED BY <1>1, <1>2, <1>4 DEF Results, FailsCleanly, RoundTrip

\* Every step keeps what the last restore led to.
LEMMA ResultsStep ==
  ASSUME TypeOK, TypeKept, Files, Reading, Preparing, Results, [Next]_vars
  PROVE  Results'
<1>1. ASSUME result' = Nothing PROVE Results'
  <2>1. result' # 0 /\ result' # 1
    BY <1>1, NothingAssumption
  <2> QED BY <2>1 DEF Results, FailsCleanly, RoundTrip
<1>2. ASSUME UNCHANGED <<result, target, saved, dumped, damage, skipped>> PROVE Results'
  BY <1>2 DEF Results, FailsCleanly, RoundTrip, TablesKept, StatementsKept, Tabulated, PreparedOf
<1>3. result # Nothing => pc = "idle"
  BY DEF Files
<1>4. ASSUME NEW new \in Sessions, Worked(new) PROVE Results'
  BY <1>1, <1>4, WorkedFrame DEF restoring
<1>5. CASE session_start \/ session_restore \/ DumpGucs \/ DumpPrepared \/ DumpTable \/ DumpDone
           \/ DumpFails \/ ReadTable \/ ReadShort \/ ReadRecord \/ apply_gucs
           \/ apply_one_prepared
  <2>1. result = Nothing \/ pc # "idle"
    BY <1>5 DEF session_start, session_restore, DumpGucs, DumpPrepared, DumpTable, DumpDone,
                DumpFails, Dumping, ReadTable, ReadShort, ReadRecord, apply_gucs, apply_one_prepared
  <2>2. result' = result
    BY <1>5 DEF session_start, session_restore, DumpGucs, DumpPrepared, DumpTable, Write,
                DumpDone, DumpFails, ReadTable, ReadShort, ReadRecord, apply_gucs, apply_one_prepared,
                Keeping, restoring
  <2> QED BY <1>1, <1>3, <2>1, <2>2
<1>6. CASE session_stop \/ go_live
  BY <1>2, <1>6 DEF session_stop, go_live, restoring
<1>7. CASE Killed
  <2>1. /\ UNCHANGED <<result, target, saved, dumped, skipped>>
        /\ pc # "idle" \/ damage' = damage
    BY <1>7 DEF Killed, restoring, Dumping
  <2> QED BY <1>1, <1>2, <1>3, <2>1
<1>8. CASE UNCHANGED vars
  BY <1>2, <1>8 DEF vars, restoring, capturing
<1> QED BY <1>4, <1>5, <1>6, <1>7, <1>8, Succeeds, RollsBack, Steps

----------------------------------------------------------------------------
(* The invariant.                                                          *)

LEMMA InvInit == Init => IInv
<1> SUFFICES ASSUME Init PROVE IInv
  OBVIOUS
<1>1. /\ session = Fresh /\ commands = 0 /\ SessionFile = FALSE /\ file = Nothing
      /\ dumped = Nothing /\ damage = "none" /\ connect = Nothing
      /\ target \in {Fresh, Used} /\ saved = target /\ gucs = Nothing /\ prep = Nothing
      /\ pc = "idle" /\ result = Nothing
  BY DEF Init
<1>2. TypeOK
  <2>1. target \in Sessions /\ session \in Sessions
    BY <1>1, FreshSession, UsedSession
  <2>2. 0 \in 0 .. MaxCommands
    BY SessionAssumption
  <2>3. skipped = {}
    BY DEF Init
  <2> QED BY <1>1, <2>1, <2>2, <2>3 DEF TypeOK, Dumping
<1>3. TypeKept /\ Progress /\ Reading /\ Preparing
  BY <1>1 DEF TypeKept, Progress, Dumping, Reading, Preparing
<1>4. Nothing # TRUE /\ Nothing # 0 /\ Nothing # 1
  BY NothingAssumption
<1>5. Files /\ Results
  BY <1>1, <1>4 DEF Files, Results, FailsCleanly, RoundTrip
<1> QED BY <1>2, <1>3, <1>5 DEF IInv

LEMMA InvStep == IInv /\ [Next]_vars => IInv'
BY TypeStep, FilesStep, RestoreStep, ResultsStep DEF IInv

\* However dumps, restores, errors and kills interleave, how far each has come says
\* what is in the file and in the restored session (sdump, session_abandon,
\* session_restore and restore_body of session.c).
THEOREM Invariance == Spec => []IInv
<1>1. Init => IInv
  BY InvInit
<1>2. IInv /\ [Next]_vars => IInv'
  BY InvStep
<1> QED BY <1>1, <1>2, PTL DEF Spec

\* Sessions, files and results keep their types, and the file is open throughout a
\* dump (SessionFile between session_start and session_stop of session.c).
THEOREM TypeCorrect == Spec => []TypeOK
<1>1. IInv => TypeOK
  BY DEF IInv
<1> QED BY <1>1, Invariance, PTL

\* A file that a Connect names is of a dump that came to its end, and a file that is
\* there when nobody dumps holds the whole session as it was when its dump began
\* (session_start, go_live and session_abandon of session.c), unless bytes were lost
\* without an error (dump_one_temp, session_stop) or the backend was killed in it; then
\* it holds nothing that was not there.
THEOREM FilesWhole == Spec => []FileWhole
<1>1. IInv => FileWhole
  BY DEF IInv, Files, FileWhole, Genuine, Dumping
<1> QED BY <1>1, Invariance, PTL

\* A restore that fails leaves settings and tables as they were, wherever the error is
\* raised; of the statements, which do not roll back, it loses and replaces none
\* (session_restore, restore_body, apply_prepared and apply_one_prepared of session.c).
THEOREM RestoresFailCleanly == Spec => []FailsCleanly
<1>1. IInv => FailsCleanly
  BY DEF IInv, Results
<1> QED BY <1>1, Invariance, PTL

\* A restore that succeeds brings back the tables, the settings and the statements that
\* were dumped, save those in which an error was caught, and from a damaged file nothing
\* else (restore_body and apply_one_prepared of session.c).
THEOREM RestoresWhatWasDumped == Spec => []RoundTrip
<1>1. IInv => RoundTrip
  BY DEF IInv, Results
<1> QED BY <1>1, Invariance, PTL

=============================================================================
