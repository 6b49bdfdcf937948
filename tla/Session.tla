------------------------------- MODULE Session -------------------------------
(***************************************************************************)
(* session.c: the state of a client's session (changed settings, prepared   *)
(* statements, temporary tables) is written to a file when its capture      *)
(* begins, and a replayed client restores it with pgr.srestore.             *)
(*                                                                         *)
(* A setting is its value; a prepared statement is whether PREPARE or the   *)
(* protocol made it and the temporary table it reads, if any; a temporary   *)
(* table is its rows and whether a column has a type of a schema that only  *)
(* a changed search_path shows.  A dump writes the type's name the way the  *)
(* session sees it (format_type in ttdescribe): without the schema if the   *)
(* path shows it.                                                           *)
(*                                                                         *)
(* An error that is raised rolls a subtransaction back, which restores       *)
(* settings and tables; prepared statements are not transactional in        *)
(* PostgreSQL and stay as they are.  Not every failure raises an error:      *)
(* what fflush, fseeko and fclose return is ignored, so a write that the     *)
(* disk refuses may be missing in the file of a dump that succeeds.  A       *)
(* backend that is killed runs none of this: the file ends where the last    *)
(* write that reached the kernel does, inside a record or behind it.         *)
(***************************************************************************)
EXTENDS Integers, SequencesExt

CONSTANTS Gucs,        \* settings
          Path,        \* search_path
          Forbidden,   \* settings the replaying user may not change
          Values, Default,
          Names, Unnamed,  \* of prepared statements; the unnamed one of the protocol
          Tables,
          Nothing,
          MayFail,     \* a dump or a restore may meet an error (disk, lock, cancel)
          MayDie,      \* the backend of the captured client may be killed
          MaxRows,     \* bound: rows of a table
          MaxCommands  \* bound: commands of the captured client

Statements == [from_sql : BOOLEAN, table : Tables \cup {Nothing}]
Table == [rows : 0..MaxRows, typed : BOOLEAN]
Sessions == [gucs : [Gucs -> Values],
             prepared : [Names -> Statements \cup {Nothing}],
             tables : [Tables -> Table \cup {Nothing}]]

\* What a file holds of a session: settings, statements and tables.
GucsSaved == UNION {[G -> Values] : G \in SUBSET Gucs}
PreparedSaved == UNION {[N -> Statements] : N \in SUBSET Names}
Records == [type : {"gucs"}, vals : GucsSaved]
             \cup [type : {"prepared"}, stmts : PreparedSaved]
             \cup [type : {"table"}, name : Tables, content : Table, bare : BOOLEAN]

ASSUME SessionAssumption ==
  /\ Path \in Gucs \ Forbidden /\ Forbidden \subseteq Gucs
  /\ Default \in Values /\ Unnamed \in Names
  /\ IsFiniteSet(Names) /\ IsFiniteSet(Tables)
  /\ MayFail \in BOOLEAN /\ MayDie \in BOOLEAN
  /\ MaxRows \in Nat /\ MaxCommands \in Nat

\* The value that stands for what is absent is no other.
ASSUME NothingAssumption ==
  /\ Nothing \notin Tables /\ Nothing \notin Table /\ Nothing \notin Statements
  /\ Nothing \notin Sessions /\ Nothing \notin GucsSaved /\ Nothing \notin PreparedSaved
  /\ Nothing \notin Seq(Records) /\ Nothing \notin BOOLEAN /\ Nothing \notin {0, 1}

VARIABLES session,   \* of the captured client
          commands,
          SessionFile, \* the dumping backend has the file open
          file,      \* records, or Nothing
          dumped,    \* history: the session when the dump began
          damage,    \* history of the file: bytes were lost without an error, or it
                     \* was cut when the backend was killed
          connect,   \* the Connect record names a session: Nothing before it
          target,    \* the session of the replayed client
          saved,     \* the target when the restore began
          gucs, prep, \* records kept until all are read
          skipped,   \* history: statements the restore could have prepared and did not
          todo,      \* tables or statements still to do, in order
          pc,
          result     \* of the last restore

restoring == <<target, saved, gucs, prep, skipped, result>>
capturing == <<session, commands, SessionFile, file, dumped, damage, connect>>
vars == <<capturing, todo, pc, restoring>>

Tabulated(s) == {t \in Tables : s.tables[t] # Nothing}

Fresh == [gucs |-> [g \in Gucs |-> Default],
          prepared |-> [n \in Names |-> Nothing],
          tables |-> [t \in Tables |-> Nothing]]

\* A session somebody has worked in: every table, with a statement that reads it.
Used == [Fresh EXCEPT !.tables = [t \in Tables |-> [rows |-> MaxRows, typed |-> FALSE]],
                      !.prepared = [n \in Names |-> [from_sql |-> FALSE, table |-> Nothing]]]

Init ==
  /\ session = Fresh /\ commands = 0
  /\ SessionFile = FALSE /\ file = Nothing /\ dumped = Nothing
  /\ damage = "none" /\ connect = Nothing
  /\ target \in {Fresh, Used} /\ saved = target
  /\ gucs = Nothing /\ prep = Nothing /\ skipped = {} /\ todo = <<>>
  /\ pc = "idle" /\ result = Nothing

----------------------------------------------------------------------------
(* The captured client.                                                    *)

Worked(new) ==
  /\ pc = "idle" /\ result = Nothing /\ commands < MaxCommands
  /\ new # session
  /\ session' = new /\ commands' = commands + 1
  /\ UNCHANGED <<SessionFile, file, dumped, damage, connect, todo, pc, restoring>>

Set(g) == \E v \in Values : Worked([session EXCEPT !.gucs[g] = v])

\* The unnamed statement is replaced by the next, a named one must be free.
Prepare(n) ==
  \E s \in Statements :
    /\ n = Unnamed \/ session.prepared[n] = Nothing
    /\ n = Unnamed => ~s.from_sql
    /\ s.table \in Tabulated(session) \cup {Nothing}
    /\ Worked([session EXCEPT !.prepared[n] = s])

Deallocate(n) == Worked([session EXCEPT !.prepared[n] = Nothing])

\* Create, with rows or none, insert, drop; the statements that read a dropped table
\* stay.
Change(t) ==
  \/ /\ session.tables[t] = Nothing
     /\ \E table \in Table : Worked([session EXCEPT !.tables[t] = table])
  \/ /\ session.tables[t] # Nothing
     /\ \/ /\ session.tables[t].rows < MaxRows
           /\ Worked([session EXCEPT !.tables[t].rows = @ + 1])
        \/ Worked([session EXCEPT !.tables[t] = Nothing])

----------------------------------------------------------------------------
(* The dump.                                                               *)

PathShows(s) == s.gucs[Path] # Default

\* guc_is_session_state: settings that were changed.
GucsOf(s) == {g \in Gucs : s.gucs[g] # Default}
GucsRecord(s) == [type |-> "gucs", vals |-> [g \in GucsOf(s) |-> s.gucs[g]]]
PreparedOf(s) == {n \in Names : s.prepared[n] # Nothing}
PreparedRecord(s) == [type |-> "prepared", stmts |-> [n \in PreparedOf(s) |-> s.prepared[n]]]
TableRecord(s, t) ==
  [type |-> "table", name |-> t, content |-> s.tables[t],
   bare |-> s.tables[t].typed /\ PathShows(s)]

\* fopen truncates the file of an earlier dump.  A client that is live is not
\* dumped again under the name its Connect gives.
session_start ==
  /\ pc = "idle" /\ result = Nothing /\ connect = Nothing
  /\ SessionFile' = TRUE /\ file' = <<>> /\ dumped' = session /\ damage' = "none"
  /\ pc' = "dump_gucs"
  /\ UNCHANGED <<session, commands, connect, todo, restoring>>

\* fopen fails: a file of an earlier dump was closed before, and stays.
session_start_fails ==
  /\ MayFail
  /\ pc = "idle" /\ result = Nothing /\ connect = Nothing
  /\ SessionFile' = FALSE
  /\ UNCHANGED <<session, commands, file, dumped, damage, connect, todo, pc, restoring>>

\* Part of a table: some of its rows, or all with a length that is not set.
Torn(record) == {[record EXCEPT !.content.rows = r] : r \in 0 .. record.content.rows}

\* What is in the file when bytes of a record are lost and nobody is told.
Lost(record) ==
  {file} \cup IF record.type = "table" THEN {Append(file, part) : part \in Torn(record)} ELSE {}

\* A record goes through a buffer.  What fwrite cannot pass on is an error
\* (DumpFails); what fflush, fseeko or fclose cannot is lost, and the dump goes on.
Write(record, next) ==
  /\ \/ file' = Append(file, record) /\ UNCHANGED damage
     \/ MayFail /\ file' \in Lost(record) /\ damage' = "lost"
  /\ pc' = next
  /\ UNCHANGED <<session, commands, SessionFile, dumped, connect, restoring>>

DumpGucs ==
  /\ pc = "dump_gucs" /\ Write(GucsRecord(session), "dump_prepared")
  /\ UNCHANGED todo

DumpPrepared ==
  /\ pc = "dump_prepared" /\ Write(PreparedRecord(session), "dump_tables")
  /\ todo' = SetToSeq(Tabulated(session))

DumpTable ==
  /\ pc = "dump_tables" /\ todo # <<>>
  /\ Write(TableRecord(session, Head(todo)), pc)
  /\ todo' = Tail(todo)

Dumping == pc \in {"dump_gucs", "dump_prepared", "dump_tables"}

\* The file stays open until the client goes live.
DumpDone ==
  /\ pc = "dump_tables" /\ todo = <<>>
  /\ pc' = "idle"
  /\ UNCHANGED <<capturing, todo, restoring>>

\* guarded: an error that is raised is a warning, the file is removed (session_abandon).
\* Faulty variant: it is only closed.
Abandoned_Closed == file
Abandoned == Nothing
DumpFails ==
  /\ MayFail /\ Dumping
  /\ SessionFile' = FALSE /\ file' = Abandoned
  /\ todo' = <<>> /\ pc' = "idle"
  /\ UNCHANGED <<session, commands, dumped, damage, connect, restoring>>

\* session_stop, where a capture is adopted and at the end of sdump.
session_stop ==
  /\ pc = "idle" /\ SessionFile
  /\ SessionFile' = FALSE
  /\ UNCHANGED <<session, commands, file, dumped, damage, connect, todo, pc, restoring>>

\* The Connect record names the session if its file is open, that is if the dump
\* before succeeded.
go_live ==
  /\ pc = "idle" /\ connect = Nothing
  /\ SessionFile' = FALSE /\ connect' = SessionFile
  /\ UNCHANGED <<session, commands, file, dumped, damage, todo, pc, restoring>>

\* What a killed dump leaves.  Settings and statements are flushed when they are
\* written, tables when the buffer is full: any of them, the last one in part.
Upcoming ==
  file \o IF pc = "dump_tables" /\ todo # <<>> THEN <<TableRecord(session, Head(todo))>> ELSE <<>>
Unflushed(f) == {k \in DOMAIN f : f[k].type = "table"}
Cuts ==
  {file} \cup {SubSeq(file, 1, k - 1) : k \in Unflushed(file)}
    \cup UNION {{Append(SubSeq(Upcoming, 1, k - 1), part) : part \in Torn(Upcoming[k])} :
                 k \in Unflushed(Upcoming)}

\* The backend is killed and nothing is cleaned up; the client's next session is new.
Killed ==
  /\ MayDie
  /\ Dumping \/ (pc = "idle" /\ SessionFile)
  /\ IF Dumping THEN file' \in Cuts /\ damage' = "cut" ELSE UNCHANGED <<file, damage>>
  /\ session' = Fresh /\ SessionFile' = FALSE
  /\ todo' = <<>> /\ pc' = "idle"
  /\ UNCHANGED <<commands, dumped, connect, restoring>>

----------------------------------------------------------------------------
(* The restore.                                                            *)

session_restore ==
  /\ pc = "idle" /\ file # Nothing /\ ~SessionFile /\ result = Nothing
  /\ saved' = target /\ gucs' = Nothing /\ prep' = Nothing /\ skipped' = {}
  /\ todo' = file /\ pc' = "read"
  /\ UNCHANGED <<capturing, target, result>>

\* Tables come into being as they are read, in place of one of the same name.
\* Faulty variant: the rows are added to those of a table that exists.
Restored_Added(record) ==
  IF target.tables[record.name] = Nothing THEN record.content
  ELSE [record.content EXCEPT !.rows = @ + target.tables[record.name].rows]
Restored(record) == record.content

Keeping == UNCHANGED <<capturing, saved, result>>

ReadTable ==
  /\ pc = "read" /\ todo # <<>> /\ Head(todo).type = "table"
  /\ ~Head(todo).bare \/ PathShows(target)
  /\ target' = [target EXCEPT !.tables[Head(todo).name] = Restored(Head(todo))]
  /\ todo' = Tail(todo)
  /\ Keeping /\ UNCHANGED <<gucs, prep, skipped, pc>>

\* fread finds less than there is: between two records the loop ends as at the end of
\* the file, in a table its rows do (load_cb).  Elsewhere it is an error (rd).
ReadShort ==
  /\ MayFail /\ pc = "read" /\ todo # <<>>
  /\ \/ todo' = <<>> /\ UNCHANGED target
     \/ /\ Head(todo).type = "table" /\ (~Head(todo).bare \/ PathShows(target))
        /\ \E part \in Torn(Head(todo)) :
             target' = [target EXCEPT !.tables[part.name] = Restored(part)]
        /\ todo' = Tail(todo)
  /\ damage' = IF damage = "none" THEN "lost" ELSE damage
  /\ UNCHANGED <<session, commands, SessionFile, file, dumped, connect, saved, gucs, prep,
                 skipped, pc, result>>

\* Settings and statements are kept until all tables are there.
ReadRecord ==
  /\ pc = "read" /\ todo # <<>> /\ Head(todo).type # "table"
  /\ IF Head(todo).type = "gucs"
     THEN gucs' = Head(todo).vals /\ UNCHANGED prep
     ELSE prep' = Head(todo).stmts /\ UNCHANGED gucs
  /\ todo' = Tail(todo)
  /\ Keeping /\ UNCHANGED <<target, skipped, pc>>

\* What apply_prepared goes through; it skips the unnamed statement.
ApplyOrder == SetToSeq(DOMAIN prep \ {Unnamed})

\* A setting that may not be changed is a warning.
\* Faulty variant: the settings are forgotten.
Applied_None(g) == target.gucs[g]
Applied(g) == IF g \in DOMAIN gucs \ Forbidden THEN gucs[g] ELSE target.gucs[g]

apply_gucs ==
  /\ pc = "read" /\ todo = <<>>
  /\ target' = IF gucs = Nothing THEN target
               ELSE [target EXCEPT !.gucs = [g \in Gucs |-> Applied(g)]]
  /\ todo' = IF prep = Nothing THEN <<>> ELSE ApplyOrder
  /\ pc' = "prepare"
  /\ Keeping /\ UNCHANGED <<gucs, prep, skipped>>

\* A statement whose table is not there or whose name is taken is a warning.
\* Faulty variant: a statement of that name is replaced.
Preparable_Taken(n) == prep[n].table \in Tabulated(target) \cup {Nothing}
Preparable(n) ==
  /\ target.prepared[n] = Nothing
  /\ prep[n].table \in Tabulated(target) \cup {Nothing}

\* Any error in a statement is caught, a cancel or a failing lock too: the restore
\* goes on without it.
apply_one_prepared ==
  /\ pc = "prepare" /\ todo # <<>>
  /\ \/ /\ Preparable(Head(todo))
        /\ target' = [target EXCEPT !.prepared[Head(todo)] = prep[Head(todo)]]
        /\ UNCHANGED skipped
     \/ /\ ~Preparable(Head(todo))
        /\ UNCHANGED <<target, skipped>>
     \/ /\ MayFail /\ Preparable(Head(todo))
        /\ skipped' = skipped \cup {Head(todo)}
        /\ UNCHANGED target
  /\ todo' = Tail(todo)
  /\ Keeping /\ UNCHANGED <<gucs, prep, pc>>

RestoreDone ==
  /\ pc = "prepare" /\ todo = <<>>
  /\ pc' = "idle" /\ result' = 1
  /\ UNCHANGED <<capturing, todo, target, saved, gucs, prep, skipped>>

\* What the rolled back subtransaction leaves.
RolledBack == [saved EXCEPT !.prepared = target.prepared]

Fails ==
  /\ target' = RolledBack
  /\ todo' = <<>> /\ pc' = "idle" /\ result' = 0
  /\ UNCHANGED <<capturing, saved, gucs, prep, skipped>>

\* The type of a column is not found: the path is restored after the tables.
TypeMissing ==
  /\ pc = "read" /\ todo # <<>> /\ Head(todo).type = "table"
  /\ Head(todo).bare /\ ~PathShows(target)
  /\ Fails

\* An error ends the restore: in what is read, where a damaged record is one too
\* unless it ends between two rows, and outside of the statements that are prepared,
\* where a subtransaction begins or a warning is given.
RestoreFails ==
  /\ \/ MayFail /\ pc \in {"read", "prepare"}
     \/ damage # "none" /\ pc = "read"
  /\ Fails

Next ==
  \/ \E g \in Gucs : Set(g)
  \/ \E n \in Names : Prepare(n) \/ Deallocate(n)
  \/ \E t \in Tables : Change(t)
  \/ session_start \/ session_start_fails \/ DumpGucs \/ DumpPrepared \/ DumpTable \/ DumpDone
  \/ DumpFails \/ session_stop \/ go_live \/ Killed
  \/ session_restore \/ ReadTable \/ ReadShort \/ ReadRecord \/ apply_gucs
  \/ apply_one_prepared \/ RestoreDone
  \/ TypeMissing \/ RestoreFails

Spec == Init /\ [][Next]_vars

----------------------------------------------------------------------------

\* Types; the file is open during a dump.
TypeOK ==
  /\ {session, target, saved} \subseteq Sessions /\ dumped \in Sessions \cup {Nothing}
  /\ commands \in 0..MaxCommands /\ SessionFile \in BOOLEAN
  /\ damage \in {"none", "lost", "cut"} /\ skipped \subseteq Names
  /\ connect \in {TRUE, FALSE, Nothing}
  /\ pc \in {"idle", "dump_gucs", "dump_prepared", "dump_tables", "read", "prepare"}
  /\ result \in {Nothing, 0, 1}
  /\ Dumping => SessionFile /\ file # Nothing

\* What a whole file holds.
Image(s, records) ==
  /\ Len(records) = 2 + Cardinality(Tabulated(s))
  /\ records[1] = GucsRecord(s) /\ records[2] = PreparedRecord(s)
  /\ Range(SubSeq(records, 3, Len(records))) = {TableRecord(s, t) : t \in Tabulated(s)}

\* What a dump of a session writes, of a table some rows.
PartOf(s, record) ==
  \/ record = GucsRecord(s) \/ record = PreparedRecord(s)
  \/ /\ record.type = "table" /\ record.name \in Tabulated(s)
     /\ record.content.rows <= s.tables[record.name].rows

\* A file that a Connect names is of a dump that came to its end, although every dump
\* truncates the file first, can fail at any record and can be killed at any write.
\* Outside of a dump a file shows the session as it was when the last dump began,
\* unless bytes were lost without an error (fflush, fseeko, fclose) or the backend was
\* killed; then it still holds nothing that was not there.
FileWhole ==
  /\ connect = TRUE \/ (pc = "idle" /\ SessionFile) => file # Nothing /\ damage # "cut"
  /\ file # Nothing /\ ~Dumping =>
       /\ damage = "none" => Image(dumped, file)
       /\ \A i \in DOMAIN file : PartOf(dumped, file[i])

\* A statement that the restore has made is as it was dumped, and replaces none.
StatementsKept ==
  \A n \in Names : target.prepared[n] # saved.prepared[n] =>
    /\ saved.prepared[n] = Nothing /\ n \in PreparedOf(dumped) \ {Unnamed}
    /\ target.prepared[n] = dumped.prepared[n]

\* A table that the restore has made was dumped, with as many rows or more.
TablesKept ==
  \A t \in Tables : target.tables[t] # saved.tables[t] =>
    /\ t \in Tabulated(dumped)
    /\ target.tables[t] # Nothing
    /\ target.tables[t].rows <= dumped.tables[t].rows

\* A restore that fails leaves settings and tables as they were.  Statements do not
\* roll back: those that were made before the error stay, each as it was dumped, and
\* none that was there before is lost or replaced.
FailsCleanly ==
  result = 0 =>
    target.gucs = saved.gucs /\ target.tables = saved.tables /\ StatementsKept

\* A restore that succeeds, with no bytes lost in writing or reading, gives the client
\* the tables of the captured session with their rows whatever it had before, and a
\* fresh client also the settings it may change and the named statements whose tables
\* still existed, those in which an error was caught excepted.  Whatever was lost, it
\* takes nothing that was not dumped.
RoundTrip ==
  /\ result = 1 => StatementsKept /\ TablesKept
  /\ result = 1 /\ damage = "none" =>
       /\ \A t \in Tabulated(dumped) : target.tables[t] = dumped.tables[t]
       /\ saved = Fresh =>
            /\ target.tables = dumped.tables
            /\ \A g \in Gucs \ Forbidden : target.gucs[g] = dumped.gucs[g]
            /\ \A n \in PreparedOf(dumped) \ ({Unnamed} \cup skipped) :
                 dumped.prepared[n].table \in Tabulated(dumped) \cup {Nothing}
                   => target.prepared[n] = dumped.prepared[n]
=============================================================================
