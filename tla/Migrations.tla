------------------------------ MODULE Migrations ------------------------------
(***************************************************************************)
(* The database is brought up to date when a process starts: migrate()     *)
(* runs the pending migrations one by one and records each.  Processes may *)
(* start at the same time, and die at any statement.                       *)
(*                                                                         *)
(* sqlite3 opens a transaction before the first INSERT, UPDATE or DELETE   *)
(* and none before a CREATE, ALTER or DROP, which is committed at once     *)
(* unless a transaction is open.  executescript first commits what is open *)
(* and commits its statements one by one.  A process that wants to write   *)
(* while another has a transaction open waits; if it waits too long it     *)
(* dies of the error.                                                      *)
(***************************************************************************)
EXTENDS Integers, Sequences, FiniteSets, FiniteSetsExt, Functions

CONSTANTS
  Processes,    \* processes that start on the database
  None,
  TornBaseline, \* a process may die between two tables of the first migration
  MaxDeaths     \* bound: deaths

ASSUME ProcessesAssumption == IsFiniteSet(Processes) /\ None \notin Processes
ASSUME DeathsAssumption == TornBaseline \in BOOLEAN /\ MaxDeaths \in Nat

Objects == {"api_keys", "usage_events", "ui_sessions", "expires_at", "quota", "hash_variant",
            "setup_drafts", "setup_otps", "last_activity", "import_sources", "import_runs",
            "schedule", "next_run_at"}
Versions == 1..10

\* The statements of a migration, each with the object it is about; indexes are left out.
Table(obj) == [kind |-> "table", obj |-> obj]
Column(obj, of) == [kind |-> "column", obj |-> obj, of |-> of]
Delete(obj) == [kind |-> "delete", obj |-> obj]
Drop(obj) == [kind |-> "drop", obj |-> obj]
Fill(obj) == [kind |-> "fill", obj |-> obj]
Statements ==
  << <<Table("api_keys"), Table("usage_events"), Table("ui_sessions")>>,
     <<Column("expires_at", "ui_sessions")>>,
     <<Delete("ui_sessions")>>,
     <<Drop("quota")>>,
     <<Column("hash_variant", "api_keys")>>,
     <<Table("setup_drafts")>>,
     <<Table("setup_otps")>>,
     <<Column("last_activity", "ui_sessions"), Fill("last_activity")>>,
     <<Table("import_sources"), Table("import_runs")>>,
     <<Column("schedule", "import_sources"), Column("next_run_at", "import_sources")>> >>

\* The migrations that use executescript.
Scripts == {1, 9}

\* The objects that a migration makes.
Effects(v) ==
  {Statements[v][i].obj : i \in {i \in DOMAIN Statements[v] : Statements[v][i].kind \in {"table", "column"}}}

VARIABLES
  db,      \* what is committed: the objects, the recorded versions, the sessions, and whether
           \* one of those lacks its last activity
  tx,      \* the process with a transaction open, or None
  work,    \* the database as that transaction sees it
  proc,    \* process -> where it is, what is pending, the next statement, what it baselined,
           \* the columns it found missing
  missed,  \* history: the versions of which a process found the column before it was filled
  deaths

vars == <<db, tx, work, proc, missed, deaths>>

Off == [at |-> "off", pending |-> {}, stmt |-> 1, baselined |-> {},
        lacks |-> {}]

\* A new database; one of before the migrations; one that an earlier release has migrated.
Database(objs, rows, sessions) ==
  [objs |-> objs, rows |-> rows, sessions |-> sessions, activity |-> "filled"]
Fresh == Database({}, {}, "none")
Legacy == {Database({"api_keys", "usage_events", "ui_sessions"} \cup more, {}, "old") :
             more \in SUBSET {"expires_at", "quota"}}
Released(k) == {Database((UNION {Effects(v) : v \in 1..k}) \cup {"expires_at"} \cup more,
                         1..k, IF k < 3 THEN "old" ELSE "live") :
                  more \in IF k < 4 THEN SUBSET {"quota"} ELSE {{}}}

Init ==
  /\ db \in {Fresh} \cup Legacy \cup UNION {Released(k) : k \in Versions}
  /\ tx = None
  /\ work = db
  /\ proc = [p \in Processes |-> Off]
  /\ missed = {}
  /\ deaths = 0

-----------------------------------------------------------------------------
(* Statements *)

\* What p sees, and whether it may write.
Sees(p) == IF tx = p THEN work ELSE db
MayWrite(p) == tx \in {None, p}

\* p writes: in its transaction, in a new one (begins), or committed at once.
Writes(p, new, begins) ==
  /\ MayWrite(p)
  /\ IF tx = p \/ begins THEN tx' = p /\ work' = new /\ UNCHANGED db
     ELSE db' = new /\ work' = new /\ UNCHANGED tx

Rollback(p) == IF tx = p THEN tx' = None /\ work' = db /\ UNCHANGED db ELSE UNCHANGED <<db, tx, work>>
Leaves(p) == proc' = [proc EXCEPT ![p] = Off]

\* p raises: its start fails, and its transaction is rolled back.
Fails(p) == Rollback(p) /\ Leaves(p) /\ UNCHANGED <<missed, deaths>>

\* The effect of a statement; CREATE TABLE ui_sessions has the column expires_at.  The
\* sessions there are have no last activity in a new column until the UPDATE.
After(seen, s) ==
  CASE s.kind = "table" -> [seen EXCEPT !.objs = @ \cup {s.obj} \cup
                              (IF s.obj = "ui_sessions" /\ s.obj \notin @ THEN {"expires_at"} ELSE {})]
    [] s.kind = "column" -> [seen EXCEPT !.objs = @ \cup {s.obj},
                               !.activity = IF s.obj = "last_activity" /\ seen.sessions # "none"
                                            THEN "blank" ELSE @]
    [] s.kind = "drop" -> [seen EXCEPT !.objs = @ \ {s.obj}]
    [] s.kind = "delete" -> [seen EXCEPT !.sessions = "none", !.activity = "filled"]
    [] s.kind = "fill" -> [seen EXCEPT !.activity = "filled"]

\* A statement raises: its table is not there, or the column already is.
Raises(seen, s) ==
  \/ s.kind = "column" /\ (s.of \notin seen.objs \/ s.obj \in seen.objs)
  \/ s.kind = "delete" /\ s.obj \notin seen.objs

-----------------------------------------------------------------------------
(* migrate *)

\* Mutant: any table of keys is taken for one of today.
BaselinedByTable(objs) ==
  {v \in Versions : \/ v \in {1, 5} /\ "api_keys" \in objs
                    \/ v = 2 /\ "expires_at" \in objs
                    \/ v = 4 /\ "quota" \notin objs /\ "api_keys" \in objs
                    \/ v \in {6, 7, 8, 9} /\ Effects(v) \subseteq objs}

\* _baseline_pre_existing_db: what is taken to have been applied to a database without a
\* record, by one object each.
Baselined(objs) ==
  {v \in Versions : \/ v = 1 /\ "api_keys" \in objs
                    \/ v = 2 /\ {"ui_sessions", "expires_at"} \subseteq objs
                    \/ v = 4 /\ "quota" \notin objs /\ "api_keys" \in objs
                    \/ v = 5 /\ "hash_variant" \in objs
                    \/ v = 6 /\ "setup_drafts" \in objs
                    \/ v = 7 /\ "setup_otps" \in objs
                    \/ v = 8 /\ "last_activity" \in objs
                    \/ v = 9 /\ "import_sources" \in objs}

\* The recorded versions are read.
Boot(p) ==
  /\ proc[p].at = "off"
  /\ proc' = [proc EXCEPT ![p] = [at |-> IF db.rows = {} THEN "guessing" ELSE "applying",
                                  pending |-> Versions \ db.rows, stmt |-> 1,
                                  baselined |-> {}, lacks |-> {}]]
  /\ UNCHANGED <<db, tx, work, missed, deaths>>

\* Without any, the tables are looked at, with what another process has committed meanwhile.
Guess(p) ==
  /\ proc[p].at = "guessing"
  /\ LET based == Baselined(db.objs)
     IN proc' = [proc EXCEPT ![p].at = IF based = {} THEN "applying" ELSE "baselining",
                             ![p].pending = Versions \ based, ![p].baselined = based]
  /\ UNCHANGED <<db, tx, work, missed, deaths>>

\* INSERT OR IGNORE of the baselined versions.
InsertBaseline(p) ==
  /\ proc[p].at = "baselining"
  /\ Writes(p, [Sees(p) EXCEPT !.rows = @ \cup proc[p].baselined], TRUE)
  /\ proc' = [proc EXCEPT ![p].at = "applying"]
  /\ UNCHANGED <<missed, deaths>>

Current(p) == Min(proc[p].pending)
Statement(p) == Statements[Current(p)][proc[p].stmt]

\* executescript commits the transaction that is open.
CommitsFirst(p) == Current(p) \in Scripts /\ tx = p

ScriptCommits(p) ==
  /\ proc[p].at = "applying" /\ proc[p].pending # {} /\ CommitsFirst(p)
  /\ db' = work /\ tx' = None
  /\ UNCHANGED <<work, proc, missed, deaths>>

\* Mutant: ALTER TABLE without a look at the columns.
MissingAlways(objs, p) == {s.obj : s \in {s \in Range(Statements[Current(p)]) : s.kind = "column"}}

\* The columns of the migration that PRAGMA table_info does not list.
Missing(objs, p) == MissingAlways(objs, p) \ objs

\* The column of the last activity is there and not filled: the process that added it died
\* before the UPDATE, or is about to do it.
NotFilled(seen, p) == Current(p) = 8 /\ "last_activity" \in seen.objs /\ seen.activity = "blank"

Look(p) ==
  /\ proc[p].at = "applying" /\ proc[p].pending # {} /\ Statement(p).kind = "column"
  /\ proc' = [proc EXCEPT ![p].lacks = Missing(Sees(p).objs, p), ![p].at = "altering"]
  /\ missed' = missed \cup (IF NotFilled(Sees(p), p) THEN {8} ELSE {})
  /\ UNCHANGED <<db, tx, work, deaths>>

\* A column that was found is left alone, and not filled.
Skipped(p) == Statement(p).kind \in {"column", "fill"} /\ Statement(p).obj \notin proc[p].lacks

\* The next statement of the first pending migration.
Apply(p) ==
  /\ \/ proc[p].at = "applying" /\ proc[p].pending # {} /\ ~CommitsFirst(p) /\ Statement(p).kind # "column"
     \/ proc[p].at = "altering"
  /\ LET s == Statement(p)
         last == proc[p].stmt = Len(Statements[Current(p)])
     IN IF ~Skipped(p) /\ Raises(Sees(p), s) THEN MayWrite(p) /\ Fails(p)
        ELSE /\ IF Skipped(p) THEN UNCHANGED <<db, tx, work>>
                ELSE Writes(p, After(Sees(p), s), s.kind \in {"delete", "fill"})
             /\ proc' = [proc EXCEPT ![p].stmt = IF last THEN 1 ELSE @ + 1,
                                     ![p].at = IF last THEN "recording" ELSE @]
             /\ UNCHANGED <<missed, deaths>>

\* Mutant: INSERT OR IGNORE of the row of a migration.
ConflictsNever(p) == FALSE

\* Another process has recorded the version.
Conflicts(p) == Current(p) \in Sees(p).rows

\* The row of the migration; it is unique.
Record(p) ==
  /\ proc[p].at = "recording" /\ MayWrite(p)
  /\ IF Conflicts(p) THEN Fails(p)
     ELSE /\ Writes(p, [Sees(p) EXCEPT !.rows = @ \cup {Current(p)}], TRUE)
          /\ proc' = [proc EXCEPT ![p].pending = @ \ {Current(p)}, ![p].at = "applying"]
          /\ UNCHANGED <<missed, deaths>>

\* Nothing is pending: commit, and the process serves.
Finish(p) ==
  /\ proc[p].at = "applying" /\ proc[p].pending = {}
  /\ IF tx = p THEN db' = work /\ tx' = None /\ UNCHANGED work ELSE UNCHANGED <<db, tx, work>>
  /\ proc' = [proc EXCEPT ![p].at = "up"]
  /\ UNCHANGED <<missed, deaths>>

-----------------------------------------------------------------------------
(* Everything else *)

\* An administrator logs in.
Login(p) ==
  /\ proc[p].at = "up" /\ tx = None
  /\ db' = [db EXCEPT !.sessions = "live"] /\ work' = db'
  /\ UNCHANGED <<tx, proc, missed, deaths>>

\* A process is killed, or dies of an error of SQLite.
Dies(p) ==
  /\ proc[p].at # "off" /\ deaths < MaxDeaths
  /\ TornBaseline \/ ~(proc[p].pending = Versions /\ proc[p].stmt > 1)
  /\ deaths' = deaths + 1
  /\ Rollback(p) /\ Leaves(p)
  /\ UNCHANGED missed

Start(p) ==
  \/ Boot(p) \/ Guess(p) \/ InsertBaseline(p) \/ ScriptCommits(p) \/ Look(p) \/ Apply(p)
  \/ Record(p) \/ Finish(p)

Next == \E p \in Processes : Start(p) \/ Login(p) \/ Dies(p)

\* A process that ended is started again.  One that waits for the lock gets it in the end:
\* it polls, while the one that failed is being started again.
Fairness == \A p \in Processes : SF_vars(Start(p))

Spec == Init /\ [][Next]_vars /\ Fairness

-----------------------------------------------------------------------------
(* Properties *)

\* Every variable keeps to its values.
TypeOK ==
  /\ db \in [objs : SUBSET Objects, rows : SUBSET Versions, sessions : {"none", "old", "live"},
             activity : {"filled", "blank"}]
  /\ tx \in Processes \cup {None} /\ (tx = None => work = db)
  /\ missed \in SUBSET {8} /\ deaths \in 0..MaxDeaths

\* What a migration does to the data: the sessions of before are gone, the tables of the
\* quota are, every session has a last activity.
Done(v, d) ==
  /\ v = 3 => d.sessions # "old"
  /\ v = 4 => "quota" \notin d.objs
  /\ v = 8 => d.activity = "filled"

\* A recorded version has been applied, whichever process died at which statement: nothing
\* that a later release relies on is missing, and nothing is left that the migration was to
\* remove (migrate, its transactions).  Of the eighth this is so only while no process
\* found its column before the UPDATE: the code takes the column for the whole migration.
RecordedIsApplied ==
  \A v \in db.rows : Effects(v) \subseteq db.objs /\ (v \in missed \/ Done(v, db))

\* A migration never takes a session that was opened after the migrations
\* (_m003_ui_sessions_wipe_pre_hash runs again in a process that read before).
SessionsSurvive == [][db.sessions = "live" => db'.sessions = "live"]_vars

\* Once the deaths are over every process gets through its migrations and serves.
StartsSucceed == \A p \in Processes : <>[](proc[p].at = "up")

\* If api_keys exists, baseline 1 is effectively applied.
BaselineIsTrue ==
  \A p \in Processes : proc[p].at = "baselining" =>
    \A v \in proc[p].baselined : Effects(v) \subseteq db.objs
=============================================================================
