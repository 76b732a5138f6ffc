--------------------------- MODULE Migrations_proofs ---------------------------
(***************************************************************************)
(* Theorems about Migrations for any number of processes and deaths.       *)
(***************************************************************************)
EXTENDS Migrations, TLAPS

-----------------------------------------------------------------------------
(* The statements *)

\* What may be made of an object: the tables of the first migration in their order, a
\* column of one of them, and the rest.
Base == {"api_keys", "usage_events", "ui_sessions"}
Later == Objects \ (Base \cup {"expires_at", "quota"})

LEMMA StatementsAre ==
  /\ Statements[1] = <<Table("api_keys"), Table("usage_events"), Table("ui_sessions")>>
  /\ Statements[2] = <<Column("expires_at", "ui_sessions")>>
  /\ Statements[3] = <<Delete("ui_sessions")>>
  /\ Statements[4] = <<Drop("quota")>>
  /\ Statements[5] = <<Column("hash_variant", "api_keys")>>
  /\ Statements[6] = <<Table("setup_drafts")>>
  /\ Statements[7] = <<Table("setup_otps")>>
  /\ Statements[8] = <<Column("last_activity", "ui_sessions"), Fill("last_activity")>>
  /\ Statements[9] = <<Table("import_sources"), Table("import_runs")>>
  /\ Statements[10] = <<Column("schedule", "import_sources"), Column("next_run_at", "import_sources")>>
<1>1. Statements[1] = <<Table("api_keys"), Table("usage_events"), Table("ui_sessions")>>
  BY DEF Statements
<1>2. Statements[2] = <<Column("expires_at", "ui_sessions")>> /\ Statements[3] = <<Delete("ui_sessions")>>
  BY DEF Statements
<1>3. Statements[4] = <<Drop("quota")>> /\ Statements[5] = <<Column("hash_variant", "api_keys")>>
  BY DEF Statements
<1>4. Statements[6] = <<Table("setup_drafts")>> /\ Statements[7] = <<Table("setup_otps")>>
  BY DEF Statements
<1>5. Statements[8] = <<Column("last_activity", "ui_sessions"), Fill("last_activity")>>
  BY DEF Statements
<1>6. Statements[9] = <<Table("import_sources"), Table("import_runs")>>
  BY DEF Statements
<1>7. Statements[10] = <<Column("schedule", "import_sources"), Column("next_run_at", "import_sources")>>
  BY DEF Statements
<1> QED BY <1>1, <1>2, <1>3, <1>4, <1>5, <1>6, <1>7

LEMMA LengthsAre ==
  /\ DOMAIN Statements[1] = 1..3 /\ Len(Statements[1]) = 3
  /\ \A v \in {2, 3, 4, 5, 6, 7} : DOMAIN Statements[v] = 1..1 /\ Len(Statements[v]) = 1
  /\ \A v \in {8, 9, 10} : DOMAIN Statements[v] = 1..2 /\ Len(Statements[v]) = 2
<1>1. DOMAIN Statements[1] = 1..3 /\ Len(Statements[1]) = 3
  BY StatementsAre
<1>2. \A v \in {2, 3, 4} : DOMAIN Statements[v] = 1..1 /\ Len(Statements[v]) = 1
  BY StatementsAre
<1>3. \A v \in {5, 6, 7} : DOMAIN Statements[v] = 1..1 /\ Len(Statements[v]) = 1
  BY StatementsAre
<1>4. \A v \in {8, 9, 10} : DOMAIN Statements[v] = 1..2 /\ Len(Statements[v]) = 2
  BY StatementsAre
<1> QED BY <1>1, <1>2, <1>3, <1>4

LEMMA EffectsAre ==
  /\ Effects(1) = Base
  /\ Effects(2) = {"expires_at"}
  /\ Effects(3) = {} 
  /\ Effects(4) = {} 
  /\ Effects(5) = {"hash_variant"}
  /\ Effects(6) = {"setup_drafts"}
  /\ Effects(7) = {"setup_otps"}
  /\ Effects(8) = {"last_activity"}
  /\ Effects(9) = {"import_sources", "import_runs"}
  /\ Effects(10) = {"schedule", "next_run_at"}
<1> USE StatementsAre, LengthsAre DEF Effects
<1>1. Effects(1) = Base
  BY DEF Table, Base
<1>2. Effects(2) = {"expires_at"}
  BY DEF Column
<1>3. Effects(3) = {}
  BY DEF Delete
<1>4. Effects(4) = {}
  BY DEF Drop
<1>5. Effects(5) = {"hash_variant"}
  BY DEF Column
<1>6. Effects(6) = {"setup_drafts"}
  BY DEF Table
<1>7. Effects(7) = {"setup_otps"}
  BY DEF Table
<1>8. Effects(8) = {"last_activity"}
  BY DEF Column, Fill
<1>9. Effects(9) = {"import_sources", "import_runs"}
  BY DEF Table
<1>10. Effects(10) = {"schedule", "next_run_at"}
  BY DEF Column
<1> QED BY <1>1, <1>2, <1>3, <1>4, <1>5, <1>6, <1>7, <1>8, <1>9, <1>10

\* The first of some versions is one of them, and no later than any.
LEMMA FirstIsLeast ==
  ASSUME NEW S \in SUBSET Versions, S # {}
  PROVE  Min(S) \in S /\ \A v \in S : Min(S) <= v
<1>1. \E x \in S : \A y \in S : x <= y
  <2> DEFINE Least(k) == (\E x \in S : x <= k) => \E x \in S : \A y \in S : x <= y
  <2>0. S \subseteq 1..10
    BY DEF Versions
  <2> HIDE DEF Least
  <2>1. Least(1)
    BY <2>0 DEF Least
  <2>2. Least(2)
    BY <2>0, <2>1 DEF Least
  <2>3. Least(3)
    BY <2>0, <2>2 DEF Least
  <2>4. Least(4)
    BY <2>0, <2>3 DEF Least
  <2>5. Least(5)
    BY <2>0, <2>4 DEF Least
  <2>6. Least(6)
    BY <2>0, <2>5 DEF Least
  <2>7. Least(7)
    BY <2>0, <2>6 DEF Least
  <2>8. Least(8)
    BY <2>0, <2>7 DEF Least
  <2>9. Least(9)
    BY <2>0, <2>8 DEF Least
  <2>10. Least(10)
    BY <2>0, <2>9 DEF Least
  <2>11. PICK x \in S : x \in 1..10
    BY <2>0
  <2>12. x <= 10
    BY <2>11
  <2> QED BY <2>10, <2>11, <2>12 DEF Least
<1> QED BY <1>1 DEF Min

LEMMA StatementFacts ==
  ASSUME NEW c \in Versions, NEW i \in DOMAIN Statements[c], NEW s, s = Statements[c][i]
  PROVE  /\ s.kind \in {"table", "column", "delete", "drop", "fill"}
         /\ s.kind = "table" => c \in {1, 6, 7, 9}
         /\ s.kind = "column" => c \in {2, 5, 8, 10} /\ (c = 2 => s.of = "ui_sessions")
         /\ s.kind = "delete" <=> c = 3
         /\ s.kind = "drop" => c = 4 /\ s.obj = "quota"
         /\ s.kind = "fill" => c = 8
         /\ c = 4 => s.kind = "drop"
         /\ s.kind = "column" /\ s.obj = "last_activity" => c = 8
         /\ c = 8 => \/ i = 1 /\ s.kind = "column" /\ s.obj = "last_activity"
                     \/ i = 2 /\ s.kind = "fill" /\ s.obj = "last_activity"
         /\ c = 1 => \/ i = 1 /\ s.obj = "api_keys"
                     \/ i = 2 /\ s.obj = "usage_events"
                     \/ i = 3 /\ s.obj = "ui_sessions"
         /\ c = 1 => s.kind = "table"
         /\ c = 2 => s.kind = "column"
         /\ s.kind \in {"table", "column"} => s.obj \in Effects(c)
<1>1. c \in 1..10
  BY DEF Versions
<1>2. s.kind \in {"table", "column"} => s.obj \in Effects(c)
  BY DEF Effects
<1>3. CASE c = 1
  <2>1. \/ i = 1 /\ s = Table("api_keys")
        \/ i = 2 /\ s = Table("usage_events")
        \/ i = 3 /\ s = Table("ui_sessions")
    BY <1>3, StatementsAre, LengthsAre
  <2> QED BY <1>2, <1>3, <2>1 DEF Table
<1>4. CASE c = 2
  <2>1. s = Column("expires_at", "ui_sessions")
    BY <1>4, StatementsAre, LengthsAre
  <2> QED BY <1>2, <1>4, <2>1 DEF Column
<1>5. CASE c = 3
  <2>1. s = Delete("ui_sessions")
    BY <1>5, StatementsAre, LengthsAre
  <2> QED BY <1>2, <1>5, <2>1 DEF Delete
<1>6. CASE c = 4
  <2>1. s = Drop("quota")
    BY <1>6, StatementsAre, LengthsAre
  <2> QED BY <1>2, <1>6, <2>1 DEF Drop
<1>7. CASE c = 5
  <2>1. s = Column("hash_variant", "api_keys")
    BY <1>7, StatementsAre, LengthsAre
  <2> QED BY <1>2, <1>7, <2>1 DEF Column
<1>8. CASE c = 6
  <2>1. s = Table("setup_drafts")
    BY <1>8, StatementsAre, LengthsAre
  <2> QED BY <1>2, <1>8, <2>1 DEF Table
<1>9. CASE c = 7
  <2>1. s = Table("setup_otps")
    BY <1>9, StatementsAre, LengthsAre
  <2> QED BY <1>2, <1>9, <2>1 DEF Table
<1>10. CASE c = 8
  <2>1. \/ i = 1 /\ s = Column("last_activity", "ui_sessions")
        \/ i = 2 /\ s = Fill("last_activity")
    BY <1>10, StatementsAre, LengthsAre
  <2> QED BY <1>2, <1>10, <2>1 DEF Column, Fill
<1>11. CASE c = 9
  <2>1. s = Table("import_sources") \/ s = Table("import_runs")
    BY <1>11, StatementsAre, LengthsAre
  <2> QED BY <1>2, <1>11, <2>1 DEF Table
<1>12. CASE c = 10
  <2>1. s = Column("schedule", "import_sources") \/ s = Column("next_run_at", "import_sources")
    BY <1>12, StatementsAre, LengthsAre
  <2> QED BY <1>2, <1>12, <2>1 DEF Column
<1>13. \/ c = 1 \/ c = 2 \/ c = 3 \/ c = 4 \/ c = 5 \/ c = 6 \/ c = 7 \/ c = 8 \/ c = 9 \/ c = 10
  BY <1>1
<1> QED BY <1>3, <1>4, <1>5, <1>6, <1>7, <1>8, <1>9, <1>10, <1>11, <1>12, <1>13, Zenon

\* A migration has a first statement, one after each but the last, and its effects are
\* those of its statements.
LEMMA StatementsAreCounted ==
  ASSUME NEW c \in Versions
  PROVE  /\ Len(Statements[c]) \in Nat \ {0} /\ DOMAIN Statements[c] = 1..Len(Statements[c])
         /\ c \in {3, 4} => Len(Statements[c]) = 1
         /\ c = 8 => Len(Statements[c]) = 2
<1>1. c = 1 \/ c \in {2, 3, 4, 5, 6, 7} \/ c \in {8, 9, 10}
  BY DEF Versions
<1>2. CASE c = 1
  BY <1>2, LengthsAre
<1>3. CASE c \in {2, 3, 4, 5, 6, 7}
  <2>1. DOMAIN Statements[c] = 1..1 /\ Len(Statements[c]) = 1
    BY <1>3, LengthsAre
  <2> QED BY <1>3, <2>1
<1>4. CASE c \in {8, 9, 10}
  <2>1. DOMAIN Statements[c] = 1..2 /\ Len(Statements[c]) = 2
    BY <1>4, LengthsAre
  <2> QED BY <1>4, <2>1
<1> QED BY <1>1, <1>2, <1>3, <1>4

LEMMA EffectsPlaced ==
  ASSUME NEW c \in Versions
  PROVE  /\ Effects(c) \subseteq Objects \ {"quota"}
         /\ c \notin {1, 2} => Effects(c) \subseteq Later
<1>1. c \in 1..10
  BY DEF Versions
<1> QED BY <1>1, EffectsAre DEF Objects, Later, Base

-----------------------------------------------------------------------------
(* The inductive invariant *)

Databases == [objs : SUBSET Objects, rows : SUBSET Versions, sessions : {"none", "old", "live"},
              activity : {"filled", "blank"}]
Places == {"off", "guessing", "baselining", "applying", "altering", "recording", "up"}
Starts == [at : Places, pending : SUBSET Versions, stmt : Nat, baselined : SUBSET Versions,
           lacks : SUBSET Objects]
Running == {"applying", "altering", "recording"}

Types ==
  /\ db \in Databases /\ work \in Databases
  /\ tx \in Processes \cup {None} /\ (tx = None => work = db)
  /\ proc \in [Processes -> Starts]
  /\ missed \in SUBSET {8} /\ deaths \in 0..MaxDeaths

\* No migration takes away what another one made, or a row, or undoes what it did to the data.
Grows(old, new) ==
  /\ old.objs \ {"quota"} \subseteq new.objs /\ old.rows \subseteq new.rows
  /\ "quota" \notin old.objs => "quota" \notin new.objs
  /\ old.sessions # "old" => new.sessions # "old"
  /\ "last_activity" \in old.objs /\ old.activity = "filled" => new.activity = "filled"

\* The tables of the first migration come in their order; nothing of a later migration is
\* there before a row is; a session of today is younger than the third migration.
Ordered(d) ==
  /\ "ui_sessions" \in d.objs => "usage_events" \in d.objs
  /\ "usage_events" \in d.objs => "api_keys" \in d.objs
  /\ "expires_at" \in d.objs => "ui_sessions" \in d.objs
  /\ d.rows = {} => d.objs \cap Later = {}
  /\ d.rows # {} => 1 \in d.rows
  /\ d.sessions = "live" => 3 \in d.rows

\* All rows but the first are true; the first may be a guess, and the eighth is not of the
\* data if its column was found before it was filled.
LaterApplied(d) ==
  /\ \A v \in d.rows \ {1} : Effects(v) \subseteq d.objs
  /\ \A v \in d.rows : v \in missed \/ Done(v, d)

Stored ==
  /\ Ordered(db) /\ Ordered(work)
  /\ LaterApplied(db)
  /\ 1 \in db.rows => Effects(1) \subseteq db.objs
  /\ Grows(db, work)

\* A transaction tells no untruth either, except one that is about to meet the row of the
\* third migration: its baseline may come from tables that another process was making.
Doomed(p) == 3 \in proc[p].pending /\ 3 \in work.rows
Truthful(p) == tx = p => Doomed(p) \/ LaterApplied(work)

\* While a process has not looked at the tables, it has every migration to do; the versions
\* that another one commits meanwhile have the third among them.
Unguessed(p) ==
  proc[p].at = "guessing" =>
    /\ proc[p].pending = Versions /\ proc[p].stmt = 1
    /\ Sees(p).rows = {} \/ 3 \in Sees(p).rows

\* Only a process that is past the first migration has a transaction open.
OpensLate(p) == tx = p => proc[p].at \in Running /\ 1 \notin proc[p].pending

\* What is not pending any more has a row, or gets one with the baseline.
OthersRecorded(p) ==
  /\ proc[p].at \in Running => Versions \ proc[p].pending \subseteq Sees(p).rows
  /\ proc[p].at = "up" => Versions \subseteq Sees(p).rows
  /\ proc[p].at = "baselining" => Versions \ proc[p].pending \subseteq Sees(p).rows \cup proc[p].baselined

\* The baseline is true, but for a first migration that was torn: then the second is pending;
\* or for what another process has begun since: then the third is, and has its row.
Guessed(p) ==
  proc[p].at = "baselining" =>
    /\ 1 \in proc[p].baselined /\ 3 \notin proc[p].baselined /\ 3 \in proc[p].pending
    /\ proc[p].baselined \subseteq {1, 2, 4} \/ 3 \in Sees(p).rows
    /\ 1 \notin proc[p].pending /\ proc[p].stmt = 1
    /\ 2 \in proc[p].baselined => "expires_at" \in Sees(p).objs
    /\ 4 \in proc[p].baselined => "quota" \notin Sees(p).objs
    /\ "ui_sessions" \notin Sees(p).objs => 2 \in proc[p].pending

\* The next statement is one of the migration's.
Positioned(p) ==
  /\ proc[p].at \in {"altering", "recording"} => proc[p].pending # {}
  /\ proc[p].at \in {"applying", "recording"} /\ (proc[p].at = "recording" \/ proc[p].pending = {}) => proc[p].stmt = 1
  /\ proc[p].at \in Running /\ proc[p].pending # {} => proc[p].stmt \in DOMAIN Statements[Current(p)]

Makes(s) == s.kind \in {"table", "column"}

\* What the statements so far made is there, and so is a column that was not missing.
SoFarMade(p) ==
  /\ proc[p].at \in {"applying", "altering"} /\ proc[p].pending # {} =>
       \A j \in 1..(proc[p].stmt - 1) :
         Makes(Statements[Current(p)][j]) => Statements[Current(p)][j].obj \in Sees(p).objs
  /\ proc[p].at = "altering" =>
       \A s \in Range(Statements[Current(p)]) :
         s.kind = "column" => s.obj \in Sees(p).objs \cup proc[p].lacks
  /\ proc[p].at = "recording" => Effects(Current(p)) \subseteq Sees(p).objs

\* So it is with the data; the sessions that an UPDATE was to fill are filled, or it was missed.
DataMade(p) ==
  /\ proc[p].at = "applying" /\ proc[p].pending # {} /\ Current(p) = 8 => proc[p].stmt = 1
  /\ proc[p].at = "altering" /\ Current(p) = 8 =>
       \/ "last_activity" \in proc[p].lacks \/ 8 \in missed
       \/ "last_activity" \in Sees(p).objs /\ Sees(p).activity = "filled"
  /\ proc[p].at = "recording" => Current(p) \in missed \/ Done(Current(p), Sees(p))

\* A first migration that is recorded without its last table is followed by one that fails.
GuessFails(p) ==
  tx = p /\ 1 \in work.rows /\ "ui_sessions" \notin work.objs =>
    proc[p].at \in {"applying", "altering"} /\ 2 \in proc[p].pending

\* A transaction that takes sessions of today is about to meet the row of the third migration.
WipeConflicts(p) ==
  tx = p /\ db.sessions = "live" /\ work.sessions # "live" =>
    proc[p].at = "recording" /\ Current(p) = 3

Own(p) ==
  /\ OpensLate(p) /\ OthersRecorded(p) /\ Guessed(p) /\ Positioned(p)
  /\ SoFarMade(p) /\ DataMade(p) /\ GuessFails(p) /\ WipeConflicts(p)
  /\ Unguessed(p) /\ Truthful(p)

Inv == Types /\ Stored /\ \A p \in Processes : Own(p)

-----------------------------------------------------------------------------
(* What the other processes notice of a step *)

Notices(q) ==
  /\ proc'[q] = proc[q] /\ (tx' = q <=> tx = q)
  /\ tx = q => db' = db /\ work' = work
  /\ Grows(Sees(q), Sees(q)')
  /\ Sees(q)'.rows = Sees(q).rows \/ 3 \in Sees(q)'.rows
  /\ missed \subseteq missed'

LEMMA CurrentIsPending ==
  ASSUME Types, NEW p \in Processes, proc[p].pending # {}
  PROVE  /\ Current(p) \in proc[p].pending /\ Current(p) \in Versions
         /\ 1 \in proc[p].pending => Current(p) = 1
         /\ 1 \notin proc[p].pending /\ 2 \in proc[p].pending => Current(p) = 2
         /\ 3 \in proc[p].pending => Current(p) <= 3
<1>1. proc[p].pending \in SUBSET Versions
  BY DEF Types, Starts
<1>2. Current(p) \in proc[p].pending /\ \A v \in proc[p].pending : Current(p) <= v
  BY <1>1, FirstIsLeast DEF Current
<1> HIDE DEF Current
<1> QED BY <1>1, <1>2 DEF Versions

LEMMA FirstStatement ==
  ASSUME NEW S \in SUBSET Versions, S # {}
  PROVE  1 \in DOMAIN Statements[Min(S)]
<1>1. Min(S) \in Versions
  BY FirstIsLeast
<1> QED BY <1>1, StatementsAreCounted

LEMMA NoticesKeepsOwn ==
  ASSUME Types, NEW q \in Processes, Own(q), Notices(q)
  PROVE  Own(q)'
<1> DEFINE old == Sees(q)
           new == Sees(q)'
<1>1. proc'[q] = proc[q] /\ (tx' = q <=> tx = q) /\ Current(q)' = Current(q)
  BY DEF Notices, Current
<1>2. old.objs \ {"quota"} \subseteq new.objs /\ old.rows \subseteq new.rows
  BY DEF Notices, Grows
<1>3. tx = q => db' = db /\ work' = work
  BY DEF Notices
<1>4. OpensLate(q)' /\ OthersRecorded(q)' /\ Guessed(q)' /\ Positioned(q)'
  <2> HIDE DEF old, new
  <2>1. OpensLate(q) /\ OthersRecorded(q) /\ Guessed(q) /\ Positioned(q)
    BY DEF Own
  <2>2. OpensLate(q)'
    BY <1>1, <2>1 DEF OpensLate
  <2>3. OthersRecorded(q)'
    BY <1>1, <1>2, <2>1 DEF OthersRecorded, old, new
  <2>4. Guessed(q)'
    <3>1. "quota" \notin old.objs => "quota" \notin new.objs
      BY DEF Notices, Grows, old, new
    <3> QED BY <1>1, <1>2, <2>1, <3>1 DEF Guessed, old, new
  <2>5. Positioned(q)'
    BY <1>1, <2>1 DEF Positioned
  <2> QED BY <2>2, <2>3, <2>4, <2>5
<1>5. SoFarMade(q)'
  <2>0. SoFarMade(q) /\ Positioned(q)
    BY DEF Own
  <2>1. CASE proc[q].at \notin Running
    BY <1>1, <2>1 DEF SoFarMade, Running
  <2>2. CASE proc[q].at \in Running /\ proc[q].pending = {}
    BY <1>1, <2>0, <2>2 DEF SoFarMade, Running, Positioned
  <2>3. CASE proc[q].at \in Running /\ proc[q].pending # {}
    <3> DEFINE c == Current(q)
    <3>1. c \in Versions /\ Effects(c) \subseteq Objects \ {"quota"}
      BY <2>3, CurrentIsPending, EffectsPlaced
    <3>2. proc[q].stmt \in DOMAIN Statements[c] /\ DOMAIN Statements[c] = 1..Len(Statements[c])
          /\ Len(Statements[c]) \in Nat
      BY <2>0, <2>3, <3>1, StatementsAreCounted DEF Positioned
    <3>3. \A j \in DOMAIN Statements[c] : Makes(Statements[c][j]) => Statements[c][j].obj # "quota"
      BY <3>1, StatementFacts DEF Makes
    <3>4. \A s \in Range(Statements[c]) : s.kind = "column" => s.obj # "quota"
      BY <3>3 DEF Range, Makes
    <3>5. 1..(proc[q].stmt - 1) \subseteq DOMAIN Statements[c]
      BY <3>2
    <3> HIDE DEF c
    <3> QED BY <1>1, <1>2, <2>0, <3>1, <3>3, <3>4, <3>5 DEF SoFarMade, c
  <2> QED BY <2>1, <2>2, <2>3
<1>6. GuessFails(q)' /\ WipeConflicts(q)'
  BY <1>1, <1>3 DEF Own, GuessFails, WipeConflicts
<1>7. missed \subseteq missed' /\ Grows(old, new) /\ (new.rows = old.rows \/ 3 \in new.rows)
  BY DEF Notices
<1>8. DataMade(q)' /\ Unguessed(q)'
  <2> HIDE DEF old, new
  <2>1. DataMade(q) /\ Unguessed(q) /\ SoFarMade(q)
    BY DEF Own
  <2>2. proc[q].at = "recording" /\ Current(q) = 8 => "last_activity" \in old.objs
    BY <2>1, EffectsAre DEF SoFarMade, old
  <2>3. DataMade(q)'
    BY <1>1, <1>7, <2>1, <2>2 DEF DataMade, Done, Grows, old, new
  <2>4. Unguessed(q)'
    BY <1>1, <1>7, <2>1 DEF Unguessed, Grows, old, new
  <2> QED BY <2>3, <2>4
<1>9. Truthful(q)'
  BY <1>1, <1>3, <1>7 DEF Own, Truthful, Doomed, LaterApplied, Done
<1> QED BY <1>4, <1>5, <1>6, <1>8, <1>9 DEF Own

LEMMA GrowsOn ==
  ASSUME NEW a, NEW b, NEW d, Grows(a, b), Grows(b, d)
  PROVE  Grows(a, d)
BY DEF Grows

\* The process that steps sees the database of one that has no transaction open.
LEMMA WriteKeeps ==
  ASSUME Types, Stored, NEW p \in Processes, NEW new \in Databases, NEW begins \in BOOLEAN,
         Writes(p, new, begins), Ordered(new), Grows(Sees(p), new), UNCHANGED missed,
         tx # p /\ ~begins => new.rows = Sees(p).rows /\ LaterApplied(new),
         tx # p /\ ~begins /\ 1 \in new.rows => Effects(1) \subseteq new.objs
  PROVE  /\ Stored' /\ db' \in Databases /\ work' \in Databases
         /\ tx' \in {None, p} /\ (tx' = p <=> tx = p \/ begins) /\ (tx' = None => work' = db')
         /\ Sees(p)' = new
         /\ tx' = p => db' = db /\ work' = new
         /\ \A q \in Processes \ {p} : proc'[q] = proc[q] => Notices(q)
<1>1. tx \in {None, p} /\ p # None /\ \A q \in Processes : q # None
  BY ProcessesAssumption DEF Writes, MayWrite
<1>2. tx # p => tx = None /\ work = db /\ Sees(p) = db
  BY <1>1 DEF Types, Sees
<1>3. tx = p => Sees(p) = work
  BY DEF Sees
<1>4. CASE tx = p \/ begins
  <2>1. tx' = p /\ work' = new /\ db' = db
    BY <1>4 DEF Writes
  <2>2. Stored'
    <3>1. Grows(db, new)
      BY <1>2, <1>3, GrowsOn DEF Stored
    <3>2. Ordered(db)' /\ Ordered(work)' /\ LaterApplied(db)' /\ Grows(db, work)'
      BY <2>1, <3>1 DEF Stored, Ordered, LaterApplied, Done, Grows
    <3> QED BY <2>1, <3>2 DEF Stored
  <2>3. Sees(p)' = new
    BY <2>1 DEF Sees
  <2>4. ASSUME NEW q \in Processes \ {p}, proc'[q] = proc[q] PROVE Notices(q)
    <3>1. tx # q /\ tx' # q /\ Sees(q) = db /\ Sees(q)' = db
      BY <1>1, <2>1 DEF Sees
    <3>2. Grows(Sees(q), Sees(q)')
      BY <3>1 DEF Grows
    <3> QED BY <2>1, <2>4, <3>1, <3>2 DEF Notices
  <2> QED BY <1>1, <1>4, <2>1, <2>2, <2>3, <2>4 DEF Types
<1>5. CASE ~(tx = p \/ begins)
  <2>1. tx' = None /\ tx = None /\ work' = new /\ db' = new
    BY <1>2, <1>5 DEF Writes
  <2>2. Stored'
    <3>1. Grows(new, new) /\ LaterApplied(new)
      BY <1>5 DEF Grows
    <3>2. Ordered(db)' /\ Ordered(work)' /\ LaterApplied(db)' /\ Grows(db, work)'
      BY <2>1, <3>1 DEF Ordered, LaterApplied, Done, Grows
    <3> QED BY <1>5, <2>1, <3>2 DEF Stored
  <2>3. Sees(p)' = new
    BY <1>1, <2>1 DEF Sees
  <2>4. ASSUME NEW q \in Processes \ {p}, proc'[q] = proc[q] PROVE Notices(q)
    <3>1. tx # q /\ tx' # q /\ Sees(q) = db /\ Sees(q)' = new /\ Sees(p) = db
      BY <1>1, <2>1 DEF Sees
    <3>2. Grows(Sees(q), Sees(q)') /\ Sees(q)'.rows = Sees(q).rows
      BY <1>5, <3>1
    <3> QED BY <2>4, <3>1, <3>2 DEF Notices
  <2> QED BY <1>1, <1>5, <2>1, <2>2, <2>3, <2>4
<1> QED BY <1>4, <1>5

\* A transaction is committed only when what it takes for the first migration is true.
LEMMA CommitKeeps ==
  ASSUME Types, Stored, NEW p \in Processes, tx = p, db' = work, tx' = None, work' = work,
         1 \in work.rows => "ui_sessions" \in work.objs,
         LaterApplied(work), 3 \in work.rows, UNCHANGED missed
  PROVE  /\ Stored' /\ db' \in Databases /\ work' \in Databases /\ Sees(p)' = Sees(p)
         /\ \A q \in Processes \ {p} : proc'[q] = proc[q] => Notices(q)
<1>1. p # None /\ \A q \in Processes : q # None
  BY ProcessesAssumption
<1>2. Sees(p) = work /\ Sees(p)' = work
  BY <1>1 DEF Sees
<1>3. 1 \in work.rows => Effects(1) \subseteq work.objs
  BY EffectsAre DEF Stored, Ordered, Base
<1>4. Stored'
  <2>1. Grows(work, work)
    BY DEF Grows
  <2>2. Ordered(db)' /\ Ordered(work)' /\ LaterApplied(db)' /\ Grows(db, work)'
    BY <2>1 DEF Stored, Ordered, LaterApplied, Done, Grows
  <2> QED BY <1>3, <2>2 DEF Stored
<1>5. ASSUME NEW q \in Processes \ {p}, proc'[q] = proc[q] PROVE Notices(q)
  <2>1. tx # q /\ tx' # q /\ Sees(q) = db /\ Sees(q)' = work
    BY <1>1 DEF Sees
  <2>2. Grows(Sees(q), Sees(q)')
    BY <2>1 DEF Stored, Grows
  <2> QED BY <1>5, <2>1, <2>2 DEF Notices
<1> QED BY <1>2, <1>4, <1>5 DEF Types

\* Nothing is written: everyone sees what they saw.
LEMMA NothingWritten ==
  ASSUME Types, Stored, NEW p \in Processes, UNCHANGED <<db, tx, work>>, missed \subseteq missed'
  PROVE  /\ Stored' /\ db' \in Databases /\ work' \in Databases /\ Sees(p)' = Sees(p)
         /\ \A q \in Processes : proc'[q] = proc[q] => Notices(q)
<1>1. Stored'
  BY DEF Stored, Ordered, LaterApplied, Done, Grows
<1>2. \A q \in Processes : Sees(q)' = Sees(q)
  BY DEF Sees
<1>3. ASSUME NEW q \in Processes, proc'[q] = proc[q] PROVE Notices(q)
  BY <1>2, <1>3 DEF Notices, Grows
<1> QED BY <1>1, <1>2, <1>3 DEF Types

\* A transaction that is rolled back leaves what is committed.
LEMMA RollbackKeeps ==
  ASSUME Types, Stored, NEW p \in Processes, Rollback(p), Leaves(p), UNCHANGED missed
  PROVE  /\ Stored' /\ db' \in Databases /\ work' \in Databases
         /\ tx' \in Processes \cup {None} /\ (tx' = None => work' = db')
         /\ proc' \in [Processes -> Starts]
         /\ \A q \in Processes \ {p} : Notices(q)
         /\ Own(p)'
<1>1. p # None /\ \A q \in Processes : q # None
  BY ProcessesAssumption
<1>2. Off \in Starts
  BY DEF Off, Starts, Places
<1>3. proc' \in [Processes -> Starts] /\ proc'[p] = Off /\ \A q \in Processes \ {p} : proc'[q] = proc[q]
  BY <1>2 DEF Leaves, Types
<1>4. db' = db /\ tx' # p /\ (tx = p => tx' = None /\ work' = db) /\ (tx # p => UNCHANGED <<tx, work>>)
  BY <1>1 DEF Rollback
<1>5. Stored'
  <2>1. Grows(db, db)
    BY DEF Grows
  <2>2. Ordered(db)' /\ LaterApplied(db)'
    BY <1>4 DEF Stored, Ordered, LaterApplied, Done
  <2>3. Ordered(work)' /\ Grows(db, work)'
    BY <1>4, <2>1 DEF Stored, Ordered, Grows
  <2> QED BY <1>4, <2>2, <2>3 DEF Stored
<1>6. ASSUME NEW q \in Processes \ {p} PROVE Notices(q)
  <2>1. Sees(q)' = Sees(q) /\ (tx' = q <=> tx = q) /\ (tx = q => UNCHANGED <<db, work>>)
    BY <1>1, <1>4 DEF Sees
  <2> QED BY <1>3, <2>1 DEF Notices, Grows
<1>7. Own(p)'
  BY <1>3, <1>4 DEF Own, OpensLate, OthersRecorded, Guessed, Positioned, SoFarMade, DataMade,
     GuessFails, WipeConflicts, Unguessed, Truthful, Off, Running
<1> QED BY <1>3, <1>4, <1>5, <1>6, <1>7 DEF Types

-----------------------------------------------------------------------------
(* Every step keeps the invariant *)

LEMMA StepKeeps ==
  ASSUME Inv, NEW p \in Processes, Types', Stored', Own(p)',
         \A q \in Processes \ {p} : Notices(q)
  PROVE  Inv'
<1>1. \A q \in Processes \ {p} : Own(q)'
  BY NoticesKeepsOwn DEF Inv
<1> QED BY <1>1 DEF Inv

LEMMA BootKeeps ==
  ASSUME Inv, NEW p \in Processes, Boot(p)
  PROVE  Inv'
<1> DEFINE new == [at |-> IF db.rows = {} THEN "guessing" ELSE "applying",
                   pending |-> Versions \ db.rows, stmt |-> 1, baselined |-> {}, lacks |-> {}]
<1>1. Types /\ Stored /\ Own(p)
  BY DEF Inv
<1>2. new \in Starts /\ db.rows \in SUBSET Versions
  BY <1>1 DEF Starts, Places, Types, Databases
<1>3. proc' = [proc EXCEPT ![p] = new] /\ UNCHANGED <<db, tx, work, missed, deaths>> /\ proc[p].at = "off"
  BY DEF Boot
<1>4. proc' \in [Processes -> Starts] /\ proc'[p] = new /\ \A q \in Processes \ {p} : proc'[q] = proc[q]
  <2> HIDE DEF new
  <2> QED BY <1>1, <1>2, <1>3 DEF Types
<1>5. Stored' /\ db' \in Databases /\ work' \in Databases /\ \A q \in Processes \ {p} : Notices(q)
  BY <1>1, <1>3, <1>4, NothingWritten
<1>6. tx # p /\ tx' # p /\ Sees(p)' = db /\ db \in Databases
  BY <1>1, <1>3 DEF Own, OpensLate, Running, Sees, Types
<1>7. Own(p)'
  <2>1. /\ proc'[p].at \in {"applying", "guessing"} /\ (proc'[p].at = "guessing" <=> db.rows = {})
        /\ proc'[p].pending = Versions \ db.rows /\ proc'[p].stmt = 1
    BY <1>4
  <2> HIDE DEF new
  <2>2. OpensLate(p)' /\ GuessFails(p)' /\ WipeConflicts(p)' /\ Truthful(p)'
    BY <1>6 DEF OpensLate, GuessFails, WipeConflicts, Truthful
  <2>3. OthersRecorded(p)' /\ Guessed(p)' /\ Unguessed(p)'
    BY <1>6, <2>1 DEF OthersRecorded, Guessed, Unguessed, Running
  <2>4. Positioned(p)'
    <3>1. proc'[p].pending # {} => 1 \in DOMAIN Statements[Current(p)']
      BY <1>4, FirstStatement DEF Current, Starts
    <3> QED BY <2>1, <3>1 DEF Positioned, Running
  <2>5. SoFarMade(p)' /\ DataMade(p)'
    BY <2>1 DEF SoFarMade, DataMade
  <2> QED BY <2>2, <2>3, <2>4, <2>5 DEF Own
<1> QED BY <1>1, <1>3, <1>4, <1>5, <1>7, StepKeeps DEF Types

LEMMA GuessKeeps ==
  ASSUME Inv, NEW p \in Processes, Guess(p)
  PROVE  Inv'
<1> DEFINE based == Baselined(db.objs)
           at == IF based = {} THEN "applying" ELSE "baselining"
<1>1. Types /\ Stored /\ Own(p) /\ proc[p].at = "guessing" /\ UNCHANGED <<db, tx, work, missed, deaths>>
      /\ proc' = [proc EXCEPT ![p].at = at, ![p].pending = Versions \ based, ![p].baselined = based]
  BY DEF Inv, Guess
<1>2. based \in SUBSET Versions /\ at \in Places
  BY DEF Baselined, Places
<1>3. tx # p /\ tx' # p /\ Sees(p) = db /\ Sees(p)' = db /\ db \in Databases
  BY <1>1 DEF Own, OpensLate, Running, Sees, Types
<1>4. proc[p].stmt = 1 /\ (db.rows = {} \/ 3 \in db.rows)
  BY <1>1, <1>3 DEF Own, Unguessed
<1>5. Ordered(db) /\ (1 \in db.rows => Effects(1) \subseteq db.objs)
  BY <1>1 DEF Stored
<1>6. 3 \notin based
  BY DEF Baselined
<1>7. based # {} =>
        /\ 1 \in based /\ (based \subseteq {1, 2, 4} \/ 3 \in db.rows)
        /\ 2 \in based => "expires_at" \in db.objs
        /\ 4 \in based => "quota" \notin db.objs
        /\ "ui_sessions" \notin db.objs => 2 \notin based
  <2> SUFFICES ASSUME based # {} PROVE
        /\ 1 \in based /\ (based \subseteq {1, 2, 4} \/ 3 \in db.rows)
        /\ 2 \in based => "expires_at" \in db.objs
        /\ 4 \in based => "quota" \notin db.objs
        /\ "ui_sessions" \notin db.objs => 2 \notin based
    OBVIOUS
  <2>1. /\ 2 \in based => "ui_sessions" \in db.objs /\ "expires_at" \in db.objs
        /\ 4 \in based => "quota" \notin db.objs
    BY DEF Baselined
  <2>2. CASE db.rows = {}
    <3>1. db.objs \cap Later = {} /\ ("ui_sessions" \in db.objs => "api_keys" \in db.objs)
      BY <1>5, <2>2 DEF Ordered
    <3>2. /\ "hash_variant" \notin db.objs /\ "setup_drafts" \notin db.objs
          /\ "setup_otps" \notin db.objs /\ "last_activity" \notin db.objs
          /\ "import_sources" \notin db.objs
      BY <3>1 DEF Later, Objects, Base
    <3>3. "api_keys" \in db.objs /\ based \subseteq {1, 2, 4}
      BY <3>1, <3>2 DEF Baselined
    <3>4. 1 \in based
      BY <3>3 DEF Baselined, Versions
    <3> QED BY <2>1, <3>3, <3>4
  <2>3. CASE 3 \in db.rows
    <3>1. "api_keys" \in db.objs
      BY <1>5, <2>3, EffectsAre DEF Ordered, Base
    <3>2. 1 \in based
      BY <3>1 DEF Baselined, Versions
    <3> QED BY <2>1, <2>3, <3>2
  <2> QED BY <1>4, <2>2, <2>3
<1> HIDE DEF based
<1>8. /\ proc' \in [Processes -> Starts] /\ \A q \in Processes \ {p} : proc'[q] = proc[q]
      /\ proc'[p].at = at /\ proc'[p].pending = Versions \ based /\ proc'[p].stmt = 1
      /\ proc'[p].baselined = based
  <2> HIDE DEF at
  <2> DEFINE new == [proc[p] EXCEPT !.at = at, !.pending = Versions \ based, !.baselined = based]
  <2>1. proc \in [Processes -> Starts] /\ proc[p] \in Starts
    BY <1>1 DEF Types
  <2>2. Versions \ based \in SUBSET Versions
    OBVIOUS
  <2>3. proc' = [proc EXCEPT ![p] = new]
    BY <1>1, <2>1 DEF Starts
  <2>4. /\ new \in Starts
        /\ new.at = at /\ new.pending = Versions \ based /\ new.stmt = 1 /\ new.baselined = based
    BY <1>2, <1>4, <2>1, <2>2 DEF Starts
  <2> HIDE DEF new
  <2> QED BY <2>1, <2>3, <2>4
<1>9. Stored' /\ db' \in Databases /\ work' \in Databases /\ \A q \in Processes \ {p} : Notices(q)
  BY <1>1, <1>8, NothingWritten
<1>10. Own(p)'
  <2>1. OpensLate(p)' /\ GuessFails(p)' /\ WipeConflicts(p)' /\ Truthful(p)'
    BY <1>3 DEF OpensLate, GuessFails, WipeConflicts, Truthful
  <2>2. OthersRecorded(p)' /\ Unguessed(p)'
    BY <1>2, <1>8 DEF OthersRecorded, Unguessed, Running
  <2>3. Guessed(p)'
    BY <1>3, <1>6, <1>7, <1>8 DEF Guessed, Versions
  <2>4. Positioned(p)'
    <3>1. proc'[p].pending # {} => 1 \in DOMAIN Statements[Current(p)']
      BY <1>8, FirstStatement DEF Current, Starts
    <3> QED BY <1>8, <3>1 DEF Positioned, Running
  <2>5. SoFarMade(p)' /\ DataMade(p)'
    BY <1>8 DEF SoFarMade, DataMade
  <2> QED BY <2>1, <2>2, <2>3, <2>4, <2>5 DEF Own
<1> QED BY <1>1, <1>8, <1>9, <1>10, StepKeeps DEF Types

LEMMA InsertBaselineKeeps ==
  ASSUME Inv, NEW p \in Processes, InsertBaseline(p)
  PROVE  Inv'
<1> DEFINE old == Sees(p)
           new == [old EXCEPT !.rows = @ \cup proc[p].baselined]
<1>1. Types /\ Stored /\ Own(p) /\ proc[p].at = "baselining"
      /\ UNCHANGED <<missed, deaths>>
  BY DEF Inv, InsertBaseline
<1>2. tx # p /\ old \in Databases /\ old = db
  BY <1>1 DEF Own, OpensLate, Running, Sees, Types
<1>3. /\ 1 \in proc[p].baselined /\ 3 \notin proc[p].baselined /\ 3 \in proc[p].pending
      /\ proc[p].baselined \subseteq {1, 2, 4} \/ 3 \in old.rows
      /\ 4 \in proc[p].baselined => "quota" \notin old.objs
      /\ 1 \notin proc[p].pending /\ proc[p].stmt = 1
      /\ 2 \in proc[p].baselined => "expires_at" \in old.objs
      /\ "ui_sessions" \notin old.objs => 2 \in proc[p].pending
      /\ Versions \ proc[p].pending \subseteq old.rows \cup proc[p].baselined
      /\ proc[p].baselined \in SUBSET Versions /\ proc[p].pending \in SUBSET Versions
  BY <1>1 DEF Own, Guessed, OthersRecorded, Types, Starts
<1> HIDE DEF old
<1>4. /\ new \in Databases /\ new.rows = old.rows \cup proc[p].baselined
      /\ new.objs = old.objs /\ new.sessions = old.sessions /\ new.activity = old.activity
  BY <1>2, <1>3 DEF Databases
<1>5. Writes(p, new, TRUE)
  BY DEF InsertBaseline, old
<1> HIDE DEF new
<1>6. Ordered(new) /\ Grows(old, new) /\ (3 \in new.rows \/ LaterApplied(new))
  <2>1. Ordered(old) /\ LaterApplied(old)
    BY <1>1, <1>2 DEF Stored
  <2>2. Ordered(new) /\ Grows(old, new)
    BY <1>3, <1>4, <2>1 DEF Ordered, Grows
  <2>3. CASE proc[p].baselined \subseteq {1, 2, 4}
    <3>1. \A v \in new.rows \ {1} : Effects(v) \subseteq new.objs
      BY <1>3, <1>4, <2>1, <2>3, EffectsAre DEF LaterApplied
    <3>2. \A v \in new.rows : v \in missed \/ Done(v, new)
      BY <1>3, <1>4, <2>1, <2>3 DEF LaterApplied, Done
    <3> QED BY <2>2, <3>1, <3>2 DEF LaterApplied
  <2>4. CASE 3 \in old.rows
    BY <1>4, <2>2, <2>4
  <2> QED BY <1>3, <2>3, <2>4
<1>7. proc' = [proc EXCEPT ![p].at = "applying"]
  BY DEF InsertBaseline
<1>8. /\ proc' \in [Processes -> Starts] /\ \A q \in Processes \ {p} : proc'[q] = proc[q]
      /\ proc'[p].at = "applying" /\ proc'[p].stmt = 1 /\ proc'[p].pending = proc[p].pending
  BY <1>1, <1>3, <1>7 DEF Types, Starts, Places
<1>9. /\ Stored' /\ db' \in Databases /\ work' \in Databases
      /\ tx' = p /\ (tx' = None => work' = db') /\ Sees(p)' = new
      /\ db' = db /\ work' = new
      /\ \A q \in Processes \ {p} : Notices(q)
  BY <1>1, <1>4, <1>5, <1>6, <1>8, WriteKeeps DEF old
<1>10. Own(p)'
  <2>1. OpensLate(p)' /\ OthersRecorded(p)' /\ Guessed(p)'
    BY <1>3, <1>4, <1>8, <1>9 DEF OpensLate, OthersRecorded, Guessed, Running
  <2>2. Positioned(p)'
    <3>1. proc'[p].pending # {} => 1 \in DOMAIN Statements[Current(p)']
      BY <1>8, FirstStatement DEF Current, Starts
    <3> QED BY <1>8, <3>1 DEF Positioned, Running
  <2>3. SoFarMade(p)' /\ DataMade(p)' /\ Unguessed(p)'
    BY <1>8 DEF SoFarMade, DataMade, Unguessed
  <2>4. GuessFails(p)' /\ WipeConflicts(p)'
    BY <1>2, <1>3, <1>4, <1>8, <1>9 DEF GuessFails, WipeConflicts
  <2>5. Truthful(p)'
    BY <1>1, <1>3, <1>6, <1>8, <1>9 DEF Truthful, Doomed, LaterApplied, Done
  <2> QED BY <2>1, <2>2, <2>3, <2>4, <2>5 DEF Own
<1> QED BY <1>1, <1>8, <1>9, <1>10, StepKeeps DEF Types

\* A process with a transaction open whose first migration was torn is at the second one.
LEMMA TornIsSecond ==
  ASSUME Inv, NEW p \in Processes, tx = p, 1 \in work.rows, "ui_sessions" \notin work.objs
  PROVE  proc[p].at \in {"applying", "altering"} /\ proc[p].pending # {} /\ Current(p) = 2
<1>1. 1 \notin proc[p].pending /\ 2 \in proc[p].pending /\ proc[p].at \in {"applying", "altering"}
  BY DEF Inv, Own, OpensLate, GuessFails
<1> QED BY <1>1, CurrentIsPending DEF Inv

LEMMA ScriptCommitsKeeps ==
  ASSUME Inv, NEW p \in Processes, ScriptCommits(p)
  PROVE  Inv'
<1>1. Types /\ Stored /\ Own(p)
  BY DEF Inv
<1>2. /\ tx = p /\ proc[p].at = "applying" /\ proc[p].pending # {} /\ Current(p) \in {1, 9}
      /\ db' = work /\ tx' = None /\ work' = work /\ proc' = proc /\ UNCHANGED <<missed, deaths>>
  BY DEF ScriptCommits, CommitsFirst, Scripts
<1>3. 1 \in work.rows => "ui_sessions" \in work.objs
  BY <1>2, TornIsSecond
<1>4. LaterApplied(work) /\ 3 \in work.rows
  <2>1. 1 \notin proc[p].pending /\ Current(p) \in proc[p].pending /\ (3 \in proc[p].pending => Current(p) <= 3)
    BY <1>1, <1>2, CurrentIsPending DEF Own, OpensLate
  <2>2. 3 \notin proc[p].pending
    BY <1>2, <2>1
  <2> QED BY <1>1, <1>2, <2>2 DEF Own, Truthful, Doomed, OthersRecorded, Running, Sees, Versions
<1>5. /\ Stored' /\ db' \in Databases /\ work' \in Databases /\ Sees(p)' = Sees(p)
      /\ \A q \in Processes \ {p} : Notices(q)
  BY <1>1, <1>2, <1>3, <1>4, CommitKeeps
<1>6. Own(p)'
  <2>1. tx' # p /\ Current(p)' = Current(p)
    BY <1>2, ProcessesAssumption DEF Current
  <2>2. OpensLate(p)' /\ OthersRecorded(p)' /\ Guessed(p)' /\ Positioned(p)' /\ GuessFails(p)'
        /\ WipeConflicts(p)'
    BY <1>1, <1>2, <1>5, <2>1 DEF Own, OpensLate, OthersRecorded, Guessed, Positioned, GuessFails,
       WipeConflicts
  <2>3. SoFarMade(p)' /\ DataMade(p)'
    BY <1>1, <1>2, <1>5, <2>1 DEF Own, SoFarMade, DataMade, Done
  <2>4. Unguessed(p)' /\ Truthful(p)'
    BY <1>2, <2>1 DEF Unguessed, Truthful
  <2> QED BY <2>2, <2>3, <2>4 DEF Own
<1> QED BY <1>1, <1>2, <1>5, <1>6, StepKeeps DEF Types

LEMMA LookKeeps ==
  ASSUME Inv, NEW p \in Processes, Look(p)
  PROVE  Inv'
<1> DEFINE lacks == Missing(Sees(p).objs, p)
<1>1. Types /\ Stored /\ Own(p)
  BY DEF Inv
<1>2. /\ proc[p].at = "applying" /\ proc[p].pending # {} /\ UNCHANGED <<db, tx, work, deaths>>
      /\ missed' = missed \cup (IF NotFilled(Sees(p), p) THEN {8} ELSE {})
      /\ proc' = [proc EXCEPT ![p].lacks = lacks, ![p].at = "altering"]
  BY DEF Look
<1>3. /\ Current(p) \in Versions /\ Effects(Current(p)) \subseteq Objects
  BY <1>1, <1>2, CurrentIsPending, EffectsPlaced
<1>4. lacks \subseteq Effects(Current(p))
  BY DEF Missing, MissingAlways, Effects, Range
<1>5. \A s \in Range(Statements[Current(p)]) : s.kind = "column" => s.obj \in Sees(p).objs \cup lacks
  BY DEF Missing, MissingAlways
<1>6. Current(p) = 8 /\ "last_activity" \notin Sees(p).objs => "last_activity" \in lacks
  <2> SUFFICES ASSUME Current(p) = 8, "last_activity" \notin Sees(p).objs
               PROVE  "last_activity" \in MissingAlways(Sees(p).objs, p)
    BY DEF Missing
  <2>1. Statements[8][1].kind = "column" /\ Statements[8][1].obj = "last_activity" /\ 1 \in DOMAIN Statements[8]
    BY StatementsAre, LengthsAre DEF Column
  <2>2. Statements[8][1] \in Range(Statements[8])
    BY <2>1 DEF Range
  <2> QED BY <2>1, <2>2 DEF MissingAlways
<1> HIDE DEF lacks
<1>7. /\ proc' \in [Processes -> Starts] /\ \A q \in Processes \ {p} : proc'[q] = proc[q]
      /\ proc'[p].at = "altering" /\ proc'[p].stmt = proc[p].stmt /\ proc'[p].pending = proc[p].pending
      /\ proc'[p].lacks = lacks
  BY <1>1, <1>2, <1>3, <1>4 DEF Types, Starts, Places
<1>8. /\ Stored' /\ db' \in Databases /\ work' \in Databases /\ Sees(p)' = Sees(p)
      /\ \A q \in Processes \ {p} : Notices(q)
  BY <1>1, <1>2, <1>7, NothingWritten
<1>9. Own(p)'
  <2>1. Current(p)' = Current(p)
    BY <1>7 DEF Current
  <2>2. OpensLate(p)' /\ OthersRecorded(p)' /\ Guessed(p)' /\ Positioned(p)' /\ GuessFails(p)'
        /\ WipeConflicts(p)'
    BY <1>1, <1>2, <1>7, <1>8, <2>1 DEF Own, OpensLate, OthersRecorded, Guessed, Positioned,
       GuessFails, WipeConflicts, Running
  <2>3. SoFarMade(p)'
    BY <1>1, <1>2, <1>5, <1>7, <1>8, <2>1 DEF Own, SoFarMade
  <2>4. DataMade(p)'
    <3>1. Sees(p).activity \in {"filled", "blank"}
      BY <1>1 DEF Types, Databases, Sees
    <3> QED BY <1>2, <1>7, <1>8, <1>6, <2>1, <3>1 DEF DataMade, NotFilled
  <2>5. Unguessed(p)' /\ Truthful(p)'
    BY <1>1, <1>2, <1>7 DEF Own, Unguessed, Truthful, Doomed, LaterApplied, Done
  <2> QED BY <2>2, <2>3, <2>4, <2>5 DEF Own
<1> QED BY <1>1, <1>2, <1>7, <1>8, <1>9, StepKeeps DEF Types, NotFilled

LEMMA FinishKeeps ==
  ASSUME Inv, NEW p \in Processes, Finish(p)
  PROVE  Inv'
<1>1. Types /\ Stored /\ Own(p)
  BY DEF Inv
<1>2. /\ proc[p].at = "applying" /\ proc[p].pending = {} /\ UNCHANGED <<missed, deaths>>
      /\ proc' = [proc EXCEPT ![p].at = "up"]
      /\ IF tx = p THEN db' = work /\ tx' = None /\ UNCHANGED work ELSE UNCHANGED <<db, tx, work>>
  BY DEF Finish
<1>3. /\ proc' \in [Processes -> Starts] /\ \A q \in Processes \ {p} : proc'[q] = proc[q]
      /\ proc'[p].at = "up" /\ proc'[p].pending = {}
  BY <1>1, <1>2 DEF Types, Starts, Places
<1>4. tx = p => (1 \in work.rows => "ui_sessions" \in work.objs)
  BY <1>2, TornIsSecond
<1>5. /\ Stored' /\ db' \in Databases /\ work' \in Databases /\ Sees(p)' = Sees(p)
      /\ \A q \in Processes \ {p} : Notices(q)
  <2>1. CASE tx = p
    <3>1. LaterApplied(work) /\ 3 \in work.rows
      BY <1>1, <1>2, <2>1 DEF Own, Truthful, Doomed, OthersRecorded, Running, Sees, Versions
    <3> QED BY <1>1, <1>2, <1>3, <1>4, <2>1, <3>1, CommitKeeps
  <2>2. CASE tx # p
    BY <1>1, <1>2, <1>3, <2>2, NothingWritten
  <2> QED BY <2>1, <2>2
<1>6. tx' # p /\ tx' \in Processes \cup {None} /\ (tx' = None => work' = db')
  BY <1>1, <1>2, ProcessesAssumption DEF Types
<1>7. Own(p)'
  <2>1. Versions \subseteq Sees(p)'.rows
    BY <1>1, <1>2, <1>5 DEF Own, OthersRecorded, Running
  <2> HIDE DEF Sees
  <2> QED BY <1>3, <1>6, <2>1 DEF Own, OpensLate, OthersRecorded, Guessed, Positioned, SoFarMade,
         DataMade, GuessFails, WipeConflicts, Unguessed, Truthful, Running
<1> QED BY <1>1, <1>2, <1>3, <1>5, <1>6, <1>7, StepKeeps DEF Types

LEMMA LoginKeeps ==
  ASSUME Inv, NEW p \in Processes, Login(p)
  PROVE  Inv'
<1>1. Types /\ Stored /\ Own(p)
  BY DEF Inv
<1>2. /\ proc[p].at = "up" /\ tx = None /\ tx' = None /\ proc' = proc /\ UNCHANGED <<missed, deaths>>
      /\ db' = [db EXCEPT !.sessions = "live"] /\ work' = db'
  BY DEF Login
<1>3. db' \in Databases /\ db'.objs = db.objs /\ db'.rows = db.rows
      /\ db'.sessions = "live" /\ db'.activity = db.activity
  BY <1>1, <1>2 DEF Types, Databases
<1>4. \A q \in Processes : tx # q /\ tx' # q /\ Sees(q) = db /\ Sees(q)' = db'
  BY <1>2, ProcessesAssumption DEF Sees
<1>5. 3 \in db.rows
  BY <1>1, <1>2, <1>4 DEF Own, OthersRecorded, Versions
<1>6. Stored'
  BY <1>1, <1>2, <1>3, <1>5 DEF Stored, Ordered, LaterApplied, Done, Grows
<1>7. \A q \in Processes : Notices(q)
  BY <1>2, <1>3, <1>4 DEF Notices, Grows
<1>8. \A q \in Processes : Own(q)'
  BY <1>7, NoticesKeepsOwn DEF Inv
<1> QED BY <1>1, <1>2, <1>3, <1>6, <1>8 DEF Inv, Types

LEMMA DiesKeeps ==
  ASSUME Inv, NEW p \in Processes, Dies(p)
  PROVE  Inv'
<1>1. Types /\ Stored /\ Rollback(p) /\ Leaves(p) /\ UNCHANGED missed /\ deaths' \in 0..MaxDeaths
  BY DeathsAssumption DEF Inv, Dies, Types
<1>2. /\ Stored' /\ db' \in Databases /\ work' \in Databases
      /\ tx' \in Processes \cup {None} /\ (tx' = None => work' = db')
      /\ proc' \in [Processes -> Starts]
      /\ \A q \in Processes \ {p} : Notices(q)
      /\ Own(p)'
  BY <1>1, RollbackKeeps
<1> QED BY <1>1, <1>2, StepKeeps DEF Types

LEMMA RecordKeeps ==
  ASSUME Inv, NEW p \in Processes, Record(p)
  PROVE  Inv'
<1> DEFINE old == Sees(p)
           c == Current(p)
           new == [old EXCEPT !.rows = @ \cup {c}]
<1>1. Types /\ Stored /\ Own(p) /\ proc[p].at = "recording"
  BY DEF Inv, Record
<1>2. CASE Conflicts(p)
  <2>1. Rollback(p) /\ Leaves(p) /\ UNCHANGED <<missed, deaths>>
    BY <1>2 DEF Record, Fails
  <2>2. /\ Stored' /\ db' \in Databases /\ work' \in Databases
        /\ tx' \in Processes \cup {None} /\ (tx' = None => work' = db')
        /\ proc' \in [Processes -> Starts]
        /\ \A q \in Processes \ {p} : Notices(q)
        /\ Own(p)'
    BY <1>1, <2>1, RollbackKeeps
  <2> QED BY <1>1, <2>1, <2>2, StepKeeps DEF Types
<1>3. CASE ~Conflicts(p)
  <2>1. proc[p].pending # {} /\ proc[p].stmt = 1 /\ Effects(c) \subseteq old.objs
    BY <1>1 DEF Own, Positioned, SoFarMade
  <2>2. c \in proc[p].pending /\ c \in Versions /\ (1 \in proc[p].pending => c = 1)
    BY <1>1, <2>1, CurrentIsPending
  <2>3. old \in Databases /\ Ordered(old)
    BY <1>1 DEF Types, Stored, Sees
  <2>4. (tx # p => old = db) /\ (tx = p => old = work) /\ c \notin old.rows
    BY <1>3 DEF Conflicts, Sees
  <2>5. Writes(p, new, TRUE) /\ UNCHANGED <<missed, deaths>>
        /\ proc' = [proc EXCEPT ![p].pending = @ \ {c}, ![p].at = "applying"]
    BY <1>3 DEF Record
  <2>6. Versions \ proc[p].pending \subseteq old.rows
    BY <1>1 DEF Own, OthersRecorded, Running
  <2>7. tx = p /\ db.sessions = "live" => work.sessions = "live"
    <3> SUFFICES ASSUME tx = p, db.sessions = "live", work.sessions # "live" PROVE FALSE
      OBVIOUS
    <3>1. c = 3
      BY <1>1 DEF Own, WipeConflicts
    <3>2. 3 \in work.rows
      BY <1>1 DEF Stored, Ordered, Grows
    <3> QED BY <2>4, <3>1, <3>2
  <2>8. tx = p /\ 1 \in work.rows => "ui_sessions" \in work.objs
    BY <1>1 DEF Own, GuessFails
  <2>9. ~(tx = p) /\ 1 \in db.rows => "ui_sessions" \in db.objs
    BY <1>1, EffectsAre DEF Stored, Base
  <2>15. c \in missed \/ Done(c, old)
    BY <1>1 DEF Own, DataMade
  <2>16. LaterApplied(old) \/ (3 \in proc[p].pending /\ 3 \in old.rows)
    BY <1>1, <2>4 DEF Own, Truthful, Doomed, Stored
  <2> HIDE DEF old, c
  <2>10. /\ new \in Databases /\ new.rows = old.rows \cup {c}
         /\ new.objs = old.objs /\ new.sessions = old.sessions /\ new.activity = old.activity
    BY <2>2, <2>3 DEF Databases
  <2> HIDE DEF new
  <2>11. Ordered(new) /\ Grows(old, new)
         /\ (LaterApplied(new) \/ (3 \in proc[p].pending \ {c} /\ 3 \in new.rows))
    <3>1. c = 1 \/ 1 \in old.rows
      BY <2>2, <2>6 DEF Versions
    <3>2. Ordered(new) /\ Grows(old, new)
      BY <2>3, <2>10, <3>1 DEF Ordered, Grows
    <3>3. CASE LaterApplied(old)
      <4>1. \A v \in new.rows \ {1} : Effects(v) \subseteq new.objs
        BY <2>1, <2>10, <3>3 DEF LaterApplied
      <4>2. \A v \in new.rows : v \in missed \/ Done(v, new)
        BY <2>10, <2>15, <3>3 DEF LaterApplied, Done
      <4> QED BY <3>2, <4>1, <4>2 DEF LaterApplied
    <3>4. CASE 3 \in proc[p].pending /\ 3 \in old.rows
      BY <2>4, <2>10, <3>2, <3>4
    <3> QED BY <2>16, <3>3, <3>4
  <2>12. /\ proc' \in [Processes -> Starts] /\ \A q \in Processes \ {p} : proc'[q] = proc[q]
         /\ proc'[p].at = "applying" /\ proc'[p].stmt = 1 /\ proc'[p].pending = proc[p].pending \ {c}
    BY <1>1, <2>1, <2>5 DEF Types, Starts, Places
  <2>13. /\ Stored' /\ db' \in Databases /\ work' \in Databases
         /\ tx' = p /\ (tx' = None => work' = db') /\ Sees(p)' = new
         /\ db' = db /\ work' = new
         /\ \A q \in Processes \ {p} : Notices(q)
    BY <1>1, <2>5, <2>10, <2>11, <2>12, WriteKeeps DEF old
  <2>14. Own(p)'
    <3>1. OpensLate(p)' /\ Guessed(p)'
      BY <2>2, <2>12 DEF OpensLate, Guessed, Running
    <3>2. OthersRecorded(p)'
      BY <2>2, <2>6, <2>10, <2>12, <2>13 DEF OthersRecorded
    <3>3. Positioned(p)'
      <4>1. proc'[p].pending # {} => 1 \in DOMAIN Statements[Current(p)']
        BY <2>12, FirstStatement DEF Current, Starts
      <4> QED BY <2>12, <4>1 DEF Positioned, Running
    <3>4. SoFarMade(p)' /\ DataMade(p)' /\ Unguessed(p)'
      BY <2>12 DEF SoFarMade, DataMade, Unguessed
    <3>5. GuessFails(p)'
      <4>1. "ui_sessions" \notin new.objs => 1 \notin new.rows
        <5>1. c = 1 => "ui_sessions" \in old.objs
          BY <2>1, EffectsAre DEF Base
        <5>2. 1 \in old.rows => "ui_sessions" \in old.objs
          BY <2>4, <2>8, <2>9
        <5> QED BY <2>10, <5>1, <5>2
      <4> QED BY <2>13, <4>1 DEF GuessFails
    <3>6. WipeConflicts(p)'
      BY <2>4, <2>7, <2>10, <2>13 DEF WipeConflicts
    <3>7. Truthful(p)'
      BY <2>5, <2>11, <2>12, <2>13 DEF Truthful, Doomed, LaterApplied, Done
    <3> QED BY <3>1, <3>2, <3>3, <3>4, <3>5, <3>6, <3>7 DEF Own
  <2> QED BY <1>1, <2>5, <2>12, <2>13, <2>14, StepKeeps DEF Types
<1> QED BY <1>2, <1>3

\* A statement that does not raise leaves what the invariant needs, and makes its object.
LEMMA AfterKeeps ==
  ASSUME NEW old \in Databases, NEW c \in Versions, NEW i \in DOMAIN Statements[c],
         Ordered(old), ~Raises(old, Statements[c][i]),
         c # 1 => 1 \in old.rows,
         c = 1 => \A j \in 1..(i - 1) : Statements[1][j].obj \in old.objs
  PROVE  LET s == Statements[c][i]
             new == After(old, s)
         IN /\ new \in Databases /\ Ordered(new) /\ Grows(old, new)
            /\ LaterApplied(old) => LaterApplied(new)
            /\ c \in {3, 4} \/ s.kind = "fill" => Done(c, new)
            /\ new.rows = old.rows /\ (s.kind # "delete" => new.sessions = old.sessions)
            /\ Makes(s) => s.obj \in new.objs
<1> DEFINE s == Statements[c][i]
           new == After(old, s)
<1>1. /\ s.kind \in {"table", "column", "delete", "drop", "fill"}
      /\ s.kind = "table" => c \in {1, 6, 7, 9}
      /\ s.kind = "column" => c \in {2, 5, 8, 10} /\ (c = 2 => s.of = "ui_sessions")
      /\ s.kind = "delete" <=> c = 3
      /\ s.kind = "drop" => c = 4 /\ s.obj = "quota"
      /\ c = 4 => s.kind = "drop"
      /\ s.kind = "fill" => c = 8
      /\ s.kind = "column" /\ s.obj = "last_activity" => c = 8
      /\ c = 1 => \/ i = 1 /\ s.obj = "api_keys"
                  \/ i = 2 /\ s.obj = "usage_events"
                  \/ i = 3 /\ s.obj = "ui_sessions"
      /\ s.kind \in {"table", "column"} => s.obj \in Effects(c)
  BY StatementFacts
<1>2. \A v \in Versions : Effects(v) \subseteq Objects \ {"quota"}
  BY EffectsPlaced
<1>3. c \notin {1, 2} => Effects(c) \subseteq Later
  BY EffectsPlaced
<1>4. /\ old.objs \subseteq Objects /\ old.rows \subseteq Versions
      /\ old.sessions \in {"none", "old", "live"} /\ old.activity \in {"filled", "blank"}
      /\ old = [objs |-> old.objs, rows |-> old.rows, sessions |-> old.sessions, activity |-> old.activity]
  BY DEF Databases
<1>5. c = 1 => /\ i = 2 => "api_keys" \in old.objs
               /\ i = 3 => "api_keys" \in old.objs /\ "usage_events" \in old.objs
  <2> SUFFICES ASSUME c = 1
               PROVE  /\ i = 2 => "api_keys" \in old.objs
                      /\ i = 3 => "api_keys" \in old.objs /\ "usage_events" \in old.objs
    OBVIOUS
  <2>1. Statements[1][1].obj = "api_keys" /\ Statements[1][2].obj = "usage_events"
    BY StatementsAre DEF Table
  <2>2. i = 2 => Statements[1][1].obj \in old.objs
    OBVIOUS
  <2>3. i = 3 => Statements[1][1].obj \in old.objs /\ Statements[1][2].obj \in old.objs
    OBVIOUS
  <2> QED BY <2>1, <2>2, <2>3
<1>6. s.kind = "column" => s.of \in old.objs /\ s.obj \notin old.objs
  BY DEF Raises
<1>7. /\ s.kind = "table" => /\ new.objs = old.objs \cup {s.obj} \cup
                                  (IF s.obj = "ui_sessions" /\ s.obj \notin old.objs THEN {"expires_at"} ELSE {})
                             /\ new.sessions = old.sessions /\ new.activity = old.activity
      /\ s.kind = "column" => /\ new.objs = old.objs \cup {s.obj} /\ new.sessions = old.sessions
                              /\ new.activity \in {"filled", "blank"}
                              /\ s.obj # "last_activity" => new.activity = old.activity
      /\ s.kind = "drop" => /\ new.objs = old.objs \ {s.obj} /\ new.sessions = old.sessions
                            /\ new.activity = old.activity
      /\ s.kind = "delete" => new.objs = old.objs /\ new.sessions = "none" /\ new.activity = "filled"
      /\ s.kind = "fill" => new.objs = old.objs /\ new.sessions = old.sessions /\ new.activity = "filled"
      /\ new.rows = old.rows
      /\ new = [objs |-> new.objs, rows |-> new.rows, sessions |-> new.sessions, activity |-> new.activity]
  <2> HIDE DEF s
  <2>1. CASE s.kind = "table"
    BY <1>4, <2>1 DEF After
  <2>2. CASE s.kind = "column"
    BY <1>4, <2>2 DEF After
  <2>3. CASE s.kind = "drop"
    BY <1>4, <2>3 DEF After
  <2>4. CASE s.kind = "delete"
    BY <1>4, <2>4 DEF After
  <2>5. CASE s.kind = "fill"
    BY <1>4, <2>5 DEF After
  <2> QED BY <1>1, <2>1, <2>2, <2>3, <2>4, <2>5
<1>8. c # 1 => 1 \in old.rows
  OBVIOUS
<1>9. s.kind \in {"table", "column"} => s.obj \in Objects /\ s.obj # "quota"
  BY <1>1, <1>2
<1>10. {"api_keys", "usage_events", "ui_sessions", "expires_at"} \subseteq Objects
       /\ Later \cap {"api_keys", "usage_events", "ui_sessions", "expires_at"} = {}
  BY DEF Objects, Later, Base
<1> HIDE DEF s, new
<1>11. new \in Databases
  <2>1. /\ new.objs \subseteq Objects /\ new.rows \subseteq Versions /\ new.sessions \in {"none", "old", "live"}
        /\ new.activity \in {"filled", "blank"}
    BY <1>1, <1>4, <1>7, <1>9, <1>10
  <2> QED BY <1>7, <2>1 DEF Databases
<1>12. Grows(old, new) /\ new.rows = old.rows /\ (s.kind # "delete" => new.sessions = old.sessions)
  <2>1. /\ old.objs \ {"quota"} \subseteq new.objs
        /\ "quota" \notin old.objs => "quota" \notin new.objs
    BY <1>1, <1>7, <1>9
  <2>2. old.sessions # "old" => new.sessions # "old"
    BY <1>1, <1>7
  <2>3. "last_activity" \in old.objs /\ old.activity = "filled" => new.activity = "filled"
    BY <1>1, <1>6, <1>7
  <2> QED BY <1>1, <1>7, <2>1, <2>2, <2>3 DEF Grows
<1>13. LaterApplied(old) => LaterApplied(new)
  <2> SUFFICES ASSUME LaterApplied(old) PROVE LaterApplied(new)
    OBVIOUS
  <2>1. \A v \in new.rows \ {1} : Effects(v) \subseteq new.objs
    BY <1>2, <1>4, <1>12 DEF LaterApplied, Grows
  <2>2. 8 \in old.rows => "last_activity" \in old.objs
    BY EffectsAre DEF LaterApplied
  <2>3. \A v \in new.rows : v \in missed \/ Done(v, new)
    BY <1>12, <2>2 DEF LaterApplied, Done, Grows
  <2> QED BY <2>1, <2>3 DEF LaterApplied
<1>14. c \in {3, 4} \/ s.kind = "fill" => Done(c, new)
  BY <1>1, <1>7 DEF Done
<1>15. Ordered(new)
  <2>1. new.sessions = "live" => 3 \in new.rows
    BY <1>1, <1>7, <1>12 DEF Ordered
  <2>2. CASE s.kind \in {"drop", "delete", "fill"}
    <3>1. new.objs = old.objs \/ new.objs = old.objs \ {"quota"}
      BY <1>1, <1>7, <2>2
    <3> QED BY <1>12, <2>1, <3>1 DEF Ordered
  <2>3. CASE c \notin {1, 2} /\ s.kind \in {"table", "column"}
    <3>1. s.obj \in Later /\ new.rows # {}
      BY <1>1, <1>3, <1>8, <1>12, <2>3
    <3>2. new.objs = old.objs \cup {s.obj}
      BY <1>7, <1>10, <2>3, <3>1
    <3> QED BY <1>10, <1>12, <2>1, <3>1, <3>2 DEF Ordered
  <2>4. CASE c = 2 /\ s.kind \in {"table", "column"}
    <3>1. s.obj = "expires_at" /\ s.kind = "column" /\ "ui_sessions" \in old.objs
      BY <1>1, <1>6, <2>4, EffectsAre
    <3>2. new.objs = old.objs \cup {"expires_at"} /\ new.rows # {}
      BY <1>7, <1>8, <1>12, <2>4, <3>1
    <3> QED BY <1>12, <2>1, <3>1, <3>2 DEF Ordered
  <2>5. CASE c = 1 /\ s.kind \in {"table", "column"}
    <3>1. s.kind = "table"
      BY <1>1, <2>5
    <3>2. /\ new.objs = old.objs \cup {s.obj} \cup
               (IF s.obj = "ui_sessions" /\ s.obj \notin old.objs THEN {"expires_at"} ELSE {})
          /\ \/ s.obj = "api_keys"
             \/ s.obj = "usage_events" /\ "api_keys" \in old.objs
             \/ s.obj = "ui_sessions" /\ "api_keys" \in old.objs /\ "usage_events" \in old.objs
      BY <1>1, <1>5, <1>7, <2>5, <3>1
    <3>3. new.objs \cap Later = old.objs \cap Later
      BY <1>10, <3>2
    <3> QED BY <1>12, <2>1, <3>2, <3>3 DEF Ordered
  <2> QED BY <1>1, <2>2, <2>3, <2>4, <2>5
<1>16. Makes(s) => s.obj \in new.objs
  BY <1>7 DEF Makes
<1> QED BY <1>11, <1>12, <1>13, <1>15, <1>16, <1>14 DEF s, new

LEMMA ApplyKeeps ==
  ASSUME Inv, NEW p \in Processes, Apply(p)
  PROVE  Inv'
<1> DEFINE old == Sees(p)
           c == Current(p)
           i == proc[p].stmt
           s == Statement(p)
           last == i = Len(Statements[c])
<1>1. Types /\ Stored /\ Own(p) /\ proc[p].at \in {"applying", "altering"} /\ proc[p].pending # {}
  BY DEF Inv, Apply, Own, Positioned
<1>2. CASE ~Skipped(p) /\ Raises(old, s)
  <2>1. Rollback(p) /\ Leaves(p) /\ UNCHANGED <<missed, deaths>>
    BY <1>2 DEF Apply, Fails
  <2>2. /\ Stored' /\ db' \in Databases /\ work' \in Databases
        /\ tx' \in Processes \cup {None} /\ (tx' = None => work' = db')
        /\ proc' \in [Processes -> Starts]
        /\ \A q \in Processes \ {p} : Notices(q)
        /\ Own(p)'
    BY <1>1, <2>1, RollbackKeeps
  <2> QED BY <1>1, <2>1, <2>2, StepKeeps DEF Types
<1>3. CASE ~(~Skipped(p) /\ Raises(old, s))
  <2>1. /\ c \in proc[p].pending /\ c \in Versions
        /\ 1 \in proc[p].pending => c = 1
        /\ 1 \notin proc[p].pending /\ 2 \in proc[p].pending => c = 2
    BY <1>1, CurrentIsPending
  <2>2. s = Statements[c][i] /\ i \in DOMAIN Statements[c] /\ i \in Nat
        /\ DOMAIN Statements[c] = 1..Len(Statements[c]) /\ Len(Statements[c]) \in Nat
        /\ (c \in {3, 4} => Len(Statements[c]) = 1) /\ (c = 8 => Len(Statements[c]) = 2)
    BY <1>1, <2>1, StatementsAreCounted DEF Own, Positioned, Running, Statement, Types, Starts
  <2>3. /\ s.kind \in {"table", "column", "delete", "drop", "fill"}
        /\ s.kind = "column" => (c = 2 => s.of = "ui_sessions")
        /\ s.kind = "delete" <=> c = 3
        /\ s.kind = "fill" => c = 8
        /\ c = 4 => s.kind = "drop"
        /\ c = 8 => \/ i = 1 /\ s.kind = "column" /\ s.obj = "last_activity"
                    \/ i = 2 /\ s.kind = "fill" /\ s.obj = "last_activity"
        /\ c = 2 => s.kind = "column"
        /\ c = 1 => s.kind = "table"
        /\ s.kind \in {"table", "column"} => s.obj \in Effects(c)
    <3> HIDE DEF c, i, s
    <3> QED BY <2>1, <2>2, StatementFacts
  <2>4. /\ IF Skipped(p) THEN UNCHANGED <<db, tx, work>>
           ELSE Writes(p, After(old, s), s.kind \in {"delete", "fill"})
        /\ proc' = [proc EXCEPT ![p].stmt = IF last THEN 1 ELSE @ + 1,
                                ![p].at = IF last THEN "recording" ELSE @]
        /\ UNCHANGED <<missed, deaths>>
        /\ proc[p].at = "applying" => s.kind # "column"
    BY <1>1, <1>3 DEF Apply
  <2>5. old \in Databases /\ Ordered(old) /\ (tx # p => LaterApplied(old))
    BY <1>1 DEF Types, Stored, Sees
  <2>6. c # 1 => 1 \in old.rows
    BY <1>1, <2>1 DEF Own, OthersRecorded, Running, Versions
  <2>7. \A j \in 1..(i - 1) : Makes(Statements[c][j]) => Statements[c][j].obj \in old.objs
    BY <1>1 DEF Own, SoFarMade
  <2>8. proc[p].at = "altering" => \A t \in Range(Statements[c]) :
          t.kind = "column" => t.obj \in old.objs \cup proc[p].lacks
    BY <1>1 DEF Own, SoFarMade
  <2>9. s \in Range(Statements[c])
    BY <2>2 DEF Range
  <2>10. /\ proc' \in [Processes -> Starts] /\ \A q \in Processes \ {p} : proc'[q] = proc[q]
         /\ proc'[p].at = (IF last THEN "recording" ELSE proc[p].at)
         /\ proc'[p].stmt = (IF last THEN 1 ELSE i + 1)
         /\ proc'[p].pending = proc[p].pending /\ proc'[p].lacks = proc[p].lacks
    <3> HIDE DEF last, c
    <3>1. proc \in [Processes -> Starts] /\ proc[p] \in Starts
      BY <1>1 DEF Types
    <3>2. (IF last THEN 1 ELSE i + 1) \in Nat /\ (IF last THEN "recording" ELSE proc[p].at) \in Places
      BY <1>1, <2>2 DEF Places
    <3> DEFINE new == [proc[p] EXCEPT !.stmt = IF last THEN 1 ELSE i + 1,
                                      !.at = IF last THEN "recording" ELSE proc[p].at]
    <3>3. proc' = [proc EXCEPT ![p] = new]
      BY <2>4, <3>1 DEF Starts
    <3>4. /\ new \in Starts
          /\ new.at = (IF last THEN "recording" ELSE proc[p].at)
          /\ new.stmt = (IF last THEN 1 ELSE i + 1)
          /\ new.pending = proc[p].pending /\ new.lacks = proc[p].lacks
      BY <3>1, <3>2 DEF Starts
    <3> HIDE DEF new
    <3> QED BY <3>1, <3>3, <3>4
  <2> HIDE DEF old, c, i, s, last
  <2>11. /\ Stored' /\ db' \in Databases /\ work' \in Databases
         /\ tx' \in Processes \cup {None} /\ (tx' = None => work' = db')
         /\ old.objs \ {"quota"} \subseteq Sees(p)'.objs /\ Sees(p)'.rows = old.rows
         /\ Makes(s) => s.obj \in Sees(p)'.objs
         /\ tx' = p => db' = db /\ work' = Sees(p)'
         /\ tx' = p /\ tx # p => s.kind \in {"delete", "fill"}
         /\ s.kind # "delete" => Sees(p)'.sessions = old.sessions
         /\ Grows(old, Sees(p)')
         /\ tx = p /\ LaterApplied(old) => LaterApplied(Sees(p)')
         /\ tx # p => LaterApplied(Sees(p)')
         /\ c \in {3, 4} \/ (s.kind = "fill" /\ ~Skipped(p)) => Done(c, Sees(p)')
         /\ \A q \in Processes \ {p} : Notices(q)
    <3>1. CASE Skipped(p)
      <4>1. UNCHANGED <<db, tx, work>> /\ s.kind \in {"column", "fill"} /\ s.obj \notin proc[p].lacks
        BY <2>4, <3>1 DEF Skipped, s
      <4>2. /\ Stored' /\ db' \in Databases /\ work' \in Databases /\ Sees(p)' = old
            /\ \A q \in Processes \ {p} : Notices(q)
        BY <1>1, <2>4, <2>10, <4>1, NothingWritten DEF old
      <4>3. Makes(s) => s.obj \in old.objs
        BY <1>1, <2>4, <2>8, <2>9, <4>1 DEF Makes
      <4>4. (tx' = p => work' = Sees(p)') /\ Grows(old, old) /\ c \notin {3, 4}
        BY <2>3, <4>1 DEF Sees, Grows
      <4> QED BY <1>1, <2>5, <3>1, <4>1, <4>2, <4>3, <4>4 DEF Types, Grows
    <3>2. CASE ~Skipped(p)
      <4> DEFINE new == After(old, s)
      <4>1. c = 1 => \A j \in 1..(i - 1) : Statements[1][j].obj \in old.objs
        <5> SUFFICES ASSUME c = 1, NEW j \in 1..(i - 1) PROVE Statements[1][j].obj \in old.objs
          OBVIOUS
        <5>1. j \in 1..3
          BY <2>2, LengthsAre
        <5>2. Statements[1][j].kind = "table"
          BY <5>1, StatementsAre DEF Table
        <5> QED BY <2>7, <5>2 DEF Makes
      <4>2. ~Raises(old, Statements[c][i])
        BY <1>3, <2>2, <3>2
      <4>3. /\ new \in Databases /\ Ordered(new) /\ Grows(old, new)
            /\ LaterApplied(old) => LaterApplied(new)
            /\ c \in {3, 4} \/ s.kind = "fill" => Done(c, new)
            /\ new.rows = old.rows /\ (s.kind # "delete" => new.sessions = old.sessions)
            /\ Makes(s) => s.obj \in new.objs
        BY <2>1, <2>2, <2>5, <2>6, <4>1, <4>2, AfterKeeps
      <4> DEFINE begins == s.kind \in {"delete", "fill"}
      <4>4. begins \in BOOLEAN /\ Writes(p, new, begins)
        BY <2>4, <3>2
      <4> HIDE DEF new, begins
      <4>5. tx # p /\ ~begins /\ 1 \in new.rows => Effects(1) \subseteq new.objs
        <5>1. tx # p => old = db
          BY DEF old, Sees
        <5> QED BY <1>1, <4>3, <5>1, EffectsAre DEF Stored, Grows, Base
      <4>6. /\ Stored' /\ db' \in Databases /\ work' \in Databases
            /\ tx' \in {None, p} /\ (tx' = p <=> tx = p \/ begins) /\ (tx' = None => work' = db')
            /\ Sees(p)' = new
            /\ tx' = p => db' = db /\ work' = new
            /\ \A q \in Processes \ {p} : proc'[q] = proc[q] => Notices(q)
        BY <1>1, <2>4, <2>5, <4>3, <4>4, <4>5, WriteKeeps DEF old
      <4> QED BY <2>5, <2>10, <4>3, <4>6 DEF Grows, begins
    <3> QED BY <3>1, <3>2
  <2>12. Own(p)'
    <3>1. Current(p)' = c
      BY <2>10 DEF Current, c
    <3>2. OpensLate(p)'
      <4>1. tx' = p => 1 \notin proc[p].pending
        BY <1>1, <2>1, <2>3, <2>11 DEF Own, OpensLate
      <4> QED BY <1>1, <2>10, <4>1 DEF OpensLate, Running
    <3>3. OthersRecorded(p)' /\ Guessed(p)'
      BY <1>1, <2>10, <2>11 DEF Own, OthersRecorded, Guessed, Running, old
    <3>4. Positioned(p)'
      <4>1. ~last => i + 1 \in DOMAIN Statements[c]
        BY <2>2 DEF last
      <4>2. 1 \in DOMAIN Statements[c]
        BY <2>2
      <4> QED BY <1>1, <2>10, <3>1, <4>1, <4>2 DEF Own, Positioned, Running
    <3>5. \A j \in 1..i : Makes(Statements[c][j]) => Statements[c][j].obj \in Sees(p)'.objs
      <4> SUFFICES ASSUME NEW j \in 1..i, Makes(Statements[c][j])
                   PROVE  Statements[c][j].obj \in Sees(p)'.objs
        OBVIOUS
      <4>1. CASE j = i
        BY <2>2, <2>11, <4>1
      <4>2. CASE j # i
        <5>1. j \in 1..(i - 1) /\ j \in DOMAIN Statements[c]
          BY <2>2, <4>2
        <5>2. Statements[c][j].obj \in old.objs /\ Statements[c][j].obj \in Effects(c)
          BY <2>1, <2>7, <5>1, StatementFacts DEF Makes
        <5> QED BY <2>1, <2>11, <5>2, EffectsPlaced
      <4> QED BY <4>1, <4>2
    <3>6. SoFarMade(p)'
      <4>1. CASE last
        <5>1. Effects(c) \subseteq Sees(p)'.objs
          BY <2>2, <3>5, <4>1 DEF Effects, Makes, last
        <5> QED BY <2>10, <3>1, <4>1, <5>1 DEF SoFarMade
      <4>2. CASE ~last
        <5>1. proc[p].at = "altering" => \A t \in Range(Statements[c]) :
                t.kind = "column" => t.obj \in Sees(p)'.objs \cup proc[p].lacks
          <6>1. \A t \in Range(Statements[c]) : t.kind = "column" => t.obj # "quota"
            BY <2>1, StatementFacts, EffectsPlaced DEF Range
          <6> QED BY <2>8, <2>11, <6>1
        <5>2. proc'[p].stmt - 1 = i
          BY <2>2, <2>10, <4>2
        <5> QED BY <1>1, <2>10, <3>1, <3>5, <4>2, <5>1, <5>2 DEF SoFarMade
      <4> QED BY <4>1, <4>2
    <3>7. GuessFails(p)'
      <4> SUFFICES ASSUME tx' = p, 1 \in work'.rows, "ui_sessions" \notin work'.objs PROVE FALSE
        BY DEF GuessFails
      <4>1. 1 \in old.rows /\ "ui_sessions" \notin old.objs
        BY <2>11
      <4>2. CASE tx = p
        <5>1. old = work
          BY <4>2 DEF old, Sees
        <5>2. c = 2 /\ s.kind = "column" /\ s.of = "ui_sessions" /\ s.obj \in Effects(2)
          BY <2>3, <4>1, <4>2, <5>1, TornIsSecond DEF c
        <5>3. s.obj = "expires_at" /\ "expires_at" \notin old.objs
          BY <2>5, <4>1, <5>2, EffectsAre DEF Ordered
        <5>4. ~Skipped(p)
          BY <1>1, <2>4, <2>8, <2>9, <5>2, <5>3 DEF Skipped, s
        <5> QED BY <1>3, <4>1, <5>2, <5>4 DEF Raises
      <4>3. CASE tx # p
        <5>1. old = db
          BY <4>3 DEF old, Sees
        <5> QED BY <1>1, <4>1, <5>1, EffectsAre DEF Stored, Base
      <4> QED BY <4>2, <4>3
    <3>8. WipeConflicts(p)'
      <4> SUFFICES ASSUME tx' = p, db'.sessions = "live", work'.sessions # "live"
                   PROVE  proc'[p].at = "recording" /\ Current(p)' = 3
        BY DEF WipeConflicts
      <4>1. old.sessions = "live"
        <5>1. CASE tx = p
          BY <1>1, <2>11, <5>1 DEF Own, WipeConflicts, old, Sees
        <5>2. CASE tx # p
          BY <2>11, <5>2 DEF old, Sees
        <5> QED BY <5>1, <5>2
      <4>2. c = 3
        BY <2>3, <2>11, <4>1
      <4>3. last
        <5>1. Len(Statements[c]) = 1 /\ i \in 1..Len(Statements[c])
          BY <2>2, <4>2
        <5> QED BY <5>1 DEF last
      <4> QED BY <2>10, <3>1, <4>2, <4>3
    <3>9. DataMade(p)'
      <4>1. c = 8 => proc[p].at = "altering"
        BY <1>1, <2>3, <2>4 DEF Own, DataMade, c, i
      <4>2. c = 8 =>
              \/ "last_activity" \in proc[p].lacks \/ 8 \in missed
              \/ "last_activity" \in Sees(p)'.objs /\ Sees(p)'.activity = "filled"
        <5>1. c = 8 =>
                \/ "last_activity" \in proc[p].lacks \/ 8 \in missed
                \/ "last_activity" \in old.objs /\ old.activity = "filled"
          BY <1>1, <4>1 DEF Own, DataMade, c, old
        <5> QED BY <2>11, <5>1 DEF Grows
      <4>3. last => c \in missed \/ Done(c, Sees(p)')
        <5>1. CASE c = 8 /\ last
          <6>1. s.kind = "fill" /\ s.obj = "last_activity"
            BY <2>2, <2>3, <5>1 DEF last
          <6>2. Skipped(p) => "last_activity" \notin proc[p].lacks
            BY <6>1 DEF Skipped, s
          <6> QED BY <2>11, <4>2, <5>1, <6>1, <6>2 DEF Done
        <5>2. CASE c \in {3, 4}
          BY <2>11, <5>2
        <5>3. CASE c \notin {3, 4, 8}
          BY <5>3 DEF Done
        <5> QED BY <5>1, <5>2, <5>3
      <4>4. missed' = missed
        BY <2>4
      <4> QED BY <1>1, <2>10, <3>1, <4>1, <4>2, <4>3, <4>4 DEF DataMade, Done
    <3>10. Unguessed(p)'
      BY <1>1, <2>10 DEF Unguessed
    <3>11. Truthful(p)'
      <4> SUFFICES ASSUME tx' = p PROVE Doomed(p)' \/ LaterApplied(work)'
        BY DEF Truthful
      <4>1. LaterApplied(Sees(p)') => LaterApplied(work)'
        BY <2>4, <2>11 DEF LaterApplied, Done
      <4>2. CASE tx = p /\ Doomed(p)
        <5>1. 3 \in proc[p].pending /\ 3 \in old.rows
          BY <4>2 DEF Doomed, old, Sees
        <5> QED BY <2>10, <2>11, <5>1 DEF Doomed
      <4>3. CASE tx = p /\ LaterApplied(work)
        <5>1. old = work
          BY <4>3 DEF old, Sees
        <5> QED BY <2>11, <4>1, <4>3, <5>1
      <4> QED BY <1>1, <2>11, <4>1, <4>2, <4>3 DEF Own, Truthful
    <3> QED BY <3>2, <3>3, <3>4, <3>6, <3>7, <3>8, <3>9, <3>10, <3>11 DEF Own
  <2> QED BY <1>1, <2>4, <2>10, <2>11, <2>12, StepKeeps DEF Types
<1> QED BY <1>2, <1>3

-----------------------------------------------------------------------------
(* The theorems *)

LEMMA InitInv == Init => Inv
<1> SUFFICES ASSUME Init PROVE Inv
  OBVIOUS
<1>1. /\ tx = None /\ work = db /\ deaths = 0 /\ missed = {} /\ proc \in [Processes -> Starts]
      /\ \A p \in Processes : proc[p] = Off /\ tx # p
  BY ProcessesAssumption DEF Init, Off, Starts, Places
<1>2. db \in Databases /\ Ordered(db) /\ \A v \in db.rows : Effects(v) \subseteq db.objs /\ Done(v, db)
  <2>1. CASE db = Fresh
    BY <2>1 DEF Fresh, Database, Databases, Ordered
  <2>2. CASE db \in Legacy
    <3>1. PICK more \in SUBSET {"expires_at", "quota"} : db = Database(Base \cup more, {}, "old")
      BY <2>2 DEF Legacy, Base
    <3>2. db.objs = Base \cup more /\ db.rows = {} /\ db.sessions = "old" /\ db.objs \subseteq Objects
      BY <3>1 DEF Database, Base, Objects
    <3>3. db.objs \cap Later = {}
      BY <3>2 DEF Later
    <3>4. db \in Databases
      BY <3>1, <3>2 DEF Database, Databases
    <3> QED BY <3>2, <3>3, <3>4 DEF Ordered, Base
  <2>3. ASSUME NEW k \in Versions, db \in Released(k)
        PROVE  /\ db \in Databases /\ Ordered(db)
               /\ \A v \in db.rows : Effects(v) \subseteq db.objs /\ Done(v, db)
    <3>0. PICK more \in IF k < 4 THEN SUBSET {"quota"} ELSE {{}} :
            db = Database((UNION {Effects(v) : v \in 1..k}) \cup {"expires_at"} \cup more, 1..k,
                          IF k < 3 THEN "old" ELSE "live")
      BY <2>3 DEF Released
    <3>1. /\ db.objs = (UNION {Effects(v) : v \in 1..k}) \cup {"expires_at"} \cup more
          /\ db.rows = 1..k /\ db.sessions = (IF k < 3 THEN "old" ELSE "live") /\ db.activity = "filled"
          /\ db = [objs |-> db.objs, rows |-> db.rows, sessions |-> db.sessions, activity |-> db.activity]
      BY <3>0 DEF Database
    <3>2. k \in 1..10 /\ 1..k \subseteq Versions /\ 1 \in 1..k /\ (~(k < 3) => 3 \in 1..k)
      BY DEF Versions
    <3>3. Effects(1) \subseteq db.objs
      BY <3>1, <3>2
    <3>4. db.objs \subseteq Objects
      <4>1. \A v \in 1..k : Effects(v) \subseteq Objects
        BY <3>2, EffectsPlaced
      <4>2. "expires_at" \in Objects /\ more \subseteq Objects
        BY <3>0 DEF Objects
      <4>3. \A o \in UNION {Effects(v) : v \in 1..k} : o \in Objects
        BY ONLY <4>1
      <4> DEFINE made == UNION {Effects(v) : v \in 1..k}
      <4> HIDE DEF made
      <4>4. made \subseteq Objects
        BY ONLY <4>3 DEF made
      <4>5. db.objs = made \cup {"expires_at"} \cup more
        BY <3>1, <4>3 DEF made
      <4> QED BY ONLY <4>2, <4>4, <4>5
    <3>5. db \in Databases
      BY <3>1, <3>2, <3>4 DEF Databases
    <3>6. Ordered(db)
      <4>1. "api_keys" \in db.objs /\ "usage_events" \in db.objs /\ "ui_sessions" \in db.objs
        BY <3>3, EffectsAre DEF Base
      <4>2. db.rows # {} /\ 1 \in db.rows /\ (db.sessions = "live" => 3 \in db.rows)
        BY <3>1, <3>2
      <4> QED BY ONLY <4>1, <4>2 DEF Ordered
    <3>7. ASSUME NEW v \in db.rows PROVE Done(v, db)
      <4>1. v = 3 => db.sessions # "old"
        BY <3>1, <3>2, <3>7
      <4>2. v = 4 => "quota" \notin db.objs
        <5> SUFFICES ASSUME v = 4 PROVE "quota" \notin db.objs
          OBVIOUS
        <5>1. more = {}
          BY <3>0, <3>1, <3>2
        <5>2. \A u \in 1..k : "quota" \notin Effects(u)
          BY <3>2, EffectsPlaced
        <5> QED BY <3>1, <5>1, <5>2
      <4> QED BY <3>1, <4>1, <4>2 DEF Done
    <3>8. \A v \in db.rows : Effects(v) \subseteq db.objs
      BY <3>1
    <3> QED BY <3>5, <3>6, <3>7, <3>8
  <2> QED BY <2>1, <2>2, <2>3 DEF Init
<1>3. Stored
  BY <1>1, <1>2 DEF Stored, LaterApplied, Grows
<1>4. ASSUME NEW p \in Processes PROVE Own(p)
  BY <1>1 DEF Own, OpensLate, OthersRecorded, Guessed, Positioned, SoFarMade, DataMade,
     GuessFails, WipeConflicts, Unguessed, Truthful, Off, Running
<1> QED BY <1>1, <1>2, <1>3, <1>4, DeathsAssumption DEF Inv, Types

LEMMA UnchangedKeeps == Inv /\ UNCHANGED vars => Inv'
<1> SUFFICES ASSUME Inv, UNCHANGED vars PROVE Inv'
  OBVIOUS
<1>1. UNCHANGED <<db, tx, work>> /\ proc' = proc /\ UNCHANGED <<missed, deaths>>
  BY DEF vars
<1>2. \A q \in Processes : Notices(q)
  BY <1>1 DEF Notices, Grows, Sees
<1>3. \A q \in Processes : Own(q)'
  BY <1>2, NoticesKeepsOwn DEF Inv
<1>4. Types' /\ Stored'
  BY <1>1 DEF Inv, Types, Stored, Ordered, LaterApplied, Done, Grows
<1> QED BY <1>3, <1>4 DEF Inv

LEMMA NextInv == Inv /\ [Next]_vars => Inv'
<1> SUFFICES ASSUME Inv, [Next]_vars PROVE Inv'
  OBVIOUS
<1>1. ASSUME NEW p \in Processes, Start(p) \/ Login(p) \/ Dies(p) PROVE Inv'
  BY <1>1, BootKeeps, GuessKeeps, InsertBaselineKeeps, ScriptCommitsKeeps, LookKeeps, ApplyKeeps, RecordKeeps,
     FinishKeeps, LoginKeeps, DiesKeeps DEF Start
<1> QED BY <1>1, UnchangedKeeps DEF Next

LEMMA InvHolds == Spec => []Inv
BY InitInv, NextInv, PTL DEF Spec

\* The database, the transaction and the deaths keep their types.
THEOREM TypeCorrect == Spec => []TypeOK
<1>1. Inv => TypeOK
  BY DEF Inv, Types, TypeOK, Databases
<1> QED BY <1>1, InvHolds, PTL

\* A version is recorded only when what it makes is there and what it removes is gone,
\* however many processes migrate at once and whichever of them dies at which statement, the
\* tables of the first migration included.  Of the backfill of the eighth this is said as long
\* as no process found the column before the UPDATE (migrate, _baseline_pre_existing_db).
THEOREM RecordedVersionsAreApplied == Spec => []RecordedIsApplied
<1>1. Inv => RecordedIsApplied
  BY DEF Inv, Stored, LaterApplied, RecordedIsApplied, Done
<1> QED BY <1>1, InvHolds, PTL

\* A session is committed away only with a transaction, and never one of today: the process
\* that deletes it meets the row of the third migration before it may commit.
LEMMA SessionsSurviveStep ==
  Inv /\ [Next]_vars => (db.sessions = "live" => db'.sessions = "live") \/ UNCHANGED vars
<1> SUFFICES ASSUME Inv, Next, db.sessions = "live" PROVE db'.sessions = "live"
  OBVIOUS
<1>1. PICK p \in Processes : Start(p) \/ Login(p) \/ Dies(p)
  BY DEF Next
<1>2. Types /\ Stored /\ Own(p)
  BY DEF Inv
<1>3. ASSUME tx = p, proc[p].at = "applying" PROVE work.sessions = "live"
  BY <1>2, <1>3 DEF Own, WipeConflicts
<1>4. CASE Boot(p) \/ Guess(p) \/ Look(p)
  BY <1>4 DEF Boot, Guess, Look
<1>5. CASE InsertBaseline(p)
  <2>1. db' = db
    BY <1>5 DEF InsertBaseline, Writes
  <2> QED BY <2>1
<1>6. CASE ScriptCommits(p)
  BY <1>3, <1>6 DEF ScriptCommits, CommitsFirst
<1>7. CASE Apply(p)
  <2> DEFINE s == Statement(p)
             new == After(Sees(p), s)
  <2>1. CASE Rollback(p)
    BY <2>1 DEF Rollback
  <2>2. CASE UNCHANGED <<db, tx, work>>
    BY <2>2
  <2>3. CASE Writes(p, new, s.kind \in {"delete", "fill"})
    <3>1. CASE tx = p \/ s.kind \in {"delete", "fill"}
      <4>1. db' = db
        BY <2>3, <3>1 DEF Writes
      <4> QED BY <4>1
    <3>2. CASE tx # p /\ s.kind \notin {"delete", "fill"}
      <4>1. db' = new /\ Sees(p) = db
        BY <2>3, <3>2 DEF Writes, Sees
      <4>2. s.kind \in {"table", "column", "drop"}
        <5>1. proc[p].at \in {"applying", "altering"} /\ proc[p].pending # {}
          BY <1>2, <1>7 DEF Apply, Own, Positioned
        <5>2. Current(p) \in Versions /\ proc[p].stmt \in DOMAIN Statements[Current(p)]
          BY <1>2, <5>1, CurrentIsPending DEF Own, Positioned, Running
        <5> QED BY <3>2, <5>2, StatementFacts DEF Statement
      <4>3. After(db, s).sessions = db.sessions
        <5> HIDE DEF s
        <5>1. db = [objs |-> db.objs, rows |-> db.rows, sessions |-> db.sessions, activity |-> db.activity]
          BY <1>2 DEF Types, Databases
        <5> QED BY <4>2, <5>1 DEF After
      <4> QED BY <4>1, <4>3
    <3> QED BY <3>1, <3>2
  <2> QED BY <1>7, <2>1, <2>2, <2>3 DEF Apply, Fails
<1>8. CASE Record(p)
  <2>1. db' = db
    BY <1>8 DEF Record, Fails, Rollback, Writes
  <2> QED BY <2>1
<1>9. CASE Finish(p)
  BY <1>3, <1>9 DEF Finish
<1>10. CASE Login(p)
  <2>1. db' = [db EXCEPT !.sessions = "live"] /\ db \in Databases
    BY <1>2, <1>10 DEF Login, Types
  <2> QED BY <2>1 DEF Databases
<1>11. CASE Dies(p)
  BY <1>11 DEF Dies, Rollback
<1> QED BY <1>1, <1>4, <1>5, <1>6, <1>7, <1>8, <1>9, <1>10, <1>11 DEF Start

\* A process that read the versions before another one migrated takes no session opened
\* since (_m003_ui_sessions_wipe_pre_hash).
THEOREM SessionsAreKept == Spec => SessionsSurvive
<1>1. Inv /\ [Next]_vars => [db.sessions = "live" => db'.sessions = "live"]_vars
  BY SessionsSurviveStep
<1> QED BY <1>1, InvHolds, PTL DEF Spec, SessionsSurvive
=============================================================================
