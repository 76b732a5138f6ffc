--------------------------- MODULE ImportRuns_proofs ---------------------------
(***************************************************************************)
(* Theorems about ImportRuns for any number of sources, schedulers and     *)
(* handlers.                                                               *)
(***************************************************************************)
EXTENDS ImportRuns, SequenceTheorems, TLAPS

-----------------------------------------------------------------------------
(* Type correctness *)

LEMMA InitTypeOK == Init => TypeOK
BY DEF Init, TypeOK, SourceRows, RunRows, ThreadStates, Places, Outcomes, Idle,
       Absent, Never, HasRun

\* The next run of a source is a time or Never.
LEMMA NextRunAtType ==
  ASSUME NEW s \in Sources, NEW n \in Nat
  PROVE  NextRunAt(s, n) \in Nat \cup {Never}
BY CadenceAssumption DEF NextRunAt, Never

\* What a thread does when a source is done is to rest or to start the next one.
LEMMA FollowingType ==
  ASSUME TypeOK, NEW t \in Threads
  PROVE  Following(t) \in ThreadStates /\ Following(t).at \in {"idle", "starting"}
         /\ Following(t).due \subseteq th[t].due
<1>1. th[t] \in ThreadStates
  BY DEF TypeOK
<1>2. Idle \in ThreadStates /\ Idle.at = "idle" /\ Idle.due = {}
  BY DEF Idle, ThreadStates, Places, Outcomes
<1>3. [th[t] EXCEPT !.at = "starting", !.run = 0, !.status = "running"] \in ThreadStates
  BY <1>1 DEF ThreadStates, Places, Outcomes
<1>4. /\ [th[t] EXCEPT !.at = "starting", !.run = 0, !.status = "running"].at = "starting"
      /\ [th[t] EXCEPT !.at = "starting", !.run = 0, !.status = "running"].due = th[t].due
  BY <1>1 DEF ThreadStates
<1> QED BY <1>2, <1>3, <1>4 DEF Following

LEMMA NextTypeOK == TypeOK /\ [Next]_vars => TypeOK'
<1> SUFFICES ASSUME TypeOK, [Next]_vars PROVE TypeOK'
  OBVIOUS
<1> USE BoundsAssumption DEF TypeOK
<1>1. CASE Advance
  BY <1>1 DEF Advance, HasRun
<1>2. ASSUME NEW s \in Sources, AddSource(s) PROVE TypeOK'
  <2>1. source' \in [Sources -> SourceRows]
    BY <1>2, NextRunAtType DEF AddSource, SourceRows
  <2> QED BY <1>2, <2>1 DEF AddSource, HasRun
<1>3. ASSUME NEW s \in Sources, DeleteSource(s) PROVE TypeOK'
  BY <1>3 DEF DeleteSource, SourceRows, HasRun
<1>4. ASSUME NEW w \in Schedulers, Tick(w) PROVE TypeOK'
  <2>1. Due \subseteq Sources /\ w \in Threads
    BY DEF Due, Threads
  <2>2. [Idle EXCEPT !.at = "starting", !.now = clock, !.due = Due] \in ThreadStates
    BY <2>1 DEF Idle, ThreadStates, Places, Outcomes
  <2>3. [Idle EXCEPT !.at = "starting", !.now = clock, !.due = Due].at = "starting"
    BY DEF Idle
  <2> QED BY <1>4, <2>1, <2>2, <2>3 DEF Tick, HasRun
<1>5. ASSUME NEW c \in Callers, NEW s \in Sources, RunNow(c, s) PROVE TypeOK'
  <2>1. [Idle EXCEPT !.at = "starting", !.now = clock, !.due = {s}] \in ThreadStates
    BY DEF Idle, ThreadStates, Places, Outcomes
  <2>2. [Idle EXCEPT !.at = "starting", !.now = clock, !.due = {s}].at = "starting"
    BY DEF Idle
  <2>3. c \in Threads
    BY DEF Threads
  <2> QED BY <1>5, <2>1, <2>2, <2>3 DEF RunNow, HasRun
<1>6. ASSUME NEW t \in Threads, StartRun(t) PROVE TypeOK'
  <2>1. PICK s \in th[t].due :
           /\ runs' = Append(runs, [source |-> s, status |-> "running"])
           /\ th' = [th EXCEPT ![t] = [at |-> "importing", run |-> Len(runs) + 1,
                       status |-> "running", now |-> th[t].now, due |-> th[t].due \ {s}]]
    BY <1>6 DEF StartRun
  <2>2. th[t] \in ThreadStates /\ s \in Sources
    BY DEF ThreadStates
  <2>3. runs' \in Seq(RunRows) /\ Len(runs') = Len(runs) + 1 /\ Len(runs) \in Nat
    BY <2>1, <2>2 DEF RunRows, Outcomes
  <2>4. th' \in [Threads -> ThreadStates]
    BY <2>1, <2>2, <2>3 DEF ThreadStates, Places, Outcomes
  <2>5. \A u \in Threads : HasRun(u)' => th'[u].run \in 1 .. Len(runs')
    BY <2>1, <2>3 DEF HasRun
  <2> QED BY <1>6, <2>3, <2>4, <2>5 DEF StartRun
<1>7. ASSUME NEW t \in Threads, ImportReturns(t) PROVE TypeOK'
  <2>1. PICK outcome \in {"succeeded", "failed"} :
           th' = [th EXCEPT ![t] = [th[t] EXCEPT !.at = "finishing", !.status = outcome]]
    BY <1>7 DEF ImportReturns
  <2>2. th[t] \in ThreadStates
    OBVIOUS
  <2>3. th' \in [Threads -> ThreadStates]
    BY <2>1, <2>2 DEF ThreadStates, Places, Outcomes
  <2>4. \A u \in Threads : th'[u].run = th[u].run /\ (HasRun(u)' => HasRun(u))
    BY <1>7, <2>1, <2>2 DEF HasRun, ImportReturns, At, ThreadStates
  <2> QED BY <1>7, <2>3, <2>4 DEF ImportReturns
<1>8. ASSUME NEW t \in Threads, FinishRun(t) PROVE TypeOK'
  <2>1. th[t] \in ThreadStates /\ th[t].run \in 1 .. Len(runs)
    BY <1>8 DEF FinishRun, HasRun, At
  <2>a. runs' = [runs EXCEPT ![th[t].run] = [runs[th[t].run] EXCEPT !.status = th[t].status]]
    BY <1>8 DEF FinishRun
  <2>b. runs[th[t].run] \in RunRows /\ th[t].status \in Outcomes
    BY <2>1, ElementOfSeq DEF ThreadStates
  <2>c. [runs[th[t].run] EXCEPT !.status = th[t].status] \in RunRows
    BY <2>b DEF RunRows
  <2>2. runs' \in Seq(RunRows) /\ Len(runs') = Len(runs)
    BY <2>1, <2>a, <2>c, ExceptSeq
  <2>3. th' \in [Threads -> ThreadStates]
    BY <1>8, <2>1 DEF FinishRun, Idle, ThreadStates, Places, Outcomes
  <2>4. \A u \in Threads : HasRun(u)' => th'[u].run \in 1 .. Len(runs)
    BY <1>8, <2>1 DEF FinishRun, HasRun, Idle, ThreadStates
  <2> QED BY <1>8, <2>2, <2>3, <2>4 DEF FinishRun
<1>9. ASSUME NEW w \in Schedulers, Reschedule(w) PROVE TypeOK'
  <2>1. w \in Threads /\ th[w] \in ThreadStates /\ th[w].run \in 1 .. Len(runs)
    BY <1>9 DEF Reschedule, HasRun, At, Threads
  <2>a. runs[th[w].run] \in RunRows
    BY <2>1, ElementOfSeq
  <2>2. runs[th[w].run].source \in Sources /\ th[w].now \in Nat
    BY <2>1, <2>a DEF RunRows, ThreadStates
  <2>3. source' \in [Sources -> SourceRows]
    BY <1>9, <2>2, NextRunAtType DEF Reschedule, SourceRows
  <2>4. th' \in [Threads -> ThreadStates] /\ (\A u \in Threads : HasRun(u)' => HasRun(u)
           /\ th'[u] = th[u])
    BY <1>9, <2>1, FollowingType DEF Reschedule, HasRun
  <2> QED BY <1>9, <2>2, <2>3, <2>4 DEF Reschedule
<1>10. ASSUME NEW t \in Threads, StatementRaises(t) PROVE TypeOK'
  <2>1. Idle \in ThreadStates /\ Idle.at = "idle"
    BY DEF Idle, ThreadStates, Places, Outcomes
  <2> QED BY <1>10, <2>1 DEF StatementRaises, HasRun
<1>11. ASSUME NEW dead \in (SUBSET Threads) \ {{}}, ProcessEnds(dead) PROVE TypeOK'
  <2>1. Idle \in ThreadStates /\ Idle.at = "idle"
    BY DEF Idle, ThreadStates, Places, Outcomes
  <2> QED BY <1>11, <2>1 DEF ProcessEnds, HasRun
<1>12. CASE UNCHANGED vars
  BY <1>12 DEF vars, HasRun
<1> QED BY <1>1, <1>2, <1>3, <1>4, <1>5, <1>6, <1>7, <1>8, <1>9, <1>10, <1>11, <1>12
        DEF Next, Work

\* The variables keep their types (import_sources, import_runs, scheduler.py).
THEOREM TypeCorrect == Spec => []TypeOK
BY InitTypeOK, NextTypeOK, PTL DEF Spec

-----------------------------------------------------------------------------
(* How a step moves threads and rows *)

\* Except for start_import_run and finish_import_run, a step leaves the rows alone,
\* and a thread that is in a run after it was in that run before it.
LEMMA QuietStep ==
  ASSUME TypeOK, Next, \A t \in Threads : ~StartRun(t) /\ ~FinishRun(t)
  PROVE  /\ runs' = runs
         /\ \A u \in Threads : HasRun(u)' =>
              /\ HasRun(u)
              /\ th'[u].run = th[u].run /\ th'[u].now = th[u].now /\ th'[u].due = th[u].due
              /\ th'[u].at \in {"importing", "finishing"} =>
                   th[u].at \in {"importing", "finishing"}
<1> DEFINE Kept == \A u \in Threads : HasRun(u)' =>
              /\ HasRun(u)
              /\ th'[u].run = th[u].run /\ th'[u].now = th[u].now /\ th'[u].due = th[u].due
              /\ th'[u].at \in {"importing", "finishing"} =>
                   th[u].at \in {"importing", "finishing"}
<1>0. th \in [Threads -> ThreadStates]
  BY DEF TypeOK
<1>1. ASSUME UNCHANGED th PROVE Kept
  BY <1>1 DEF HasRun
<1>2. ASSUME NEW t \in Threads, NEW to, th' = [th EXCEPT ![t] = to],
             to.at \in {"idle", "starting"}
      PROVE  Kept
  BY <1>0, <1>2 DEF HasRun
<1>3. ASSUME NEW t \in Threads, ImportReturns(t) PROVE Kept
  <2>1. PICK outcome \in {"succeeded", "failed"} :
           th' = [th EXCEPT ![t] = [th[t] EXCEPT !.at = "finishing", !.status = outcome]]
    BY <1>3 DEF ImportReturns
  <2>2. th[t] \in ThreadStates /\ th[t].at = "importing"
    BY <1>0, <1>3 DEF ImportReturns, At
  <2> QED BY <1>0, <2>1, <2>2 DEF HasRun, ThreadStates
<1>4. ASSUME NEW w \in Schedulers, Tick(w) PROVE Kept
  <2>1. [Idle EXCEPT !.at = "starting", !.now = clock, !.due = Due].at = "starting"
    BY DEF Idle
  <2>2. CASE Due = {}
    BY <1>1, <1>4, <2>2 DEF Tick
  <2>3. CASE Due # {}
    BY <1>2, <1>4, <2>1, <2>3 DEF Tick, Threads
  <2> QED BY <2>2, <2>3
<1>5. ASSUME NEW c \in Callers, NEW s \in Sources, RunNow(c, s) PROVE Kept
  <2>1. [Idle EXCEPT !.at = "starting", !.now = clock, !.due = {s}].at = "starting"
    BY DEF Idle
  <2> QED BY <1>2, <1>5, <2>1 DEF RunNow, Threads
<1>6. ASSUME NEW w \in Schedulers, Reschedule(w) PROVE Kept
  BY <1>2, <1>6, FollowingType DEF Reschedule, Threads
<1>7. ASSUME NEW t \in Threads, StatementRaises(t) PROVE Kept
  <2>1. Idle.at = "idle"
    BY DEF Idle
  <2> QED BY <1>2, <1>7, <2>1 DEF StatementRaises
<1>8. ASSUME NEW dead \in (SUBSET Threads) \ {{}}, ProcessEnds(dead) PROVE Kept
  BY <1>0, <1>8 DEF ProcessEnds, HasRun, Idle
<1> HIDE DEF Kept
<1>9. Kept
  BY <1>1, <1>3, <1>4, <1>5, <1>6, <1>7, <1>8
     DEF Next, Work, Advance, AddSource, DeleteSource
<1>10. runs' = runs
  BY DEF Next, Work, Advance, AddSource, DeleteSource, ImportReturns, Tick, RunNow,
     Reschedule, StatementRaises, ProcessEnds
<1> QED BY <1>9, <1>10 DEF Kept

\* start_import_run adds a row at the end and sends its thread to import it.
LEMMA StartStep ==
  ASSUME TypeOK, NEW t \in Threads, StartRun(t)
  PROVE  \E s \in th[t].due :
           /\ s \in Sources
           /\ Len(runs) \in Nat /\ Len(runs') = Len(runs) + 1
           /\ runs'[Len(runs) + 1] = [source |-> s, status |-> "running"]
           /\ \A i \in 1 .. Len(runs) : runs'[i] = runs[i]
           /\ th'[t] = [at |-> "importing", run |-> Len(runs) + 1, status |-> "running",
                        now |-> th[t].now, due |-> th[t].due \ {s}]
           /\ \A u \in Threads : u # t => th'[u] = th[u]
<1>1. PICK s \in th[t].due :
         /\ runs' = Append(runs, [source |-> s, status |-> "running"])
         /\ th' = [th EXCEPT ![t] = [at |-> "importing", run |-> Len(runs) + 1,
                     status |-> "running", now |-> th[t].now, due |-> th[t].due \ {s}]]
  BY DEF StartRun
<1>2. th[t] \in ThreadStates /\ runs \in Seq(RunRows) /\ th \in [Threads -> ThreadStates]
  BY DEF TypeOK
<1>3. s \in Sources
  BY <1>1, <1>2 DEF ThreadStates
<1>4. [source |-> s, status |-> "running"] \in RunRows
  BY <1>3 DEF RunRows, Outcomes
<1>5. Len(runs) \in Nat /\ Len(runs') = Len(runs) + 1
      /\ runs'[Len(runs) + 1] = [source |-> s, status |-> "running"]
      /\ \A i \in 1 .. Len(runs) : runs'[i] = runs[i]
  BY <1>1, <1>2, <1>4
<1> QED BY <1>1, <1>2, <1>3, <1>5

\* finish_import_run writes the outcome into the row of its own thread.
LEMMA FinishStep ==
  ASSUME TypeOK, NEW t \in Threads, FinishRun(t)
  PROVE  /\ Len(runs') = Len(runs) /\ th[t].run \in 1 .. Len(runs) /\ th[t].at = "finishing"
         /\ \A i \in 1 .. Len(runs) :
              /\ runs'[i].source = runs[i].source
              /\ i # th[t].run => runs'[i] = runs[i]
         /\ \A u \in Threads : u # t => th'[u] = th[u]
         /\ HasRun(t)' => t \in Schedulers /\ th'[t].at = "rescheduling" /\ th'[t].run = th[t].run
              /\ th'[t].now = th[t].now /\ th'[t].due = th[t].due
<1>1. th[t] \in ThreadStates /\ runs \in Seq(RunRows) /\ th \in [Threads -> ThreadStates]
      /\ th[t].run \in 1 .. Len(runs) /\ th[t].at = "finishing"
  BY DEF TypeOK, FinishRun, HasRun, At
<1>2. runs' = [runs EXCEPT ![th[t].run] = [runs[th[t].run] EXCEPT !.status = th[t].status]]
  BY DEF FinishRun
<1>3. runs[th[t].run] \in RunRows /\ th[t].status \in Outcomes
  BY <1>1, ElementOfSeq DEF ThreadStates
<1>4. [runs[th[t].run] EXCEPT !.status = th[t].status] \in RunRows
      /\ [runs[th[t].run] EXCEPT !.status = th[t].status].source = runs[th[t].run].source
  BY <1>3 DEF RunRows
<1>5. Len(runs') = Len(runs)
      /\ \A i \in 1 .. Len(runs) : /\ runs'[i].source = runs[i].source
                                   /\ i # th[t].run => runs'[i] = runs[i]
  BY <1>1, <1>2, <1>4, ExceptSeq
<1>6. CASE t \in Schedulers
  BY <1>1, <1>5, <1>6 DEF FinishRun, HasRun, ThreadStates
<1>7. CASE t \notin Schedulers
  BY <1>1, <1>5, <1>7 DEF FinishRun, HasRun, Idle
<1> QED BY <1>6, <1>7

-----------------------------------------------------------------------------
(* Rows and their threads *)

LEMMA OwnedInit == Init => RunsAreOwned
BY DEF Init, RunsAreOwned, HasRun, Idle

LEMMA OwnedStep == TypeOK /\ RunsAreOwned /\ [Next]_vars => RunsAreOwned'
<1> SUFFICES ASSUME TypeOK, RunsAreOwned, [Next]_vars PROVE RunsAreOwned'
  OBVIOUS
<1>0. \A u \in Threads : HasRun(u) => th[u].run \in 1 .. Len(runs)
  BY DEF TypeOK
<1>1. CASE UNCHANGED vars
  BY <1>1 DEF vars, RunsAreOwned, HasRun
<1>2. ASSUME NEW t \in Threads, StartRun(t) PROVE RunsAreOwned'
  <2>1. PICK s \in th[t].due :
           /\ Len(runs) \in Nat
           /\ runs'[Len(runs) + 1] = [source |-> s, status |-> "running"]
           /\ \A i \in 1 .. Len(runs) : runs'[i] = runs[i]
           /\ th'[t] = [at |-> "importing", run |-> Len(runs) + 1, status |-> "running",
                        now |-> th[t].now, due |-> th[t].due \ {s}]
           /\ \A u \in Threads : u # t => th'[u] = th[u]
    BY <1>2, StartStep
  <2>2. ASSUME NEW u \in Threads, th'[u].at \in {"importing", "finishing"}
        PROVE  runs'[th'[u].run].status = "running"
    <3>1. CASE u = t
      BY <2>1, <3>1
    <3>2. CASE u # t
      BY <1>0, <2>1, <2>2, <3>2 DEF RunsAreOwned, HasRun
    <3> QED BY <3>1, <3>2
  <2>3. ASSUME NEW u \in Threads, NEW v \in Threads, HasRun(u)', HasRun(v)',
               th'[u].run = th'[v].run
        PROVE  u = v
    <3>1. CASE u # t /\ v # t
      BY <2>1, <2>3, <3>1 DEF RunsAreOwned, HasRun
    <3>2. ASSUME NEW x \in Threads, x # t, HasRun(x)' PROVE th'[x].run # th'[t].run
      BY <1>0, <2>1, <3>2 DEF HasRun
    <3> QED BY <2>3, <3>1, <3>2
  <2> QED BY <2>2, <2>3 DEF RunsAreOwned
<1>3. ASSUME NEW t \in Threads, FinishRun(t) PROVE RunsAreOwned'
  <2>1. ASSUME NEW u \in Threads, th'[u].at \in {"importing", "finishing"}
        PROVE  runs'[th'[u].run].status = "running"
    <3>1. u # t
      BY <1>3, <2>1, FinishStep DEF HasRun
    <3>2. th'[u] = th[u] /\ HasRun(u) /\ HasRun(t)
      BY <1>3, <2>1, <3>1, FinishStep DEF HasRun
    <3>3. th[u].run # th[t].run
      BY <3>1, <3>2 DEF RunsAreOwned
    <3> QED BY <1>0, <1>3, <2>1, <3>2, <3>3, FinishStep DEF RunsAreOwned
  <2>2. ASSUME NEW u \in Threads, HasRun(u)'
        PROVE  HasRun(u) /\ th'[u].run = th[u].run
    <3>1. CASE u = t
      BY <1>3, <2>2, <3>1, FinishStep DEF HasRun
    <3>2. CASE u # t
      BY <1>3, <2>2, <3>2, FinishStep DEF HasRun
    <3> QED BY <3>1, <3>2
  <2> QED BY <2>1, <2>2 DEF RunsAreOwned
<1>4. CASE Next /\ \A t \in Threads : ~StartRun(t) /\ ~FinishRun(t)
  <2>1. runs' = runs /\ \A u \in Threads : HasRun(u)' =>
          /\ HasRun(u) /\ th'[u].run = th[u].run
          /\ th'[u].at \in {"importing", "finishing"} => th[u].at \in {"importing", "finishing"}
    BY <1>4, QuietStep
  <2>2. ASSUME NEW u \in Threads, th'[u].at \in {"importing", "finishing"}
        PROVE  runs'[th'[u].run].status = "running"
    BY <2>1, <2>2 DEF RunsAreOwned, HasRun
  <2> QED BY <2>1, <2>2 DEF RunsAreOwned
<1> QED BY <1>1, <1>2, <1>3, <1>4

\* Each run in progress has its own row, which still says "running", whatever
\* schedulers and handlers do at the same time (finish_import_run).
THEOREM RunsHaveOneOwner == Spec => []RunsAreOwned
BY TypeCorrect, OwnedInit, OwnedStep, PTL DEF Spec

\* No thread rewrites the outcome of a run, its own or another's
\* (start_import_run, finish_import_run).
THEOREM OutcomesStayFinal == Spec => OutcomesAreFinal
<1> DEFINE Final == \A i \in DOMAIN runs :
       /\ i \in DOMAIN runs'
       /\ runs'[i].source = runs[i].source
       /\ runs[i].status # "running" => runs'[i].status = runs[i].status
<1>1. TypeOK /\ RunsAreOwned /\ [Next]_vars => [Final]_vars
  <2> SUFFICES ASSUME TypeOK, TypeOK', RunsAreOwned, Next PROVE Final
    BY NextTypeOK
  <2>0. runs \in Seq(RunRows) /\ runs' \in Seq(RunRows)
        /\ DOMAIN runs = 1 .. Len(runs) /\ DOMAIN runs' = 1 .. Len(runs')
        /\ Len(runs) \in Nat
    BY DEF TypeOK
  <2>1. ASSUME NEW t \in Threads, StartRun(t) PROVE Final
    <3>1. Len(runs') = Len(runs) + 1 /\ \A i \in 1 .. Len(runs) : runs'[i] = runs[i]
      BY <2>1, StartStep
    <3> QED BY <2>0, <3>1
  <2>2. ASSUME NEW t \in Threads, FinishRun(t) PROVE Final
    <3>1. Len(runs') = Len(runs) /\ th[t].at = "finishing"
          /\ \A i \in 1 .. Len(runs) : /\ runs'[i].source = runs[i].source
                                       /\ i # th[t].run => runs'[i] = runs[i]
      BY <2>2, FinishStep
    <3>2. runs[th[t].run].status = "running"
      BY <3>1 DEF RunsAreOwned
    <3> QED BY <2>0, <3>1, <3>2
  <2>3. CASE \A t \in Threads : ~StartRun(t) /\ ~FinishRun(t)
    BY <2>3, QuietStep
  <2> QED BY <2>1, <2>2, <2>3
<1> QED BY <1>1, TypeCorrect, RunsHaveOneOwner, PTL DEF Spec, OutcomesAreFinal

-----------------------------------------------------------------------------
(* The schedule *)

LEMMA CadenceInit == Init => CadenceIsKept
BY DEF Init, CadenceIsKept, Absent, Present

LEMMA CadenceStep == TypeOK /\ CadenceIsKept /\ [Next]_vars => CadenceIsKept'
<1> SUFFICES ASSUME TypeOK, CadenceIsKept, [Next]_vars PROVE CadenceIsKept'
  OBVIOUS
<1>0. source \in [Sources -> SourceRows] /\ clock \in Nat
  BY DEF TypeOK
<1>1. ASSUME NEW s \in Sources, NEW n \in Nat, Cadence[s] > 0 PROVE NextRunAt(s, n) # Never
  BY <1>1, CadenceAssumption DEF NextRunAt, Never
<1>2. ASSUME UNCHANGED source PROVE CadenceIsKept'
  BY <1>2 DEF CadenceIsKept, Present
<1>3. ASSUME NEW s \in Sources, AddSource(s) PROVE CadenceIsKept'
  BY <1>0, <1>1, <1>3 DEF AddSource, CadenceIsKept, Present
<1>4. ASSUME NEW s \in Sources, DeleteSource(s) PROVE CadenceIsKept'
  BY <1>0, <1>4 DEF DeleteSource, CadenceIsKept, Present
<1>5. ASSUME NEW w \in Schedulers, Reschedule(w) PROVE CadenceIsKept'
  <2>1. th[w].now \in Nat
    BY DEF TypeOK, ThreadStates, Threads
  <2>2. CASE ~Present(runs[th[w].run].source)
    BY <1>2, <1>5, <2>2 DEF Reschedule
  <2>3. CASE Present(runs[th[w].run].source)
    <3>1. source' = [source EXCEPT ![runs[th[w].run].source].next =
                       NextRunAt(runs[th[w].run].source, th[w].now)]
      BY <1>5, <2>3 DEF Reschedule
    <3>2. ASSUME NEW x \in Sources
          PROVE  /\ source'[x].state = source[x].state
                 /\ \/ source'[x].next = source[x].next
                    \/ source'[x].next = NextRunAt(x, th[w].now)
      BY <1>0, <3>1 DEF SourceRows
    <3> QED BY <1>1, <2>1, <3>2 DEF CadenceIsKept, Present
  <2> QED BY <2>2, <2>3
<1> QED BY <1>2, <1>3, <1>4, <1>5
        DEF Next, Work, vars, Advance, Tick, RunNow, StartRun, ImportReturns, FinishRun,
            StatementRaises, ProcessEnds

\* Failures, restarts and concurrent runs never take a source off its schedule
\* (scheduler._run_one, scheduler._reschedule).
THEOREM SourcesStayScheduled == Spec => []CadenceIsKept
BY TypeCorrect, CadenceInit, CadenceStep, PTL DEF Spec

\* One scheduler thread: one API process.
OneScheduler == \A v, w \in Schedulers : v = w

LEMMA SpacedInit == Init => ScheduleIsSpaced
BY DEF Init, ScheduleIsSpaced, Absent, Present, Idle, HasRun, Threads

LEMMA SpacedStep ==
  ASSUME OneScheduler
  PROVE  TypeOK /\ ScheduleIsSpaced /\ ScheduledRunsAreSpaced /\ [Next]_vars =>
           ScheduleIsSpaced' /\ ScheduledRunsAreSpaced'
<1> SUFFICES ASSUME TypeOK, ScheduleIsSpaced, ScheduledRunsAreSpaced, [Next]_vars
             PROVE  ScheduleIsSpaced' /\ ScheduledRunsAreSpaced'
  OBVIOUS
<1> DEFINE Goal == ScheduleIsSpaced' /\ ScheduledRunsAreSpaced'
<1>0. /\ source \in [Sources -> SourceRows] /\ clock \in Nat /\ served \in [Sources -> Nat]
      /\ th \in [Threads -> ThreadStates] /\ Schedulers \subseteq Threads
      /\ runs \in Seq(RunRows)
      /\ \A w \in Schedulers : HasRun(w) =>
           th[w].run \in 1 .. Len(runs) /\ runs[th[w].run].source \in Sources
  <2>1. ASSUME NEW w \in Schedulers, HasRun(w)
        PROVE  th[w].run \in 1 .. Len(runs) /\ runs[th[w].run].source \in Sources
    <3>1. th[w].run \in 1 .. Len(runs) /\ runs \in Seq(RunRows)
      BY <2>1 DEF TypeOK, Threads
    <3>2. runs[th[w].run] \in RunRows
      BY <3>1, ElementOfSeq
    <3> QED BY <3>1, <3>2 DEF RunRows
  <2> QED BY <2>1 DEF TypeOK, Threads
<1>a. ASSUME NEW s \in Sources PROVE Cadence[s] \in Nat
  BY CadenceAssumption
<1>1. CASE UNCHANGED vars
  BY <1>1 DEF vars, ScheduleIsSpaced, ScheduledRunsAreSpaced, HasRun, Present
<1>2. CASE Advance
  BY <1>2 DEF Advance, ScheduleIsSpaced, ScheduledRunsAreSpaced, HasRun, Present
<1>3. ASSUME NEW s \in Sources, AddSource(s) PROVE Goal
  <2>1. /\ th' = th /\ runs' = runs /\ source[s].state = "absent"
        /\ source'[s].state = "present" /\ source'[s].next = NextRunAt(s, clock)
        /\ served'[s] = clock
        /\ \A x \in Sources : x # s => source'[x] = source[x] /\ served'[x] = served[x]
    BY <1>0, <1>3 DEF AddSource
  <2>2. NextRunAt(s, clock) # Never => NextRunAt(s, clock) >= clock + Cadence[s]
    BY <1>0, <1>a DEF NextRunAt
  <2>3. ASSUME NEW w \in Schedulers
        PROVE  s \notin th[w].due /\ (HasRun(w) => runs[th[w].run].source # s)
    BY <2>1 DEF ScheduleIsSpaced
  <2>4. ScheduleIsSpaced'
    BY <1>0, <2>1, <2>2, <2>3 DEF ScheduleIsSpaced, HasRun, Present
  <2>5. ScheduledRunsAreSpaced'
    BY <1>0, <2>1, <2>3 DEF ScheduledRunsAreSpaced, HasRun
  <2> QED BY <2>4, <2>5
<1>4. ASSUME NEW s \in Sources, DeleteSource(s) PROVE Goal
  <2>1. /\ th' = th /\ runs' = runs /\ served' = served
        /\ source'[s].state = "deleted"
        /\ \A x \in Sources : x # s => source'[x] = source[x]
    BY <1>0, <1>4 DEF DeleteSource
  <2> QED BY <1>0, <2>1 DEF ScheduleIsSpaced, ScheduledRunsAreSpaced, HasRun, Present
<1>5. ASSUME NEW w \in Schedulers, Tick(w) PROVE Goal
  <2>1. CASE Due = {}
    BY <1>5, <2>1 DEF Tick, ScheduleIsSpaced, ScheduledRunsAreSpaced, HasRun, Present
  <2>2. CASE Due # {}
    <3>1. /\ th'[w].at = "starting" /\ th'[w].now = clock /\ th'[w].due = Due
          /\ runs' = runs /\ source' = source /\ served' = served
      BY <1>0, <1>5, <2>2 DEF Tick, Idle
    <3>2. \A v \in Schedulers : v = w
      BY DEF OneScheduler
    <3>3. ASSUME NEW s \in Due
          PROVE  s \in Sources /\ clock >= served[s] + Cadence[s] /\ source[s].state # "absent"
      <4>1. s \in Sources /\ source[s].next >= served[s] + Cadence[s]
            /\ source[s].next <= clock /\ source[s].state = "present"
            /\ source[s].next # Never
        BY DEF Due, ScheduleIsSpaced, Present
      <4>2. source[s].next \in Nat /\ served[s] \in Nat /\ Cadence[s] \in Nat
        BY <1>0, <1>a, <4>1 DEF SourceRows
      <4> QED BY <1>0, <4>1, <4>2
    <3>4. ScheduleIsSpaced'
      BY <3>1, <3>2, <3>3 DEF ScheduleIsSpaced, HasRun, Present
    <3>5. ScheduledRunsAreSpaced'
      BY <3>1, <3>2 DEF ScheduledRunsAreSpaced, HasRun
    <3> QED BY <3>4, <3>5
  <2> QED BY <2>1, <2>2
<1>6. ASSUME NEW c \in Callers, NEW s \in Sources, RunNow(c, s) PROVE Goal
  <2>1. \A w \in Schedulers : th'[w] = th[w]
    BY <1>0, <1>6, ThreadsAssumption DEF RunNow
  <2> QED BY <1>6, <2>1 DEF RunNow, ScheduleIsSpaced, ScheduledRunsAreSpaced, HasRun, Present
<1>7. ASSUME NEW t \in Threads, StartRun(t) PROVE Goal
  <2>1. PICK s \in th[t].due :
           /\ s \in Sources /\ Len(runs) \in Nat
           /\ runs'[Len(runs) + 1] = [source |-> s, status |-> "running"]
           /\ \A i \in 1 .. Len(runs) : runs'[i] = runs[i]
           /\ th'[t] = [at |-> "importing", run |-> Len(runs) + 1, status |-> "running",
                        now |-> th[t].now, due |-> th[t].due \ {s}]
           /\ \A u \in Threads : u # t => th'[u] = th[u]
    BY <1>7, StartStep
  <2>2. source' = source /\ served' = served
    BY <1>7 DEF StartRun
  <2>3. ASSUME NEW w \in Schedulers, w # t
        PROVE  th'[w] = th[w] /\ (HasRun(w) => runs'[th[w].run] = runs[th[w].run])
    BY <1>0, <2>1, <2>3
  <2>4. CASE t \in Schedulers
    <3>1. \A w \in Schedulers : w = t
      BY <2>4 DEF OneScheduler
    <3>2. th'[t].now = th[t].now /\ th'[t].due = th[t].due \ {s}
          /\ runs'[th'[t].run].source = s
      BY <2>1
    <3>3. th[t].now >= served[s] + Cadence[s] /\ source[s].state # "absent"
      BY <2>1, <2>4 DEF ScheduleIsSpaced
    <3>4. ScheduleIsSpaced'
      BY <2>2, <3>1, <3>2, <3>3 DEF ScheduleIsSpaced, HasRun, Present
    <3>5. ScheduledRunsAreSpaced'
      BY <2>2, <3>1, <3>2, <3>3 DEF ScheduledRunsAreSpaced, HasRun
    <3> QED BY <3>4, <3>5
  <2>5. CASE t \notin Schedulers
    BY <2>2, <2>3, <2>5 DEF ScheduleIsSpaced, ScheduledRunsAreSpaced, HasRun, Present
  <2> QED BY <2>4, <2>5
<1>8. ASSUME NEW t \in Threads, FinishRun(t) PROVE Goal
  <2>1. /\ Len(runs') = Len(runs) /\ th[t].run \in 1 .. Len(runs) /\ th[t].at = "finishing"
        /\ \A i \in 1 .. Len(runs) : runs'[i].source = runs[i].source
        /\ \A u \in Threads : u # t => th'[u] = th[u]
        /\ HasRun(t)' => /\ t \in Schedulers /\ th'[t].at = "rescheduling"
                         /\ th'[t].run = th[t].run
                         /\ th'[t].now = th[t].now /\ th'[t].due = th[t].due
    BY <1>8, FinishStep
  <2>2. source' = source /\ served' = served
    BY <1>8 DEF FinishRun
  <2>3. ASSUME NEW w \in Schedulers
        PROVE  /\ th'[w].run = th[w].run /\ th'[w].now = th[w].now /\ th'[w].due = th[w].due
               /\ HasRun(w)' => HasRun(w)
    <3>1. CASE w # t
      BY <1>0, <2>1, <3>1 DEF HasRun
    <3>2. CASE w = t
      <4>1. th' = [th EXCEPT ![w] = [th[w] EXCEPT !.at = "rescheduling"]] /\ th[w] \in ThreadStates
        BY <1>0, <1>8, <3>2 DEF FinishRun
      <4> QED BY <1>0, <2>1, <3>2, <4>1 DEF HasRun, ThreadStates
    <3> QED BY <3>1, <3>2
  <2>4. ASSUME NEW w \in Schedulers, HasRun(w)
        PROVE  runs'[th[w].run].source = runs[th[w].run].source
    BY <1>0, <2>1, <2>4
  <2>5. ScheduleIsSpaced'
    BY <2>2, <2>3, <2>4 DEF ScheduleIsSpaced, HasRun, Present
  <2>6. ScheduledRunsAreSpaced'
    BY <2>2, <2>3, <2>4 DEF ScheduledRunsAreSpaced, HasRun
  <2> QED BY <2>5, <2>6
<1>9. ASSUME NEW t \in Threads, ImportReturns(t) PROVE Goal
  <2>1. PICK outcome \in {"succeeded", "failed"} :
           th' = [th EXCEPT ![t] = [th[t] EXCEPT !.at = "finishing", !.status = outcome]]
    BY <1>9 DEF ImportReturns
  <2>2. th[t] \in ThreadStates /\ th[t].at = "importing"
    BY <1>0, <1>9 DEF ImportReturns, At
  <2>3. ASSUME NEW w \in Schedulers
        PROVE  /\ th'[w].run = th[w].run /\ th'[w].now = th[w].now /\ th'[w].due = th[w].due
               /\ HasRun(w)' => HasRun(w)
    BY <1>0, <2>1, <2>2 DEF HasRun, ThreadStates
  <2>4. runs' = runs /\ source' = source /\ served' = served
    BY <1>9 DEF ImportReturns
  <2>5. ScheduleIsSpaced'
    BY <2>3, <2>4 DEF ScheduleIsSpaced, HasRun, Present
  <2>6. ScheduledRunsAreSpaced'
    BY <2>3, <2>4 DEF ScheduledRunsAreSpaced, HasRun
  <2> QED BY <2>5, <2>6
<1>10. ASSUME NEW w \in Schedulers, Reschedule(w) PROVE Goal
  <2> DEFINE s == runs[th[w].run].source
  <2>1. \A v \in Schedulers : v = w
    BY DEF OneScheduler
  <2>2. HasRun(w) /\ s \in Sources /\ th[w].now \in Nat
    BY <1>0, <1>10 DEF Reschedule, HasRun, At, ThreadStates
  <2>3. th' = [th EXCEPT ![w] = Following(w)] /\ runs' = runs
        /\ served' = [served EXCEPT ![s] = th[w].now]
        /\ source' = IF Present(s) THEN [source EXCEPT ![s].next = NextRunAt(s, th[w].now)]
                                   ELSE source
    BY <1>10 DEF Reschedule
  <2> HIDE DEF s
  <2>4. th'[w].at \in {"idle", "starting"} /\ th'[w].due \subseteq th[w].due
        /\ (th'[w].due # {} => th'[w].now = th[w].now)
    <3>1. th'[w] = Following(w) /\ th[w] \in ThreadStates
      BY <1>0, <2>3
    <3>2. Following(w).due # {} => Following(w).now = th[w].now
      BY <3>1 DEF Following, Idle, ThreadStates
    <3> QED BY <1>0, <3>1, <3>2, FollowingType
  <2>5. served'[s] = th[w].now /\ \A x \in Sources : x # s => served'[x] = served[x]
    BY <1>0, <2>2, <2>3
  <2>6. \A x \in Sources : source'[x].state = source[x].state /\ (x # s => source'[x] = source[x])
    BY <1>0, <2>2, <2>3 DEF SourceRows
  <2>7. Present(s) => source'[s].next = NextRunAt(s, th[w].now)
    BY <1>0, <2>2, <2>3 DEF SourceRows
  <2>8. NextRunAt(s, th[w].now) # Never => NextRunAt(s, th[w].now) >= th[w].now + Cadence[s]
    BY <1>a, <2>2 DEF NextRunAt
  <2>9. s \notin th[w].due
    BY <2>2 DEF ScheduleIsSpaced, s
  <2>10. ASSUME NEW x \in Sources, Present(x)', source'[x].next # Never
         PROVE  source'[x].next >= served'[x] + Cadence[x]
    <3>1. CASE x = s
      BY <2>5, <2>6, <2>7, <2>8, <2>10, <3>1 DEF Present
    <3>2. CASE x # s
      BY <2>5, <2>6, <2>10, <3>2 DEF ScheduleIsSpaced, Present
    <3> QED BY <3>1, <3>2
  <2>11. ASSUME NEW x \in Sources, x \in th'[w].due
         PROVE  th'[w].now >= served'[x] + Cadence[x] /\ source'[x].state # "absent"
    BY <2>4, <2>5, <2>6, <2>9, <2>11 DEF ScheduleIsSpaced
  <2>12. ScheduleIsSpaced'
    BY <2>1, <2>4, <2>10, <2>11 DEF ScheduleIsSpaced, HasRun
  <2>13. ScheduledRunsAreSpaced'
    BY <2>1, <2>4 DEF ScheduledRunsAreSpaced, HasRun
  <2> QED BY <2>12, <2>13
<1>11. ASSUME NEW t \in Threads, StatementRaises(t) PROVE Goal
  BY <1>0, <1>11 DEF StatementRaises, ScheduleIsSpaced, ScheduledRunsAreSpaced, HasRun,
     Present, Idle
<1>12. ASSUME NEW dead \in (SUBSET Threads) \ {{}}, ProcessEnds(dead) PROVE Goal
  <2>1. \A w \in Schedulers : th'[w] = th[w] \/ th'[w] = Idle
    BY <1>0, <1>12 DEF ProcessEnds
  <2>2. UNCHANGED <<source, runs, served>>
    BY <1>12 DEF ProcessEnds
  <2>3. ASSUME NEW w \in Schedulers
        PROVE  (HasRun(w)' => HasRun(w) /\ th'[w] = th[w]) /\ (th'[w].due = {} \/ th'[w] = th[w])
    BY <2>1 DEF HasRun, Idle
  <2>4. ScheduledRunsAreSpaced'
    BY <2>2, <2>3 DEF ScheduledRunsAreSpaced
  <2>5. ScheduleIsSpaced'
    BY <2>2, <2>3 DEF ScheduleIsSpaced, Present
  <2> QED BY <2>4, <2>5
<1> QED BY <1>1, <1>2, <1>3, <1>4, <1>5, <1>6, <1>7, <1>8, <1>9, <1>10, <1>11, <1>12
        DEF Next, Work

\* With one API process, the scheduled runs of a source are a cadence apart, through
\* failed statements, restarts, deletions and "Run now" requests (scheduler.py).
THEOREM OneSchedulerSpacesRuns ==
  ASSUME OneScheduler
  PROVE  Spec => []ScheduledRunsAreSpaced
<1>1. Init => ScheduledRunsAreSpaced
  BY DEF Init, ScheduledRunsAreSpaced, HasRun, Idle, Threads
<1> QED BY <1>1, TypeCorrect, SpacedInit, SpacedStep, PTL DEF Spec
=============================================================================
