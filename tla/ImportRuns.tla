------------------------------ MODULE ImportRuns ------------------------------
(***************************************************************************)
(* Import sources, their runs, and the threads that execute them.          *)
(*                                                                         *)
(* Each API process runs one scheduler thread, which polls the sources     *)
(* whose next_run_at has passed and runs them one after the other; the     *)
(* REST and UI "Run now" handlers run a source at once, each in a thread   *)
(* of its own.  All of them go through the same steps: a row of            *)
(* import_runs is inserted, the importer works (for minutes), the row is   *)
(* closed, and a scheduler writes next_run_at back.  Every statement is a  *)
(* transaction of its own, may raise (database is locked), and may be the  *)
(* last one of a process that dies.                                        *)
(*                                                                         *)
(* The clock counts abstract ticks; a cadence is a number of ticks, 0 for  *)
(* a manual source.  What a run imports is left out but for its outcome.   *)
(***************************************************************************)
EXTENDS Integers, Sequences, FiniteSets

CONSTANTS
  Sources,      \* ids of import_sources; AUTOINCREMENT never reuses one
  Cadence,      \* source -> period in ticks, 0 when it has no schedule
  Schedulers,   \* scheduler threads, one per API process
  Callers,      \* threads of the "Run now" handlers
  MaxTime,      \* bound: ticks of the clock
  MaxCalls,     \* bound: "Run now" requests
  MaxFaults     \* bound: statements that raise, processes that end

Threads == Schedulers \cup Callers
Never == -1

ASSUME CadenceAssumption == Cadence \in [Sources -> Nat]
ASSUME ThreadsAssumption == Schedulers \cap Callers = {}
ASSUME BoundsAssumption ==
  MaxTime \in Nat /\ MaxCalls \in Nat /\ MaxFaults \in Nat

VARIABLES
  clock,
  source,  \* import_sources: id -> state and next_run_at
  runs,    \* import_runs, in order of id
  th,      \* thread -> the run it is executing, and what is left of its tick
  served,  \* history: source -> creation, then the tick that last rescheduled it
  calls, faults

vars == <<clock, source, runs, th, served, calls, faults>>

Idle == [at |-> "idle", run |-> 0, status |-> "running", now |-> 0, due |-> {}]
Absent == [state |-> "absent", next |-> Never]

Init ==
  /\ clock = 0
  /\ source = [s \in Sources |-> Absent]
  /\ runs = <<>>
  /\ th = [t \in Threads |-> Idle]
  /\ served = [s \in Sources |-> 0]
  /\ calls = 0
  /\ faults = 0

At(t, place) == th[t].at = place
Present(s) == source[s].state = "present"

\* compute_next_run_at.
NextRunAt(s, now) == IF Cadence[s] = 0 THEN Never ELSE now + Cadence[s]

\* list_due_import_sources: next_run_at is set and has passed.  No row of a
\* deleted source is left.
Due == {s \in Sources : Present(s) /\ source[s].next # Never /\ source[s].next <= clock}

Advance ==
  /\ clock < MaxTime
  /\ clock' = clock + 1
  /\ UNCHANGED <<source, runs, th, served, calls, faults>>

AddSource(s) ==
  /\ source[s].state = "absent"
  /\ source' = [source EXCEPT ![s] = [state |-> "present", next |-> NextRunAt(s, clock)]]
  /\ served' = [served EXCEPT ![s] = clock]
  /\ UNCHANGED <<clock, runs, th, calls, faults>>

DeleteSource(s) ==
  /\ Present(s)
  /\ source' = [source EXCEPT ![s] = [state |-> "deleted", next |-> Never]]
  /\ UNCHANGED <<clock, runs, th, served, calls, faults>>

-----------------------------------------------------------------------------
(* The steps of a run *)

\* run_pending: the due sources are listed once, for the whole tick.  A poll that
\* finds none changes nothing.
Tick(w) ==
  /\ At(w, "idle")
  /\ th' = IF Due = {} THEN th
            ELSE [th EXCEPT ![w] = [Idle EXCEPT !.at = "starting", !.now = clock, !.due = Due]]
  /\ UNCHANGED <<clock, source, runs, served, calls, faults>>

\* run_source and imports_run: get_import_source finds the source.
RunNow(c, s) ==
  /\ At(c, "idle")
  /\ calls < MaxCalls
  /\ Present(s)
  /\ calls' = calls + 1
  /\ th' = [th EXCEPT ![c] = [Idle EXCEPT !.at = "starting", !.now = clock, !.due = {s}]]
  /\ UNCHANGED <<clock, source, runs, served, faults>>

\* Mutant: the id of the inserted row is lost.
StartRunNoRowid(t) ==
  /\ At(t, "starting")
  /\ \E s \in th[t].due :
       /\ runs' = Append(runs, [source |-> s, status |-> "running"])
       /\ th' = [th EXCEPT ![t] = [at |-> "importing", run |-> 0,
                   status |-> "running", now |-> th[t].now, due |-> th[t].due \ {s}]]
  /\ UNCHANGED <<clock, source, served, calls, faults>>

\* start_import_run.  Nobody looks again whether the source still exists.  The
\* sources of a tick run in the order of next_run_at, which the model leaves open.
StartRun(t) ==
  /\ At(t, "starting")
  /\ \E s \in th[t].due :
       /\ runs' = Append(runs, [source |-> s, status |-> "running"])
       /\ th' = [th EXCEPT ![t] = [at |-> "importing", run |-> Len(runs) + 1,
                   status |-> "running", now |-> th[t].now, due |-> th[t].due \ {s}]]
  /\ UNCHANGED <<clock, source, served, calls, faults>>

\* run_import returns a result, with or without an error, or raises.
ImportReturns(t) ==
  /\ At(t, "importing")
  /\ \E outcome \in {"succeeded", "failed"} :
       th' = [th EXCEPT ![t].at = "finishing", ![t].status = outcome]
  /\ UNCHANGED <<clock, source, runs, served, calls, faults>>

\* Where a thread goes when one source is done.
Following(t) ==
  IF th[t].due = {} THEN Idle ELSE [th[t] EXCEPT !.at = "starting", !.run = 0,
                                                 !.status = "running"]

\* Mutants: the row that is closed is the last one of the source; only a run that
\* succeeded is closed.
FinishLatestRun(t) ==
  /\ At(t, "finishing")
  /\ LET s == runs[th[t].run].source
         last == CHOOSE i \in DOMAIN runs : runs[i].source = s
                   /\ \A j \in DOMAIN runs : runs[j].source = s => j <= i
     IN runs' = [runs EXCEPT ![last].status = th[t].status]
  /\ th' = [th EXCEPT ![t] = IF t \in Schedulers THEN [th[t] EXCEPT !.at = "rescheduling"]
                                                 ELSE Idle]
  /\ UNCHANGED <<clock, source, served, calls, faults>>
FinishOnlySuccess(t) ==
  /\ At(t, "finishing")
  /\ runs' = IF th[t].status = "failed" THEN runs
             ELSE [runs EXCEPT ![th[t].run].status = th[t].status]
  /\ th' = [th EXCEPT ![t] = IF t \in Schedulers THEN [th[t] EXCEPT !.at = "rescheduling"]
                                                 ELSE Idle]
  /\ UNCHANGED <<clock, source, served, calls, faults>>

\* finish_import_run; a "Run now" handler answers.
FinishRun(t) ==
  /\ At(t, "finishing")
  /\ runs' = [runs EXCEPT ![th[t].run].status = th[t].status]
  /\ th' = [th EXCEPT ![t] = IF t \in Schedulers THEN [th[t] EXCEPT !.at = "rescheduling"]
                                                 ELSE Idle]
  /\ UNCHANGED <<clock, source, served, calls, faults>>

\* Mutants: a failed source is taken off the schedule; the next run is counted from
\* the time that was due, so that missed periods are made up for.
RescheduleDropsFailed(w) ==
  LET s == runs[th[w].run].source IN
  /\ At(w, "rescheduling")
  /\ source' = IF Present(s)
                 THEN [source EXCEPT ![s].next =
                         IF th[w].status = "failed" THEN Never ELSE NextRunAt(s, th[w].now)]
                 ELSE source
  /\ served' = [served EXCEPT ![s] = th[w].now]
  /\ th' = [th EXCEPT ![w] = Following(w)]
  /\ UNCHANGED <<clock, runs, calls, faults>>
RescheduleFromLast(w) ==
  LET s == runs[th[w].run].source IN
  /\ At(w, "rescheduling")
  /\ source' = IF Present(s)
                 THEN [source EXCEPT ![s].next = NextRunAt(s, source[s].next)]
                 ELSE source
  /\ served' = [served EXCEPT ![s] = th[w].now]
  /\ th' = [th EXCEPT ![w] = Following(w)]
  /\ UNCHANGED <<clock, runs, calls, faults>>

\* _reschedule: one period after the time of the tick, whatever the outcome; the
\* UPDATE of a deleted source matches no row.
Reschedule(w) ==
  LET s == runs[th[w].run].source IN
  /\ At(w, "rescheduling")
  /\ source' = IF Present(s)
                 THEN [source EXCEPT ![s].next = NextRunAt(s, th[w].now)]
                 ELSE source
  /\ served' = [served EXCEPT ![s] = th[w].now]
  /\ th' = [th EXCEPT ![w] = Following(w)]
  /\ UNCHANGED <<clock, runs, calls, faults>>

-----------------------------------------------------------------------------
(* What goes wrong *)

Writing(t) == th[t].at \in {"starting", "finishing", "rescheduling"}

\* Mutant: the loop does not catch what a tick raises.
StatementRaisesThrough(t) ==
  /\ Writing(t)
  /\ faults < MaxFaults
  /\ faults' = faults + 1
  /\ th' = [th EXCEPT ![t] = [Idle EXCEPT !.at = "dead"]]
  /\ UNCHANGED <<clock, source, runs, served, calls>>

\* A statement raises: a handler answers 500; a scheduler logs it and gives up the
\* rest of its tick.
StatementRaises(t) ==
  /\ Writing(t)
  /\ faults < MaxFaults
  /\ faults' = faults + 1
  /\ th' = [th EXCEPT ![t] = Idle]
  /\ UNCHANGED <<clock, source, runs, served, calls>>

\* A process dies, or its lifespan ends while Scheduler.stop gives up its join: the
\* daemon thread stops where it is.  The process is started again.
ProcessEnds(dead) ==
  /\ faults < MaxFaults
  /\ faults' = faults + 1
  /\ th' = [t \in Threads |-> IF t \in dead THEN Idle ELSE th[t]]
  /\ UNCHANGED <<clock, source, runs, served, calls>>

Work(t) == StartRun(t) \/ ImportReturns(t) \/ FinishRun(t)

Next ==
  \/ Advance
  \/ \E s \in Sources : AddSource(s) \/ DeleteSource(s)
  \/ \E w \in Schedulers : Tick(w) \/ Reschedule(w)
  \/ \E c \in Callers, s \in Sources : RunNow(c, s)
  \/ \E t \in Threads : Work(t) \/ StatementRaises(t)
  \/ \E dead \in (SUBSET Threads) \ {{}} : ProcessEnds(dead)

Spec == Init /\ [][Next]_vars

\* Threads run on: an importer's calls time out, and the loop polls for ever.
FairSpec ==
  /\ Spec
  /\ \A t \in Threads : WF_vars(Work(t))
  /\ \A w \in Schedulers : WF_vars(Tick(w)) /\ WF_vars(Reschedule(w))
-----------------------------------------------------------------------------
(* Properties *)

Places == {"idle", "starting", "importing", "finishing", "rescheduling"}
Outcomes == {"running", "succeeded", "failed"}
SourceRows == [state: {"absent", "present", "deleted"}, next: Nat \cup {Never}]
RunRows == [source: Sources, status: Outcomes]
ThreadStates == [at: Places, run: Nat, status: Outcomes, now: Nat, due: SUBSET Sources]

\* A thread that is past start_import_run has a row.
HasRun(t) == th[t].at \in {"importing", "finishing", "rescheduling"}

\* The variables keep their types, and a thread in a run knows an existing row.
TypeOK ==
  /\ clock \in Nat
  /\ source \in [Sources -> SourceRows]
  /\ runs \in Seq(RunRows)
  /\ th \in [Threads -> ThreadStates]
  /\ \A t \in Threads : HasRun(t) => th[t].run \in 1 .. Len(runs)
  /\ served \in [Sources -> Nat]
  /\ calls \in Nat /\ faults \in Nat

\* A row that says "running" belongs to the one thread that works on it, if to any:
\* no thread closes another's row (start_import_run, finish_import_run).
RunsAreOwned ==
  /\ \A t \in Threads : th[t].at \in {"importing", "finishing"} =>
       runs[th[t].run].status = "running"
  /\ \A t, u \in Threads : HasRun(t) /\ HasRun(u) /\ th[t].run = th[u].run => t = u

\* The outcome of a run, once written, is never rewritten, and no row goes away
\* (finish_import_run).
OutcomesAreFinal ==
  [][\A i \in DOMAIN runs :
       /\ i \in DOMAIN runs'
       /\ runs'[i].source = runs[i].source
       /\ runs[i].status # "running" => runs'[i].status = runs[i].status]_vars

\* Two scheduled runs of a source that were both accounted for are at least a
\* cadence apart, counted from tick to tick (scheduler._reschedule): neither a
\* restart, nor a statement that raises, nor a long tick brings one forward.
ScheduledRunsAreSpaced ==
  \A w \in Schedulers :
    HasRun(w) => LET s == runs[th[w].run].source IN th[w].now >= served[s] + Cadence[s]

\* A source with a cadence stays on the schedule until it is deleted, however its
\* runs end (scheduler._run_one reschedules on failure too).
CadenceIsKept ==
  \A s \in Sources : Present(s) /\ Cadence[s] > 0 => source[s].next # Never

\* The strengthening behind ScheduledRunsAreSpaced: next_run_at, and every source a
\* tick still has to run, are a cadence after the last accounted run.
ScheduleIsSpaced ==
  /\ \A s \in Sources : Present(s) /\ source[s].next # Never =>
       source[s].next >= served[s] + Cadence[s]
  /\ \A w \in Schedulers, s \in Sources : s \in th[w].due =>
       th[w].now >= served[s] + Cadence[s]
  /\ \A w \in Schedulers, s \in Sources : HasRun(w) /\ s \in th[w].due =>
       runs[th[w].run].source # s
  /\ \A w \in Schedulers : HasRun(w) => source[runs[th[w].run].source].state # "absent"
  /\ \A w \in Schedulers, s \in Sources : s \in th[w].due => source[s].state # "absent"

\* A source that is due is run and accounted for, unless it is deleted first: what
\* one source, one statement or one death does wrong does not stop the loop
\* (scheduler._loop, scheduler._run_one).  A due source was last accounted for
\* before MaxTime.
DueSourcesRun ==
  \A s \in Sources, v \in 0 .. MaxTime - 1 :
    s \in Due /\ served[s] = v ~> served[s] > v \/ ~Present(s)

\* As long as no statement raises and no process ends, every run that starts is
\* closed (scheduler._run_one and run_source close the row on every exception of
\* the importer): as the runs are bounded here, none stays open.
RunsEnd == [](faults = 0) => []<>(\A i \in DOMAIN runs : runs[i].status # "running")
=============================================================================
