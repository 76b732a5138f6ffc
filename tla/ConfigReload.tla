----------------------------- MODULE ConfigReload -----------------------------
(***************************************************************************)
(* Replacement of the configuration: Container.reload under its lock, the  *)
(* file egg.yaml, the snapshot of services, and the requests that read     *)
(* them without a lock.                                                    *)
(*                                                                         *)
(* A reload stores the configuration in the ConfigManager, which every     *)
(* snapshot shares and requests read, truncates and writes the file,       *)
(* builds a new snapshot, and puts it in place, then the lockout.  Any of  *)
(* these may be the last thing the process does; writing the file and      *)
(* building may raise, and what the ConfigManager holds then stays.        *)
(*                                                                         *)
(* A configuration is reduced to a version, how the backend credentials    *)
(* are given, and whether services can be built from it (the SQLite path   *)
(* can be created and opened).  Snapshots are numbered in order of         *)
(* construction; each opens an HTTP client.                                *)
(***************************************************************************)
EXTENDS Integers, FiniteSets

CONSTANTS
  Versions,     \* contents of a configuration, as far as nothing below is about
  Factory,      \* the version AppConfig() has
  Submitted,    \* the configurations that are submitted as a whole
  RestThreads,  \* threadpool threads running PUT /config, /import-config, /create-config
  UiThreads,    \* event loops running the configuration form and the wizard
  Readers,      \* threads running public requests
  MaxBuilds,    \* bound: no reload starts after this many snapshots
  MaxFaults,    \* bound: writes that raise
  MaxCrashes    \* bound: ends of the process

Admins == RestThreads \cup UiThreads

ASSUME FactoryAssumption == Factory \in Versions
ASSUME BoundsAssumption ==
  MaxBuilds \in Nat \ {0} /\ MaxFaults \in Nat /\ MaxCrashes \in Nat

\* Credentials: elsewhere (none needed, or the name of an environment variable),
\* inline, or an inline secret that is gone (ConfigManager.redact).
Credentials == {"elsewhere", "inline", "stripped"}
Configs == [version: Versions, auth: Credentials, builds: BOOLEAN]
DefaultConfig == [version |-> Factory, auth |-> "elsewhere", builds |-> TRUE]

\* What the validators of AppConfig accept: basic, bearer and api_key need a secret
\* or the name of its variable.
Valid == {c \in Configs : c.auth # "stripped"}
ASSUME SubmittedAssumption == Submitted \subseteq Valid

\* A file that holds nothing: created or truncated, and not written yet.
Empty == [version |-> Factory, auth |-> "empty", builds |-> TRUE]

VARIABLES
  up,       \* the process runs
  memory,   \* ConfigManager._config
  disk,     \* egg.yaml
  state,    \* Container._state: its number, and what its services were built from
  lockout,  \* what Container._public_lockout was built from
  open,     \* the snapshots whose HTTP client is open
  lock,     \* {} or the thread that holds _reload_lock
  th,       \* administration thread -> where its reload stands
  rd,       \* reader -> where its request stands
  built,    \* number of the last snapshot
  acked,    \* history: number of the last snapshot a reload answered for
  failed,   \* history: where the last reload raised, or "no"
  faults, crashes

vars == <<up, memory, disk, state, lockout, open, lock, th, rd, built, acked,
          failed, faults, crashes>>

IdleAdmin == [at |-> "idle", config |-> DefaultConfig, previous |-> 0, new |-> 0]
IdleReader == [at |-> "idle", floor |-> 0, number |-> 0, saw |-> Factory]

Init ==
  /\ up = TRUE
  /\ memory \in {c \in Valid : c.builds /\ c.auth # "inline"}
  /\ disk = memory
  /\ state = [number |-> 1, config |-> memory]
  /\ lockout = memory
  /\ open = {1}
  /\ lock = {}
  /\ th = [a \in Admins |-> IdleAdmin]
  /\ rd = [r \in Readers |-> IdleReader]
  /\ built = 1
  /\ acked = 1
  /\ failed = "no"
  /\ faults = 0
  /\ crashes = 0

\* Mutants of redact: the secret goes to the file.
RedactNothing(c) == c

\* ConfigManager.redact: inline secrets are removed.
Redact(c) == IF c.auth = "inline" THEN [c EXCEPT !.auth = "stripped"] ELSE c

\* What yaml.safe_load(...) or {} makes of the file.
Read(file) == IF file = Empty THEN DefaultConfig ELSE file

At(a, place) == th[a].at = place
Go(a, place) == th' = [th EXCEPT ![a].at = place]

-----------------------------------------------------------------------------
(* The reload *)

\* put_config, create_config, import_config and setup_publish: a whole new
\* configuration, validated.
Submit(a) ==
  /\ At(a, "idle") /\ up
  /\ built < MaxBuilds
  /\ \E c \in Submitted :
       th' = [th EXCEPT ![a] = [IdleAdmin EXCEPT !.at = "waiting", !.config = c]]
  /\ UNCHANGED <<up, memory, disk, state, lockout, open, lock, rd, built, acked,
                 failed, faults, crashes>>

\* config_update and the language step of the wizard: a copy of the configuration in
\* memory, with the fields of the form replaced.
Edit(a) ==
  /\ At(a, "idle") /\ up
  /\ built < MaxBuilds
  /\ \E v \in Versions, b \in BOOLEAN :
       th' = [th EXCEPT ![a] = [IdleAdmin EXCEPT !.at = "waiting",
                                  !.config = [memory EXCEPT !.version = v, !.builds = b]]]
  /\ UNCHANGED <<up, memory, disk, state, lockout, open, lock, rd, built, acked,
                 failed, faults, crashes>>

\* Mutant: no lock.
BeginUnlocked(a) ==
  /\ At(a, "waiting")
  /\ memory' = th[a].config
  /\ th' = [th EXCEPT ![a].at = "truncating", ![a].previous = state.number]
  /\ UNCHANGED <<up, disk, state, lockout, open, lock, rd, built, acked, failed,
                 faults, crashes>>

\* The lock is taken; ConfigManager.save begins with the copy in memory.
Begin(a) ==
  /\ At(a, "waiting")
  /\ lock = {}
  /\ lock' = {a}
  /\ memory' = th[a].config
  /\ th' = [th EXCEPT ![a].at = "truncating", ![a].previous = state.number]
  /\ UNCHANGED <<up, disk, state, lockout, open, rd, built, acked, failed, faults, crashes>>

\* write_text opens the file, ...
Truncate(a) ==
  /\ At(a, "truncating")
  /\ disk' = Empty
  /\ Go(a, "writing")
  /\ UNCHANGED <<up, memory, state, lockout, open, lock, rd, built, acked, failed,
                 faults, crashes>>

\* ... and writes it.
Write(a) ==
  /\ At(a, "writing")
  /\ disk' = Redact(th[a].config)
  /\ Go(a, "building")
  /\ UNCHANGED <<up, memory, state, lockout, open, lock, rd, built, acked, failed,
                 faults, crashes>>

\* The reload ends in an exception, which releases the lock.
Raise(a, where) ==
  /\ lock' = {}
  /\ failed' = where
  /\ th' = [th EXCEPT ![a] = IdleAdmin]

\* The file cannot be opened or written.
SaveRaises(a) ==
  /\ At(a, "truncating") \/ At(a, "writing")
  /\ faults < MaxFaults
  /\ faults' = faults + 1
  /\ Raise(a, "save")
  /\ UNCHANGED <<up, memory, disk, state, lockout, open, rd, built, acked, crashes>>

\* _build_state, from what the ConfigManager holds; the adapter, with its client,
\* comes last.
Build(a) ==
  /\ At(a, "building")
  /\ memory.builds
  /\ built' = built + 1
  /\ open' = open \cup {built + 1}
  /\ th' = [th EXCEPT ![a].at = "swapping", ![a].config = memory, ![a].new = built + 1]
  /\ UNCHANGED <<up, memory, disk, state, lockout, lock, rd, acked, failed, faults, crashes>>

\* Mutant: the lock is released by hand, on success only.
BuildRaisesKeepsLock(a) ==
  /\ At(a, "building")
  /\ ~memory.builds
  /\ failed' = "build"
  /\ th' = [th EXCEPT ![a] = IdleAdmin]
  /\ UNCHANGED <<up, memory, disk, state, lockout, open, lock, rd, built, acked,
                 faults, crashes>>

BuildRaises(a) ==
  /\ At(a, "building")
  /\ ~memory.builds
  /\ Raise(a, "build")
  /\ UNCHANGED <<up, memory, disk, state, lockout, open, rd, built, acked, faults, crashes>>

Swap(a) ==
  /\ At(a, "swapping")
  /\ state' = [number |-> th[a].new, config |-> th[a].config]
  /\ Go(a, "locking_out")
  /\ UNCHANGED <<up, memory, disk, lockout, open, lock, rd, built, acked, failed,
                 faults, crashes>>

SwapLockout(a) ==
  /\ At(a, "locking_out")
  /\ lockout' = th[a].config
  /\ Go(a, "closing")
  /\ UNCHANGED <<up, memory, disk, state, open, lock, rd, built, acked, failed,
                 faults, crashes>>

\* Mutant: the client of the snapshot in place is closed.
CloseCurrent(a) ==
  /\ At(a, "closing")
  /\ open' = open \ {state.number}
  /\ lock' = {}
  /\ acked' = th[a].new
  /\ failed' = "no"
  /\ th' = [th EXCEPT ![a] = IdleAdmin]
  /\ UNCHANGED <<up, memory, disk, state, lockout, rd, built, faults, crashes>>

\* The client of the previous snapshot is closed, requests or not; the handler
\* answers.
CloseOld(a) ==
  /\ At(a, "closing")
  /\ open' = open \ {th[a].previous}
  /\ lock' = {}
  /\ acked' = th[a].new
  /\ failed' = "no"
  /\ th' = [th EXCEPT ![a] = IdleAdmin]
  /\ UNCHANGED <<up, memory, disk, state, lockout, rd, built, faults, crashes>>

-----------------------------------------------------------------------------
(* Requests *)

\* A public request arrives and takes the lockout, ...
Arrive(r) ==
  /\ rd[r].at = "idle" /\ up
  /\ rd' = [rd EXCEPT ![r] = [IdleReader EXCEPT !.at = "arrived", !.floor = acked,
                                              !.saw = lockout.version]]
  /\ UNCHANGED <<up, memory, disk, state, lockout, open, lock, th, built, acked,
                 failed, faults, crashes>>

\* ... reads the public mode in the ConfigManager, ...
TakeMode(r) ==
  /\ rd[r].at = "arrived"
  /\ rd' = [rd EXCEPT ![r].at = "authorized", ![r].saw = memory.version]
  /\ UNCHANGED <<up, memory, disk, state, lockout, open, lock, th, built, acked,
                 failed, faults, crashes>>

\* ... takes the services of the snapshot in place, the policy the last of them, ...
TakePolicy(r) ==
  /\ rd[r].at = "authorized"
  /\ rd' = [rd EXCEPT ![r].at = "parsed", ![r].number = state.number, ![r].saw = Factory]
  /\ UNCHANGED <<up, memory, disk, state, lockout, open, lock, th, built, acked,
                 failed, faults, crashes>>

\* ... may read the caching, or the schema, in the ConfigManager, ...
TakeCaching(r) ==
  /\ rd[r].at = "parsed"
  /\ rd' = [rd EXCEPT ![r].saw = memory.version]
  /\ UNCHANGED <<up, memory, disk, state, lockout, open, lock, th, built, acked,
                 failed, faults, crashes>>

\* ... then takes the adapter, which may be that of a later snapshot, ...
TakeAdapter(r) ==
  /\ rd[r].at = "parsed"
  /\ rd' = [rd EXCEPT ![r].at = "calling", ![r].number = state.number, ![r].saw = Factory]
  /\ UNCHANGED <<up, memory, disk, state, lockout, open, lock, th, built, acked,
                 failed, faults, crashes>>

\* ... and is answered, with a 500 when a reload has closed the client.
Answer(r) ==
  /\ rd[r].at = "calling"
  /\ rd' = [rd EXCEPT ![r] = IdleReader]
  /\ UNCHANGED <<up, memory, disk, state, lockout, open, lock, th, built, acked,
                 failed, faults, crashes>>

-----------------------------------------------------------------------------
(* The process *)

Crash ==
  /\ up
  /\ crashes < MaxCrashes
  /\ crashes' = crashes + 1
  /\ up' = FALSE
  /\ open' = {}
  /\ lock' = {}
  /\ th' = [a \in Admins |-> IdleAdmin]
  /\ rd' = [r \in Readers |-> IdleReader]
  /\ UNCHANGED <<memory, disk, state, lockout, built, acked, failed, faults>>

\* Container() at start: the file is read, an empty one as an empty mapping, and
\* services are built; the process ends when either raises.
Start ==
  /\ ~up
  /\ Read(disk) \in Valid /\ Read(disk).builds
  /\ up' = TRUE
  /\ memory' = Read(disk)
  /\ built' = built + 1
  /\ state' = [number |-> built + 1, config |-> Read(disk)]
  /\ lockout' = Read(disk)
  /\ open' = {built + 1}
  /\ failed' = "no"
  /\ UNCHANGED <<disk, lock, th, rd, acked, faults, crashes>>

Reload(a) ==
  \/ Begin(a) \/ Truncate(a) \/ Write(a) \/ Build(a) \/ BuildRaises(a)
  \/ Swap(a) \/ SwapLockout(a) \/ CloseOld(a)

Request(r) ==
  Arrive(r) \/ TakeMode(r) \/ TakePolicy(r) \/ TakeCaching(r) \/ TakeAdapter(r) \/ Answer(r)

Next ==
  \/ \E a \in Admins : Submit(a) \/ Reload(a) \/ SaveRaises(a)
  \/ \E a \in UiThreads : Edit(a)
  \/ \E r \in Readers : Request(r)
  \/ Crash
  \/ Start

Spec == Init /\ [][Next]_vars

\* A thread goes on; the lock, which makes no promise about order, does not pass by
\* one thread for ever.
FairSpec == Spec /\ \A a \in Admins : SF_vars(Reload(a))
-----------------------------------------------------------------------------
(* Properties *)

Places == {"idle", "waiting", "truncating", "writing", "building", "swapping",
           "locking_out", "closing"}
AdminStates == [at: Places, config: Valid, previous: Nat, new: Nat]
ReaderStates == [at: {"idle", "arrived", "authorized", "parsed", "calling"},
                 floor: Nat, number: Nat, saw: Versions]
Snapshots == [number: Nat, config: Valid]
Redacted == {c \in Configs : c.auth # "inline"}
InReload(a) == th[a].at \notin {"idle", "waiting"}

\* The variables keep their types, and a secret never reaches the file.
TypeOK ==
  /\ up \in BOOLEAN
  /\ memory \in Valid
  /\ disk \in Redacted \cup {Empty}
  /\ state \in Snapshots
  /\ lockout \in Valid
  /\ open \subseteq Nat
  /\ lock \in SUBSET Admins
  /\ th \in [Admins -> AdminStates]
  /\ rd \in [Readers -> ReaderStates]
  /\ built \in Nat /\ acked \in Nat
  /\ failed \in {"no", "save", "build"}
  /\ faults \in Nat /\ crashes \in Nat

\* When no reload is under way, the configuration in memory is the one the file
\* would give back, but for inline secrets, unless the last save raised; services
\* and lockout come from one configuration, which is the one in memory unless the
\* last reload raised (Container.reload, ConfigManager.save).
QuietAgreement ==
  up /\ lock = {} =>
    /\ failed # "save" => Redact(memory) = Read(disk)
    /\ lockout = state.config
    /\ failed = "no" => state.config = memory

\* The snapshot in place has its client, and when no reload is under way no other
\* client is open: reloads neither leak clients nor close the one in use
\* (Container.reload: release the orphaned httpx client).
ClientsAreReleased ==
  up => /\ state.number \in open
        /\ lock = {} => open = {state.number}

\* A request that arrives after a reload was answered is never served by the policy
\* or the adapter of an older snapshot (dependencies.py: readers see either
\* previous or new_state).
AckedConfigServes ==
  \A r \in Readers : rd[r].at \in {"parsed", "calling"} => rd[r].number >= rd[r].floor

\* A reload replaces what requests read in the ConfigManager, then all services at once,
\* then the lockout, and mixes with no other reload; a request is served by no snapshot
\* older than the last one answered for, and when a reload is answered the three and the
\* file are the configuration submitted.  A reload that raises has replaced the first
\* alone (Container.reload, ConfigManager.save; enforce_public_auth).
CallOf(a) ==
  CASE th[a].at = "idle" -> [at |-> "idle"]
    [] th[a].at = "waiting" -> [at |-> "open", config |-> th[a].config]
    [] th[a].at = "locking_out" -> [at |-> "replaced", config |-> th[a].config]
    [] th[a].at = "closing" -> [at |-> "guarded", config |-> th[a].config]
    [] OTHER -> [at |-> "stored", config |-> th[a].config]
SeenBy(r) ==
  CASE rd[r].at = "idle" -> IdleReader
    [] rd[r].at \in {"arrived", "authorized"} -> [rd[r] EXCEPT !.at = "begun"]
    [] OTHER -> [rd[r] EXCEPT !.at = "served"]
Ordered == INSTANCE OrderedReload WITH
  Configs <- Valid,
  Startable <- {c \in Valid : c.builds},
  Initial <- DefaultConfig,
  Stored <- [c \in Valid |-> Redact(c)],
  Nothing <- Factory,
  Shown <- [c \in Valid |-> c.version],
  settings <- memory,
  serving <- state,
  guard <- lockout,
  file <- Read(disk),
  call <- [a \in Admins |-> CallOf(a)],
  seen <- [r \in Readers |-> SeenBy(r)]
OrderedReplacement == Ordered!Spec

\* Every reload that is submitted ends, by an answer, an exception or the end of the
\* process: no exception keeps the lock (Container.reload: with self._reload_lock).
ReloadsEnd == \A a \in Admins : At(a, "waiting") ~> At(a, "idle")

\* The strengthening behind QuietAgreement and ClientsAreReleased: only the holder of
\* the lock is in a reload, and how far it is says which parts are already new.
Partway ==
  \A a \in Admins :
    InReload(a) =>
      /\ up /\ lock = {a}
      /\ memory = th[a].config
      /\ th[a].at \in {"building", "swapping", "locking_out", "closing"} =>
           disk = Redact(memory)
      /\ th[a].at \in {"truncating", "writing", "building"} =>
           /\ th[a].previous = state.number /\ open = {state.number}
           /\ lockout = state.config
      /\ th[a].at = "swapping" =>
           /\ th[a].previous = state.number /\ lockout = state.config
           /\ th[a].new = built /\ state.number < built
           /\ open = {state.number, built}
      /\ th[a].at \in {"locking_out", "closing"} =>
           /\ state = [number |-> th[a].new, config |-> memory]
           /\ th[a].new = built /\ th[a].previous < built
           /\ open = {th[a].previous, built}
      /\ th[a].at = "closing" => lockout = memory

\* The lock is held by a thread that is in a reload, so that it will be released
\* (Container.reload: with self._reload_lock).
LockIsHeld == lock # {} => \E a \in Admins : lock = {a} /\ InReload(a)

\* A thread of a process that ended has no reload to go on with (Container.reload).
DownIsIdle == ~up => \A a \in Admins : At(a, "idle")

\* Snapshots take the place of older ones only, and what was acknowledged is no
\* newer than the one in place (Container.reload).
Numbering ==
  /\ acked <= state.number /\ state.number <= built
  /\ \A r \in Readers : rd[r].floor <= acked
=============================================================================
