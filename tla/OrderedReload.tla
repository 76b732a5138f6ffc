---------------------------- MODULE OrderedReload ----------------------------
(***************************************************************************)
(* What a call that replaces the configuration promises, with no lock and  *)
(* no HTTP clients.                                                        *)
(*                                                                         *)
(* The configuration is in place three times: the settings that requests   *)
(* read one by one, the services that serve them, and the guard that turns *)
(* clients away.  A call replaces the three in this order, each in one     *)
(* step, and two calls never mix theirs.  Requests see every step of it:   *)
(* the settings of a call before its services, or of a call that is then   *)
(* refused, which replaces nothing else and does not put them back.  When  *)
(* a call is answered the three are what was submitted, and the file too,  *)
(* which is spoilt on the way.                                             *)
(***************************************************************************)
EXTENDS Integers

CONSTANTS
  Admins, Readers,
  Configs,    \* the configurations that may be submitted
  Startable,  \* those that a process can be started from
  Initial,    \* what a restart makes of an empty file
  Stored,     \* configuration -> what is found when it has been written
  Nothing,    \* what a request has read of a configuration before it reads anything
  Shown       \* configuration -> what a request that looks into it reads

VARIABLES
  up,
  settings,   \* the configuration that requests look into
  serving,    \* the number of the configuration the services have, and that configuration
  guard,      \* the configuration the guard has
  file,       \* what a restart would find
  call,       \* admin -> its open call
  acked,      \* number of the last replacement that was answered
  seen        \* reader -> its request: what it is due, what it read, what it was served by

vars == <<up, settings, serving, guard, file, call, acked, seen>>

NoCall == [at |-> "idle"]
NoRequest == [at |-> "idle", floor |-> 0, number |-> 0, saw |-> Nothing]

Init ==
  /\ up = TRUE
  /\ serving.number \in Nat /\ serving.config \in Startable
  /\ settings = serving.config /\ guard = serving.config
  /\ file = Stored[serving.config]
  /\ call = [a \in Admins |-> NoCall]
  /\ acked = serving.number
  /\ seen = [r \in Readers |-> NoRequest]

Advance(a, place) == call' = [call EXCEPT ![a] = [at |-> place, config |-> call[a].config]]

Call(a) ==
  /\ up /\ call[a] = NoCall
  /\ \E c \in Configs : call' = [call EXCEPT ![a] = [at |-> "open", config |-> c]]
  /\ UNCHANGED <<up, settings, serving, guard, file, acked, seen>>

\* The settings come first; until the call is over, no other one gets as far.
Store(a) ==
  /\ call[a].at = "open"
  /\ \A b \in Admins : call[b].at \in {"idle", "open"}
  /\ settings' = call[a].config
  /\ Advance(a, "stored")
  /\ UNCHANGED <<up, serving, guard, file, acked, seen>>

\* The file loses what it held, or holds what is being submitted.
Disturb(a) ==
  /\ call[a].at = "stored"
  /\ file' \in {Initial, Stored[call[a].config]}
  /\ UNCHANGED <<up, settings, serving, guard, call, acked, seen>>

\* All services at once, when the file is written.
Replace(a) ==
  /\ call[a].at = "stored"
  /\ settings = call[a].config /\ file = Stored[call[a].config]
  /\ serving'.number \in Nat /\ serving'.number > serving.number
  /\ serving' = [number |-> serving'.number, config |-> call[a].config]
  /\ Advance(a, "replaced")
  /\ UNCHANGED <<up, settings, guard, file, acked, seen>>

Arm(a) ==
  /\ call[a].at = "replaced"
  /\ guard' = call[a].config
  /\ Advance(a, "guarded")
  /\ UNCHANGED <<up, settings, serving, file, acked, seen>>

\* When the call is answered, what it submitted is in place everywhere and stored.
Acknowledge(a) ==
  /\ call[a].at = "guarded"
  /\ settings = call[a].config /\ serving.config = call[a].config /\ guard = call[a].config
  /\ file = Stored[call[a].config]
  /\ acked' = serving.number
  /\ call' = [call EXCEPT ![a] = NoCall]
  /\ UNCHANGED <<up, settings, serving, guard, file, seen>>

\* A refusal leaves the services and the guard; the settings stay as submitted.
Refuse(a) ==
  /\ call[a].at = "stored"
  /\ call' = [call EXCEPT ![a] = NoCall]
  /\ UNCHANGED <<up, settings, serving, guard, file, acked, seen>>

\* A request comes past the guard, ...
Begin(r) ==
  /\ up /\ seen[r].at = "idle"
  /\ seen' = [seen EXCEPT ![r] =
                [at |-> "begun", floor |-> acked, number |-> 0, saw |-> Shown[guard]]]
  /\ UNCHANGED <<up, settings, serving, guard, file, call, acked>>

\* ... looks into the settings, any number of times, ...
Consult(r) ==
  /\ seen[r].at # "idle"
  /\ seen' = [seen EXCEPT ![r].saw = Shown[settings]]
  /\ UNCHANGED <<up, settings, serving, guard, file, call, acked>>

\* ... and is served, more than once too, by the services in place, which are not older
\* than what it is due.
Look(r) ==
  /\ seen[r].at # "idle"
  /\ serving.number >= seen[r].floor
  /\ seen' = [seen EXCEPT ![r].at = "served", ![r].number = serving.number, ![r].saw = Nothing]
  /\ UNCHANGED <<up, settings, serving, guard, file, call, acked>>

End(r) ==
  /\ seen[r].at = "served"
  /\ seen' = [seen EXCEPT ![r] = NoRequest]
  /\ UNCHANGED <<up, settings, serving, guard, file, call, acked>>

Crash ==
  /\ up
  /\ up' = FALSE
  /\ call' = [a \in Admins |-> NoCall]
  /\ seen' = [r \in Readers |-> NoRequest]
  /\ UNCHANGED <<settings, serving, guard, file, acked>>

\* A process starts from what it finds, or not at all.
Restart ==
  /\ ~up
  /\ file \in Startable
  /\ up' = TRUE
  /\ serving'.number \in Nat /\ serving'.number > serving.number
  /\ serving' = [number |-> serving'.number, config |-> file]
  /\ settings' = file /\ guard' = file
  /\ UNCHANGED <<file, call, acked, seen>>

Next ==
  \/ \E a \in Admins :
       Call(a) \/ Store(a) \/ Disturb(a) \/ Replace(a) \/ Arm(a) \/ Acknowledge(a) \/ Refuse(a)
  \/ \E r \in Readers : Begin(r) \/ Consult(r) \/ Look(r) \/ End(r)
  \/ Crash
  \/ Restart

Spec == Init /\ [][Next]_vars
=============================================================================
