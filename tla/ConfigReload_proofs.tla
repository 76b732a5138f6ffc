------------------------- MODULE ConfigReload_proofs --------------------------
(***************************************************************************)
(* Theorems about ConfigReload for any configurations, threads and bounds. *)
(***************************************************************************)
EXTENDS ConfigReload, TLAPS

-----------------------------------------------------------------------------
(* Configurations *)

\* What ConfigManager.redact makes of a valid configuration can be written, and is
\* not an empty file.
LEMMA RedactType ==
  ASSUME NEW c \in Valid
  PROVE  Redact(c) \in Redacted /\ Redact(c) # Empty
BY FactoryAssumption DEF Redact, Redacted, Valid, Configs, Credentials, Empty

\* Redacting what was read from the file changes nothing.
LEMMA ReadIsRedacted ==
  ASSUME NEW file \in Redacted \cup {Empty}
  PROVE  Redact(Read(file)) = Read(file)
BY DEF Redact, Read, Redacted, DefaultConfig

LEMMA RedactedIsRead ==
  ASSUME NEW c \in Valid
  PROVE  Read(Redact(c)) = Redact(c)
BY RedactType DEF Read

LEMMA DefaultIsValid == DefaultConfig \in Valid
BY FactoryAssumption DEF DefaultConfig, Valid, Configs, Credentials

LEMMA EditedIsValid ==
  ASSUME NEW c \in Valid, NEW v \in Versions, NEW b \in BOOLEAN
  PROVE  [c EXCEPT !.version = v, !.builds = b] \in Valid
BY DEF Valid, Configs

LEMMA IdleTypes == IdleAdmin \in AdminStates /\ IdleReader \in ReaderStates
BY DefaultIsValid, FactoryAssumption
   DEF IdleAdmin, IdleReader, AdminStates, ReaderStates, Places

-----------------------------------------------------------------------------
(* Type correctness *)

LEMMA InitTypeOK == Init => TypeOK
<1> SUFFICES ASSUME Init PROVE TypeOK
  OBVIOUS
<1>1. memory \in Valid /\ memory \in Redacted
  BY DEF Init, Valid, Redacted
<1> QED BY <1>1, IdleTypes DEF Init, TypeOK, Snapshots

\* The types of the steps of one reload.
LEMMA ReloadTypeOK ==
  ASSUME TypeOK, NEW a \in Admins, Reload(a) \/ SaveRaises(a)
  PROVE  TypeOK'
<1> USE DEF TypeOK
<1>1. th[a] \in AdminStates /\ th[a].config \in Valid /\ th[a].new \in Nat
  BY DEF AdminStates
<1>2. state.number \in Nat /\ state.config \in Valid
  BY DEF Snapshots
<1>3. CASE Begin(a)
  <2>1. [th[a] EXCEPT !.at = "truncating", !.previous = state.number] \in AdminStates
    BY <1>1, <1>2 DEF AdminStates, Places
  <2>2. th' = [th EXCEPT ![a] = [th[a] EXCEPT !.at = "truncating", !.previous = state.number]]
    BY <1>3 DEF Begin
  <2> QED BY <1>1, <1>3, <2>1, <2>2 DEF Begin
<1>4. CASE Truncate(a)
  BY <1>1, <1>4 DEF Truncate, Go, AdminStates, Places
<1>5. CASE Write(a)
  BY <1>1, <1>5, RedactType DEF Write, Go, AdminStates, Places
<1>6. CASE SaveRaises(a)
  BY <1>6, IdleTypes DEF SaveRaises, Raise
<1>7. CASE Build(a)
  <2> DEFINE after == [th[a] EXCEPT !.at = "swapping", !.config = memory, !.new = built + 1]
  <2>0. built + 1 \in Nat /\ memory \in Valid
    OBVIOUS
  <2>1. after \in AdminStates
    BY ONLY <1>1, <2>0 DEF AdminStates, Places
  <2>2. th' = [th EXCEPT ![a] = after]
    BY <1>7 DEF Build
  <2> HIDE DEF after
  <2>3. th' \in [Admins -> AdminStates]
    BY <2>1, <2>2
  <2>4. built' \in Nat /\ open' \subseteq Nat
    BY <1>7, <2>0 DEF Build
  <2> QED BY <1>7, <2>3, <2>4 DEF Build
<1>8. CASE BuildRaises(a)
  BY <1>8, IdleTypes DEF BuildRaises, Raise
<1>9. CASE Swap(a)
  <2>1. state' \in Snapshots
    BY <1>1, <1>9 DEF Swap, Snapshots
  <2> QED BY <1>1, <1>9, <2>1 DEF Swap, Go, AdminStates, Places
<1>10. CASE SwapLockout(a)
  BY <1>1, <1>10 DEF SwapLockout, Go, AdminStates, Places
<1>11. CASE CloseOld(a)
  BY <1>1, <1>11, IdleTypes DEF CloseOld
<1> QED BY <1>3, <1>4, <1>5, <1>6, <1>7, <1>8, <1>9, <1>10, <1>11 DEF Reload

LEMMA NextTypeOK == TypeOK /\ [Next]_vars => TypeOK'
<1> SUFFICES ASSUME TypeOK, [Next]_vars PROVE TypeOK'
  OBVIOUS
<1> USE DEF TypeOK
<1>1. ASSUME NEW a \in Admins, Submit(a) PROVE TypeOK'
  <2>1. PICK c \in Valid :
          th' = [th EXCEPT ![a] = [IdleAdmin EXCEPT !.at = "waiting", !.config = c]]
    BY <1>1, SubmittedAssumption DEF Submit
  <2>2. [IdleAdmin EXCEPT !.at = "waiting", !.config = c] \in AdminStates
    BY IdleTypes DEF AdminStates, Places
  <2> QED BY <1>1, <2>1, <2>2 DEF Submit
<1>2. ASSUME NEW a \in Admins, Reload(a) \/ SaveRaises(a) PROVE TypeOK'
  BY <1>2, ReloadTypeOK
<1>3. ASSUME NEW a \in UiThreads, Edit(a) PROVE TypeOK'
  <2>1. PICK v \in Versions, b \in BOOLEAN :
          th' = [th EXCEPT ![a] = [IdleAdmin EXCEPT !.at = "waiting",
                   !.config = [memory EXCEPT !.version = v, !.builds = b]]]
    BY <1>3 DEF Edit
  <2>2. [IdleAdmin EXCEPT !.at = "waiting",
           !.config = [memory EXCEPT !.version = v, !.builds = b]] \in AdminStates
    BY IdleTypes, EditedIsValid DEF AdminStates, Places
  <2> QED BY <1>3, <2>1, <2>2 DEF Edit
<1>4. ASSUME NEW r \in Readers, Request(r) PROVE TypeOK'
  <2>1. /\ state.number \in Nat /\ rd[r] \in ReaderStates /\ acked \in Nat
        /\ memory.version \in Versions /\ lockout.version \in Versions /\ Factory \in Versions
    BY FactoryAssumption DEF Snapshots, Valid, Configs
  <2>2. CASE Arrive(r)
    <3>1. [IdleReader EXCEPT !.at = "arrived", !.floor = acked, !.saw = lockout.version]
            \in ReaderStates
      BY <2>1, IdleTypes DEF ReaderStates
    <3> QED BY <2>2, <3>1 DEF Arrive
  <2>3. CASE TakeMode(r)
    BY <2>1, <2>3 DEF TakeMode, ReaderStates
  <2>4. CASE TakePolicy(r)
    BY <2>1, <2>4 DEF TakePolicy, ReaderStates
  <2>5. CASE TakeCaching(r)
    BY <2>1, <2>5 DEF TakeCaching, ReaderStates
  <2>6. CASE TakeAdapter(r)
    BY <2>1, <2>6 DEF TakeAdapter, ReaderStates
  <2>7. CASE Answer(r)
    BY <2>7, IdleTypes DEF Answer
  <2> QED BY <1>4, <2>2, <2>3, <2>4, <2>5, <2>6, <2>7 DEF Request
<1>5. CASE Crash
  <2>1. th' \in [Admins -> AdminStates] /\ rd' \in [Readers -> ReaderStates]
    BY <1>5, IdleTypes DEF Crash
  <2>2. up' = FALSE /\ open' = {} /\ lock' = {} /\ crashes' \in Nat
    BY <1>5 DEF Crash
  <2> QED BY <1>5, <2>1, <2>2 DEF Crash
<1>6. CASE Start
  <2>1. state' \in Snapshots
    BY <1>6 DEF Start, Snapshots
  <2> QED BY <1>6, <2>1 DEF Start
<1>7. CASE UNCHANGED vars
  BY <1>7 DEF vars
<1> QED BY <1>1, <1>2, <1>3, <1>4, <1>5, <1>6, <1>7 DEF Next

\* The variables keep their types, and no inline secret is written to egg.yaml
\* (ConfigManager.save and redact).
THEOREM TypeCorrect == Spec => []TypeOK
BY InitTypeOK, NextTypeOK, PTL DEF Spec

-----------------------------------------------------------------------------
(* One reload at a time *)

Safe == DownIsIdle /\ Partway /\ LockIsHeld /\ QuietAgreement /\ ClientsAreReleased

\* Under the lock, there is no second reload.
LEMMA OnlyHolder ==
  ASSUME Partway, NEW a \in Admins, InReload(a), NEW b \in Admins, InReload(b)
  PROVE  b = a
BY DEF Partway

LEMMA FreeMeansNone ==
  ASSUME Partway, lock = {}, NEW a \in Admins
  PROVE  ~InReload(a)
BY DEF Partway

LEMMA InitSafe == Init => Safe
<1> SUFFICES ASSUME Init PROVE Safe
  OBVIOUS
<1>1. memory \in Valid /\ Redact(memory) = memory /\ disk = memory
  BY DEF Init, Redact
<1>2. Redact(memory) = Read(disk)
  BY <1>1, RedactedIsRead
<1>3. \A a \in Admins : th[a].at = "idle"
  BY DEF Init, IdleAdmin
<1> QED BY <1>2, <1>3 DEF Init, Safe, DownIsIdle, Partway, LockIsHeld, QuietAgreement,
              ClientsAreReleased, InReload, At

\* A step that moves no thread into, within or out of a reload, and leaves the
\* configuration and the services alone, keeps what a reload relies on.
LEMMA OutsideReload ==
  ASSUME Safe,
         UNCHANGED <<up, memory, disk, state, lockout, open, lock, built, failed>>,
         \A b \in Admins : InReload(b) \/ InReload(b)' => th'[b] = th[b],
         up \/ th' = th
  PROVE  Safe'
<1>1. DownIsIdle'
  BY DEF Safe, DownIsIdle, At
<1>a. \A b \in Admins : InReload(b)' <=> InReload(b)
  BY DEF InReload
<1>2. Partway' /\ LockIsHeld'
  BY <1>a DEF Safe, Partway, LockIsHeld
<1>3. QuietAgreement' /\ ClientsAreReleased'
  BY DEF Safe, QuietAgreement, ClientsAreReleased
<1> QED BY <1>1, <1>2, <1>3 DEF Safe

\* A step of the reload of a that keeps the lock, given what it makes of a's part of
\* Partway.
LEMMA WithinReload ==
  ASSUME Safe, NEW a \in Admins, lock' = {a}, up' = up,
         \A b \in Admins : b # a => th'[b] = th[b] /\ ~InReload(b),
         InReload(a)', up,
         state'.number \in open',
         Partway'
  PROVE  Safe'
<1>1. DownIsIdle' /\ LockIsHeld'
  BY DEF DownIsIdle, LockIsHeld
<1>2. QuietAgreement' /\ ClientsAreReleased'
  BY DEF QuietAgreement, ClientsAreReleased
<1> QED BY <1>1, <1>2 DEF Safe

\* The steps of a reload, from taking the lock to giving it back.
LEMMA ReloadSafe ==
  ASSUME TypeOK, Numbering, Safe, NEW a \in Admins, Reload(a) \/ SaveRaises(a)
  PROVE  Safe'
<1>1. th[a] \in AdminStates /\ th \in [Admins -> AdminStates] /\ memory \in Valid
      /\ state \in Snapshots /\ built \in Nat
  BY DEF TypeOK
<1>2. DownIsIdle /\ Partway /\ LockIsHeld /\ QuietAgreement /\ ClientsAreReleased
  BY DEF Safe
<1>3. up
  BY <1>2 DEF DownIsIdle, Reload, SaveRaises, Begin, Truncate, Write, Build, BuildRaises,
         Swap, SwapLockout, CloseOld, At
<1>4. \A b \in Admins : b # a => ~InReload(b)
  BY <1>2, OnlyHolder, FreeMeansNone DEF Reload, SaveRaises, Begin, Truncate, Write, Build,
         BuildRaises, Swap, SwapLockout, CloseOld, At, InReload
<1>5. \A b \in Admins : b # a => th'[b] = th[b]
  BY <1>1 DEF Reload, SaveRaises, Begin, Truncate, Write, Build,
         BuildRaises, Swap, SwapLockout, CloseOld, Go, Raise
<1>6. \A b \in Admins : InReload(b)' => b = a
  BY <1>4, <1>5 DEF InReload
<1>7. CASE Begin(a)
  <2>1. th'[a].at = "truncating" /\ th'[a].previous = state.number
        /\ th'[a].config = th[a].config
    BY <1>1, <1>7 DEF Begin, AdminStates
  <2>2. open = {state.number} /\ lockout = state.config
    BY <1>2, <1>3, <1>7 DEF Begin, QuietAgreement, ClientsAreReleased
  <2>3. Partway'
    BY <1>3, <1>6, <1>7, <2>1, <2>2 DEF Begin, Partway
  <2> QED BY <1>3, <1>4, <1>5, <1>7, <2>1, <2>2, <2>3, WithinReload DEF Begin, InReload
<1>8. CASE Truncate(a) \/ Write(a)
  <2>1. \/ At(a, "truncating") /\ th'[a].at = "writing"
        \/ At(a, "writing") /\ th'[a].at = "building" /\ disk' = Redact(th[a].config)
    <3>1. CASE Truncate(a)
      <4>1. th'[a].at = "writing"
        BY <1>1, <3>1 DEF Truncate, Go, AdminStates
      <4> QED BY <3>1, <4>1 DEF Truncate
    <3>2. CASE Write(a)
      <4>1. th'[a].at = "building"
        BY <1>1, <3>2 DEF Write, Go, AdminStates
      <4> QED BY <3>2, <4>1 DEF Write, At
    <3> QED BY <1>8, <3>1, <3>2
  <2>2. th'[a].config = th[a].config /\ th'[a].previous = th[a].previous
    BY <1>1, <1>8 DEF Truncate, Write, Go, AdminStates
  <2>3. lock = {a} /\ memory = th[a].config /\ th[a].previous = state.number
        /\ open = {state.number} /\ lockout = state.config
    BY <1>2, <2>1 DEF Partway, InReload, At
  <2>4. UNCHANGED <<up, memory, state, lockout, open, lock>>
    BY <1>8 DEF Truncate, Write
  <2>5. Partway'
    BY <1>3, <1>6, <2>1, <2>2, <2>3, <2>4 DEF Partway
  <2> QED BY <1>3, <1>4, <1>5, <2>1, <2>3, <2>4, <2>5, WithinReload DEF InReload
<1>9. CASE Build(a)
  <2>1. th'[a].at = "swapping" /\ th'[a].config = memory /\ th'[a].new = built + 1
        /\ th'[a].previous = th[a].previous
    BY <1>1, <1>9 DEF Build, AdminStates
  <2>2. lock = {a} /\ disk = Redact(memory) /\ th[a].previous = state.number
        /\ open = {state.number} /\ lockout = state.config
    BY <1>2, <1>9 DEF Build, Partway, InReload, At
  <2>3. open' = {state.number, built + 1} /\ built' = built + 1
    BY <1>9, <2>2 DEF Build
  <2>4. state.number < built + 1
    BY <1>1 DEF Numbering, Snapshots
  <2>5. Partway'
    BY <1>3, <1>6, <1>9, <2>1, <2>2, <2>3, <2>4 DEF Build, Partway
  <2> QED BY <1>3, <1>4, <1>5, <1>9, <2>1, <2>2, <2>3, <2>5, WithinReload DEF Build, InReload
<1>10. CASE Swap(a)
  <2>1. th'[a].at = "locking_out" /\ th'[a].config = th[a].config /\ th'[a].new = th[a].new
        /\ th'[a].previous = th[a].previous
    BY <1>1, <1>10 DEF Swap, Go, AdminStates
  <2>2. lock = {a} /\ memory = th[a].config /\ disk = Redact(memory)
        /\ th[a].previous = state.number /\ th[a].new = built /\ state.number < built
        /\ open = {state.number, built}
    BY <1>2, <1>10 DEF Swap, Partway, InReload, At
  <2>3. state' = [number |-> built, config |-> memory]
    BY <1>10, <2>2 DEF Swap
  <2>4. Partway'
    BY <1>3, <1>6, <1>10, <2>1, <2>2, <2>3 DEF Swap, Partway
  <2> QED BY <1>3, <1>4, <1>5, <1>10, <2>1, <2>2, <2>3, <2>4, WithinReload DEF Swap, InReload
<1>11. CASE SwapLockout(a)
  <2>1. th'[a].at = "closing" /\ th'[a].config = th[a].config /\ th'[a].new = th[a].new
        /\ th'[a].previous = th[a].previous
    BY <1>1, <1>11 DEF SwapLockout, Go, AdminStates
  <2>2. lock = {a} /\ memory = th[a].config /\ disk = Redact(memory)
        /\ state = [number |-> th[a].new, config |-> memory]
        /\ th[a].new = built /\ th[a].previous < built /\ open = {th[a].previous, built}
    BY <1>2, <1>11 DEF SwapLockout, Partway, InReload, At
  <2>3. Partway'
    BY <1>3, <1>6, <1>11, <2>1, <2>2 DEF SwapLockout, Partway
  <2> QED BY <1>3, <1>4, <1>5, <1>11, <2>1, <2>2, <2>3, WithinReload DEF SwapLockout, InReload
<1>12. ASSUME lock' = {}, th' = [th EXCEPT ![a] = IdleAdmin], up' = up,
              QuietAgreement', ClientsAreReleased'
       PROVE  Safe'
  <2>1. \A b \in Admins : ~InReload(b)'
    BY <1>1, <1>4, <1>12 DEF InReload, IdleAdmin
  <2> QED BY <1>3, <1>12, <2>1 DEF Safe, DownIsIdle, Partway, LockIsHeld
<1>13. CASE CloseOld(a)
  <2>1. memory = th[a].config /\ disk = Redact(memory) /\ lockout = memory
        /\ state = [number |-> th[a].new, config |-> memory]
        /\ th[a].new = built /\ th[a].previous < built /\ open = {th[a].previous, built}
    BY <1>2, <1>13 DEF CloseOld, Partway, InReload, At
  <2>2. Redact(memory) = Read(disk)
    BY <1>1, <2>1, RedactedIsRead
  <2>3. open' = {built}
    BY <1>1, <1>13, <2>1 DEF CloseOld, AdminStates
  <2>4. QuietAgreement' /\ ClientsAreReleased'
    BY <1>13, <2>1, <2>2, <2>3 DEF CloseOld, QuietAgreement, ClientsAreReleased
  <2> QED BY <1>12, <1>13, <2>4 DEF CloseOld
<1>14. CASE SaveRaises(a)
  <2>1. open = {state.number} /\ lockout = state.config
    BY <1>2, <1>14 DEF SaveRaises, Partway, InReload, At
  <2>2. QuietAgreement' /\ ClientsAreReleased'
    BY <1>14, <2>1 DEF SaveRaises, Raise, QuietAgreement, ClientsAreReleased
  <2> QED BY <1>12, <1>14, <2>2 DEF SaveRaises, Raise
<1>15. CASE BuildRaises(a)
  <2>1. open = {state.number} /\ lockout = state.config /\ disk = Redact(memory)
    BY <1>2, <1>15 DEF BuildRaises, Partway, InReload, At
  <2>2. Redact(memory) = Read(disk)
    BY <1>1, <2>1, RedactedIsRead
  <2>3. QuietAgreement' /\ ClientsAreReleased'
    BY <1>15, <2>1, <2>2 DEF BuildRaises, Raise, QuietAgreement, ClientsAreReleased
  <2> QED BY <1>12, <1>15, <2>3 DEF BuildRaises, Raise
<1> QED BY <1>7, <1>8, <1>9, <1>10, <1>11, <1>13, <1>14, <1>15 DEF Reload

LEMMA NextSafe == TypeOK /\ Numbering /\ Safe /\ [Next]_vars => Safe'
<1> SUFFICES ASSUME TypeOK, Numbering, Safe, [Next]_vars PROVE Safe'
  OBVIOUS
<1>1. th \in [Admins -> AdminStates] /\ disk \in Redacted \cup {Empty}
  BY DEF TypeOK
<1>2. ASSUME NEW a \in Admins, Submit(a) \/ (a \in UiThreads /\ Edit(a)) PROVE Safe'
  <2>1. /\ th[a].at = "idle" /\ th'[a].at = "waiting" /\ up
        /\ \A b \in Admins : b # a => th'[b] = th[b]
    BY <1>1, <1>2, IdleTypes DEF Submit, Edit, At, AdminStates
  <2>2. \A b \in Admins : InReload(b) \/ InReload(b)' => th'[b] = th[b]
    BY <2>1 DEF InReload
  <2>3. UNCHANGED <<up, memory, disk, state, lockout, open, lock, built, failed>>
    BY <1>2 DEF Submit, Edit
  <2> QED BY <2>1, <2>2, <2>3, OutsideReload
<1>3. ASSUME NEW a \in Admins, Reload(a) \/ SaveRaises(a) PROVE Safe'
  BY <1>3, ReloadSafe
<1>4. ASSUME NEW r \in Readers, Request(r) PROVE Safe'
  <2>1. UNCHANGED <<up, memory, disk, state, lockout, open, lock, th, built, failed>>
    BY <1>4 DEF Request, Arrive, TakeMode, TakePolicy, TakeCaching, TakeAdapter, Answer
  <2> QED BY <2>1, OutsideReload
<1>5. CASE Crash
  <2>1. ~up' /\ lock' = {} /\ \A b \in Admins : th'[b].at = "idle"
    BY <1>5 DEF Crash, IdleAdmin
  <2> QED BY <2>1 DEF Safe, DownIsIdle, Partway, LockIsHeld, QuietAgreement,
              ClientsAreReleased, InReload, At
<1>6. CASE Start
  <2>1. lock = {} /\ \A b \in Admins : th[b].at = "idle"
    BY <1>6 DEF Start, Safe, DownIsIdle, LockIsHeld, InReload, At
  <2>2. Redact(Read(disk)) = Read(disk)
    BY <1>1, ReadIsRedacted
  <2> QED BY <1>6, <2>1, <2>2 DEF Start, Safe, DownIsIdle, Partway, LockIsHeld,
              QuietAgreement, ClientsAreReleased, InReload, At
<1>7. CASE UNCHANGED vars
  BY <1>7, OutsideReload DEF vars
<1> QED BY <1>2, <1>3, <1>4, <1>5, <1>6, <1>7 DEF Next, Admins

-----------------------------------------------------------------------------
(* Snapshots *)

LEMMA InitNumbering == Init => Numbering /\ AckedConfigServes
BY DEF Init, Numbering, AckedConfigServes, IdleReader

LEMMA NextNumbering ==
  TypeOK /\ Partway /\ Numbering /\ AckedConfigServes /\ [Next]_vars
    => Numbering' /\ AckedConfigServes'
<1> SUFFICES ASSUME TypeOK, Partway, Numbering, AckedConfigServes, [Next]_vars
             PROVE  Numbering' /\ AckedConfigServes'
  OBVIOUS
<1>1. state.number \in Nat /\ built \in Nat /\ acked \in Nat
      /\ rd \in [Readers -> ReaderStates]
  BY DEF TypeOK, Snapshots
<1>2. \A r \in Readers : rd[r].floor \in Nat /\ rd[r].number \in Nat
  BY <1>1 DEF ReaderStates
<1>3. ASSUME UNCHANGED rd, acked' \in Nat, acked <= acked',
             acked' <= state'.number, state'.number <= built'
      PROVE  Numbering' /\ AckedConfigServes'
  BY <1>1, <1>2, <1>3 DEF Numbering, AckedConfigServes
<1>4. ASSUME UNCHANGED <<rd, acked, state, built>>
      PROVE  Numbering' /\ AckedConfigServes'
  BY <1>4 DEF Numbering, AckedConfigServes
<1>5. ASSUME NEW a \in Admins, Submit(a) \/ (a \in UiThreads /\ Edit(a))
      PROVE  Numbering' /\ AckedConfigServes'
  BY <1>4, <1>5 DEF Submit, Edit
<1>6. ASSUME NEW a \in Admins, Reload(a) \/ SaveRaises(a)
      PROVE  Numbering' /\ AckedConfigServes'
  <2>1. CASE Build(a)
    BY <1>1, <1>3, <2>1 DEF Build, Numbering
  <2>2. CASE Swap(a)
    <3>1. th[a].new = built /\ state.number < built
      BY <2>2 DEF Swap, At, Partway, InReload
    <3> QED BY <1>1, <1>3, <2>2, <3>1 DEF Swap, Numbering
  <2>3. CASE CloseOld(a)
    <3>1. th[a].new = state.number
      BY <2>3 DEF CloseOld, At, Partway, InReload
    <3> QED BY <1>1, <1>3, <2>3, <3>1 DEF CloseOld, Numbering
  <2>4. CASE Begin(a) \/ Truncate(a) \/ Write(a) \/ BuildRaises(a) \/ SwapLockout(a)
             \/ SaveRaises(a)
    BY <1>4, <2>4 DEF Begin, Truncate, Write, BuildRaises, SwapLockout, SaveRaises
  <2> QED BY <1>6, <2>1, <2>2, <2>3, <2>4 DEF Reload
<1>7. ASSUME NEW r \in Readers, Request(r) PROVE Numbering' /\ AckedConfigServes'
  <2>1. UNCHANGED <<acked, state, built>> /\ (\A q \in Readers : q # r => rd'[q] = rd[q])
    BY <1>1, <1>7 DEF Request, Arrive, TakeMode, TakePolicy, TakeCaching, TakeAdapter, Answer
  <2>2. rd'[r].floor <= acked
        /\ (rd'[r].at \in {"parsed", "calling"} => rd'[r].number >= rd'[r].floor)
    <3>1. CASE Arrive(r)
      BY <1>1, <3>1 DEF Arrive, IdleReader
    <3>2. CASE TakePolicy(r)
      BY <1>1, <1>2, <3>2 DEF TakePolicy, Numbering, ReaderStates
    <3>3. CASE TakeAdapter(r)
      BY <1>1, <1>2, <3>3 DEF TakeAdapter, Numbering, ReaderStates
    <3>4. CASE TakeMode(r)
      BY <1>1, <3>4 DEF TakeMode, Numbering, ReaderStates
    <3>5. CASE TakeCaching(r)
      BY <1>1, <3>5 DEF TakeCaching, Numbering, AckedConfigServes, ReaderStates
    <3>6. CASE Answer(r)
      BY <1>1, <3>6 DEF Answer, IdleReader
    <3> QED BY <1>7, <3>1, <3>2, <3>3, <3>4, <3>5, <3>6 DEF Request
  <2> QED BY <2>1, <2>2 DEF Numbering, AckedConfigServes
<1>8. CASE Crash
  BY <1>1, <1>8 DEF Crash, IdleReader, Numbering, AckedConfigServes
<1>9. CASE Start
  BY <1>1, <1>3, <1>9 DEF Start, Numbering
<1>10. CASE UNCHANGED vars
  BY <1>4, <1>10 DEF vars
<1> QED BY <1>5, <1>6, <1>7, <1>8, <1>9, <1>10 DEF Next, Admins

-----------------------------------------------------------------------------
(* The theorems *)

LEMMA Invariants == Spec => [](TypeOK /\ Safe /\ Numbering /\ AckedConfigServes)
<1>1. Init => TypeOK /\ Safe /\ Numbering /\ AckedConfigServes
  BY InitTypeOK, InitSafe, InitNumbering
<1>2. /\ TypeOK /\ Safe /\ Numbering /\ AckedConfigServes
      /\ [Next]_vars
      => (TypeOK /\ Safe /\ Numbering /\ AckedConfigServes)'
  BY NextTypeOK, NextSafe, NextNumbering DEF Safe
<1> QED BY <1>1, <1>2, PTL DEF Spec

\* A reload that got somewhere holds the lock alone, and what it has replaced so far
\* is exactly what its place says (Container.reload).
THEOREM ReloadsAreAlone == Spec => []Partway
BY Invariants, PTL DEF Safe

\* Between reloads, what runs, what is in memory and what egg.yaml holds agree, as
\* far as the last reload went (Container.reload, ConfigManager.save).
THEOREM QuietConfigurationsAgree == Spec => []QuietAgreement
BY Invariants, PTL DEF Safe

\* The snapshot in place has its HTTP client, and between reloads no other client is
\* open (Container.reload).
THEOREM ClientsAreNotLeaked == Spec => []ClientsAreReleased
BY Invariants, PTL DEF Safe

\* A request that begins after a reload was answered is not served by an older
\* snapshot (ContainerState, Container.reload).
THEOREM AckedReloadsServe == Spec => []AckedConfigServes
BY Invariants, PTL

-----------------------------------------------------------------------------
(* The reload implements an ordered replacement *)

Calls == [a \in Admins |-> CallOf(a)]
Seen == [r \in Readers |-> SeenBy(r)]

\* A step of one thread changes at most its own call, ...
LEMMA OneCall ==
  ASSUME NEW a \in Admins, \A b \in Admins : b # a => th'[b] = th[b]
  PROVE  Calls' = [Calls EXCEPT ![a] = CallOf(a)']
BY DEF Calls, CallOf

\* ... and the step of one reader its own request.
LEMMA OneReader ==
  ASSUME NEW r \in Readers, \A q \in Readers : q # r => rd'[q] = rd[q]
  PROVE  Seen' = [Seen EXCEPT ![r] = SeenBy(r)']
BY DEF Seen, SeenBy

LEMMA SameCalls ==
  ASSUME NEW a \in Admins, \A b \in Admins : b # a => th'[b] = th[b],
         CallOf(a)' = CallOf(a)
  PROVE  Calls' = Calls
BY DEF Calls, CallOf

LEMMA SameThreads == th' = th => Calls' = Calls
BY DEF Calls, CallOf

LEMMA SameReaders == rd' = rd => Seen' = Seen
BY DEF Seen, SeenBy

\* The place of a thread gives that of its call.
LEMMA CallPlaces ==
  ASSUME NEW a \in Admins
  PROVE  /\ th[a].at = "waiting" => CallOf(a) = [at |-> "open", config |-> th[a].config]
         /\ th[a].at \in {"truncating", "writing", "building", "swapping"} =>
              CallOf(a) = [at |-> "stored", config |-> th[a].config]
         /\ th[a].at = "locking_out" => CallOf(a) = [at |-> "replaced", config |-> th[a].config]
         /\ th[a].at = "closing" => CallOf(a) = [at |-> "guarded", config |-> th[a].config]
         /\ th[a].at = "idle" => CallOf(a) = [at |-> "idle"]
BY DEF CallOf

LEMMA NextCallPlaces ==
  ASSUME NEW a \in Admins
  PROVE  /\ th'[a].at \in {"truncating", "writing", "building", "swapping"} =>
              CallOf(a)' = [at |-> "stored", config |-> th'[a].config]
         /\ th'[a].at = "locking_out" =>
              CallOf(a)' = [at |-> "replaced", config |-> th'[a].config]
         /\ th'[a].at = "closing" => CallOf(a)' = [at |-> "guarded", config |-> th'[a].config]
         /\ th'[a].at = "idle" => CallOf(a)' = [at |-> "idle"]
BY DEF CallOf

\* The steps of a reload: taking the lock stores, the file is disturbed, Swap and
\* SwapLockout replace the rest, CloseOld answers, an exception refuses, and Build is not
\* seen from outside.
LEMMA ReloadRefines ==
  ASSUME TypeOK, Numbering, Safe, NEW a \in Admins, Reload(a) \/ SaveRaises(a)
  PROVE  Ordered!Next \/ UNCHANGED Ordered!vars
<1>1. th \in [Admins -> AdminStates] /\ th[a].config \in Valid /\ th[a].new \in Nat
      /\ memory \in Valid /\ state.number \in Nat
  BY DEF TypeOK, AdminStates, Snapshots
<1>2. Partway
  BY DEF Safe
<1>3. \A b \in Admins : b # a => th'[b] = th[b]
  BY <1>1 DEF Reload, SaveRaises, Begin, Truncate, Write, Build,
         BuildRaises, Swap, SwapLockout, CloseOld, Go, Raise
<1>4. Calls' = [Calls EXCEPT ![a] = CallOf(a)'] /\ Calls[a] = CallOf(a)
  BY <1>3, OneCall DEF Calls
<1>5. up' = up /\ Seen' = Seen
  BY SameReaders DEF Reload, SaveRaises, Begin, Truncate, Write, Build,
         BuildRaises, Swap, SwapLockout, CloseOld, Raise
<1>6. CASE Begin(a)
  <2>1. /\ th[a].at = "waiting" /\ th'[a].at = "truncating" /\ th'[a].config = th[a].config
        /\ memory' = th[a].config /\ UNCHANGED <<disk, state, lockout, acked>>
    BY <1>1, <1>6 DEF Begin, At, AdminStates
  <2>2. /\ Calls[a] = [at |-> "open", config |-> th[a].config]
        /\ Calls' = [Calls EXCEPT ![a] = [at |-> "stored", config |-> th[a].config]]
    BY <1>4, <2>1, CallPlaces, NextCallPlaces
  <2>3. ASSUME NEW b \in Admins PROVE Calls[b].at \in {"idle", "open"}
    <3>1. th[b].at \in {"idle", "waiting"}
      BY <1>2, <1>6, FreeMeansNone DEF Begin, InReload
    <3> QED BY <3>1, CallPlaces DEF Calls
  <2>4. Read(disk)' = Read(disk)
    BY <2>1 DEF Read
  <2>5. Calls[a].at = "open" /\ Calls[a].config = th[a].config
    BY <2>2
  <2>6. /\ memory' = Calls[a].config
        /\ Calls' = [Calls EXCEPT ![a] = [at |-> "stored", config |-> Calls[a].config]]
    BY ONLY <2>1, <2>2, <2>5
  <2>7. UNCHANGED <<up, state, lockout, Read(disk), acked, Seen>>
    BY <1>5, <2>1, <2>4
  <2>8. Ordered!Store(a)
    BY ONLY <2>3, <2>5, <2>6, <2>7 DEF Ordered!Store, Ordered!Advance, Calls, Seen
  <2> QED BY <2>8 DEF Ordered!Next
<1>7. CASE Truncate(a) \/ Write(a)
  <2>1. /\ th[a].at \in {"truncating", "writing"} /\ th'[a].at \in {"writing", "building"}
        /\ th'[a].config = th[a].config
    <3>1. CASE Truncate(a)
      BY <1>1, <3>1 DEF Truncate, At, Go, AdminStates
    <3>2. CASE Write(a)
      BY <1>1, <3>2 DEF Write, At, Go, AdminStates
    <3> QED BY <1>7, <3>1, <3>2
  <2>2. CallOf(a) = [at |-> "stored", config |-> th[a].config] /\ CallOf(a)' = CallOf(a)
    BY <2>1, CallPlaces, NextCallPlaces
  <2>3. Calls' = Calls /\ Calls[a] = [at |-> "stored", config |-> th[a].config]
    BY <1>3, <1>4, <2>2, SameCalls
  <2>4. Read(disk)' \in {DefaultConfig, Redact(th[a].config)}
    <3>1. CASE Truncate(a)
      BY <3>1 DEF Truncate, Read
    <3>2. CASE Write(a)
      <4>1. Read(disk)' = Read(Redact(th[a].config))
        BY <3>2 DEF Write, Read
      <4> QED BY <1>1, <4>1, RedactedIsRead
    <3> QED BY <1>7, <3>1, <3>2
  <2>5. [c \in Valid |-> Redact(c)][th[a].config] = Redact(th[a].config)
    BY <1>1
  <2>6. UNCHANGED <<memory, state, lockout, acked>>
    BY <1>7 DEF Truncate, Write
  <2>7. Ordered!Disturb(a)
    BY <1>5, <2>3, <2>4, <2>5, <2>6 DEF Ordered!Disturb, Calls, Seen
  <2> QED BY <2>7 DEF Ordered!Next
<1>8. CASE Build(a)
  <2>1. th[a].at = "building" /\ memory = th[a].config
    BY <1>2, <1>8 DEF Build, At, Partway, InReload
  <2>2. th'[a].at = "swapping" /\ th'[a].config = memory
    BY <1>1, <1>8 DEF Build, AdminStates
  <2>3. CallOf(a)' = CallOf(a)
    BY <2>1, <2>2, CallPlaces, NextCallPlaces
  <2>4. UNCHANGED <<memory, state, lockout, acked, disk>>
    BY <1>8 DEF Build
  <2>5. Calls' = Calls /\ Read(disk)' = Read(disk)
    BY <1>3, <2>3, <2>4, SameCalls DEF Read
  <2> QED BY <1>5, <2>4, <2>5 DEF Ordered!vars, Calls, Seen
<1>9. CASE Swap(a)
  <2>1. th[a].at = "swapping" /\ memory = th[a].config /\ disk = Redact(memory)
        /\ th[a].new = built /\ state.number < built
    BY <1>2, <1>9 DEF Swap, At, Partway, InReload
  <2>2. th'[a].at = "locking_out" /\ th'[a].config = th[a].config
    BY <1>1, <1>9 DEF Swap, Go, AdminStates
  <2>3. /\ Calls[a] = [at |-> "stored", config |-> th[a].config]
        /\ Calls' = [Calls EXCEPT ![a] = [at |-> "replaced", config |-> th[a].config]]
    BY <1>4, <2>1, <2>2, CallPlaces, NextCallPlaces
  <2>4. Read(disk) = [c \in Valid |-> Redact(c)][th[a].config]
    BY <1>1, <2>1, RedactedIsRead
  <2>5. state' = [number |-> th[a].new, config |-> th[a].config]
        /\ UNCHANGED <<memory, lockout, acked, disk>>
    BY <1>9 DEF Swap
  <2>6. state'.number \in Nat /\ state'.number > state.number
        /\ state' = [number |-> state'.number, config |-> th[a].config]
    BY <1>1, <2>1, <2>5
  <2>7. Read(disk)' = Read(disk)
    BY <2>5 DEF Read
  <2>8. Calls[a].at = "stored" /\ Calls[a].config = th[a].config
    BY <2>3
  <2>9. /\ memory = Calls[a].config
        /\ Read(disk) = [c \in Valid |-> Redact(c)][Calls[a].config]
        /\ state' = [number |-> state'.number, config |-> Calls[a].config]
        /\ Calls' = [Calls EXCEPT ![a] = [at |-> "replaced", config |-> Calls[a].config]]
    BY ONLY <2>1, <2>3, <2>4, <2>6, <2>8
  <2>10. UNCHANGED <<up, memory, lockout, Read(disk), acked, Seen>>
    BY <1>5, <2>5, <2>7
  <2>11. Ordered!Replace(a)
    BY ONLY <2>6, <2>8, <2>9, <2>10 DEF Ordered!Replace, Ordered!Advance, Calls, Seen
  <2> QED BY <2>11 DEF Ordered!Next
<1>10. CASE SwapLockout(a)
  <2>1. th[a].at = "locking_out" /\ th'[a].at = "closing" /\ th'[a].config = th[a].config
    BY <1>1, <1>10 DEF SwapLockout, At, Go, AdminStates
  <2>2. /\ Calls[a] = [at |-> "replaced", config |-> th[a].config]
        /\ Calls' = [Calls EXCEPT ![a] = [at |-> "guarded", config |-> th[a].config]]
    BY <1>4, <2>1, CallPlaces, NextCallPlaces
  <2>3. lockout' = th[a].config /\ UNCHANGED <<memory, state, acked, disk>>
    BY <1>10 DEF SwapLockout
  <2>4. Read(disk)' = Read(disk)
    BY <2>3 DEF Read
  <2>5. Calls[a].at = "replaced" /\ Calls[a].config = th[a].config
    BY <2>2
  <2>6. /\ lockout' = Calls[a].config
        /\ Calls' = [Calls EXCEPT ![a] = [at |-> "guarded", config |-> Calls[a].config]]
    BY ONLY <2>2, <2>3, <2>5
  <2>7. UNCHANGED <<up, memory, state, Read(disk), acked, Seen>>
    BY <1>5, <2>3, <2>4
  <2>8. Ordered!Arm(a)
    BY ONLY <2>5, <2>6, <2>7 DEF Ordered!Arm, Ordered!Advance, Calls, Seen
  <2> QED BY <2>8 DEF Ordered!Next
<1>11. CASE CloseOld(a)
  <2>1. /\ th[a].at = "closing" /\ memory = th[a].config /\ disk = Redact(memory)
        /\ state = [number |-> th[a].new, config |-> memory] /\ lockout = memory
    BY <1>2, <1>11 DEF CloseOld, At, Partway, InReload
  <2>2. Read(disk) = [c \in Valid |-> Redact(c)][th[a].config]
    BY <1>1, <2>1, RedactedIsRead
  <2>3. /\ th'[a].at = "idle" /\ acked' = th[a].new
        /\ UNCHANGED <<memory, state, lockout, disk>>
    BY <1>1, <1>11 DEF CloseOld, IdleAdmin
  <2>4. Calls[a] = [at |-> "guarded", config |-> th[a].config]
        /\ Calls' = [Calls EXCEPT ![a] = [at |-> "idle"]]
    BY <1>4, <2>1, <2>3, CallPlaces, NextCallPlaces
  <2>5. Read(disk)' = Read(disk)
    BY <2>3 DEF Read
  <2>6. Ordered!Acknowledge(a)
    BY <1>5, <2>1, <2>2, <2>3, <2>4, <2>5
       DEF Ordered!Acknowledge, Ordered!NoCall, Calls, Seen
  <2> QED BY <2>6 DEF Ordered!Next
<1>12. CASE SaveRaises(a) \/ BuildRaises(a)
  <2>1. /\ th[a].at \in {"truncating", "writing", "building"} /\ th'[a].at = "idle"
        /\ UNCHANGED <<memory, state, lockout, acked, disk>>
    BY <1>1, <1>12 DEF SaveRaises, BuildRaises, Raise, At, IdleAdmin
  <2>a. CallOf(a) = [at |-> "stored", config |-> th[a].config] /\ CallOf(a)' = [at |-> "idle"]
    BY <2>1, CallPlaces, NextCallPlaces
  <2>2. Calls[a].at = "stored" /\ Calls' = [Calls EXCEPT ![a] = [at |-> "idle"]]
    BY <1>4, <2>a
  <2>3. Read(disk)' = Read(disk)
    BY <2>1 DEF Read
  <2>4. Ordered!Refuse(a)
    BY <1>5, <2>1, <2>2, <2>3 DEF Ordered!Refuse, Ordered!NoCall, Calls, Seen
  <2> QED BY <2>4 DEF Ordered!Next
<1> QED BY <1>6, <1>7, <1>8, <1>9, <1>10, <1>11, <1>12 DEF Reload

\* The steps of a request.
LEMMA RequestRefines ==
  ASSUME TypeOK, Numbering, NEW r \in Readers, Request(r)
  PROVE  Ordered!Next
<1>1. /\ rd \in [Readers -> ReaderStates] /\ state.number \in Nat /\ acked \in Nat
      /\ rd[r].floor \in Nat /\ memory \in Valid /\ lockout \in Valid
  BY DEF TypeOK, ReaderStates, Snapshots
<1>2. \A q \in Readers : q # r => rd'[q] = rd[q]
  BY <1>1 DEF Request, Arrive, TakeMode, TakePolicy, TakeCaching, TakeAdapter, Answer
<1>3. Seen' = [Seen EXCEPT ![r] = SeenBy(r)'] /\ Seen[r] = SeenBy(r)
  BY <1>2, OneReader DEF Seen
<1>4. UNCHANGED <<up, memory, state, lockout, disk, acked>> /\ Calls' = Calls
  BY SameThreads DEF Request, Arrive, TakeMode, TakePolicy, TakeCaching, TakeAdapter, Answer
<1>5. Read(disk)' = Read(disk)
  BY <1>4 DEF Read
<1>6. state.number >= rd[r].floor
  BY <1>1 DEF Numbering
<1>7. CASE Arrive(r)
  <2>1. /\ up /\ rd[r].at = "idle"
        /\ rd'[r] = [at |-> "arrived", floor |-> acked, number |-> 0, saw |-> lockout.version]
    BY <1>1, <1>7 DEF Arrive, IdleReader
  <2>2. /\ SeenBy(r).at = "idle"
        /\ SeenBy(r)' = [at |-> "begun", floor |-> acked, number |-> 0,
                         saw |-> [c \in Valid |-> c.version][lockout]]
    BY <1>1, <2>1 DEF SeenBy, IdleReader
  <2>3. Ordered!Begin(r)
    BY <1>3, <1>4, <1>5, <2>1, <2>2 DEF Ordered!Begin, Calls, Seen
  <2> QED BY <2>3 DEF Ordered!Next
<1>8. CASE TakeMode(r) \/ TakeCaching(r)
  <2>1. \/ /\ rd[r].at = "arrived"
           /\ rd'[r] = [rd[r] EXCEPT !.at = "authorized", !.saw = memory.version]
        \/ rd[r].at = "parsed" /\ rd'[r] = [rd[r] EXCEPT !.saw = memory.version]
    BY <1>1, <1>8 DEF TakeMode, TakeCaching
  <2>2. SeenBy(r).at # "idle" /\ SeenBy(r)' = [SeenBy(r) EXCEPT !.saw = memory.version]
    <3>1. CASE rd[r].at = "arrived"
      BY <1>1, <2>1, <3>1 DEF SeenBy, ReaderStates
    <3>2. CASE rd[r].at = "parsed"
      BY <1>1, <2>1, <3>2 DEF SeenBy, ReaderStates
    <3> QED BY <2>1, <3>1, <3>2
  <2>3. Seen' = [Seen EXCEPT ![r].saw = [c \in Valid |-> c.version][memory]]
    BY <1>1, <1>3, <2>2
  <2>4. Ordered!Consult(r)
    BY <1>3, <1>4, <1>5, <2>2, <2>3 DEF Ordered!Consult, Calls, Seen
  <2> QED BY <2>4 DEF Ordered!Next
<1>9. CASE TakePolicy(r) \/ TakeAdapter(r)
  <2>1. /\ rd[r].at \in {"authorized", "parsed"} /\ rd'[r].at \in {"parsed", "calling"}
        /\ rd'[r] = [rd[r] EXCEPT !.at = rd'[r].at, !.number = state.number, !.saw = Factory]
    <3>1. CASE TakePolicy(r)
      BY <1>1, <3>1 DEF TakePolicy, ReaderStates
    <3>2. CASE TakeAdapter(r)
      BY <1>1, <3>2 DEF TakeAdapter, ReaderStates
    <3> QED BY <1>9, <3>1, <3>2
  <2>2. SeenBy(r) = [rd[r] EXCEPT !.at = SeenBy(r).at] /\ SeenBy(r).at # "idle"
        /\ SeenBy(r).floor = rd[r].floor
    BY <1>1, <2>1 DEF SeenBy, ReaderStates
  <2>3. SeenBy(r)' = [rd'[r] EXCEPT !.at = "served"]
    BY <2>1 DEF SeenBy
  <2>4. SeenBy(r)' = [SeenBy(r) EXCEPT !.at = "served", !.number = state.number, !.saw = Factory]
    BY <1>1, <2>1, <2>2, <2>3 DEF ReaderStates
  <2>5. Seen' = [Seen EXCEPT ![r].at = "served", ![r].number = state.number, ![r].saw = Factory]
    BY <1>3, <2>4 DEF Seen
  <2>6. Ordered!Look(r)
    BY <1>3, <1>4, <1>5, <1>6, <2>2, <2>5 DEF Ordered!Look, Calls, Seen
  <2> QED BY <2>6 DEF Ordered!Next
<1>10. CASE Answer(r)
  <2>1. rd[r].at = "calling" /\ rd'[r] = IdleReader
    BY <1>1, <1>10 DEF Answer
  <2>2. SeenBy(r).at = "served" /\ SeenBy(r)' = IdleReader
    BY <1>1, <2>1 DEF SeenBy, ReaderStates, IdleReader
  <2>3. Ordered!End(r)
    BY <1>3, <1>4, <1>5, <2>2 DEF Ordered!End, Ordered!NoRequest, IdleReader, Calls, Seen
  <2> QED BY <2>3 DEF Ordered!Next
<1> QED BY <1>7, <1>8, <1>9, <1>10 DEF Request

LEMMA StepRefines ==
  ASSUME TypeOK, Numbering, Safe, [Next]_vars
  PROVE  [Ordered!Next]_(Ordered!vars)
<1>1. ASSUME NEW a \in Admins, Submit(a) \/ (a \in UiThreads /\ Edit(a))
      PROVE  Ordered!Next
  <2>1. PICK c \in Valid :
          th' = [th EXCEPT ![a] = [IdleAdmin EXCEPT !.at = "waiting", !.config = c]]
    <3>1. CASE Submit(a)
      BY <3>1, SubmittedAssumption DEF Submit
    <3>2. CASE Edit(a)
      <4>1. PICK v \in Versions, b \in BOOLEAN :
              th' = [th EXCEPT ![a] = [IdleAdmin EXCEPT !.at = "waiting",
                       !.config = [memory EXCEPT !.version = v, !.builds = b]]]
        BY <3>2 DEF Edit
      <4>2. [memory EXCEPT !.version = v, !.builds = b] \in Valid
        BY EditedIsValid DEF TypeOK
      <4> QED BY <4>1, <4>2
    <3> QED BY <1>1, <3>1, <3>2
  <2>2. th \in [Admins -> AdminStates]
    BY DEF TypeOK
  <2>3. th'[a].at = "waiting" /\ th'[a].config = c
    BY <2>1, <2>2 DEF IdleAdmin
  <2>4. up /\ th[a].at = "idle" /\ UNCHANGED <<up, memory, state, lockout, disk, acked, rd>>
    BY <1>1 DEF Submit, Edit, At
  <2>5. CallOf(a) = [at |-> "idle"] /\ CallOf(a)' = [at |-> "open", config |-> c]
    BY <2>3, <2>4 DEF CallOf
  <2>6. Calls' = [Calls EXCEPT ![a] = [at |-> "open", config |-> c]]
        /\ Calls[a] = [at |-> "idle"]
    BY <2>1, <2>2, <2>5, OneCall DEF Calls
  <2>7. Seen' = Seen /\ Read(disk)' = Read(disk)
    BY <2>4, SameReaders DEF Read
  <2>8. Ordered!Call(a)
    BY <2>4, <2>6, <2>7 DEF Ordered!Call, Ordered!NoCall, Calls, Seen
  <2> QED BY <2>8 DEF Ordered!Next
<1>2. ASSUME NEW a \in Admins, Reload(a) \/ SaveRaises(a)
      PROVE  Ordered!Next \/ UNCHANGED Ordered!vars
  BY <1>2, ReloadRefines
<1>3. ASSUME NEW r \in Readers, Request(r) PROVE Ordered!Next
  BY <1>3, RequestRefines
<1>4. CASE Crash
  <2>1. Calls' = [a \in Admins |-> [at |-> "idle"]]
    BY <1>4 DEF Crash, Calls, CallOf, IdleAdmin
  <2>2. Seen' = [r \in Readers |-> IdleReader]
    BY <1>4 DEF Crash, Seen, SeenBy, IdleReader
  <2>3. Read(disk)' = Read(disk)
    BY <1>4 DEF Crash, Read
  <2>4. Ordered!Crash
    BY <1>4, <2>1, <2>2, <2>3
       DEF Crash, Ordered!Crash, Ordered!NoCall, Ordered!NoRequest, IdleReader, Calls, Seen
  <2> QED BY <2>4 DEF Ordered!Next
<1>5. CASE Start
  <2>1. ~up /\ up' /\ Read(disk) \in Valid /\ Read(disk).builds /\ UNCHANGED <<disk, th, rd, acked>>
        /\ state' = [number |-> built + 1, config |-> Read(disk)]
        /\ memory' = Read(disk) /\ lockout' = Read(disk)
    BY <1>5 DEF Start
  <2>2. state'.number \in Nat /\ state'.number > state.number
        /\ state' = [number |-> state'.number, config |-> Read(disk)]
    BY <2>1 DEF TypeOK, Snapshots, Numbering
  <2>3. Calls' = Calls /\ Seen' = Seen /\ Read(disk)' = Read(disk)
    BY <2>1, SameThreads, SameReaders DEF Read
  <2>4. up' = TRUE
    BY <1>5 DEF Start
  <2>5. Ordered!Restart
    BY <2>1, <2>2, <2>3, <2>4 DEF Ordered!Restart, Calls, Seen
  <2> QED BY <2>5 DEF Ordered!Next
<1>6. CASE UNCHANGED vars
  <2>1. Calls' = Calls /\ Seen' = Seen
    BY <1>6, SameThreads, SameReaders DEF vars
  <2>2. Read(disk)' = Read(disk)
    BY <1>6 DEF vars, Read
  <2> QED BY <1>6, <2>1, <2>2 DEF vars, Ordered!vars, Calls, Seen
<1> QED BY <1>1, <1>2, <1>3, <1>4, <1>5, <1>6 DEF Next, Admins

LEMMA InitRefines == Init => Ordered!Init
<1> SUFFICES ASSUME Init PROVE Ordered!Init
  OBVIOUS
<1>1. memory \in Valid /\ memory.builds /\ Redact(memory) = memory /\ disk = memory
      /\ state = [number |-> 1, config |-> memory] /\ lockout = memory
  BY DEF Init, Redact
<1>2. Read(disk) = [c \in Valid |-> Redact(c)][memory]
  BY <1>1, RedactedIsRead
<1>3. Calls = [a \in Admins |-> [at |-> "idle"]]
  BY DEF Init, Calls, CallOf, IdleAdmin
<1>4. Seen = [r \in Readers |-> IdleReader]
  BY DEF Init, Seen, SeenBy, IdleReader
<1> QED BY <1>1, <1>2, <1>3, <1>4
           DEF Init, Ordered!Init, Ordered!NoCall, Ordered!NoRequest, IdleReader, Calls, Seen

\* A reload replaces the configuration that requests read in the ConfigManager, then the
\* services, then the lockout, in this order and without mixing with another reload; when
\* it is answered, these and what the file gives back are what was submitted, and when it
\* raises, services and lockout are as before.  Requests may see the first before the
\* others, and after a reload that raised (Container.reload, ConfigManager.save,
\* enforce_public_auth).
THEOREM ReloadsReplaceInOrder == Spec => OrderedReplacement
<1>1. TypeOK /\ Safe /\ Numbering /\ AckedConfigServes /\ [Next]_vars
        => [Ordered!Next]_(Ordered!vars)
  BY StepRefines
<1> QED BY <1>1, InitRefines, Invariants, PTL DEF Spec, OrderedReplacement, Ordered!Spec
=============================================================================
