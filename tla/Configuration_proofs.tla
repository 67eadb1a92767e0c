-------------------------- MODULE Configuration_proofs --------------------------
(***************************************************************************)
(* Proofs about Configuration: what exit codes and authentication promise, *)
(* and that the settings in memory, in the file and in the client built    *)
(* from them agree.                                                        *)
(***************************************************************************)
EXTENDS Configuration, TLAPS

-----------------------------------------------------------------------------
(* The settings                                                            *)

\* Without a file nothing was acknowledged.
NothingYet == file = NoFile => applied = Template /\ ~running

\* The settings' part of the inductive invariant.
SettingsInv ==
    SettingsTypeOK /\ NothingYet /\ RemoteIsCurrent /\ StoredIsStartable /\ NoLostUpdate

\* One step of the settings' owner, or of anyone else.
SettingsStep == SettingsNext \/ UNCHANGED settingsVars

\* An update writes its field and no other.
LEMMA UpdatedOneField ==
    ASSUME NEW s \in SettingsRecords, NEW u \in Updates
    PROVE  /\ Updated(s, u) \in SettingsRecords
           /\ u.field \in Fields
           /\ \A f \in Fields : Updated(s, u)[f] = IF f = u.field THEN u.value ELSE s[f]
  <1>1. CASE u \in [field : {"url"}, value : Urls]
    BY <1>1 DEF Updated, SettingsRecords, Fields
  <1>2. CASE u \in [field : {"status"}, value : StatusIds]
    BY <1>2 DEF Updated, SettingsRecords, Fields
  <1>3. CASE u \in [field : {"token"}, value : Tokens]
    BY <1>3 DEF Updated, SettingsRecords, Fields
  <1>4. QED BY <1>1, <1>2, <1>3 DEF Updates

\* The value of an update is one of those a field may be unsure of.
LEMMA UpdateValue ==
    ASSUME NEW u \in Updates
    PROVE  u.value \in Urls \cup Tokens \cup StatusIds \cup {Blank}
  BY DEF Updates

\* What a record of settings names is an account or none.
LEMMA AccountType ==
    ASSUME NEW s \in SettingsRecords
    PROVE  Account(s) \in Remotes
  BY DEF Account, Remotes, Accounts, SettingsRecords

\* What the owner may save, the next start accepts.
LEMMA AcceptableIsStartable ==
    ASSUME NEW u, Acceptable(u)
    PROVE  Startable(Updated(mem, u))
  BY DEF Acceptable, Startable, Buildable

\* What a start loads is a record of settings.
LEMMA LoadedType ==
    ASSUME SettingsTypeOK
    PROVE  Loaded \in SettingsRecords
  BY DEF SettingsTypeOK, Loaded, Template, SettingsRecords, Urls

\* What a start loads has each field's acknowledged value or a doubtful one.
LEMMA LoadedHistory ==
    ASSUME SettingsInv, NEW f \in Fields
    PROVE  Loaded[f] \in {applied[f]} \cup unsure[f]
  BY DEF SettingsInv, NothingYet, NoLostUpdate, Loaded

\* Only the field that is written gains a value, here an acknowledged one.
LEMMA AppliedHistory ==
    ASSUME SettingsInv, NEW u \in Updates, Apply(u)
    PROVE  \A f \in Fields : Updated(mem, u)[f] \in {applied'[f]} \cup unsure'[f]
  <1> SUFFICES ASSUME NEW f \in Fields
               PROVE  Updated(mem, u)[f] \in {applied'[f]} \cup unsure'[f]
    OBVIOUS
  <1>1. mem \in SettingsRecords /\ applied \in SettingsRecords /\ running
    BY DEF SettingsInv, SettingsTypeOK, Apply
  <1>2. u.field \in Fields /\ Updated(mem, u)[f] = IF f = u.field THEN u.value ELSE mem[f]
    BY <1>1, UpdatedOneField
  <1>3. applied'[f] = IF f = u.field THEN u.value ELSE applied[f]
    BY <1>1, UpdatedOneField DEF Apply, Updated
  <1>4. unsure'[f] = IF f = u.field THEN {} ELSE unsure[f]
    BY <1>2 DEF Apply, SettingsInv, SettingsTypeOK
  <1>5. mem[f] \in {applied[f]} \cup unsure[f]
    BY <1>1 DEF SettingsInv, NoLostUpdate
  <1>6. QED BY <1>2, <1>3, <1>4, <1>5

\* A save that fails after replacing the file leaves each field of it explained.
LEMMA ReplacedHistory ==
    ASSUME SettingsInv, running, NEW u \in Updates,
           applied' = applied, unsure' = [unsure EXCEPT ![u.field] = @ \cup {u.value}]
    PROVE  \A f \in Fields : /\ Updated(mem, u)[f] \in {applied'[f]} \cup unsure'[f]
                            /\ mem[f] \in {applied'[f]} \cup unsure'[f]
  <1> SUFFICES ASSUME NEW f \in Fields
               PROVE  /\ Updated(mem, u)[f] \in {applied'[f]} \cup unsure'[f]
                      /\ mem[f] \in {applied'[f]} \cup unsure'[f]
    OBVIOUS
  <1>1. mem \in SettingsRecords
    BY DEF SettingsInv, SettingsTypeOK
  <1>2. u.field \in Fields /\ Updated(mem, u)[f] = IF f = u.field THEN u.value ELSE mem[f]
    BY <1>1, UpdatedOneField
  <1>3. unsure'[f] = IF f = u.field THEN unsure[f] \cup {u.value} ELSE unsure[f]
    BY <1>2 DEF SettingsInv, SettingsTypeOK
  <1>4. mem[f] \in {applied[f]} \cup unsure[f]
    BY DEF SettingsInv, NoLostUpdate
  <1>5. QED BY <1>2, <1>3, <1>4

\* unsure keeps its type when a value is added to, or all are dropped from, a field.
LEMMA UnsureType ==
    ASSUME SettingsTypeOK, NEW u \in Updates,
           \/ unsure' = [unsure EXCEPT ![u.field] = @ \cup {u.value}]
           \/ unsure' = [unsure EXCEPT ![u.field] = {}]
    PROVE  unsure' \in [Fields -> SUBSET (Urls \cup Tokens \cup StatusIds \cup {Blank})]
  <1>1. u.value \in Urls \cup Tokens \cup StatusIds \cup {Blank}
    BY UpdateValue
  <1>2. QED BY <1>1 DEF SettingsTypeOK

\* The invariant survives Apply.
LEMMA ApplyKeeps ==
    ASSUME SettingsInv, NEW u \in Updates, Apply(u)
    PROVE  SettingsInv'
  <1> DEFINE new == Updated(mem, u)
  <1>1. mem \in SettingsRecords /\ applied \in SettingsRecords
    BY DEF SettingsInv, SettingsTypeOK
  <1>2. new \in SettingsRecords /\ Updated(applied, u) \in SettingsRecords
    BY <1>1, UpdatedOneField
  <1>3. file' = new /\ mem' = new /\ running' = running /\ applied' = Updated(applied, u)
    BY DEF Apply, Adopt, Updated
  <1>4. remote' = IF Complete(new) THEN Account(new) ELSE remote
    BY DEF Apply, Adopt
  <1>5. file' # NoFile
    BY <1>2, <1>3, SettingsAssumption
  <1>6. SettingsTypeOK'
    <2>1. remote' \in Remotes
      BY <1>2, <1>4, AccountType DEF SettingsInv, SettingsTypeOK
    <2>2. unsure' \in [Fields -> SUBSET (Urls \cup Tokens \cup StatusIds \cup {Blank})]
      BY UnsureType DEF Apply, SettingsInv
    <2>3. QED BY <1>2, <1>3, <2>1, <2>2 DEF SettingsTypeOK, SettingsInv
  <1>7. RemoteIsCurrent'
    BY <1>3, <1>4 DEF RemoteIsCurrent, Complete, Account
  <1>8. StoredIsStartable'
    <2>1. Startable(new)
      BY AcceptableIsStartable DEF Apply
    <2>2. QED BY <1>3, <2>1 DEF StoredIsStartable
  <1>9. NoLostUpdate'
    BY <1>3, AppliedHistory DEF NoLostUpdate
  <1>10. QED BY <1>5, <1>6, <1>7, <1>8, <1>9 DEF SettingsInv, NothingYet

\* A save that replaced the file and then failed, or ended the process.
LEMMA ReplacedKeeps ==
    ASSUME SettingsInv, NEW u \in Updates, RefuseAfterReplacing(u) \/ EndAfterReplacing(u)
    PROVE  SettingsInv'
  <1> DEFINE new == Updated(mem, u)
  <1>1. /\ running /\ Acceptable(u) /\ file' = new /\ running' \in BOOLEAN
        /\ unsure' = [unsure EXCEPT ![u.field] = @ \cup {u.value}]
        /\ UNCHANGED <<mem, remote, applied>>
    BY DEF RefuseAfterReplacing, EndAfterReplacing
  <1>2. new \in SettingsRecords
    BY UpdatedOneField DEF SettingsInv, SettingsTypeOK
  <1>3. file' # NoFile
    BY <1>1, <1>2, SettingsAssumption
  <1>4. SettingsTypeOK'
    <2>1. unsure' \in [Fields -> SUBSET (Urls \cup Tokens \cup StatusIds \cup {Blank})]
      BY <1>1, UnsureType DEF SettingsInv
    <2>2. QED BY <1>1, <1>2, <2>1 DEF SettingsTypeOK, SettingsInv
  <1>5. RemoteIsCurrent'
    BY <1>1 DEF RemoteIsCurrent, SettingsInv, Complete, Account
  <1>6. StoredIsStartable'
    BY <1>1, AcceptableIsStartable DEF StoredIsStartable
  <1>7. NoLostUpdate'
    BY <1>1, ReplacedHistory DEF NoLostUpdate
  <1>8. QED BY <1>3, <1>4, <1>5, <1>6, <1>7 DEF SettingsInv, NothingYet

\* The invariant survives Start.
LEMMA StartKeeps ==
    ASSUME SettingsInv, Start \/ StartFails
    PROVE  SettingsInv'
  <1>1. Loaded \in SettingsRecords /\ file' = Loaded /\ ~running
    BY LoadedType DEF SettingsInv, Start, StartFails
  <1>2. file' # NoFile
    BY <1>1, SettingsAssumption
  <1>3. UNCHANGED <<applied, unsure>>
    BY DEF Start, StartFails
  <1>4. SettingsTypeOK'
    <2>1. CASE Start
      BY <1>1, <2>1, AccountType DEF Start, SettingsInv, SettingsTypeOK, Remotes
    <2>2. CASE StartFails
      BY <1>1, <2>2 DEF StartFails, SettingsInv, SettingsTypeOK
    <2>3. QED BY <2>1, <2>2
  <1>5. RemoteIsCurrent'
    BY <1>1 DEF Start, StartFails, RemoteIsCurrent, Complete, Account
  <1>6. StoredIsStartable'
    <2>1. Startable(Loaded)
      <3>1. Startable(Template)
        BY DEF Startable, ValidSettings, ValidUrl, Template, Complete
      <3>2. QED BY <3>1 DEF SettingsInv, StoredIsStartable, Loaded
    <2>2. QED BY <1>1, <2>1 DEF StoredIsStartable
  <1>7. NoLostUpdate'
    <2>1. \A f \in Fields : Loaded[f] \in {applied'[f]} \cup unsure'[f]
      BY <1>3, LoadedHistory
    <2>2. running' => mem' = Loaded
      BY <1>1 DEF Start, StartFails
    <2>3. QED BY <1>1, <2>1, <2>2 DEF NoLostUpdate
  <1>8. QED BY <1>2, <1>4, <1>5, <1>6, <1>7 DEF SettingsInv, NothingYet

\* Every step of the owner keeps its part of the invariant.
LEMMA SettingsKept ==
    ASSUME SettingsInv, SettingsStep
    PROVE  SettingsInv'
  <1>1. CASE Start \/ StartFails
    BY <1>1, StartKeeps
  <1>2. CASE End
    BY <1>2 DEF End, SettingsInv, SettingsTypeOK, NothingYet, RemoteIsCurrent, StoredIsStartable,
               NoLostUpdate
  <1>3. CASE \E u \in Updates : Apply(u)
    BY <1>3, ApplyKeeps
  <1>4. CASE \E u \in Updates : RefuseAfterReplacing(u) \/ EndAfterReplacing(u)
    BY <1>4, ReplacedKeeps
  <1>5. CASE (\E u \in Updates : Refuse(u)) \/ UNCHANGED settingsVars
    BY <1>5 DEF Refuse, settingsVars, SettingsInv, SettingsTypeOK, NothingYet, RemoteIsCurrent,
                StoredIsStartable, NoLostUpdate, Complete, Account
  <1>6. QED BY <1>1, <1>2, <1>3, <1>4, <1>5 DEF SettingsStep, SettingsNext

\* What the first start loads is a record of settings.
LEMMA LoadedFirst ==
    ASSUME SettingsInit
    PROVE  Loaded \in SettingsRecords
  BY DEF SettingsInit, Loaded, Template, SettingsRecords, Urls

\* The settings' invariant holds initially.
LEMMA SettingsStarts ==
    ASSUME SettingsInit
    PROVE  SettingsInv
  <1>1. Template \in SettingsRecords
    BY DEF Template, SettingsRecords, Urls
  <1>2. SettingsTypeOK
    BY <1>1, LoadedFirst DEF SettingsInit, SettingsTypeOK, Remotes
  <1>3. file # NoFile => Startable(file) /\ applied = file
    BY DEF SettingsInit, Loaded
  <1>4. file = NoFile => applied = Template
    BY DEF SettingsInit, Loaded
  <1>5. ~running
    BY DEF SettingsInit
  <1>6. QED BY <1>2, <1>3, <1>4, <1>5 DEF SettingsInv, NothingYet, RemoteIsCurrent,
                     StoredIsStartable, NoLostUpdate

-----------------------------------------------------------------------------
(* The command lines and the processes they reach                          *)

\* What a client's worker has established at each step.
WorkerInv(r) ==
    /\ r.step \in Authenticating \cup {"trusted", "written"} => r.pipe \in 1 .. starts
    /\ r.step \in {"held", "known"} => r.held \in 1 .. starts
    /\ r.step = "known" => kind[r.held] = "service"
    /\ r.step = "trusted" /\ r.pipe = server => kind[r.pipe] = "service"

\* What a command that was written, and what main was told, imply.
CommandInv(r) ==
    /\ r.fate # "unsent" =>
         r.step \in {"written", "gone"} /\ r.pipe \in 1 .. starts /\ kind[r.pipe] = "service"
    /\ r.step = "written" => r.fate # "unsent"
    /\ r.told = "ok" => r.fate = "applied"
    /\ r.told = "unavailable" => r.fate = "unsent" /\ r.step = "gone"

ClientInv(r) == r \in ClientRecords /\ WorkerInv(r) /\ CommandInv(r)

\* The processes, of which only the last can be serving.
ProcessInv ==
    /\ starts \in 0 .. MaxStarts /\ server \in {0, starts}
    /\ running <=> server # 0
    /\ kind \in [Processes -> Kinds]
    /\ issued \in 0 .. MaxCommands

IInv ==
    /\ SettingsInv /\ ProcessInv
    /\ client \in [Clients -> ClientRecords]
    /\ \A c \in Clients : ClientInv(client[c])

\* The next record of the client, for each step of its command line.
Begun(u)   == [Fresh(u) EXCEPT !.step = "opening"]
Ended(r, result) ==
    [r EXCEPT !.step = "gone", !.held = 0, !.told = IF @ = "waiting" THEN result ELSE @]

Told  == {"waiting", "ok", "failed", "unavailable"}
Fates == {"unsent", "sent", "applied", "refused", "lost"}

ClientRecord(step, told, update, pipe, held, fate) ==
    [step |-> step, told |-> told, update |-> update, pipe |-> pipe, held |-> held, fate |-> fate]

\* A client record put together from its fields is one.
LEMMA RecordType ==
    ASSUME NEW step \in Steps, NEW told \in Told, NEW update \in Updates,
           NEW pipe \in 0 .. MaxStarts, NEW held \in 0 .. MaxStarts, NEW fate \in Fates
    PROVE  ClientRecord(step, told, update, pipe, held, fate) \in ClientRecords
  BY DEF ClientRecord, ClientRecords, Told, Fates

\* The fields of a client record have their types.
LEMMA FieldTypes ==
    ASSUME NEW r \in ClientRecords
    PROVE  /\ r.step \in Steps /\ r.told \in Told /\ r.update \in Updates
           /\ r.pipe \in 0 .. MaxStarts /\ r.held \in 0 .. MaxStarts /\ r.fate \in Fates
           /\ r = ClientRecord(r.step, r.told, r.update, r.pipe, r.held, r.fate)
  BY DEF ClientRecord, ClientRecords, Told, Fates

\* A command line that has just begun satisfies its invariant.
LEMMA BegunInv ==
    ASSUME NEW u \in Updates
    PROVE  ClientInv(Begun(u)) /\ ClientInv(Fresh(u))
  <1>1. Begun(u) = ClientRecord("opening", "waiting", u, 0, 0, "unsent")
    BY DEF Begun, Fresh, ClientRecord
  <1>2. Fresh(u) = ClientRecord("ready", "waiting", u, 0, 0, "unsent")
    BY DEF Fresh, ClientRecord
  <1>3. "opening" \in Steps /\ "ready" \in Steps /\ "waiting" \in Told /\ "unsent" \in Fates
        /\ 0 \in 0 .. MaxStarts
    BY ConfigurationAssumption DEF Steps, Told, Fates
  <1>4. Begun(u) \in ClientRecords /\ Fresh(u) \in ClientRecords
    BY <1>1, <1>2, <1>3, RecordType
  <1>5. WorkerInv(Begun(u)) /\ CommandInv(Begun(u))
    BY <1>1 DEF ClientRecord, WorkerInv, CommandInv, Authenticating
  <1>6. WorkerInv(Fresh(u)) /\ CommandInv(Fresh(u))
    BY <1>2 DEF ClientRecord, WorkerInv, CommandInv, Authenticating
  <1>7. QED BY <1>4, <1>5, <1>6 DEF ClientInv

\* A command line that ends satisfies its invariant, whatever the result.
LEMMA EndedInv ==
    ASSUME NEW r, ClientInv(r), NEW result \in {"ok", "failed", "unavailable"},
           result = "ok" => r.fate = "applied",
           result = "unavailable" => r.fate = "unsent"
    PROVE  ClientInv(Ended(r, result))
  <1>1. Ended(r, result) \in ClientRecords
    <2> DEFINE told == IF r.told = "waiting" THEN result ELSE r.told
    <2>1. r \in ClientRecords
      BY DEF ClientInv
    <2>2. "gone" \in Steps /\ told \in Told /\ 0 \in 0 .. MaxStarts
      BY <2>1, FieldTypes, ConfigurationAssumption DEF Steps, Told
    <2>3. Ended(r, result) = [r EXCEPT !.step = "gone", !.held = 0, !.told = told]
      BY <2>1 DEF Ended, ClientRecords
    <2> HIDE DEF told
    <2>4. QED BY <2>1, <2>2, <2>3 DEF ClientRecords, Told
  <1>2. WorkerInv(Ended(r, result))
    BY DEF Ended, ClientInv, ClientRecords, WorkerInv, Authenticating
  <1>3. CommandInv(Ended(r, result))
    BY DEF Ended, ClientInv, ClientRecords, CommandInv
  <1>4. QED BY <1>1, <1>2, <1>3 DEF ClientInv

\* A worker that has not written its command has not had it handled.
LEMMA NotWritten ==
    ASSUME NEW r, ClientInv(r), r.step \notin {"written", "gone"}
    PROVE  r.fate = "unsent"
  BY DEF ClientInv, CommandInv

\* A worker's step: of its record only the step, the pipe or the handle change.
Worked(r, step, pipe, held) == [r EXCEPT !.step = step, !.pipe = pipe, !.held = held]

\* What such a step leaves alone.
Same(q, r) == q.told = r.told /\ q.update = r.update /\ q.fate = r.fate

\* The worker thread's progress keeps the client record's type.
LEMMA WorkedType ==
    ASSUME NEW r \in ClientRecords, NEW step \in Steps,
           NEW pipe \in 0 .. MaxStarts, NEW held \in 0 .. MaxStarts
    PROVE  LET q == Worked(r, step, pipe, held)
           IN  q \in ClientRecords /\ q.step = step /\ q.pipe = pipe /\ q.held = held
               /\ Same(q, r)
  BY DEF Worked, Same, ClientRecords

\* The steps of one command line.
ClientMoves(c) ==
    \/ \E u \in Updates : Begin(c, u)
    \/ RefusedLocally(c) \/ Again(c)
    \/ Open(c) \/ OpenFails(c)
    \/ NameServer(c) \/ HoldServer(c) \/ CheckIdentity(c) \/ CheckAlive(c)
    \/ AuthenticationFails(c)
    \/ Write(c) \/ WriteFails(c) \/ Read(c) \/ ReadFails(c)
    \/ TimesOut(c) \/ Exit(c)

\* A step of a command line leaves its record as it should be.
LEMMA ClientMoveKeeps ==
    ASSUME IInv, NEW c \in Clients, ClientMoves(c)
    PROVE  \E r : Becomes(c, r) /\ ClientInv(r)
  <1> DEFINE r == client[c]
  <1>1. /\ r \in ClientRecords /\ WorkerInv(r) /\ CommandInv(r)
        /\ starts \in 0 .. MaxStarts /\ server \in {0, starts}
        /\ kind \in [Processes -> Kinds]
    BY DEF IInv, ProcessInv, ClientInv
  <1>2. r \in ClientRecords /\ r.pipe \in 0 .. MaxStarts /\ r.held \in 0 .. MaxStarts
    BY <1>1, FieldTypes
  <1>3. CASE \E u \in Updates : Begin(c, u)
    BY <1>3, BegunInv DEF Begin, Begun
  <1>4. CASE RefusedLocally(c) \/ WriteFails(c) \/ ReadFails(c) \/ Exit(c)
    <2>1. Becomes(c, Ended(r, "failed"))
      BY <1>4 DEF RefusedLocally, WriteFails, ReadFails, Exit, Ends, Ended
    <2>2. QED BY <1>1, <2>1, EndedInv DEF ClientInv
  <1>5. CASE Again(c)
    <2>1. NoUpdate \in Updates
      BY DEF NoUpdate, Updates, Urls
    <2>2. QED BY <1>5, <2>1, BegunInv DEF Again
  <1>6. CASE OpenFails(c) \/ AuthenticationFails(c)
    <2>1. Becomes(c, Ended(r, "unavailable")) /\ r.fate = "unsent"
      BY <1>1, <1>6, NotWritten
         DEF OpenFails, AuthenticationFails, Ends, Ended, Authenticating, ClientInv
    <2>2. QED BY <1>1, <2>1, EndedInv DEF ClientInv
  <1>7. CASE Read(c)
    <2>1. CASE r.fate = "applied"
      <3>1. Becomes(c, Ended(r, "ok"))
        BY <1>7, <2>1 DEF Read, Ends, Ended
      <3>2. QED BY <1>1, <2>1, <3>1, EndedInv DEF ClientInv
    <2>2. CASE r.fate # "applied"
      <3>1. Becomes(c, Ended(r, "failed"))
        BY <1>7, <2>2 DEF Read, Ends, Ended
      <3>2. QED BY <1>1, <3>1, EndedInv DEF ClientInv
    <2>3. QED BY <2>1, <2>2
  <1>8. CASE Open(c)
    <2> DEFINE q == Worked(r, "opened", server, r.held)
    <2>1. server \in 1 .. starts /\ r.step = "opening"
      BY <1>1, <1>8, ConfigurationAssumption DEF Open
    <2>2. Becomes(c, q)
      BY <1>1, <1>8 DEF Open, Worked, ClientRecords
    <2>3. q \in ClientRecords /\ q.step = "opened" /\ q.pipe = server /\ q.held = r.held /\ Same(q, r)
      <3>1. "opened" \in Steps
        BY DEF Steps, Authenticating
      <3>2. server \in 0 .. MaxStarts /\ 0 \in 0 .. MaxStarts
        BY <1>1, ConfigurationAssumption
      <3>3. QED BY <1>2, <3>1, <3>2, WorkedType
    <2>4. ClientInv(q)
      BY <1>1, <2>1, <2>3, NotWritten
         DEF ClientInv, Same, WorkerInv, CommandInv, Authenticating
    <2>5. QED BY <2>2, <2>4
  <1>9. CASE NameServer(c)
    <2> DEFINE q == Worked(r, "named", r.pipe, r.held)
    <2>1. r.step = "opened"
      BY <1>9 DEF NameServer
    <2>2. Becomes(c, q)
      BY <1>1, <1>9 DEF NameServer, Goto, Worked, ClientRecords
    <2>3. q \in ClientRecords /\ q.step = "named" /\ q.pipe = r.pipe /\ q.held = r.held /\ Same(q, r)
      BY <1>2, WorkedType DEF Steps, Authenticating
    <2>4. ClientInv(q)
      BY <1>1, <2>1, <2>3, NotWritten
         DEF ClientInv, Same, WorkerInv, CommandInv, Authenticating
    <2>5. QED BY <2>2, <2>4
  <1>10. CASE HoldServer(c)
    <2> DEFINE q == Worked(r, "held", r.pipe, server)
    <2>1. server \in 1 .. starts /\ r.step = "named"
      BY <1>1, <1>10, ConfigurationAssumption DEF HoldServer
    <2>2. Becomes(c, q)
      BY <1>1, <1>10 DEF HoldServer, Worked, ClientRecords
    <2>3. q \in ClientRecords /\ q.step = "held" /\ q.pipe = r.pipe /\ q.held = server /\ Same(q, r)
      <3>1. "held" \in Steps
        BY DEF Steps, Authenticating
      <3>2. server \in 0 .. MaxStarts /\ 0 \in 0 .. MaxStarts
        BY <1>1, ConfigurationAssumption
      <3>3. QED BY <1>2, <3>1, <3>2, WorkedType
    <2>4. ClientInv(q)
      BY <1>1, <2>1, <2>3, NotWritten
         DEF ClientInv, Same, WorkerInv, CommandInv, Authenticating
    <2>5. QED BY <2>2, <2>4
  <1>11. CASE CheckIdentity(c)
    <2> DEFINE q == Worked(r, "known", r.pipe, r.held)
    <2>1. r.step = "held" /\ kind[r.held] = "service"
      <3>1. r.step = "held" /\ r.held \in 1 .. starts
        BY <1>1, <1>11 DEF CheckIdentity, WorkerInv
      <3>2. kind[r.held] \in Kinds
        BY <1>1, <3>1, ConfigurationAssumption DEF Processes
      <3>3. QED BY <1>11, <3>1, <3>2 DEF CheckIdentity, IsLocalSystem, IsRegisteredImage, ImageOf, RegisteredImage, Kinds
    <2>2. Becomes(c, q)
      BY <1>1, <1>11 DEF CheckIdentity, Goto, Worked, ClientRecords
    <2>3. q \in ClientRecords /\ q.step = "known" /\ q.pipe = r.pipe /\ q.held = r.held /\ Same(q, r)
      BY <1>2, WorkedType DEF Steps, Authenticating
    <2>4. ClientInv(q)
      BY <1>1, <2>1, <2>3, NotWritten
         DEF ClientInv, Same, WorkerInv, CommandInv, Authenticating
    <2>5. QED BY <2>2, <2>4
  <1>12. CASE CheckAlive(c)
    <2> DEFINE q == Worked(r, "trusted", r.pipe, 0)
    <2>1. r.step = "known" /\ kind[server] = "service"
      BY <1>1, <1>12, ConfigurationAssumption DEF CheckAlive, WorkerInv
    <2>2. Becomes(c, q)
      BY <1>1, <1>12 DEF CheckAlive, Worked, ClientRecords
    <2>3. q \in ClientRecords /\ q.step = "trusted" /\ q.pipe = r.pipe /\ q.held = 0 /\ Same(q, r)
      <3>1. "trusted" \in Steps
        BY DEF Steps, Authenticating
      <3>2. server \in 0 .. MaxStarts /\ 0 \in 0 .. MaxStarts
        BY <1>1, ConfigurationAssumption
      <3>3. QED BY <1>2, <3>1, <3>2, WorkedType
    <2>4. ClientInv(q)
      BY <1>1, <2>1, <2>3, NotWritten
         DEF ClientInv, Same, WorkerInv, CommandInv, Authenticating
    <2>5. QED BY <2>2, <2>4
  <1>13. CASE Write(c)
    <2> DEFINE q == [r EXCEPT !.step = "written", !.fate = "sent"]
    <2>1. /\ r.step = "trusted" /\ kind[r.pipe] = "service" /\ r.pipe \in 1 .. starts
          /\ r.told # "ok" /\ r.told # "unavailable"
      BY <1>1, <1>13, NotWritten DEF Write, WorkerInv, CommandInv, ClientInv, Authenticating
    <2>2. Becomes(c, q)
      BY <1>13 DEF Write
    <2>3. /\ q.step = "written" /\ q.fate = "sent" /\ q.told = r.told /\ q.pipe = r.pipe
          /\ q.held = r.held
      BY <1>1 DEF ClientRecords
    <2>4. q \in ClientRecords
      BY <1>1 DEF ClientRecords, Steps
    <2>5. ClientInv(q)
      BY <1>1, <2>1, <2>3, <2>4
         DEF ClientInv, WorkerInv, CommandInv, Authenticating
    <2>6. QED BY <2>2, <2>5
  <1>14. CASE TimesOut(c)
    <2> DEFINE q == [r EXCEPT !.told = "failed"]
    <2>1. Becomes(c, q)
      BY <1>14 DEF TimesOut
    <2>2. q = ClientRecord(r.step, "failed", r.update, r.pipe, r.held, r.fate)
      BY <1>1 DEF ClientRecord, ClientRecords
    <2>3. q \in ClientRecords
      BY <1>1, <2>2, FieldTypes, RecordType DEF Told
    <2>4. ClientInv(q)
      BY <1>1, <2>2, <2>3 DEF ClientInv, ClientRecord, WorkerInv, CommandInv
    <2>5. QED BY <2>1, <2>4
  <1>15. QED
    BY <1>3, <1>4, <1>5, <1>6, <1>7, <1>8, <1>9, <1>10, <1>11, <1>12, <1>13, <1>14
       DEF ClientMoves

\* A step of one client that leaves the processes alone keeps every client's part.
LEMMA OneClientMoves ==
    ASSUME IInv, NEW c \in Clients, NEW r, Becomes(c, r), ClientInv(r),
           UNCHANGED <<server, starts, kind>>
    PROVE  (client \in [Clients -> ClientRecords] /\ \A d \in Clients : ClientInv(client[d]))'
  <1>1. client' \in [Clients -> ClientRecords]
    BY DEF IInv, Becomes, ClientInv
  <1>2. ASSUME NEW d \in Clients
        PROVE  ClientInv(client[d])'
    <2>1. ClientInv(client'[d])
      BY DEF IInv, Becomes
    <2>2. QED BY <2>1 DEF ClientInv, WorkerInv, CommandInv
  <1>3. QED BY <1>1, <1>2

\* What becomes of a command that is on its way keeps its client's part.
LEMMA FateKept ==
    ASSUME NEW r, ClientInv(r), r.fate = "sent", NEW fate \in {"applied", "refused", "lost"}
    PROVE  ClientInv([r EXCEPT !.fate = fate])
  <1> DEFINE q == [r EXCEPT !.fate = fate]
  <1>1. r \in ClientRecords
    BY DEF ClientInv
  <1>2. q \in ClientRecords
    BY <1>1 DEF ClientRecords
  <1>3. /\ q.fate = fate /\ q.step = r.step /\ q.told = r.told /\ q.pipe = r.pipe
        /\ q.held = r.held
    BY <1>1 DEF ClientRecords
  <1>4. WorkerInv(q) /\ CommandInv(q)
    BY <1>3 DEF ClientInv, WorkerInv, CommandInv
  <1>5. QED BY <1>2, <1>4 DEF ClientInv

\* The processes' part does not depend on what the clients do.
LEMMA ProcessesKept ==
    ASSUME IInv, UNCHANGED <<running, server, starts, kind, issued>>
    PROVE  ProcessInv'
  BY DEF IInv, ProcessInv

\* An answered or dropped command changes the settings only as their owner may.
LEMMA AnswerSteps ==
    ASSUME IInv, NEW c \in Clients, HandledWell(c) \/ HandledBadly(c) \/ Dropped(c)
    PROVE  IInv'
  <1>1. client[c].update \in Updates /\ client[c].fate = "sent" /\ ClientInv(client[c])
    BY FieldTypes DEF IInv, HandledWell, HandledBadly, Dropped, Received
  <1>2. PICK fate \in {"applied", "refused", "lost"} : Answered(c, fate)
    BY DEF HandledWell, HandledBadly, Dropped
  <1>3. SettingsStep
    BY <1>1 DEF HandledWell, HandledBadly, Dropped, SettingsStep, SettingsNext
  <1>4. SettingsInv'
    BY <1>3, SettingsKept DEF IInv
  <1>5. UNCHANGED running
    BY DEF HandledWell, HandledBadly, Dropped, Apply, Refuse, RefuseAfterReplacing, settingsVars
  <1>6. ProcessInv'
    BY <1>2, <1>5, ProcessesKept DEF Answered
  <1>7. ClientInv([client[c] EXCEPT !.fate = fate])
    BY <1>1, FateKept
  <1>8. (client \in [Clients -> ClientRecords] /\ \A d \in Clients : ClientInv(client[d]))'
    BY <1>2, <1>7, OneClientMoves DEF Answered
  <1>9. QED BY <1>4, <1>6, <1>8 DEF IInv

\* A process that starts is the only one that serves, and is at no client's pipe yet.
LEMMA StartStep ==
    ASSUME IInv, NEW k \in Kinds, ProcessStarts(k)
    PROVE  IInv'
  <1>1. /\ starts \in 0 .. MaxStarts /\ starts < MaxStarts
        /\ starts' = starts + 1 /\ server' = starts + 1 /\ client' = client
    BY DEF IInv, ProcessInv, ProcessStarts
  <1>2. SettingsInv'
    BY SettingsKept DEF IInv, ProcessStarts, SettingsStep, SettingsNext
  <1>3. starts + 1 \in Processes
    BY <1>1, ConfigurationAssumption DEF Processes
  <1>4. kind' \in [Processes -> Kinds] /\ \A n \in 1 .. starts : kind'[n] = kind[n]
    <2>1. kind \in [Processes -> Kinds] /\ kind' = [kind EXCEPT ![starts + 1] = k]
      BY DEF IInv, ProcessInv, ProcessStarts
    <2>2. \A n \in 1 .. starts : n \in Processes /\ n # starts + 1
      BY <1>1, ConfigurationAssumption DEF Processes
    <2>3. QED BY <1>3, <2>1, <2>2
  <1>5. ProcessInv'
    <2>1. starts' \in 0 .. MaxStarts /\ server' \in {0, starts'} /\ server' # 0
      BY <1>1, ConfigurationAssumption
    <2>2. running' /\ issued' \in 0 .. MaxCommands
      BY DEF IInv, ProcessInv, ProcessStarts, Start
    <2>3. QED BY <1>4, <2>1, <2>2 DEF ProcessInv
  <1>6. ASSUME NEW d \in Clients
        PROVE  ClientInv(client[d])'
    <2> DEFINE r == client[d]
    <2>1. r \in ClientRecords /\ WorkerInv(r) /\ CommandInv(r) /\ client'[d] = r
      BY <1>1 DEF IInv, ClientInv
    <2>2. \A n \in 1 .. starts : n \in 1 .. starts' /\ n # server'
      BY <1>1, ConfigurationAssumption
    <2> HIDE DEF r
    <2>3. WorkerInv(client[d])'
      BY <1>4, <2>1, <2>2 DEF WorkerInv, Authenticating
    <2>4. CommandInv(client[d])'
      BY <1>4, <2>1, <2>2 DEF CommandInv
    <2>5. QED BY <2>1, <2>3, <2>4 DEF ClientInv
  <1>7. QED BY <1>1, <1>2, <1>5, <1>6 DEF IInv

\* With a process, the commands it had are lost and no pipe leads to it.
LEMMA EndStep ==
    ASSUME IInv, ProcessEnds
    PROVE  IInv'
  <1>1. SettingsStep
    <2>1. CASE End
      BY <2>1 DEF SettingsStep, SettingsNext
    <2>2. CASE \E c \in Clients : Received(c) /\ EndAfterReplacing(client[c].update)
      BY <2>2, FieldTypes DEF IInv, SettingsStep, SettingsNext
    <2>3. QED BY <2>1, <2>2 DEF ProcessEnds
  <1>2. SettingsInv'
    BY <1>1, SettingsKept DEF IInv
  <1>3. ProcessInv'
    BY DEF IInv, ProcessInv, ProcessEnds, End, EndAfterReplacing
  <1>4. ASSUME NEW d \in Clients
        PROVE  client'[d] \in ClientRecords /\ ClientInv(client[d])'
    <2> DEFINE r == client[d]
               q == client'[d]
    <2>1. starts \in 0 .. MaxStarts /\ starts' = starts /\ kind' = kind /\ server' = 0
      BY DEF IInv, ProcessInv, ProcessEnds
    <2>2. ClientInv(q)
      <3>1. CASE Received(d)
        <4>1. q = [r EXCEPT !.fate = "lost"]
          BY <3>1 DEF ProcessEnds, Lost
        <4>2. QED BY <3>1, <4>1, FateKept DEF IInv, Received
      <3>2. CASE ~Received(d)
        BY <3>2 DEF ProcessEnds, Lost, IInv
      <3>3. QED BY <3>1, <3>2
    <2>3. \A n \in 1 .. starts : n # server'
      BY <2>1
    <2>4. WorkerInv(client[d])'
      BY <2>1, <2>2, <2>3 DEF ClientInv, WorkerInv, Authenticating
    <2>5. CommandInv(client[d])'
      BY <2>1, <2>2 DEF ClientInv, CommandInv
    <2>6. QED BY <2>2, <2>4, <2>5 DEF ClientInv
  <1>5. client' \in [Clients -> ClientRecords]
    BY <1>4 DEF ProcessEnds, Lost
  <1>6. QED BY <1>2, <1>3, <1>4, <1>5 DEF IInv

\* A client's step touches neither the settings nor the processes.
LEMMA ClientSteps ==
    ASSUME IInv, NEW c \in Clients, ClientMoves(c)
    PROVE  IInv'
  <1>1. UNCHANGED <<settingsVars, server, starts, kind>> /\ issued' \in 0 .. MaxCommands
    <2>1. CASE \E u \in Updates : Begin(c, u)
      BY <2>1, ConfigurationAssumption DEF Begin, IInv, ProcessInv
    <2>2. CASE ClientStep
      BY <2>2 DEF ClientStep, IInv, ProcessInv
    <2>3. QED
      BY <2>1, <2>2
         DEF ClientMoves, RefusedLocally, Again, Open, OpenFails, NameServer, HoldServer,
             CheckIdentity, CheckAlive, AuthenticationFails, Write, WriteFails, Read, ReadFails,
             TimesOut, Exit
  <1>2. SettingsInv'
    BY <1>1, SettingsKept DEF IInv, SettingsStep, SettingsNext
  <1>3. ProcessInv'
    BY <1>1 DEF IInv, ProcessInv, settingsVars
  <1>4. PICK r : Becomes(c, r) /\ ClientInv(r)
    BY ClientMoveKeeps
  <1>5. (client \in [Clients -> ClientRecords] /\ \A d \in Clients : ClientInv(client[d]))'
    BY <1>1, <1>4, OneClientMoves
  <1>6. QED BY <1>2, <1>3, <1>5 DEF IInv

\* The invariant holds initially.
LEMMA InitIInv ==
    ASSUME Init
    PROVE  IInv
  <1>1. SettingsInv
    BY SettingsStarts DEF Init
  <1>2. ProcessInv
    BY ConfigurationAssumption DEF Init, SettingsInit, ProcessInv, Kinds
  <1>3. NoUpdate \in Updates
    BY DEF NoUpdate, Updates, Urls
  <1>4. ClientInv(Fresh(NoUpdate))
    BY <1>3, BegunInv
  <1>5. client = [c \in Clients |-> Fresh(NoUpdate)]
    BY DEF Init
  <1>6. QED BY <1>1, <1>2, <1>4, <1>5 DEF IInv, ClientInv

\* Every step, and every stutter, keeps the invariant.
LEMMA NextIInv ==
    ASSUME IInv, [Next]_vars
    PROVE  IInv'
  <1>1. CASE \E c \in Clients : ClientMoves(c)
    BY <1>1, ClientSteps
  <1>2. CASE \E c \in Clients : HandledWell(c) \/ HandledBadly(c) \/ Dropped(c)
    BY <1>2, AnswerSteps
  <1>3. CASE \E k \in Kinds : ProcessStarts(k)
    BY <1>3, StartStep
  <1>4. CASE ProcessFails
    <2>1. SettingsInv'
      BY <1>4, SettingsKept DEF ProcessFails, IInv, SettingsStep, SettingsNext
    <2>2. QED BY <1>4, <2>1 DEF ProcessFails, StartFails, IInv, ProcessInv, ClientInv, WorkerInv,
                                CommandInv
  <1>5. CASE ProcessEnds
    BY <1>5, EndStep
  <1>6. CASE UNCHANGED vars
    <2>1. SettingsInv'
      BY <1>6, SettingsKept DEF vars, IInv, SettingsStep, SettingsNext
    <2>2. QED BY <1>6, <2>1 DEF vars, settingsVars, IInv, ProcessInv, ClientInv, WorkerInv,
                                CommandInv
  <1>7. QED BY <1>1, <1>2, <1>3, <1>4, <1>5, <1>6 DEF Next, ClientMoves

-----------------------------------------------------------------------------
(* Theorems                                                                *)

\* The invariant holds in every reachable state.
LEMMA AlwaysIInv == Spec => []IInv
  BY InitIInv, NextIInv, PTL DEF Spec

\* Every variable of the settings, the processes and the clients keeps its type.
THEOREM ConfigurationTypeOK == Spec => []TypeOK
  <1>1. IInv => TypeOK
    BY ConfigurationAssumption DEF IInv, SettingsInv, ProcessInv, TypeOK
  <1>2. QED BY <1>1, AlwaysIInv, PTL

\* dispatch and exchange_named_pipe: exit code 0 means that the update took
\* effect, exit code 2 that no byte of it was written.
THEOREM ExitCodes == Spec => []ExitCodeIsTrue
  <1>1. IInv => ExitCodeIsTrue
    BY DEF IInv, ClientInv, CommandInv, ExitCodeIsTrue
  <1>2. QED BY <1>1, AlwaysIInv, PTL

\* authenticate_serialize_write: a command only goes to the registered service,
\* for any number of processes that start, end and take each other's pids.
THEOREM CommandsReachTheService == Spec => []ReachesTheService
  <1>1. IInv => ReachesTheService
    BY DEF IInv, ClientInv, CommandInv, ReachesTheService
  <1>2. QED BY <1>1, AlwaysIInv, PTL

\* set_config and set_token: no acknowledged update is undone by another one, a
\* save that fails or a restart.
THEOREM UpdatesKept == Spec => []NoLostUpdate
  <1>1. IInv => NoLostUpdate
    BY DEF IInv, SettingsInv
  <1>2. QED BY <1>1, AlwaysIInv, PTL

\* set_config, set_token and run_service: the client in use is that of the
\* settings in memory whenever these are complete.
THEOREM ClientIsCurrent == Spec => []RemoteIsCurrent
  <1>1. IInv => RemoteIsCurrent
    BY DEF IInv, SettingsInv
  <1>2. QED BY <1>1, AlwaysIInv, PTL

\* The same of the service alone, whoever sends it whatever updates: the client
\* of older settings, kept while the settings are incomplete, is in use no more
\* once they are complete; nothing acknowledged is undone; what is saved, the
\* next start takes (set_config, set_token, run_service).
THEOREM SettingsAlone ==
    SettingsSpec => [](RemoteIsCurrent /\ NoLostUpdate /\ StoredIsStartable)
  <1>1. SettingsInit => SettingsInv
    BY SettingsStarts
  <1>2. SettingsInv /\ [SettingsNext]_settingsVars => SettingsInv'
    BY SettingsKept DEF SettingsStep
  <1>3. SettingsInv => RemoteIsCurrent /\ NoLostUpdate /\ StoredIsStartable
    BY DEF SettingsInv
  <1>4. QED BY <1>1, <1>2, <1>3, PTL DEF SettingsSpec

\* set_config and set_token never save what run_service refuses.
THEOREM FileIsStartable == Spec => []StoredIsStartable
  <1>1. IInv => StoredIsStartable
    BY DEF IInv, SettingsInv
  <1>2. QED BY <1>1, AlwaysIInv, PTL

=============================================================================
