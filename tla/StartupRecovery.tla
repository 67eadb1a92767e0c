---------------------------- MODULE StartupRecovery ----------------------------
(***************************************************************************)
(* A start of the configured service on the files that earlier processes   *)
(* left: the journal gate, the state key and the signed state              *)
(* (state_io.rs, core state.rs), then recover_owner_state with the records *)
(* an earlier release wrote, whose operations carry no candidate state and *)
(* are applied to the loaded state one by one (sync_engine.rs).  The       *)
(* process may end at every step, and every file and remote call may fail. *)
(***************************************************************************)
EXTENDS JournalFile

CONSTANTS
    Bare,        \* candidate of an earlier release's record: none
    Unreadable,  \* payload that is not its id's, or a later release's record
    Keys,        \* state keys that are ever drawn
    NoKey        \* state-hmac-key.bin is absent; nothing signed the state

ASSUME StartupAssumption ==
    /\ Bare = NoState /\ Unreadable \in States \ {Bare}
    /\ NoKey \notin Keys

VARIABLES
    pc,        \* how far the start is; "before", while earlier processes run
    key,       \* state-hmac-key.bin
    state,     \* state.toml: the key that signed it and what it holds
    held,      \* the key in memory
    mem,       \* persisted_state: what the loaded state holds
    todo,      \* pending entries still to be replayed, or to be committed
    recovered  \* history: operations a start has established on the server

memory == <<held, mem, todo>>
startVars == <<file, pc, key, state, memory, recovered>>

\* A state holds the operations it reflects and the assets it knows: the target
\* of an operation is its matched asset or one of its monitors.
Contents == [reflects : SUBSET Ids, knows : SUBSET Ids]
Default == [reflects |-> {}, knows |-> {}]

NoStateFile == [by |-> NoKey, holds |-> Default]

StartupInit ==
    /\ FileInit
    /\ pc = "before"
    /\ key = NoKey /\ state = NoStateFile
    /\ held = NoKey /\ mem = Default /\ todo = <<>>
    /\ recovered = {}

Goto(step) == pc' = step

\* The process ends, and what it knew with it.
Ends ==
    /\ Goto("down")
    /\ held' = NoKey /\ mem' = Default /\ todo' = <<>>

-----------------------------------------------------------------------------
(* Before: earlier processes and releases write the journal.               *)

Earlier ==
    /\ pc = "before"
    /\ FileNext
    /\ UNCHANGED <<pc, key, state, memory, recovered>>

\* They end and leave a key, and a state unless none was saved yet.  One release
\* wrote what is pending: each recovers what is on file before it adds to it.
EarlierEnd ==
    /\ pc = "before"
    /\ \E s \in States : \A i \in DOMAIN lines : \A r \in lines[i].rec :
          r.phase # "committed" => r.state = s
    /\ key' \in Keys
    /\ state' \in {NoStateFile} \cup
         [by : {key'}, holds : [reflects : {{}}, knows : SUBSET Ids]]
    /\ Goto("down")
    /\ UNCHANGED <<file, memory, recovered>>

\* admit_journal_for_startup, after the mutex, the directory and the settings.
Admit ==
    /\ pc = "down"
    /\ Recover
    /\ Goto("admitted")
    /\ UNCHANGED <<key, state, memory, recovered>>

Blocked ==
    /\ pc = "down"
    /\ RecoverRefused \/ RecoverPreservationFailed
    /\ Goto("down")
    /\ UNCHANGED <<key, state, memory, recovered>>

-----------------------------------------------------------------------------
(* The key and the state                                                   *)

\* A random key is none that signed anything before.
FreshKeys == Keys \ {state.by}

\* Mutant of LoadKey: the key is drawn and not written.
LoadKeyUnsaved ==
    /\ pc = "admitted"
    /\ held' \in IF key = NoKey THEN FreshKeys ELSE {key}
    /\ Goto("keyed")
    /\ UNCHANGED <<file, key, state, mem, todo, recovered>>

LoadKey ==
    /\ pc = "admitted"
    /\ key' \in IF key = NoKey THEN FreshKeys ELSE {key}
    /\ held' = key'
    /\ Goto("keyed")
    /\ UNCHANGED <<file, state, mem, todo, recovered>>

\* The file cannot be read or drawn, or the write fails before or after.
LoadKeyFails ==
    /\ pc = "admitted"
    /\ key' \in IF key = NoKey THEN FreshKeys \cup {NoKey} ELSE {key}
    /\ Ends
    /\ UNCHANGED <<file, state, recovered>>

\* ServiceState::verify
Verifies(k) == state.by \in {NoKey, k}

\* Records of the journal's pending entries, in the order of their preparation.
Entries == PendingWithEvidence(TheRecords).pending

LoadState ==
    /\ pc = "keyed"
    /\ Verifies(held)
    /\ mem' = state.holds
    /\ todo' = Entries
    /\ Goto("recovering")
    /\ UNCHANGED <<file, key, state, held, recovered>>

LoadStateFails ==
    /\ pc = "keyed"
    /\ Ends
    /\ UNCHANGED <<file, key, state, recovered>>

-----------------------------------------------------------------------------
(* recover_pending                                                         *)

\* decode_prepared_operation: the payload is the one the id names, and so is the
\* candidate of a record that has one.
Decodes(e) == e.state # Unreadable

\* replay_one.  The server ends up with the operation's values.
Replay ==
    /\ pc = "recovering" /\ todo # <<>>
    /\ LET e == Head(todo) IN
         /\ Decodes(e)
         /\ recovered' = recovered \cup {e.id}
         /\ IF e.observed THEN todo' = Tail(todo) /\ UNCHANGED pc
            ELSE Goto("replayed") /\ UNCHANGED todo
    /\ UNCHANGED <<file, key, state, held, mem>>

\* Undecodable, refused or unreachable, or applied and the answer lost.
ReplayFails ==
    /\ pc = "recovering" /\ todo # <<>>
    /\ recovered' \in {recovered} \cup
         (IF Decodes(Head(todo)) THEN {recovered \cup {Head(todo).id}} ELSE {})
    /\ Ends
    /\ UNCHANGED <<file, key, state>>

\* merge_recovered_asset: the candidate takes the asset the server answered
\* with; an entry without a candidate keeps none.
Outcome(e) == Record("observed", e.id, e.state)

Observe ==
    /\ pc = "replayed"
    /\ Write(Outcome(Head(todo)))
    /\ todo' = Tail(todo)
    /\ Goto("recovering")
    /\ UNCHANGED <<key, state, held, mem, recovered>>

ObserveFails ==
    /\ pc = "replayed"
    /\ WriteTorn(Outcome(Head(todo))) \/ UNCHANGED file
    /\ Ends
    /\ UNCHANGED <<key, state, recovered>>

-----------------------------------------------------------------------------
(* apply_recovered_candidate_states, save_state, commit_after_state_save   *)

\* Operations prepared no later than x.  Each was applied when x was prepared,
\* and x's candidate, a whole state, reflects it.
UpTo(x) ==
    {y \in Ids : \E i \in DOMAIN lines : \E r \in lines[i].rec :
        /\ r.phase = "prepared" /\ r.id = y
        /\ \A j \in 1 .. (i - 1) : \A q \in lines[j].rec : q.phase = "prepared" => q.id # x}

\* apply_candidate_state
Adopted(e) == [reflects |-> UpTo(e.id), knows |-> Ids]

\* apply_legacy_operation_delta, which needs the asset in the state it changes.
Changed(holds, e) == [holds EXCEPT !.reflects = @ \cup {e.id}]

ApplyEntry(acc, e) ==
    IF e.state = Bare
      THEN [ok |-> acc.ok /\ e.id \in acc.holds.knows, holds |-> Changed(acc.holds, e)]
      ELSE [ok |-> acc.ok, holds |-> Adopted(e)]

\* Mutant of Applied: only candidates are applied.
AppliedCandidates ==
    LET after[n \in 0 .. Len(Entries)] ==
            IF n = 0 THEN [ok |-> TRUE, holds |-> mem]
            ELSE IF Entries[n].state = Bare THEN after[n - 1]
            ELSE ApplyEntry(after[n - 1], Entries[n])
    IN  after[Len(Entries)]

Applied ==
    LET after[n \in 0 .. Len(Entries)] ==
            IF n = 0 THEN [ok |-> TRUE, holds |-> mem]
            ELSE ApplyEntry(after[n - 1], Entries[n])
    IN  after[Len(Entries)]

NothingPending ==
    /\ pc = "recovering" /\ Entries = <<>>
    /\ Goto("serving")
    /\ UNCHANGED <<file, key, state, memory, recovered>>

ReadyToSave == pc = "recovering" /\ todo = <<>> /\ Entries # <<>>

\* The changes are made to a copy, so that none is kept unless all can be made.
Inapplicable ==
    /\ ReadyToSave
    /\ ~Applied.ok
    /\ Ends
    /\ UNCHANGED <<file, key, state, recovered>>

\* save_state signs what it writes.
Save ==
    /\ ReadyToSave
    /\ Applied.ok
    /\ state' = [by |-> held, holds |-> Applied.holds]
    /\ mem' = Applied.holds
    /\ todo' = Entries
    /\ Goto("commit")
    /\ UNCHANGED <<file, key, held, recovered>>

SaveFails ==
    /\ ReadyToSave
    /\ Applied.ok
    /\ state' \in {state, [by |-> held, holds |-> Applied.holds]}
    /\ Ends
    /\ UNCHANGED <<file, key, recovered>>

Terminal(e) == Record("committed", e.id, NoState)

Commit ==
    /\ pc = "commit" /\ todo # <<>>
    /\ Write(Terminal(Head(todo)))
    /\ todo' = Tail(todo)
    /\ UNCHANGED <<pc, key, state, held, mem, recovered>>

CommitFails ==
    /\ pc = "commit" /\ todo # <<>>
    /\ WriteTorn(Terminal(Head(todo))) \/ UNCHANGED file
    /\ Ends
    /\ UNCHANGED <<key, state, recovered>>

CompactJournal ==
    /\ pc = "commit" /\ todo = <<>>
    /\ CompactFile
    /\ Goto("serving")
    /\ UNCHANGED <<key, state, memory, recovered>>

CompactFails ==
    /\ pc = "commit" /\ todo = <<>>
    /\ CompactFile \/ UNCHANGED file
    /\ Ends
    /\ UNCHANGED <<key, state, recovered>>

-----------------------------------------------------------------------------

Crash ==
    /\ pc \notin {"before", "down"}
    /\ Ends
    /\ UNCHANGED <<file, key, state, recovered>>

\* The operator resets the state: two files removed, in either order.
RemoveState ==
    /\ pc = "down"
    /\ state' = NoStateFile
    /\ recovered' = {}
    /\ UNCHANGED <<file, pc, key, memory>>

RemoveKey ==
    /\ pc = "down"
    /\ key' = NoKey
    /\ UNCHANGED <<file, pc, state, memory, recovered>>

StartupNext ==
    \/ Earlier \/ EarlierEnd \/ Admit \/ Blocked
    \/ LoadKey \/ LoadKeyFails \/ LoadState \/ LoadStateFails
    \/ Replay \/ ReplayFails \/ Observe \/ ObserveFails
    \/ NothingPending \/ Inapplicable \/ Save \/ SaveFails
    \/ Commit \/ CommitFails \/ CompactJournal \/ CompactFails
    \/ Crash \/ RemoveState \/ RemoveKey

StartupSpec == StartupInit /\ [][StartupNext]_startVars

-----------------------------------------------------------------------------
(* Properties                                                              *)

\* What a start established on the server is never forgotten, whichever release
\* prepared it and wherever starts end: until state.toml reflects an operation,
\* the journal has it pending.  Only an operator who removes the state gives it up.
RecoveredIsKept ==
    AllParse => \A x \in recovered :
        x \in state.holds.reflects \/ \E i \in DOMAIN Entries : Entries[i].id = x

\* A state that the key on file verifies can be verified after every step of the
\* service, also when the start that drew the key got no further: only an operator
\* who removes the key alone makes a start refuse the state.
StaysVerifiable ==
    [][(Verifies(key) => Verifies(key)') \/ (key # NoKey /\ key' = NoKey)]_<<key, state>>

=============================================================================
