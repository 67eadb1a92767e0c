----------------------------- MODULE AtomicFile -----------------------------
(***************************************************************************)
(* The same-directory atomic writer (spotter-svc/src/atomic_file.rs) and   *)
(* the stale-file recovery of the service's start.  One destination, one   *)
(* service process at a time (the named mutex of run_service), whose PID   *)
(* may be one an earlier process had; other programs may hold a dead       *)
(* service's PID.  A process may end before every step of a write and of   *)
(* the recovery, and every file operation may fail; the replacement of an  *)
(* existing destination may also fail half way.                            *)
(***************************************************************************)
EXTENDS Naturals, FiniteSets

CONSTANTS None,      \* no such file, no such process
          Partial,   \* a file created and not wholly written
          Pids,      \* process identifiers of the machine
          Nonces,    \* the random part of a temporary name
          MaxWrites  \* writes ever begun (bound of the model)

ASSUME AtomicFileAssumption ==
  /\ MaxWrites \in Nat
  /\ None # Partial
  /\ {None, Partial} \cap (0 .. MaxWrites) = {}
  /\ {None, Partial} \cap {"complete"} = {}
  /\ None \notin Pids /\ None \notin Pids \X Nonces

Names == Pids \X Nonces              \* <destination>.tmp.<pid>.<nonce>
Contents == 0 .. MaxWrites           \* complete contents; 0 is the first

VARIABLES
  dest,     \* what a reader of the destination finds; None when it is gone
  temps,    \* temps[n]: the temporary of that name
  owners,   \* owners[n]: its owner sidecar
  aged,     \* temporaries older than the recovery's threshold
  agedOwners, \* sidecars older than the threshold
  pid,      \* the PID of the running service
  pc,       \* what it is about to do
  name,     \* the temporary of the write in flight
  begun,    \* writes begun: the content now being written
  before,   \* the destination when that write began
  told,     \* what the last write returned
  scan,     \* names the recovery still has to visit
  due,      \* names it found collectable when it listed the directory
  others    \* PIDs held by other programs

leftovers == <<temps, owners, aged, agedOwners>>
call == <<begun, before, told>>      \* of the write in flight or the last one
recovery == <<scan, due>>
vars == <<dest, leftovers, pid, pc, name, call, recovery, others>>

Running == pc # "down"

(* atomic_file.rs owner_is_dead, and the check for the caller's own PID.   *)
OwnedByDead(n) == n[1] # pid /\ n[1] \notin others

(* The sidecar holds the PID and the nonce its file name carries.          *)
Matching(n) == owners[n] = "complete"

Init ==
  /\ dest \in {None, 0} /\ before = dest /\ begun = 0
  /\ temps = [n \in Names |-> None]
  /\ owners = [n \in Names |-> None]
  /\ aged = {} /\ agedOwners = {}
  /\ pid = None /\ pc = "down" /\ name = None /\ told = "none"
  /\ scan = {} /\ due = {} /\ others = {}

-----------------------------------------------------------------------------
(* The machine: programs come and go while the service is down (a recovery *)
(* takes no time next to the life of a program); the clock passes the      *)
(* threshold for every file there is.                                      *)
OtherProgram ==
  /\ ~Running
  /\ others' \in SUBSET Pids
  /\ others' # others
  /\ UNCHANGED <<dest, leftovers, pid, pc, name, call, recovery>>

TimePasses ==
  /\ ~Running \/ pc = "idle"
  /\ aged' = {n \in Names : temps[n] # None}
  /\ agedOwners' = {n \in Names : owners[n] # None}
  /\ <<aged, agedOwners>>' # <<aged, agedOwners>>
  /\ UNCHANGED <<dest, temps, owners, pid, pc, name, call, recovery, others>>

(* The process ends: killed, or startup fails on an error of the recovery. *)
Ends ==
  /\ Running
  /\ pc' = "down" /\ pid' = None /\ name' = None
  /\ scan' = {} /\ due' = {}
  /\ UNCHANGED <<dest, leftovers, call, others>>

-----------------------------------------------------------------------------
RemoveTemporary(n) ==
  /\ temps' = [temps EXCEPT ![n] = None]
  /\ aged' = aged \ {n}
  /\ UNCHANGED <<owners, agedOwners>>

RemoveOwner(n) ==
  /\ owners' = [owners EXCEPT ![n] = None]
  /\ agedOwners' = agedOwners \ {n}
  /\ UNCHANGED <<temps, aged>>

(* recover_stale_temporary_files: the directory is listed once, sidecars   *)
(* without a temporary are visited first, then the temporaries.            *)
Collectable(n) ==
  /\ OwnedByDead(n)
  /\ Matching(n)
  /\ IF temps[n] = None THEN n \in agedOwners ELSE n \in aged

Start ==
  /\ ~Running
  /\ pid' \in Pids \ others
  /\ due' = {n \in Names : n[1] # pid' /\ Collectable(n)}
  /\ scan' = {n \in Names : owners[n] # None}
  /\ pc' = "orphans"
  /\ UNCHANGED <<dest, leftovers, name, call, others>>

VisitOrphan ==
  /\ pc = "orphans"
  /\ \E n \in scan :
       /\ scan' = scan \ {n}
       /\ IF temps[n] = None /\ Collectable(n)
            THEN RemoveOwner(n)
            ELSE UNCHANGED leftovers
  /\ UNCHANGED <<dest, pid, pc, name, call, due, others>>

OrphansDone ==
  /\ pc = "orphans" /\ scan = {}
  /\ pc' = "temporaries"
  /\ scan' = {n \in Names : temps[n] # None}
  /\ UNCHANGED <<dest, leftovers, pid, name, call, due, others>>

(* Mutant of VisitTemporary: the sidecar goes first.                       *)
VisitTemporaryOwnerFirst ==
  /\ pc = "temporaries"
  /\ \E n \in scan :
       /\ scan' = scan \ {n}
       /\ \/ /\ Collectable(n)
             /\ RemoveOwner(n)
             /\ pc' = "sidecar" /\ name' = n
          \/ /\ ~Collectable(n)
             /\ UNCHANGED <<leftovers, pc, name>>
  /\ UNCHANGED <<dest, pid, call, due, others>>

(* The temporary goes first and its sidecar second, in two calls.          *)
VisitTemporary ==
  /\ pc = "temporaries"
  /\ \E n \in scan :
       /\ scan' = scan \ {n}
       /\ \/ /\ Collectable(n)
             /\ RemoveTemporary(n)
             /\ pc' = "sidecar" /\ name' = n
          \/ /\ ~Collectable(n)
             /\ UNCHANGED <<leftovers, pc, name>>
  /\ UNCHANGED <<dest, pid, call, due, others>>

(* Mutant of VisitSidecar: the sidecar of a removed temporary is left.     *)
VisitSidecarOnly ==
  /\ pc = "sidecar"
  /\ pc' = "temporaries" /\ name' = None
  /\ UNCHANGED <<dest, leftovers, pid, call, recovery, others>>

VisitSidecar ==
  /\ pc = "sidecar"
  /\ RemoveOwner(name)
  /\ pc' = "temporaries" /\ name' = None
  /\ UNCHANGED <<dest, pid, call, recovery, others>>

RecoveryDone ==
  /\ pc = "temporaries" /\ scan = {}
  /\ pc' = "idle"
  /\ UNCHANGED <<dest, leftovers, pid, name, call, recovery, others>>

-----------------------------------------------------------------------------
(* write_with_controller.  Every operation may fail; Fails is its common   *)
(* exit, which removes both files if the system lets it.                   *)
Begin ==
  /\ pc = "idle"
  /\ begun < MaxWrites
  /\ begun' = begun + 1
  /\ before' = dest
  /\ told' = "none"
  /\ pc' = "naming"
  /\ UNCHANGED <<dest, leftovers, pid, name, recovery, others>>

(* create_temporary_identity: exclusive creation of the temporary; a name  *)
(* in use is drawn again.                                                  *)
CreateTemporary ==
  /\ pc = "naming"
  /\ \E n \in Names :
       /\ n[1] = pid
       /\ temps[n] = None
       /\ temps' = [temps EXCEPT ![n] = Partial]
       /\ name' = n
  /\ pc' = "created"
  /\ UNCHANGED <<dest, owners, aged, agedOwners, pid, call, recovery, others>>

(* create_owner_metadata: exclusive creation, then the identity.           *)
CreateOwner ==
  /\ pc = "created"
  /\ owners[name] = None
  /\ owners' = [owners EXCEPT ![name] = Partial]
  /\ pc' = "owning"
  /\ UNCHANGED <<dest, temps, aged, agedOwners, pid, name, call, recovery,
                 others>>

OwnerTaken ==
  /\ pc = "created"
  /\ owners[name] # None
  /\ RemoveTemporary(name)
  /\ pc' = "naming" /\ name' = None
  /\ UNCHANGED <<dest, pid, call, recovery, others>>

WriteOwner ==
  /\ pc = "owning"
  /\ owners' = [owners EXCEPT ![name] = "complete"]
  /\ pc' = "owned"
  /\ UNCHANGED <<dest, temps, aged, agedOwners, pid, name, call, recovery,
                 others>>

(* The bytes, and the flush that follows them.                             *)
WriteBytes ==
  /\ pc = "owned"
  /\ temps' = [temps EXCEPT ![name] = begun]
  /\ pc' = "written"
  /\ UNCHANGED <<dest, owners, aged, agedOwners, pid, name, call, recovery,
                 others>>

(* Mutant of Replace: the destination is replaced before the bytes are     *)
(* written.                                                                *)
ReplaceUnwritten ==
  /\ pc \in {"owned", "written"}
  /\ dest' = temps[name]
  /\ temps' = [temps EXCEPT ![name] = None]
  /\ pc' = "replaced"
  /\ UNCHANGED <<owners, aged, agedOwners, pid, name, call, recovery, others>>

(* Mutant of Replace: an existing destination is deleted to make room.     *)
ReplaceAfterDeleting ==
  /\ pc = "written"
  /\ IF dest # None
       THEN /\ dest' = None
            /\ UNCHANGED <<temps, pc>>
       ELSE /\ dest' = temps[name]
            /\ temps' = [temps EXCEPT ![name] = None]
            /\ pc' = "replaced"
  /\ UNCHANGED <<owners, aged, agedOwners, pid, name, call, recovery, others>>

(* replace: ReplaceFileW on a destination that exists, MoveFileExW where   *)
(* there is none.                                                          *)
Replace ==
  /\ pc = "written"
  /\ dest' = temps[name]
  /\ temps' = [temps EXCEPT ![name] = None]
  /\ pc' = "replaced"
  /\ UNCHANGED <<owners, aged, agedOwners, pid, name, call, recovery, others>>

(* ReplaceFileW, called without a backup name, can fail after it removed   *)
(* the old file and before it renamed the new one                          *)
(* (ERROR_UNABLE_TO_MOVE_REPLACEMENT); MoveFileExW is a single rename.     *)
ReplacePartly ==
  /\ pc = "written"
  /\ dest # None
  /\ dest' = None
  /\ pc' = "emptied"
  /\ UNCHANGED <<leftovers, pid, name, call, recovery, others>>

(* After the ACL and the directory flush, the sidecar goes; the call       *)
(* succeeds when it is gone and fails, leaving it, when it cannot go.      *)
Finish ==
  /\ pc = "replaced"
  /\ \/ /\ RemoveOwner(name)
        /\ told' = "ok"
     \/ /\ UNCHANGED leftovers
        /\ told' = "error"
  /\ pc' = "idle" /\ name' = None
  /\ UNCHANGED <<dest, pid, begun, before, recovery, others>>

(* A failed step: nothing was created, or what was created is removed,     *)
(* each of the two files if the system lets it; after a partial            *)
(* replacement, the temporary was the only copy.                           *)
Fails ==
  /\ pc \in {"naming", "created", "owning", "owned", "written", "emptied",
             "replaced"}
  /\ \E gone, goneOwner \in (IF name = None THEN {{}} ELSE {{}, {name}}) :
       /\ pc = "created" => goneOwner = {}
       /\ temps' = [n \in Names |-> IF n \in gone THEN None ELSE temps[n]]
       /\ owners' = [n \in Names |-> IF n \in goneOwner THEN None ELSE owners[n]]
       /\ aged' = aged \ gone
       /\ agedOwners' = agedOwners \ goneOwner
  /\ told' = "error"
  /\ pc' = "idle" /\ name' = None
  /\ UNCHANGED <<dest, pid, begun, before, recovery, others>>

Recover == VisitOrphan \/ OrphansDone \/ VisitTemporary \/ VisitSidecar \/ RecoveryDone

Write ==
  Begin \/ CreateTemporary \/ CreateOwner \/ OwnerTaken \/ WriteOwner
    \/ WriteBytes \/ Replace \/ ReplacePartly \/ Finish \/ Fails

Next == OtherProgram \/ TimePasses \/ Ends \/ Start \/ Recover \/ Write

Spec == Init /\ [][Next]_vars

-----------------------------------------------------------------------------
(* Every variable keeps its type; what is aged exists, and the name in     *)
(* flight is the running process's own.                                    *)
TypeOK ==
  /\ dest \in Contents \cup {None} /\ before \in Contents \cup {None}
  /\ begun \in Contents
  /\ temps \in [Names -> {None, Partial} \cup Contents]
  /\ owners \in [Names -> {None, Partial, "complete"}]
  /\ aged \in SUBSET Names /\ agedOwners \in SUBSET Names
  /\ pid \in Pids \cup {None}
  /\ pc \in {"down", "orphans", "temporaries", "sidecar", "idle", "naming",
             "created", "owning", "owned", "written", "emptied", "replaced"}
  /\ name \in Names \cup {None}
  /\ name # None <=> pc \in {"sidecar", "created", "owning", "owned", "written",
                           "emptied", "replaced"}
  /\ told \in {"none", "ok", "error"}
  /\ scan \in SUBSET Names /\ due \in SUBSET Names
  /\ others \in SUBSET Pids

(* Whatever fails and wherever the process ends, a reader of the           *)
(* destination finds the complete content from before the last write, the  *)
(* complete content of that write, or no file at all, and never a mixture; *)
(* until the replacement it is the old one, and after a write that         *)
(* returned success it is the new one.                                     *)
NeverMixed ==
  /\ dest \in {before, begun, None}
  /\ pc \in {"naming", "created", "owning", "owned", "written"} => dest = before
  /\ told = "ok" => dest = begun

OldOrNew == dest \in {before, begun}

(* Old or new, as the documentation of the writer has it (architecture.md  *)
(* :73), is lost by one step only: the replacement of an existing file     *)
(* that fails half way.  No other failure, no end of the process at any    *)
(* step, no recovery and no later write takes both contents away.          *)
OldOrNewUnlessPartial == [][OldOrNew => OldOrNew' \/ ReplacePartly]_vars

(* A leftover temporary that carries its sidecar is either removed by the  *)
(* recovery of a start or keeps that sidecar, wherever the start ends, so  *)
(* that a later start can still tell whose it is.                          *)
StaysCollectable ==
  [][\A n \in Names :
       pc \in {"orphans", "temporaries", "sidecar"} /\ temps[n] # None /\ Matching(n)
         => temps'[n] = None \/ Matching(n)']_vars

(* A start that gets through its recovery leaves nothing of what was       *)
(* collectable when it listed the directory: neither a temporary nor a     *)
(* sidecar, whatever earlier starts left half done.                        *)
RecoveryComplete ==
  [][pc = "temporaries" /\ pc' = "idle" =>
       \A n \in due : temps'[n] = None /\ owners'[n] = None]_vars

=============================================================================
