-------------------------- MODULE AtomicFile_proofs --------------------------
(***************************************************************************)
(* What a reader finds under the atomic writer, what alone breaks its      *)
(* old-or-new guarantee, and what its recovery keeps and collects, for     *)
(* every set of PIDs and nonces and every number of writes.                *)
(***************************************************************************)
EXTENDS AtomicFile, TLAPS

Writing == {"naming", "created", "owning", "owned", "written", "emptied",
            "replaced"}

(* NeverMixed is not inductive: that the replacement installs what the call  *)
(* was asked to write rests on what is in the temporary by then.           *)
ReadyIsComplete == pc = "written" => temps[name] = begun
ReplacedIsNew == pc = "replaced" => dest = begun
UnansweredWhileWriting == pc \in Writing => told = "none"

IInv ==
  /\ TypeOK
  /\ NeverMixed
  /\ ReadyIsComplete
  /\ ReplacedIsNew
  /\ UnansweredWhileWriting

(* The two removals keep the types of the files.                           *)
LEMMA RemovalTypes ==
  ASSUME TypeOK, NEW n \in Names, RemoveTemporary(n) \/ RemoveOwner(n)
  PROVE  /\ temps' \in [Names -> {None, Partial} \cup Contents]
         /\ owners' \in [Names -> {None, Partial, "complete"}]
         /\ aged' \in SUBSET Names /\ agedOwners' \in SUBSET Names
  BY DEF TypeOK, RemoveTemporary, RemoveOwner

(* The initial state satisfies the invariant.                              *)
LEMMA InitInvariant == Init => IInv
<1> SUFFICES ASSUME Init PROVE IInv
  OBVIOUS
<1> USE AtomicFileAssumption
<1>1. TypeOK
  BY DEF Init, TypeOK, Contents
<1>2. NeverMixed /\ ReadyIsComplete /\ ReplacedIsNew /\ UnansweredWhileWriting
  BY DEF Init, NeverMixed, ReadyIsComplete, ReplacedIsNew, UnansweredWhileWriting, Writing
<1> QED
  BY <1>1, <1>2 DEF IInv

(* Steps outside a write: they touch neither the destination nor the call. *)
LEMMA OutsideWrites ==
  ASSUME IInv, TypeOK', UNCHANGED <<dest, call>>,
         pc' \notin Writing
  PROVE  IInv'
  BY DEF IInv, NeverMixed, ReadyIsComplete, ReplacedIsNew,
         UnansweredWhileWriting, Writing, call

(* A start and its recovery preserve the invariant, finished or cut short. *)
LEMMA RecoverStep ==
  ASSUME IInv, OtherProgram \/ TimePasses \/ Ends \/ Start \/ Recover
  PROVE  IInv'
<1> USE AtomicFileAssumption
<1>0. TypeOK
  BY DEF IInv
<1>1. ASSUME OtherProgram PROVE IInv'
  <2>1. TypeOK'
    BY <1>0, <1>1 DEF OtherProgram, TypeOK, leftovers, call, recovery
  <2>2. pc' \notin Writing /\ UNCHANGED <<dest, call>>
    BY <1>1 DEF OtherProgram, Running, Writing
  <2> QED
    BY <2>1, <2>2, OutsideWrites
<1>2. ASSUME TimePasses PROVE IInv'
  <2>1. TypeOK'
    BY <1>0, <1>2 DEF TimePasses, TypeOK, call, recovery
  <2>2. pc' \notin Writing /\ UNCHANGED <<dest, call>>
    BY <1>2 DEF TimePasses, Running, Writing
  <2> QED
    BY <2>1, <2>2, OutsideWrites
<1>3. ASSUME Ends PROVE IInv'
  <2>1. TypeOK'
    BY <1>0, <1>3 DEF Ends, TypeOK, leftovers, call
  <2>2. pc' \notin Writing /\ UNCHANGED <<dest, call>>
    BY <1>3 DEF Ends, Writing
  <2> QED
    BY <2>1, <2>2, OutsideWrites
<1>4. ASSUME Start PROVE IInv'
  <2>1. TypeOK'
    BY <1>0, <1>4 DEF Start, TypeOK, leftovers, call, Running
  <2>2. pc' \notin Writing /\ UNCHANGED <<dest, call>>
    BY <1>4 DEF Start, Writing
  <2> QED
    BY <2>1, <2>2, OutsideWrites
<1>5. ASSUME VisitOrphan PROVE IInv'
  <2>1. TypeOK'
    <3>1. PICK n \in scan : /\ scan' = scan \ {n}
                            /\ RemoveOwner(n) \/ UNCHANGED leftovers
      BY <1>5 DEF VisitOrphan
    <3>2. n \in Names
      BY <1>0, <3>1 DEF TypeOK
    <3>3. /\ temps' \in [Names -> {None, Partial} \cup Contents]
          /\ owners' \in [Names -> {None, Partial, "complete"}]
          /\ aged' \in SUBSET Names /\ agedOwners' \in SUBSET Names
      BY <1>0, <3>1, <3>2, RemovalTypes DEF TypeOK, leftovers
    <3> QED
      BY <1>0, <1>5, <3>1, <3>3 DEF VisitOrphan, TypeOK, call
  <2>2. pc' \notin Writing /\ UNCHANGED <<dest, call>>
    BY <1>5 DEF VisitOrphan, Writing
  <2> QED
    BY <2>1, <2>2, OutsideWrites
<1>6. ASSUME OrphansDone PROVE IInv'
  <2>1. TypeOK'
    BY <1>0, <1>6 DEF OrphansDone, TypeOK, leftovers, call
  <2>2. pc' \notin Writing /\ UNCHANGED <<dest, call>>
    BY <1>6 DEF OrphansDone, Writing
  <2> QED
    BY <2>1, <2>2, OutsideWrites
<1>7. ASSUME VisitTemporary PROVE IInv'
  <2>1. TypeOK'
    <3>1. PICK n \in scan :
            /\ scan' = scan \ {n}
            /\ \/ /\ RemoveTemporary(n)
                  /\ pc' = "sidecar" /\ name' = n
               \/ UNCHANGED <<leftovers, pc, name>>
      BY <1>7 DEF VisitTemporary
    <3>2. n \in Names /\ n # None
      BY <1>0, <3>1 DEF TypeOK, Names
    <3>3. /\ temps' \in [Names -> {None, Partial} \cup Contents]
          /\ owners' \in [Names -> {None, Partial, "complete"}]
          /\ aged' \in SUBSET Names /\ agedOwners' \in SUBSET Names
      BY <1>0, <3>1, <3>2, RemovalTypes DEF TypeOK, leftovers
    <3> QED
      BY <1>0, <1>7, <3>1, <3>2, <3>3 DEF VisitTemporary, TypeOK, call
  <2>2. pc' \notin Writing /\ UNCHANGED <<dest, call>>
    BY <1>7 DEF VisitTemporary, Writing
  <2> QED
    BY <2>1, <2>2, OutsideWrites
<1>8. ASSUME VisitSidecar PROVE IInv'
  <2>1. TypeOK'
    <3>1. name \in Names
      BY <1>0, <1>8 DEF VisitSidecar, TypeOK
    <3>2. /\ temps' \in [Names -> {None, Partial} \cup Contents]
          /\ owners' \in [Names -> {None, Partial, "complete"}]
          /\ aged' \in SUBSET Names /\ agedOwners' \in SUBSET Names
      BY <1>0, <1>8, <3>1, RemovalTypes DEF VisitSidecar
    <3> QED
      BY <1>0, <1>8, <3>2 DEF VisitSidecar, TypeOK, call, recovery
  <2>2. pc' \notin Writing /\ UNCHANGED <<dest, call>>
    BY <1>8 DEF VisitSidecar, Writing
  <2> QED
    BY <2>1, <2>2, OutsideWrites
<1>9. ASSUME RecoveryDone PROVE IInv'
  <2>1. TypeOK'
    BY <1>0, <1>9 DEF RecoveryDone, TypeOK, leftovers, call, recovery
  <2>2. pc' \notin Writing /\ UNCHANGED <<dest, call>>
    BY <1>9 DEF RecoveryDone, Writing
  <2> QED
    BY <2>1, <2>2, OutsideWrites
<1> QED
  BY <1>1, <1>2, <1>3, <1>4, <1>5, <1>6, <1>7, <1>8, <1>9 DEF Recover

(* Every step of a write preserves the invariant.                          *)
LEMMA WriteStep ==
  ASSUME IInv, Write
  PROVE  IInv'
<1> USE AtomicFileAssumption
<1>0. TypeOK
  BY DEF IInv
<1> DEFINE Rest == /\ NeverMixed /\ ReadyIsComplete /\ ReplacedIsNew
                   /\ UnansweredWhileWriting
<1>r. Rest
  BY DEF IInv
<1> USE DEF NeverMixed, ReadyIsComplete, ReplacedIsNew, UnansweredWhileWriting, Writing
<1>1. ASSUME Begin PROVE IInv'
  <2>1. TypeOK'
    BY <1>0, <1>1 DEF Begin, TypeOK, leftovers, recovery, Contents
  <2>2. Rest'
    BY <1>0, <1>1 DEF Begin, TypeOK
  <2> QED
    BY <2>1, <2>2 DEF IInv
<1>2. ASSUME CreateTemporary PROVE IInv'
  <2>1. TypeOK'
    BY <1>0, <1>2 DEF CreateTemporary, TypeOK, call, recovery, Names
  <2>2. Rest'
    BY <1>r, <1>2 DEF CreateTemporary, call
  <2> QED
    BY <2>1, <2>2 DEF IInv
<1>3. ASSUME CreateOwner PROVE IInv'
  <2>1. TypeOK'
    BY <1>0, <1>3 DEF CreateOwner, TypeOK, call, recovery
  <2>2. Rest'
    BY <1>r, <1>3 DEF CreateOwner, call
  <2> QED
    BY <2>1, <2>2 DEF IInv
<1>4. ASSUME OwnerTaken PROVE IInv'
  <2>1. TypeOK'
    BY <1>0, <1>4, RemovalTypes DEF OwnerTaken, TypeOK, call, recovery, RemoveTemporary
  <2>2. Rest'
    BY <1>r, <1>4 DEF OwnerTaken, call
  <2> QED
    BY <2>1, <2>2 DEF IInv
<1>5. ASSUME WriteOwner PROVE IInv'
  <2>1. TypeOK'
    BY <1>0, <1>5 DEF WriteOwner, TypeOK, call, recovery
  <2>2. Rest'
    BY <1>r, <1>5 DEF WriteOwner, call
  <2> QED
    BY <2>1, <2>2 DEF IInv
<1>6. ASSUME WriteBytes PROVE IInv'
  <2>1. TypeOK'
    BY <1>0, <1>6 DEF WriteBytes, TypeOK, call, recovery
  <2>2. name \in Names /\ temps' = [temps EXCEPT ![name] = begun]
    BY <1>0, <1>6 DEF WriteBytes, TypeOK
  <2>3. temps'[name] = begun
    BY <1>0, <2>2 DEF TypeOK
  <2>4. Rest'
    BY <1>r, <1>6, <2>3 DEF WriteBytes, call
  <2> QED
    BY <2>1, <2>4 DEF IInv
<1>7. ASSUME Replace PROVE IInv'
  <2>1. dest' = begun
    BY <1>r, <1>7 DEF Replace
  <2>2. TypeOK'
    BY <1>0, <1>7, <2>1 DEF Replace, TypeOK, call, recovery
  <2>3. Rest'
    BY <1>r, <1>7, <2>1 DEF Replace, call
  <2> QED
    BY <2>2, <2>3 DEF IInv
<1>10. ASSUME ReplacePartly PROVE IInv'
  <2>1. TypeOK'
    BY <1>0, <1>10 DEF ReplacePartly, TypeOK, leftovers, call, recovery
  <2>2. Rest'
    BY <1>r, <1>10 DEF ReplacePartly, call
  <2> QED
    BY <2>1, <2>2 DEF IInv
<1>8. ASSUME Finish PROVE IInv'
  <2>1. TypeOK'
    BY <1>0, <1>8 DEF Finish, TypeOK, leftovers, recovery, RemoveOwner
  <2>2. Rest'
    BY <1>r, <1>8 DEF Finish
  <2> QED
    BY <2>1, <2>2 DEF IInv
<1>9. ASSUME Fails PROVE IInv'
  <2>1. PICK gone \in SUBSET Names, goneOwner \in SUBSET Names :
          /\ temps' = [n \in Names |-> IF n \in gone THEN None ELSE temps[n]]
          /\ owners' = [n \in Names |-> IF n \in goneOwner THEN None ELSE owners[n]]
          /\ aged' = aged \ gone
          /\ agedOwners' = agedOwners \ goneOwner
    BY <1>0, <1>9 DEF Fails, TypeOK
  <2>2. TypeOK'
    BY <1>0, <1>9, <2>1 DEF Fails, TypeOK, recovery
  <2>3. Rest'
    BY <1>r, <1>9 DEF Fails
  <2> QED
    BY <2>2, <2>3 DEF IInv
<1> QED
  BY <1>1, <1>2, <1>3, <1>4, <1>5, <1>6, <1>7, <1>8, <1>9, <1>10 DEF Write

(* The invariant holds in every state of every run.                        *)
THEOREM InvariantHolds == Spec => []IInv
<1>1. IInv /\ [Next]_vars => IInv'
  <2> SUFFICES ASSUME IInv, [Next]_vars PROVE IInv'
    OBVIOUS
  <2>1. CASE UNCHANGED vars
    BY <2>1 DEF IInv, TypeOK, NeverMixed, ReadyIsComplete, ReplacedIsNew,
                UnansweredWhileWriting, vars, leftovers, call, recovery
  <2>2. CASE Next
    BY <2>2, RecoverStep, WriteStep DEF Next
  <2> QED
    BY <2>1, <2>2
<1> QED
  BY <1>1, InitInvariant, PTL DEF Spec

(* Every variable keeps its type in every run.                             *)
THEOREM TypeCorrect == Spec => []TypeOK
<1>1. IInv => TypeOK
  BY DEF IInv
<1> QED
  BY <1>1, InvariantHolds, PTL

(* A reader never finds a mixture, wherever a write fails or the process   *)
(* ends.                                                                   *)
THEOREM NeverMixedHolds == Spec => []NeverMixed
<1>1. IInv => NeverMixed
  BY DEF IInv
<1> QED
  BY <1>1, InvariantHolds, PTL

(* One step only takes the destination out of old-or-new: the replacement  *)
(* of an existing file that fails half way.                                *)
THEOREM OnlyPartialReplacementBreaks == Spec => OldOrNewUnlessPartial
<1>1. ASSUME IInv, IInv', [Next]_vars
      PROVE  [OldOrNew => OldOrNew' \/ ReplacePartly]_vars
  <2> SUFFICES ASSUME Next, OldOrNew PROVE OldOrNew' \/ ReplacePartly
    BY <1>1
  <2>1. CASE Begin
    BY <2>1 DEF Begin, OldOrNew
  <2>2. CASE Replace
    BY <1>1, <2>2 DEF Replace, call, OldOrNew, IInv, ReadyIsComplete
  <2>3. CASE UNCHANGED <<dest, begun, before>>
    BY <2>3 DEF OldOrNew
  <2>4. CASE ReplacePartly
    BY <2>4
  <2> QED
    BY <2>1, <2>2, <2>3, <2>4 DEF Next, OtherProgram, TimePasses, Ends, Start, Recover,
       VisitOrphan, OrphansDone, VisitTemporary, VisitSidecar, RecoveryDone, Write,
       CreateTemporary, CreateOwner, OwnerTaken, WriteOwner, WriteBytes, Finish, Fails, call
<1> QED
  BY <1>1, InvariantHolds, PTL DEF Spec, OldOrNewUnlessPartial

-----------------------------------------------------------------------------
(* The recovery                                                            *)

(* A leftover found collectable at the start is gone, or still collectable *)
(* and still to be visited: as an orphan, or as a temporary.               *)
Gone(n) == temps[n] = None /\ owners[n] = None
Ahead(n) == Collectable(n) /\ temps[n] # None /\ n \in scan

RecoveryInv ==
  /\ pc = "orphans" => \A n \in due :
       Gone(n) \/ (Collectable(n) /\ (temps[n] = None => n \in scan))
  /\ pc = "temporaries" => \A n \in due : Gone(n) \/ Ahead(n)
  /\ pc = "sidecar" => /\ temps[name] = None
                       /\ \A n \in due : Gone(n) \/ n = name \/ Ahead(n)

Recovering == {"orphans", "temporaries", "sidecar"}

(* The start lists what is collectable, and every sidecar.                 *)
LEMMA StartRecovery ==
  ASSUME TypeOK, Start
  PROVE  RecoveryInv'
<1>1. /\ due' = {n \in Names : n[1] # pid' /\ Collectable(n)}
      /\ scan' = {n \in Names : owners[n] # None}
      /\ pc' = "orphans" /\ UNCHANGED <<temps, owners, aged, agedOwners, others>>
  BY DEF Start, leftovers
<1>2. ASSUME NEW n \in due'
      PROVE  Collectable(n)' /\ n \in scan'
  <2>1. n \in Names /\ n[1] # pid' /\ Collectable(n)
    BY <1>1, <1>2
  <2>2. owners[n] = "complete" /\ n[1] \notin others
    BY <2>1 DEF Collectable, Matching, OwnedByDead
  <2>3. owners[n] # None
    BY <2>2, AtomicFileAssumption
  <2> QED
    BY <1>1, <2>1, <2>2, <2>3 DEF Collectable, Matching, OwnedByDead
<1> QED
  BY <1>1, <1>2 DEF RecoveryInv

(* Visiting an orphan removes it or leaves everything.                     *)
LEMMA OrphanRecovery ==
  ASSUME TypeOK, RecoveryInv, VisitOrphan
  PROVE  RecoveryInv'
<1>1. PICK m \in scan : /\ scan' = scan \ {m}
                        /\ IF temps[m] = None /\ Collectable(m)
                             THEN RemoveOwner(m) ELSE UNCHANGED leftovers
  BY DEF VisitOrphan
<1>2. /\ pc = "orphans" /\ pc' = "orphans" /\ m \in Names /\ due \subseteq Names
      /\ UNCHANGED <<pid, due, others>>
  BY <1>1 DEF VisitOrphan, TypeOK
<1>3. ASSUME NEW n \in due
      PROVE  Gone(n)' \/ (Collectable(n)' /\ (temps'[n] = None => n \in scan'))
  <2>1. Gone(n) \/ (Collectable(n) /\ (temps[n] = None => n \in scan))
    BY <1>2 DEF RecoveryInv
  <2>2. CASE temps[m] = None /\ Collectable(m)
    <3>1. /\ owners' = [owners EXCEPT ![m] = None] /\ agedOwners' = agedOwners \ {m}
          /\ UNCHANGED <<temps, aged>>
      BY <1>1, <2>2 DEF RemoveOwner
    <3>2. owners'[m] = None /\ (n # m => owners'[n] = owners[n])
      BY <1>2, <3>1 DEF TypeOK
    <3>3. CASE n = m
      BY <2>2, <3>1, <3>2, <3>3 DEF Gone
    <3>4. CASE n # m
      BY <1>1, <1>2, <2>1, <3>1, <3>2, <3>4 DEF Gone, Collectable, Matching, OwnedByDead
    <3> QED
      BY <3>3, <3>4
  <2>3. CASE ~(temps[m] = None /\ Collectable(m))
    BY <1>1, <1>2, <2>1, <2>3 DEF leftovers, Gone, Collectable, Matching, OwnedByDead
  <2> QED
    BY <2>2, <2>3
<1> QED
  BY <1>2, <1>3 DEF RecoveryInv

(* Visiting a temporary removes it or leaves everything.                   *)
LEMMA TemporaryRecovery ==
  ASSUME TypeOK, RecoveryInv, VisitTemporary
  PROVE  RecoveryInv'
<1>1. PICK m \in scan : /\ scan' = scan \ {m}
                        /\ \/ Collectable(m) /\ RemoveTemporary(m) /\ pc' = "sidecar" /\ name' = m
                           \/ ~Collectable(m) /\ UNCHANGED <<leftovers, pc, name>>
  BY DEF VisitTemporary
<1>2. /\ pc = "temporaries" /\ m \in Names /\ due \subseteq Names
      /\ UNCHANGED <<pid, due, others>>
      /\ \A n \in due : Gone(n) \/ Ahead(n)
  BY <1>1 DEF VisitTemporary, TypeOK, RecoveryInv
<1>3. CASE Collectable(m) /\ RemoveTemporary(m) /\ pc' = "sidecar" /\ name' = m
  <2>1. /\ temps' = [temps EXCEPT ![m] = None] /\ aged' = aged \ {m}
        /\ UNCHANGED <<owners, agedOwners>>
    BY <1>3 DEF RemoveTemporary
  <2>2. temps'[m] = None /\ \A n \in Names \ {m} : temps'[n] = temps[n]
    BY <1>2, <2>1 DEF TypeOK
  <2>3. ASSUME NEW n \in due, n # m
        PROVE  Gone(n)' \/ Ahead(n)'
    BY <1>1, <1>2, <2>1, <2>2, <2>3 DEF Gone, Ahead, Collectable, Matching, OwnedByDead
  <2> QED
    BY <1>2, <1>3, <2>2, <2>3 DEF RecoveryInv
<1>4. CASE ~Collectable(m) /\ UNCHANGED <<leftovers, pc, name>>
  <2>1. ASSUME NEW n \in due
        PROVE  Gone(n)' \/ Ahead(n)'
    BY <1>1, <1>2, <1>4 DEF leftovers, Gone, Ahead, Collectable, Matching, OwnedByDead
  <2> QED
    BY <1>2, <1>4, <2>1 DEF RecoveryInv
<1> QED
  BY <1>1, <1>3, <1>4

(* The sidecar of the temporary that was removed goes after it.            *)
LEMMA SidecarRecovery ==
  ASSUME TypeOK, RecoveryInv, VisitSidecar
  PROVE  RecoveryInv'
<1>1. /\ pc = "sidecar" /\ pc' = "temporaries" /\ name \in Names /\ due \subseteq Names
      /\ owners' = [owners EXCEPT ![name] = None] /\ agedOwners' = agedOwners \ {name}
      /\ UNCHANGED <<temps, aged, pid, due, scan, others>>
  BY DEF VisitSidecar, RemoveOwner, TypeOK, recovery
<1>2. owners'[name] = None /\ \A n \in Names \ {name} : owners'[n] = owners[n]
  BY <1>1 DEF TypeOK
<1>3. temps[name] = None /\ \A n \in due : Gone(n) \/ n = name \/ Ahead(n)
  BY <1>1 DEF RecoveryInv
<1>4. ASSUME NEW n \in due
      PROVE  Gone(n)' \/ Ahead(n)'
  <2>1. CASE n = name
    BY <1>1, <1>2, <1>3, <2>1 DEF Gone
  <2>2. CASE n # name
    BY <1>1, <1>2, <1>3, <2>2 DEF Gone, Ahead, Collectable, Matching, OwnedByDead
  <2> QED
    BY <2>1, <2>2
<1> QED
  BY <1>1, <1>4 DEF RecoveryInv

(* Every step keeps what the recovery owes to the leftovers it listed.     *)
LEMMA RecoveryKept ==
  ASSUME TypeOK, RecoveryInv, [Next]_vars
  PROVE  RecoveryInv'
<1>1. CASE OrphansDone
  <2>1. /\ pc = "orphans" /\ pc' = "temporaries" /\ scan = {} /\ due \subseteq Names
        /\ scan' = {n \in Names : temps[n] # None}
        /\ UNCHANGED <<temps, owners, aged, agedOwners, pid, due, others>>
    BY <1>1 DEF OrphansDone, leftovers, TypeOK
  <2>2. \A n \in due : Gone(n)' \/ Ahead(n)'
    BY <2>1 DEF RecoveryInv, Gone, Ahead, Collectable, Matching, OwnedByDead
  <2> QED
    BY <2>1, <2>2 DEF RecoveryInv
<1>2. CASE OtherProgram \/ TimePasses \/ Ends \/ RecoveryDone \/ Write
  <2>1. pc' \notin Recovering
    BY <1>2 DEF OtherProgram, TimePasses, Ends, RecoveryDone, Running, Recovering, Write, Begin,
       CreateTemporary, CreateOwner, OwnerTaken, WriteOwner, WriteBytes, Replace, ReplacePartly, Finish, Fails
  <2> QED
    BY <2>1 DEF RecoveryInv, Recovering
<1>3. CASE UNCHANGED vars
  BY <1>3 DEF vars, leftovers, recovery, RecoveryInv, Gone, Ahead, Collectable, Matching,
     OwnedByDead
<1> QED
  BY <1>1, <1>2, <1>3, StartRecovery, OrphanRecovery, TemporaryRecovery, SidecarRecovery
     DEF Next, Recover

(* What a recovery listed stays accounted for in every run.                *)
LEMMA RecoveryAccounted == Spec => [](TypeOK /\ RecoveryInv)
<1>1. Init => RecoveryInv
  BY DEF Init, RecoveryInv
<1> QED
  BY <1>1, TypeCorrect, RecoveryKept, PTL DEF Spec

(* A leftover with its sidecar loses the temporary first: a recovery cut   *)
(* short anywhere leaves what the next one recognises.                     *)
THEOREM LeftoversStayCollectable == Spec => StaysCollectable
<1>1. ASSUME TypeOK, RecoveryInv, [Next]_vars, NEW n \in Names, pc \in Recovering,
             temps[n] # None, Matching(n)
      PROVE  temps'[n] = None \/ Matching(n)'
  <2>1. CASE VisitOrphan
    <3>1. PICK m \in scan : (temps[m] = None /\ RemoveOwner(m)) \/ UNCHANGED leftovers
      BY <2>1 DEF VisitOrphan
    <3> QED
      BY <1>1, <3>1 DEF RemoveOwner, leftovers, Matching, TypeOK
  <2>2. CASE VisitTemporary
    <3>1. UNCHANGED owners
      BY <2>2 DEF VisitTemporary, RemoveTemporary, leftovers
    <3> QED
      BY <1>1, <3>1 DEF Matching
  <2>3. CASE VisitSidecar
    <3>1. n # name /\ owners' = [owners EXCEPT ![name] = None]
      BY <1>1, <2>3 DEF VisitSidecar, RemoveOwner, RecoveryInv
    <3> QED
      BY <1>1, <3>1 DEF Matching, TypeOK
  <2>4. CASE Ends \/ OrphansDone \/ RecoveryDone \/ UNCHANGED vars
    BY <1>1, <2>4 DEF Ends, OrphansDone, RecoveryDone, vars, leftovers, Matching
  <2>5. CASE OtherProgram \/ TimePasses \/ Start \/ Write
    BY <1>1, <2>5 DEF OtherProgram, TimePasses, Start, Running, Recovering, Write, Begin,
       CreateTemporary, CreateOwner, OwnerTaken, WriteOwner, WriteBytes, Replace, ReplacePartly, Finish, Fails
  <2> QED
    BY <1>1, <2>1, <2>2, <2>3, <2>4, <2>5 DEF Next, Recover
<1>2. ASSUME TypeOK, RecoveryInv, [Next]_vars
      PROVE  [\A n \in Names :
                pc \in {"orphans", "temporaries", "sidecar"} /\ temps[n] # None /\ Matching(n)
                  => temps'[n] = None \/ Matching(n)']_vars
  BY <1>1, <1>2 DEF Recovering
<1> QED
  BY <1>2, RecoveryAccounted, PTL DEF Spec, StaysCollectable

(* A recovery that ends has collected everything it found collectable.     *)
THEOREM RecoveryCollects == Spec => RecoveryComplete
<1>1. ASSUME TypeOK, RecoveryInv, [Next]_vars
      PROVE  [pc = "temporaries" /\ pc' = "idle" =>
                \A n \in due : temps'[n] = None /\ owners'[n] = None]_vars
  <2> SUFFICES ASSUME Next, pc = "temporaries", pc' = "idle", NEW n \in due
               PROVE  temps'[n] = None /\ owners'[n] = None
    BY <1>1 DEF vars
  <2>1. RecoveryDone
    BY DEF Next, OtherProgram, TimePasses, Ends, Start, Running, Recover, VisitOrphan,
       OrphansDone, VisitTemporary, VisitSidecar, Write, Begin, CreateTemporary, CreateOwner,
       OwnerTaken, WriteOwner, WriteBytes, Replace, ReplacePartly, Finish, Fails
  <2>2. Gone(n)
    BY <1>1, <2>1 DEF RecoveryDone, RecoveryInv, Ahead
  <2> QED
    BY <2>1, <2>2 DEF RecoveryDone, leftovers, Gone
<1> QED
  BY <1>1, RecoveryAccounted, PTL DEF Spec, RecoveryComplete

=============================================================================
