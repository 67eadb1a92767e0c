------------------------- MODULE CommandOwnerInvariant -------------------------
(***************************************************************************)
(* Why CommandOwner loses no effect: the inductive invariant that the      *)
(* safety proofs rest on.  Evidence relates the journal, the server and    *)
(* the two copies of the state, and is all that survives a crash; Control  *)
(* says what the running command knows about them.                         *)
(***************************************************************************)
EXTENDS CommandOwner

\* State s records asset m as operation x leaves it, or as the service last did.
Says(s, x)   == (x.asset \in s.out) <=> (x.kind = "checkout")
Agrees(s, m) == (m \in s.out) <=> (effect[m] = "ours")

\* Prepared records are totally ordered among the pending operations.
PendingOrder ==
    /\ \A x \in Operations : before[x] \subseteq Pending \ {x}
    /\ \A x \in Pending : \A y \in Pending \ {x} : x \in before[y] <=> y \notin before[x]

\* A snapshot tells the outcome of every pending operation up to its own, and
\* the truth about every monitor no pending operation concerns.
SnapshotsAgree ==
    \A x \in Pending :
       /\ \A y \in Pending : y \in before[x] \cup {x} /\ y.asset \in Monitors => Says(snap[x], y)
       /\ \A m \in Monitors : Unresolved(m) \/ Agrees(snap[x], m)

StatesAgree == \A m \in Monitors : Unresolved(m) \/ (Agrees(mem, m) /\ Agrees(disk, m))

Evidence ==
    /\ NoConflictingPending
    /\ ObservedWasApplied
    /\ PendingOrder
    /\ SnapshotsAgree
    /\ StatesAgree
    /\ NoGluedRecord

-----------------------------------------------------------------------------
Executing == pc \in {"next", "mutate", "observe"}
InHand    == pc \in {"mutate", "observe"}

\* What a replay knows: everything pending is either left to do or done.
ReplayKnows == Pending = todo \cup done

\* What the execution of a plan knows: only the plan is pending, each asset is
\* concerned once, and cur and final follow the plan.
PlanKnows ==
    /\ Pending = done \cup (IF InHand THEN {op} ELSE {})
    /\ \A x, y \in todo \cup done : x.asset = y.asset => x = y
    /\ InHand => Pending \subseteq before[op] \cup {op}
    /\ pc = "mutate" => phase[op] = "prepared"
    /\ \A x \in todo \cup done : x.asset \in Monitors => Says(final, x)
    /\ \A x \in done : x.asset \in Monitors => Says(cur, x)
    /\ \A m \in Monitors : (\E x \in todo \cup done : x.asset = m) \/ Agrees(final, m)
    /\ \A m \in Monitors : Unresolved(m) \/ Agrees(cur, m)

Control ==
    /\ Executing \/ pc \in {"commit", "plan"} => tail = "terminated"
    /\ InHand => op \in todo /\ op \in Pending
    /\ pc = "observe" => phase[op] = "prepared" /\ effect[op.asset] = Target(op)
    /\ Executing => /\ todo \cap done = {}
                    /\ \A x \in done : phase[x] = "observed"
                    /\ IF recovering THEN ReplayKnows ELSE PlanKnows
    /\ pc = "plan" => Pending = {} /\ done = {} /\ ~recovering
    /\ pc = "commit" => /\ Pending = todo
                        /\ \A x \in todo : phase[x] = "observed"
                        /\ \A m \in Monitors : Agrees(mem, m) /\ Agrees(disk, m)

\* The inductive invariant: it implies NoLostEffect, NoPhantomCheckout,
\* NoConflictingPending, ObservedWasApplied and NoGluedRecord.
IInv == TypeOK /\ Evidence /\ Control

=============================================================================
