------------------------------ MODULE MonitorPlan ------------------------------
(***************************************************************************)
(* What a synchronization plans and what a sequence of them adds up to:    *)
(* plan_sync and diff_monitors of spotter-core, the forced check-in of     *)
(* service.rs, and the assets that Snipe-IT holds as checked out to this   *)
(* computer.  Plans are carried out whole here; CommandOwner interrupts    *)
(* them.                                                                   *)
(***************************************************************************)
EXTENDS Naturals

CONSTANTS
    Serials,    \* serials of monitors
    AssetOf,    \* the asset the server finds for each serial, perhaps shared
    NoAsset,    \* no asset, or asset id 0
    Never,      \* absent_since of a monitor that is present
    Threshold,  \* checkin_threshold_hours
    MaxNow      \* bound: the last hour explored

ASSUME PlanAssumption ==
    /\ NoAsset \notin {AssetOf[s] : s \in Serials}
    /\ Never \notin Nat
    /\ Threshold \in Nat /\ MaxNow \in Nat

VARIABLES
    entries,  \* known_monitors: which are known, their asset, absence, check-out
    ours,     \* assets Snipe-IT holds as checked out to this computer
    now,
    lastSeen,  \* history, per serial
    by         \* history: what took the last step

vars == <<entries, ours, now, lastSeen, by>>

Assets == {AssetOf[s] : s \in Serials}
Times  == 0 .. MaxNow

\* The byserial lookup is the server's, and its answer is not compared with the
\* serial asked for: two serials may lead to one asset.
Shared(s) == \E t \in Serials \ {s} : AssetOf[t] = AssetOf[s]

\* How a serial fares in discovery and gather_sync: no monitor reports it, or
\* several do; or one does, and the lookup misses, or finds an asset of which
\* something is not resolved (the computer, the taxonomy), or all is.
Reports == {"absent", "repeated", "missed", "unresolved", "resolved"}

\* With the policy in force: AutoNonPortable, and the computer is not portable.
Inputs == [seen : [Serials -> Reports], auto : BOOLEAN]

\* Every variable keeps its type; a timestamp is never ahead of the clock's range.
TypeOK ==
    /\ entries \in [known : SUBSET Serials, asset : [Serials -> Assets \cup {NoAsset}],
                    absent : [Serials -> Times \cup {Never}], out : SUBSET Serials]
    /\ ours \in SUBSET Assets
    /\ now \in Times
    /\ lastSeen \in [Serials -> Times \cup {Never}]
    /\ by \in {"start", "sync", "operator", "time"}

Init ==
    /\ entries = [known |-> {}, asset |-> [s \in Serials |-> NoAsset],
                  absent |-> [s \in Serials |-> Never], out |-> {}]
    /\ ours = {}
    /\ now = 0
    /\ lastSeen = [s \in Serials |-> Never]
    /\ by = "start"

-----------------------------------------------------------------------------
(* plan_sync                                                               *)

Present(in)     == {s \in Serials : in.seen[s] # "absent"}
Unambiguous(in) == Present(in) \ {s \in Serials : in.seen[s] = "repeated"}

\* find_asset_by_serial, its answer taken as it is.
Found(in, s) == IF in.seen[s] \in {"unresolved", "resolved"} THEN AssetOf[s] ELSE NoAsset

\* diff_monitors: presence clears the timestamp, the first absence sets it.
AbsentSince(in, e, s) ==
    IF s \in Present(in) \/ s \notin e.known THEN Never
    ELSE IF e.absent[s] = Never THEN now ELSE e.absent[s]

Checkouts(in, e) == {s \in Serials : in.seen[s] = "resolved" /\ s \notin e.out}

\* Mutant of Checkins: the threshold is not applied.
CheckinsAtOnce(in, e) ==
    {s \in e.known \ Present(in) : in.auto /\ s \in e.out /\ e.asset[s] # NoAsset}

Checkins(in, e) ==
    {s \in e.known \ Present(in) :
        /\ in.auto /\ s \in e.out /\ e.asset[s] # NoAsset
        /\ now - AbsentSince(in, e, s) >= Threshold}

\* A serial reported once takes the asset it resolves to, even none.
AssetAfter(in, e, s) == IF s \in Unambiguous(in) THEN Found(in, s) ELSE e.asset[s]

CheckedOutAssets(in, e) == {AssetOf[s] : s \in Checkouts(in, e)}
CheckedInAssets(in, e)  == {e.asset[s] : s \in Checkins(in, e)}

\* Mutant of OutAfter: check-outs are not recorded.
OutAfterForgetting(in, e) ==
    {s \in e.out : AssetAfter(in, e, s) \notin CheckedInAssets(in, e)}

\* apply_planned_monitor_state finds its entries by asset.
OutAfter(in, e) ==
    {s \in e.known \cup Present(in) :
        /\ s \in e.out \/ AssetAfter(in, e, s) \in CheckedOutAssets(in, e)
        /\ AssetAfter(in, e, s) \notin CheckedInAssets(in, e)}

EntriesAfter(in, e) ==
    [known  |-> e.known \cup Present(in),
     asset  |-> [s \in Serials |-> AssetAfter(in, e, s)],
     absent |-> [s \in Serials |-> AbsentSince(in, e, s)],
     out    |-> OutAfter(in, e)]

\* validate_unique_operation_ids: one check-out and one check-in per asset.
UniqueOperations(in, e) ==
    /\ \A s, t \in Checkouts(in, e) : AssetOf[s] = AssetOf[t] => s = t
    /\ \A s, t \in Checkins(in, e) : e.asset[s] = e.asset[t] => s = t

-----------------------------------------------------------------------------

\* execute_plan runs the check-outs before the check-ins; a plan with two
\* operations of one id is refused before its first mutation.
Sync(in) ==
    /\ UniqueOperations(in, entries)
    /\ entries' = EntriesAfter(in, entries)
    /\ ours' = (ours \cup CheckedOutAssets(in, entries)) \ CheckedInAssets(in, entries)
    /\ lastSeen' = [s \in Serials |-> IF s \in Present(in) THEN now ELSE lastSeen[s]]
    /\ by' = "sync"
    /\ UNCHANGED now

\* forced_checkin_ineligibility
Eligible == {s \in entries.known \cap entries.out :
                entries.absent[s] # Never /\ entries.asset[s] # NoAsset}

\* Mutant of ForceCheckin: the assets are released, the entries kept.
ForceCheckinUnrecorded(S) ==
    /\ S # {} /\ \A s, t \in S : entries.asset[s] = entries.asset[t] => s = t
    /\ ours' = ours \ {entries.asset[s] : s \in S}
    /\ by' = "operator"
    /\ UNCHANGED <<entries, now, lastSeen>>

\* force_checkin for one serial or for all; two entries with one asset have one
\* operation id, and the whole command is refused.
ForceCheckin(S) ==
    /\ S # {} /\ \A s, t \in S : entries.asset[s] = entries.asset[t] => s = t
    /\ entries' = [entries EXCEPT !.out = @ \ S]
    /\ ours' = ours \ {entries.asset[s] : s \in S}
    /\ by' = "operator"
    /\ UNCHANGED <<now, lastSeen>>

Hour ==
    /\ now < MaxNow
    /\ now' = now + 1
    /\ by' = "time"
    /\ UNCHANGED <<entries, ours, lastSeen>>

Next ==
    \/ \E in \in Inputs : Sync(in)
    \/ ForceCheckin(Eligible)
    \/ \E s \in Eligible : ForceCheckin({s})
    \/ Hour

Spec == Init /\ [][Next]_vars

-----------------------------------------------------------------------------
(* Properties                                                              *)

\* The entries and Snipe-IT agree over any sequence of lookups that miss, changes
\* of policy and forced check-ins: whatever is held for this computer, some entry
\* records as checked out, and what an entry records is held, unless another
\* serial leads to the same asset.
NothingStranded ==
    /\ ours \subseteq {AssetOf[s] : s \in entries.out}
    /\ \A s \in entries.out : AssetOf[s] \in ours \/ Shared(s)

\* A synchronization takes an asset back only from a monitor that no completed
\* one has seen for the whole threshold (operator-guide.md 126-129); of several
\* monitors that share the asset, one such is enough.
NoEarlyCheckin ==
    [][\A a \in ours \ ours' : by' = "sync" =>
          \E s \in Serials :
             /\ AssetOf[s] = a
             /\ entries'.absent[s] # Never /\ lastSeen'[s] + Threshold <= now]_vars

\* Repeating a synchronization with nothing changed mutates nothing but assets
\* that two serials share: for the others the plan settles, it does not flip an
\* asset back and forth or repeat a check-out.
PlanSettles ==
    \A in \in Inputs :
        LET after == EntriesAfter(in, entries)
        IN  UniqueOperations(in, entries) =>
              \A s \in Checkouts(in, after) \cup Checkins(in, after) : Shared(s)

=============================================================================
