-------------------------- MODULE MonitorPlan_proofs --------------------------
(***************************************************************************)
(* Theorems about MonitorPlan, for any serials, any threshold and any      *)
(* history of lookups, policies and forced check-ins.                      *)
(***************************************************************************)
EXTENDS MonitorPlan, TLAPS

\* An entry has the asset of its serial or none, a check-out is of a known one.
OwnAssets ==
    /\ \A s \in Serials : entries.asset[s] \in {AssetOf[s], NoAsset}
    /\ entries.out \subseteq entries.known

\* A known monitor has been seen, and not since it is taken to be absent.
SeenBefore ==
    \A s \in Serials :
        /\ s \in entries.known => lastSeen[s] \in 0 .. now
        /\ entries.absent[s] # Never =>
             s \in entries.known /\ lastSeen[s] <= entries.absent[s]

\* The inductive invariant.
PlanInv == TypeOK /\ OwnAssets /\ SeenBefore /\ NothingStranded

-----------------------------------------------------------------------------
(* What plans are made of                                                  *)

\* The server's asset for a serial is an asset.
LEMMA OwnAsset ==
    ASSUME NEW s \in Serials
    PROVE  AssetOf[s] \in Assets /\ AssetOf[s] # NoAsset
BY PlanAssumption DEF Assets

\* A lookup answers with that asset or with none.
LEMMA LookedUp ==
    ASSUME NEW in, NEW s \in Serials
    PROVE  /\ Found(in, s) \in {AssetOf[s], NoAsset}
           /\ in.seen[s] = "resolved" => Found(in, s) = AssetOf[s]
BY DEF Found

\* A check-out is of a serial seen once, a check-in of an absent one, and each
\* is of the asset of its serial.
LEMMA Planned ==
    ASSUME NEW in \in Inputs, entries.known \subseteq Serials, OwnAssets
    PROVE  /\ \A s \in Checkouts(in, entries) : s \in Unambiguous(in) /\ Found(in, s) = AssetOf[s]
           /\ \A s \in Checkins(in, entries) :
                s \in entries.known \ Present(in) /\ s \in entries.out /\ entries.asset[s] = AssetOf[s]
<1>1. \A s \in Checkouts(in, entries) : s \in Unambiguous(in) /\ Found(in, s) = AssetOf[s]
  BY LookedUp DEF Checkouts, Unambiguous, Present
<1>2. \A s \in Checkins(in, entries) :
         s \in entries.known \ Present(in) /\ s \in entries.out /\ entries.asset[s] = AssetOf[s]
  BY DEF Checkins, OwnAssets
<1>3. QED BY <1>1, <1>2

\* Seen once is seen.
LEMMA UnambiguousIsPresent ==
    ASSUME NEW in
    PROVE  Unambiguous(in) \subseteq Present(in) /\ Present(in) \subseteq Serials
BY DEF Unambiguous, Present

\* The assets a plan checks out or in are those of the serials it plans for.
LEMMA PlannedAssets ==
    ASSUME NEW in \in Inputs, entries.known \subseteq Serials, OwnAssets
    PROVE  /\ CheckedOutAssets(in, entries) = {AssetOf[s] : s \in Checkouts(in, entries)}
           /\ CheckedInAssets(in, entries) = {AssetOf[s] : s \in Checkins(in, entries)}
           /\ NoAsset \notin CheckedOutAssets(in, entries) \cup CheckedInAssets(in, entries)
<1>1. CheckedOutAssets(in, entries) = {AssetOf[s] : s \in Checkouts(in, entries)}
  BY DEF CheckedOutAssets
<1>2. CheckedInAssets(in, entries) = {AssetOf[s] : s \in Checkins(in, entries)}
  BY Planned DEF CheckedInAssets
<1>3. Checkouts(in, entries) \subseteq Serials /\ Checkins(in, entries) \subseteq Serials
  BY DEF Checkouts, Checkins
<1>4. QED BY <1>1, <1>2, <1>3, OwnAsset

\* An asset that is not shared moves with its own serial only.
LEMMA PlannedAlone ==
    ASSUME NEW in \in Inputs, entries.known \subseteq Serials, OwnAssets,
           NEW s \in Serials, ~ Shared(s)
    PROVE  /\ AssetOf[s] \in CheckedInAssets(in, entries) <=> s \in Checkins(in, entries)
           /\ AssetOf[s] \in CheckedOutAssets(in, entries) <=> s \in Checkouts(in, entries)
<1>1. \A t \in Serials : AssetOf[t] = AssetOf[s] => t = s
  BY DEF Shared
<1>2. Checkouts(in, entries) \subseteq Serials /\ Checkins(in, entries) \subseteq Serials
  BY DEF Checkouts, Checkins
<1>3. QED BY <1>1, <1>2, PlannedAssets

\* The check-outs recorded after a plan, for a serial whose asset no other has:
\* those before and those of the plan, without the check-ins of the plan.
LEMMA OutAfterPlan ==
    ASSUME NEW in \in Inputs, entries.known \subseteq Serials, OwnAssets,
           NEW s \in Serials, ~ Shared(s)
    PROVE  s \in OutAfter(in, entries) <=>
             /\ s \in entries.out \/ s \in Checkouts(in, entries)
             /\ s \notin Checkins(in, entries)
<1>1. AssetAfter(in, entries, s) \in {AssetOf[s], NoAsset}
  BY LookedUp DEF AssetAfter, OwnAssets
<1>2. s \in Checkouts(in, entries) =>
        /\ AssetAfter(in, entries, s) = AssetOf[s] /\ s \in Present(in)
        /\ s \notin Checkins(in, entries)
  BY Planned, UnambiguousIsPresent DEF AssetAfter
<1>3. s \in Checkins(in, entries) => AssetAfter(in, entries, s) = AssetOf[s]
  BY Planned, UnambiguousIsPresent DEF AssetAfter
<1>4. AssetAfter(in, entries, s) \in CheckedOutAssets(in, entries) <=>
        s \in Checkouts(in, entries)
  BY <1>1, <1>2, PlannedAssets, PlannedAlone
<1>5. AssetAfter(in, entries, s) \in CheckedInAssets(in, entries) <=>
        s \in Checkins(in, entries)
  BY <1>1, <1>3, PlannedAssets, PlannedAlone
<1>6. s \in entries.out => s \in entries.known
  BY DEF OwnAssets
<1>7. QED BY <1>2, <1>4, <1>5, <1>6 DEF OutAfter

-----------------------------------------------------------------------------
(* The steps                                                               *)

\* A sync keeps the planner's state well typed.
LEMMA SyncTypes ==
    ASSUME TypeOK, NEW in \in Inputs, Sync(in)
    PROVE  TypeOK'
<1>1. /\ entries' = EntriesAfter(in, entries) /\ now' = now /\ now \in Times
      /\ lastSeen' = [s \in Serials |-> IF s \in Present(in) THEN now ELSE lastSeen[s]]
      /\ ours' = (ours \cup CheckedOutAssets(in, entries)) \ CheckedInAssets(in, entries)
      /\ by' = "sync"
  BY DEF Sync, TypeOK
<1>2. EntriesAfter(in, entries).known \in SUBSET Serials
  BY DEF EntriesAfter, TypeOK, Present
<1>3. \A s \in Serials : AssetAfter(in, entries, s) \in Assets \cup {NoAsset}
  BY LookedUp, OwnAsset DEF AssetAfter, TypeOK
<1>4. \A s \in Serials : AbsentSince(in, entries, s) \in Times \cup {Never}
  BY DEF AbsentSince, TypeOK
<1>5. OutAfter(in, entries) \in SUBSET Serials
  BY DEF OutAfter, TypeOK, Present
<1>6. entries' \in [known : SUBSET Serials, asset : [Serials -> Assets \cup {NoAsset}],
                    absent : [Serials -> Times \cup {Never}], out : SUBSET Serials]
  BY <1>1, <1>2, <1>3, <1>4, <1>5 DEF EntriesAfter
<1>7. CheckedOutAssets(in, entries) \subseteq Assets
  BY OwnAsset DEF CheckedOutAssets, Checkouts
<1>8. QED BY <1>1, <1>6, <1>7 DEF TypeOK

\* A synchronization keeps the invariant.
LEMMA SyncKeeps ==
    ASSUME PlanInv, NEW in \in Inputs, Sync(in)
    PROVE  PlanInv'
<1>1. TypeOK'
  BY SyncTypes DEF PlanInv
<1>2. /\ entries' = EntriesAfter(in, entries) /\ now' = now
      /\ lastSeen' = [s \in Serials |-> IF s \in Present(in) THEN now ELSE lastSeen[s]]
      /\ ours' = (ours \cup CheckedOutAssets(in, entries)) \ CheckedInAssets(in, entries)
      /\ entries.known \subseteq Serials /\ now \in Times
  BY DEF Sync, PlanInv, TypeOK
<1>3. OwnAssets'
  <2>1. \A s \in Serials : AssetAfter(in, entries, s) \in {AssetOf[s], NoAsset}
    BY LookedUp DEF AssetAfter, OwnAssets, PlanInv
  <2>2. OutAfter(in, entries) \subseteq entries.known \cup Present(in)
    BY DEF OutAfter
  <2>3. QED BY <1>2, <2>1, <2>2 DEF OwnAssets, EntriesAfter
<1>4. SeenBefore'
  <2> SUFFICES ASSUME NEW s \in Serials
               PROVE  /\ s \in entries'.known => lastSeen'[s] \in 0 .. now'
                      /\ entries'.absent[s] # Never =>
                           s \in entries'.known /\ lastSeen'[s] <= entries'.absent[s]
    BY DEF SeenBefore
  <2>1. /\ entries'.known = entries.known \cup Present(in)
        /\ entries'.absent[s] = AbsentSince(in, entries, s)
        /\ lastSeen'[s] = IF s \in Present(in) THEN now ELSE lastSeen[s]
    BY <1>2 DEF EntriesAfter
  <2>2. CASE s \in Present(in)
    BY <1>2, <2>1, <2>2 DEF AbsentSince, Times
  <2>3. CASE s \notin Present(in)
    BY <1>2, <2>1, <2>3 DEF AbsentSince, SeenBefore, PlanInv, Times, TypeOK
  <2>4. QED BY <2>2, <2>3
<1>5. NothingStranded'
  <2>1. /\ entries'.out = OutAfter(in, entries) /\ OwnAssets
        /\ OutAfter(in, entries) \subseteq Serials /\ entries.out \subseteq entries.known
    BY <1>2 DEF EntriesAfter, OutAfter, Present, PlanInv, OwnAssets
  <2>2. \A s \in Serials : AssetAfter(in, entries, s) \in {AssetOf[s], NoAsset}
    BY LookedUp DEF AssetAfter, OwnAssets, PlanInv
  <2>3. ASSUME NEW a \in ours' PROVE \E s \in OutAfter(in, entries) : AssetOf[s] = a
    <3>1. a \notin CheckedInAssets(in, entries)
      BY <1>2, <2>3
    <3>2. CASE a \in CheckedOutAssets(in, entries)
      <4>1. PICK s \in Checkouts(in, entries) : AssetOf[s] = a
        BY <3>2 DEF CheckedOutAssets
      <4>2. s \in Present(in) /\ AssetAfter(in, entries, s) = a
        BY <1>2, <2>1, <4>1, Planned, UnambiguousIsPresent DEF AssetAfter
      <4>3. QED BY <3>1, <3>2, <4>1, <4>2 DEF OutAfter
    <3>3. CASE a \in ours
      <4>1. PICK s \in entries.out : AssetOf[s] = a
        BY <3>3 DEF PlanInv, NothingStranded
      <4>2. AssetAfter(in, entries, s) \notin CheckedInAssets(in, entries)
        BY <1>2, <2>1, <2>2, <3>1, <4>1, PlannedAssets
      <4>3. QED BY <2>1, <4>1, <4>2 DEF OutAfter
    <3>4. QED BY <1>2, <2>3, <3>2, <3>3
  <2>4. ASSUME NEW s \in OutAfter(in, entries), ~ Shared(s) PROVE AssetOf[s] \in ours'
    <3>1. s \in Serials /\ (s \in entries.out \/ s \in Checkouts(in, entries))
          /\ s \notin Checkins(in, entries)
      BY <1>2, <2>1, <2>4, OutAfterPlan
    <3>2. AssetOf[s] \in ours \cup CheckedOutAssets(in, entries)
      BY <1>2, <2>1, <2>4, <3>1, PlannedAlone DEF PlanInv, NothingStranded
    <3>3. QED BY <1>2, <2>1, <2>4, <3>1, <3>2, PlannedAlone
  <2>5. QED BY <2>1, <2>3, <2>4 DEF NothingStranded, Shared
<1>6. QED BY <1>1, <1>3, <1>4, <1>5 DEF PlanInv

\* So does a forced check-in.
LEMMA ForceKeeps ==
    ASSUME PlanInv, NEW S \in SUBSET Eligible, ForceCheckin(S)
    PROVE  PlanInv'
<1>1. /\ entries' = [entries EXCEPT !.out = @ \ S]
      /\ ours' = ours \ {entries.asset[s] : s \in S}
      /\ by' = "operator" /\ now' = now /\ lastSeen' = lastSeen
  BY DEF ForceCheckin
<1>2. /\ entries' \in [known : SUBSET Serials, asset : [Serials -> Assets \cup {NoAsset}],
                       absent : [Serials -> Times \cup {Never}], out : SUBSET Serials]
      /\ entries'.known = entries.known /\ entries'.asset = entries.asset
      /\ entries'.absent = entries.absent /\ entries'.out = entries.out \ S
  BY <1>1 DEF PlanInv, TypeOK
<1>3. TypeOK'
  BY <1>1, <1>2 DEF PlanInv, TypeOK
<1>4. OwnAssets' /\ SeenBefore'
  BY <1>1, <1>2 DEF PlanInv, OwnAssets, SeenBefore
<1>5. NothingStranded'
  <2>1. \A s \in S : s \in Serials /\ s \in entries.out /\ entries.asset[s] = AssetOf[s]
    BY DEF Eligible, PlanInv, OwnAssets, TypeOK
  <2>2. entries.out \subseteq Serials
    BY DEF PlanInv, TypeOK
  <2>3. \A a \in ours' : \E s \in entries'.out : AssetOf[s] = a
    <3> SUFFICES ASSUME NEW a \in ours' PROVE \E s \in entries'.out : AssetOf[s] = a
      OBVIOUS
    <3>1. PICK s \in entries.out : AssetOf[s] = a
      BY <1>1 DEF PlanInv, NothingStranded
    <3>2. s \notin S
      BY <1>1, <2>1, <3>1
    <3>3. QED BY <1>2, <3>1, <3>2
  <2>4. \A s \in entries'.out : AssetOf[s] \in ours' \/ Shared(s)
    <3> SUFFICES ASSUME NEW s \in entries'.out, ~ Shared(s) PROVE AssetOf[s] \in ours'
      OBVIOUS
    <3>1. s \in entries.out /\ s \notin S /\ AssetOf[s] \in ours
      BY <1>2 DEF PlanInv, NothingStranded
    <3>2. \A t \in S : AssetOf[t] # AssetOf[s]
      BY <2>1, <2>2, <3>1 DEF Shared
    <3>3. QED BY <1>1, <2>1, <3>1, <3>2
  <2>5. QED BY <2>3, <2>4 DEF NothingStranded, Shared
<1>6. QED BY <1>3, <1>4, <1>5 DEF PlanInv

\* An hour that passes keeps the planner's invariant.
LEMMA HourKeeps ==
    ASSUME PlanInv, Hour
    PROVE  PlanInv'
BY PlanAssumption DEF PlanInv, TypeOK, OwnAssets, SeenBefore, NothingStranded, Hour, Times

-----------------------------------------------------------------------------
(* The theorems                                                            *)

\* Entries, lookups and history stay related as PlanInv says (plan_sync,
\* forced_checkin_ineligibility).
THEOREM InvariantHolds == Spec => []PlanInv
<1>1. Init => PlanInv
  BY PlanAssumption DEF Init, PlanInv, TypeOK, OwnAssets, SeenBefore, NothingStranded, Times
<1>2. PlanInv /\ [Next]_vars => PlanInv'
  <2> SUFFICES ASSUME PlanInv, [Next]_vars PROVE PlanInv'
    OBVIOUS
  <2>1. ASSUME NEW in \in Inputs, Sync(in) PROVE PlanInv'
    BY <2>1, SyncKeeps
  <2>2. CASE ForceCheckin(Eligible)
    BY <2>2, ForceKeeps
  <2>3. ASSUME NEW s \in Eligible, ForceCheckin({s}) PROVE PlanInv'
    BY <2>3, ForceKeeps
  <2>4. CASE Hour
    BY <2>4, HourKeeps
  <2>5. CASE UNCHANGED vars
    BY <2>5 DEF vars, PlanInv, TypeOK, OwnAssets, SeenBefore, NothingStranded
  <2>6. QED BY <2>1, <2>2, <2>3, <2>4, <2>5 DEF Next
<1>3. QED BY <1>1, <1>2, PTL DEF Spec

\* Every reachable state of the plan is well typed.
THEOREM TypeCorrect == Spec => []TypeOK
<1>1. PlanInv => TypeOK
  BY DEF PlanInv
<1>2. QED BY <1>1, InvariantHolds, PTL

\* After any history each asset held for this computer is on record as checked
\* out, and what is on record is held unless its serial shares the asset.  The
\* record may have lost its asset number to a lookup that missed since, and then
\* plans no check-in: nothing here says that it will (plan_sync).
THEOREM NeverStranded == Spec => []NothingStranded
<1>1. PlanInv => NothingStranded
  BY DEF PlanInv
<1>2. QED BY <1>1, InvariantHolds, PTL

\* Whatever is planned once is not planned again on the same facts, but for
\* serials that share an asset (plan_sync, apply_planned_monitor_state).
THEOREM PlansSettle == Spec => []PlanSettles
<1>1. ASSUME PlanInv, NEW in \in Inputs, NEW s \in Serials, ~ Shared(s)
      PROVE  LET after == EntriesAfter(in, entries)
             IN  s \notin Checkouts(in, after) /\ s \notin Checkins(in, after)
  <2> DEFINE after == EntriesAfter(in, entries)
  <2>1. /\ after.known = entries.known \cup Present(in) /\ after.out = OutAfter(in, entries)
        /\ after.asset[s] = AssetAfter(in, entries, s)
        /\ after.absent[s] = AbsentSince(in, entries, s)
    BY DEF EntriesAfter
  <2>2. entries.known \subseteq Serials /\ OwnAssets /\ now \in Times
    BY <1>1 DEF PlanInv, TypeOK
  <2>3. s \in OutAfter(in, entries) <=> /\ s \in entries.out \/ s \in Checkouts(in, entries)
                                       /\ s \notin Checkins(in, entries)
    BY <1>1, <2>2, OutAfterPlan
  <2>4. ASSUME s \in Checkouts(in, after) PROVE FALSE
    <3>1. in.seen[s] = "resolved" /\ s \notin OutAfter(in, entries)
      BY <2>1, <2>4 DEF Checkouts
    <3>2. s \notin Checkins(in, entries)
      BY <2>2, <3>1, Planned DEF Present
    <3>3. s \in entries.out \/ s \in Checkouts(in, entries)
      BY <3>1 DEF Checkouts
    <3>4. QED BY <2>3, <3>1, <3>2, <3>3
  <2>5. ASSUME s \in Checkins(in, after) PROVE FALSE
    <3>1. /\ s \in entries.known \ Present(in)
          /\ in.auto /\ s \in OutAfter(in, entries) /\ after.asset[s] # NoAsset
          /\ now - AbsentSince(in, after, s) >= Threshold
      BY <2>1, <2>2, <2>5 DEF Checkins
    <3>2. after.asset[s] = entries.asset[s] /\ s \notin Checkouts(in, entries)
      BY <2>1, <2>2, <3>1, Planned, UnambiguousIsPresent DEF AssetAfter
    <3>3. AbsentSince(in, after, s) = AbsentSince(in, entries, s)
      BY <2>1, <2>2, <3>1, PlanAssumption DEF AbsentSince, Times
    <3>4. s \in entries.out /\ s \notin Checkins(in, entries)
      BY <2>3, <3>1, <3>2
    <3>5. QED BY <3>1, <3>2, <3>3, <3>4 DEF Checkins
  <2>6. QED BY <2>4, <2>5
<1>2. ASSUME PlanInv PROVE PlanSettles
  <2>1. \A in \in Inputs : EntriesAfter(in, entries).known \subseteq Serials
    BY <1>2 DEF PlanInv, TypeOK, EntriesAfter, Present
  <2>2. \A in \in Inputs : Checkouts(in, EntriesAfter(in, entries)) \cup
                            Checkins(in, EntriesAfter(in, entries)) \subseteq Serials
    BY <2>1 DEF Checkouts, Checkins
  <2>3. QED BY <1>1, <1>2, <2>2 DEF PlanSettles
<1>3. QED BY <1>2, InvariantHolds, PTL

\* No synchronization takes a monitor back before its threshold has passed.
THEOREM CheckinsWait == Spec => NoEarlyCheckin
<1>1. ASSUME PlanInv, [Next]_vars, by' = "sync", NEW a \in ours \ ours'
      PROVE  \E s \in Serials : /\ AssetOf[s] = a
                                /\ entries'.absent[s] # Never /\ lastSeen'[s] + Threshold <= now
  <2>1. PICK in \in Inputs : Sync(in)
    BY <1>1 DEF Next, ForceCheckin, Hour, vars
  <2>2. /\ entries' = EntriesAfter(in, entries)
        /\ lastSeen' = [t \in Serials |-> IF t \in Present(in) THEN now ELSE lastSeen[t]]
        /\ a \in CheckedInAssets(in, entries)
        /\ entries.known \subseteq Serials /\ OwnAssets /\ now \in Times
    BY <1>1, <2>1 DEF Sync, PlanInv, TypeOK
  <2>3. PICK s \in Checkins(in, entries) : AssetOf[s] = a
    BY <2>2, PlannedAssets
  <2>4. s \in entries.known \ Present(in) /\ s \in Serials
    BY <2>2, Planned
  <2>5. /\ entries'.absent[s] = AbsentSince(in, entries, s) /\ lastSeen'[s] = lastSeen[s]
        /\ now - AbsentSince(in, entries, s) >= Threshold
    BY <2>2, <2>3, <2>4 DEF EntriesAfter, Checkins
  <2>6. /\ AbsentSince(in, entries, s) \in Times /\ lastSeen[s] \in Times
        /\ lastSeen[s] <= AbsentSince(in, entries, s)
    <3>1. /\ s \in entries.known => lastSeen[s] \in 0 .. now
          /\ entries.absent[s] # Never => lastSeen[s] <= entries.absent[s]
          /\ entries.absent[s] \in Times \cup {Never}
      BY <1>1, <2>4 DEF PlanInv, SeenBefore, TypeOK
    <3>2. now \in 0 .. MaxNow /\ 0 .. now \subseteq Times
      BY <2>2, PlanAssumption DEF Times
    <3>3. QED BY <2>2, <2>4, <3>1, <3>2 DEF AbsentSince
  <2>7. AbsentSince(in, entries, s) # Never
    BY <2>6, PlanAssumption DEF Times
  <2>8. ASSUME NEW t \in Times, NEW u \in Times, u <= t, now - t >= Threshold
        PROVE  u + Threshold <= now
    BY <2>2, <2>8, PlanAssumption DEF Times
  <2>9. QED BY <2>3, <2>4, <2>5, <2>6, <2>7, <2>8
<1>2. PlanInv /\ [Next]_vars =>
        \A a \in ours \ ours' : by' = "sync" =>
           \E s \in Serials : /\ AssetOf[s] = a
                              /\ entries'.absent[s] # Never /\ lastSeen'[s] + Threshold <= now
  BY <1>1
<1>3. QED BY <1>2, InvariantHolds, PTL DEF Spec, NoEarlyCheckin

=============================================================================
