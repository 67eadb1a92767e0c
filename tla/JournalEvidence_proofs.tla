------------------------- MODULE JournalEvidence_proofs -------------------------
(***************************************************************************)
(* Proofs about the journal and the starts that use it, for any journals,  *)
(* candidates and keys: that the fold of the code is the declarative       *)
(* reading of the records, that a start forgets nothing it established on  *)
(* the server, that no step of the service makes its own state             *)
(* unverifiable, and that the file implements the evidence of              *)
(* OperationJournal.                                                       *)
(*                                                                         *)
(* The induction over the records of a file is carried out on sets: those  *)
(* of the sequences that satisfy the claim contain the empty one and are   *)
(* closed under Append (SeqInduction, from a least counterexample).        *)
(***************************************************************************)
EXTENDS JournalEvidenceInvariant, TLAPS, FiniteSetTheorems, WellFoundedInduction,
        SequenceTheorems

-----------------------------------------------------------------------------
(* Numbers and sequences                                                   *)

\* Every non-empty set of naturals has a least element: the intervals below its
\* elements are finite sets, which strict inclusion orders well.
LEMMA LeastNumber ==
    ASSUME NEW T, T \subseteq Nat, T # {}
    PROVE  \E n \in T : \A m \in T : n <= m
  <1> DEFINE Below == {0 .. (n - 1) : n \in T}
  <1>1. Below \subseteq FiniteSubsetsOf(Nat) /\ Below \subseteq SUBSET Nat
    <2>1. \A n \in Nat : IsFiniteSet(0 .. (n - 1))
      BY FS_Interval
    <2> QED BY <2>1 DEF FiniteSubsetsOf
  <1>2. Below # {}
    OBVIOUS
  <1>3. IsWellFoundedOn(StrictSubsetOrdering(Nat), FiniteSubsetsOf(Nat))
    BY FS_StrictSubsetOrderingWellFounded
  <1>4. PICK U \in Below : \A V \in Below : <<V, U>> \notin StrictSubsetOrdering(Nat)
    <2> HIDE DEF Below
    <2> QED BY <1>1, <1>2, <1>3, WFMin
  <1>5. PICK n \in T : U = 0 .. (n - 1)
    BY <1>4
  <1>6. ASSUME NEW m \in T, m < n PROVE FALSE
    <2>1. 0 .. (m - 1) \in Below /\ U \in Below
      OBVIOUS
    <2>2. m \in U /\ m \notin 0 .. (m - 1)
      BY <1>5, <1>6
    <2>3. 0 .. (m - 1) \subseteq U
      BY <1>5, <1>6
    <2>4. <<0 .. (m - 1), U>> \in StrictSubsetOrdering(Nat)
      <3> HIDE DEF Below
      <3> QED BY <2>1, <2>2, <2>3, <1>1 DEF StrictSubsetOrdering
    <2> QED BY <2>4, <1>4
  <1> QED BY <1>6, <1>5

\* Induction over an interval, the induction hypothesis being a set.
LEMMA Induction ==
    ASSUME NEW N \in Nat, NEW S, 0 \in S,
           \A n \in 0 .. (N - 1) : n \in S => n + 1 \in S
    PROVE  0 .. N \subseteq S
  <1> DEFINE T == (0 .. N) \ S
  <1> SUFFICES ASSUME T # {} PROVE FALSE
    OBVIOUS
  <1>1. T \subseteq Nat
    OBVIOUS
  <1>2. PICK n \in T : \A m \in T : n <= m
    <2> HIDE DEF T
    <2> QED BY <1>1, LeastNumber
  <1>3. n \in 0 .. N /\ n \notin S /\ n # 0
    BY <1>2
  <1>4. n - 1 \in 0 .. (N - 1) /\ n - 1 \in S
    BY <1>2, <1>3
  <1> QED BY <1>3, <1>4

\* The largest of finitely many naturals, as Max gives it.
LEMMA MaxOfBounded ==
    ASSUME NEW S \in SUBSET Nat, NEW n \in Nat, S # {}, \A i \in S : i <= n
    PROVE  Max(S) \in S /\ \A i \in S : i <= Max(S)
  <1> DEFINE T == {n - i : i \in S}
  <1>1. T \subseteq Nat
    OBVIOUS
  <1>2. T # {}
    OBVIOUS
  <1>3. PICK d \in T : \A e \in T : d <= e
    <2> HIDE DEF T
    <2> QED BY <1>2, <1>1, LeastNumber
  <1>4. PICK m \in S : d = n - m
    BY <1>3
  <1>5. \A i \in S : i <= m
    BY <1>3, <1>4
  <1> QED BY <1>5 DEF Max

\* A function that starts with a and takes each next value as step says.
HasIteration(N, A, a, step) ==
    \E f \in [0 .. N -> A] : f[0] = a /\ \A n \in 1 .. N : f[n] = step[n][f[n - 1]]

\* A step function of each index, from values of a set to values of it, has exactly
\* the iteration one expects.
LEMMA Iteration ==
    ASSUME NEW N \in Nat, NEW A, NEW a \in A, NEW step \in [1 .. N -> [A -> A]]
    PROVE  HasIteration(N, A, a, step)
  <1> DEFINE Is(f, M) == f[0] = a /\ \A n \in 1 .. M : f[n] = step[n][f[n - 1]]
             S == {M \in 0 .. N : \E f \in [0 .. M -> A] : Is(f, M)}
  <1>1. 0 \in S
    <2>1. [n \in 0 .. 0 |-> a] \in [0 .. 0 -> A] /\ Is([n \in 0 .. 0 |-> a], 0)
      OBVIOUS
    <2> HIDE DEF Is
    <2> QED BY <2>1
  <1>2. ASSUME NEW M \in 0 .. (N - 1), M \in S PROVE M + 1 \in S
    <2>1. PICK f \in [0 .. M -> A] : Is(f, M)
      BY <1>2
    <2> DEFINE g == [n \in 0 .. (M + 1) |-> IF n = M + 1 THEN step[M + 1][f[M]] ELSE f[n]]
    <2>2. step[M + 1] \in [A -> A] /\ f[M] \in A
      OBVIOUS
    <2>3. g \in [0 .. (M + 1) -> A]
      BY <2>2
    <2>4. ASSUME NEW n \in 1 .. (M + 1) PROVE g[n] = step[n][g[n - 1]]
      <3>1. CASE n = M + 1
        BY <3>1
      <3>2. CASE n \in 1 .. M
        BY <3>2, <2>1
      <3> QED BY <3>1, <3>2
    <2>5. Is(g, M + 1)
      BY <2>1, <2>4
    <2> HIDE DEF Is, g
    <2> QED BY <2>3, <2>5
  <1>3. N \in S
    <2> HIDE DEF S
    <2>1. \A M \in 0 .. (N - 1) : M \in S => M + 1 \in S
      BY <1>2
    <2>2. 0 .. N \subseteq S
      BY <1>1, <2>1, Induction
    <2> QED BY <2>2
  <1> QED BY <1>3 DEF HasIteration

\* All of a sequence but the end.
LEMMA FrontOfSeq ==
    ASSUME NEW T, NEW s \in Seq(T), NEW n \in 0 .. Len(s)
    PROVE  /\ SubSeq(s, 1, n) \in Seq(T) /\ Len(SubSeq(s, 1, n)) = n
           /\ \A i \in 1 .. n : SubSeq(s, 1, n)[i] = s[i]
  OBVIOUS

\* Induction over sequences, the last element last.
LEMMA SeqInduction ==
    ASSUME NEW T, NEW S, <<>> \in S,
           \A s \in Seq(T), e \in T : s \in S => Append(s, e) \in S
    PROVE  Seq(T) \subseteq S
  <1> DEFINE Lengths == {Len(s) : s \in Seq(T) \ S}
  <1> SUFFICES ASSUME NEW q \in Seq(T) \ S PROVE FALSE
    OBVIOUS
  <1>1. Lengths \subseteq Nat
    OBVIOUS
  <1>2. Lengths # {}
    OBVIOUS
  <1>3. PICK n \in Lengths : \A m \in Lengths : n <= m
    <2> HIDE DEF Lengths
    <2> QED BY <1>1, <1>2, LeastNumber
  <1>4. PICK s \in Seq(T) \ S : Len(s) = n
    BY <1>3
  <1>5. s # <<>>
    BY <1>4
  <1> DEFINE front == SubSeq(s, 1, Len(s) - 1)
  <1>6. /\ front \in Seq(T) /\ Len(front) = Len(s) - 1
        /\ s[Len(s)] \in T /\ s = Append(front, s[Len(s)])
    <2>1. Len(s) \in Nat \ {0} /\ s[Len(s)] \in T
      BY <1>5, EmptySeq
    <2>2. /\ front \in Seq(T) /\ Len(front) = Len(s) - 1
          /\ \A i \in 1 .. (Len(s) - 1) : front[i] = s[i]
      <3>1. Len(s) - 1 \in 0 .. Len(s)
        BY <2>1
      <3> QED BY <3>1, FrontOfSeq
    <2>3. \A i \in 1 .. Len(s) : s[i] = Append(front, s[Len(s)])[i]
      <3> HIDE DEF front
      <3> QED BY <2>1, <2>2
    <2>4. Append(front, s[Len(s)]) \in Seq(T) /\ Len(Append(front, s[Len(s)])) = Len(s)
      BY <2>1, <2>2
    <2> HIDE DEF front
    <2>5. s = Append(front, s[Len(s)])
      BY <2>3, <2>4, SeqEqual
    <2> QED BY <2>1, <2>2, <2>5
  <1>7. front \notin S
    <2> HIDE DEF front
    <2> QED BY <1>6, <1>4
  <1>8. Len(front) \in Lengths
    <2> HIDE DEF front
    <2> QED BY <1>6, <1>7
  <1> HIDE DEF front, Lengths
  <1> QED BY <1>3, <1>4, <1>6, <1>8, EmptySeq

\* What RemoveAt leaves.
LEMMA RemoveAtProperties ==
    ASSUME NEW T, NEW s \in Seq(T), NEW i \in 1 .. Len(s)
    PROVE  /\ RemoveAt(s, i) \in Seq(T)
           /\ Len(RemoveAt(s, i)) = Len(s) - 1
           /\ \A k \in 1 .. (Len(s) - 1) :
                 RemoveAt(s, i)[k] = IF k < i THEN s[k] ELSE s[k + 1]
  <1> DEFINE u == SubSeq(s, 1, i - 1)
             v == SubSeq(s, i + 1, Len(s))
  <1>1. /\ u \in Seq(T) /\ Len(u) = i - 1 /\ \A k \in 1 .. (i - 1) : u[k] = s[k]
        /\ v \in Seq(T) /\ Len(v) = Len(s) - i /\ \A k \in 1 .. (Len(s) - i) : v[k] = s[i + k]
    OBVIOUS
  <1>2. RemoveAt(s, i) = u \o v
    BY DEF RemoveAt
  <1> HIDE DEF u, v
  <1>3. /\ u \o v \in Seq(T) /\ Len(u \o v) = Len(s) - 1
        /\ \A k \in 1 .. (Len(s) - 1) : (u \o v)[k] = IF k <= i - 1 THEN u[k] ELSE v[k - (i - 1)]
    <2>1. Len(u) + Len(v) = Len(s) - 1
      BY <1>1
    <2>2. /\ u \o v \in Seq(T) /\ Len(u \o v) = Len(u) + Len(v)
          /\ \A k \in 1 .. Len(u) + Len(v) : (u \o v)[k] = IF k <= Len(u) THEN u[k] ELSE v[k - Len(u)]
      BY <1>1, ConcatProperties
    <2> QED BY <2>1, <2>2, <1>1
  <1>4. ASSUME NEW k \in 1 .. (Len(s) - 1)
        PROVE  (u \o v)[k] = IF k < i THEN s[k] ELSE s[k + 1]
    <2>1. CASE k < i
      BY <1>1, <1>3, <2>1
    <2>2. CASE ~ k < i
      <3>1. k - (i - 1) \in 1 .. (Len(s) - i)
        BY <2>2
      <3>2. v[k - (i - 1)] = s[i + (k - (i - 1))]
        BY <3>1, <1>1
      <3> QED BY <3>2, <1>3, <2>2
    <2> QED BY <2>1, <2>2
  <1> QED BY <1>2, <1>3, <1>4

-----------------------------------------------------------------------------
(* The fold of the code                                                    *)

\* The map tells the position of every pending id, and of no other.
Indexed(acc) ==
    /\ \A k \in DOMAIN acc.pending : acc.indexes[acc.pending[k].id] = k
    /\ \A x \in Ids : acc.indexes[x] # 0 =>
          acc.indexes[x] \in DOMAIN acc.pending /\ acc.pending[acc.indexes[x]].id = x

\* Values of the accumulator: no id is pending twice, and each is found by its index.
Accumulators == [ok : BOOLEAN, pending : Seq(PendingEntries), indexes : [Ids -> Nat],
                 terminal : SUBSET Ids]

Folds == {acc \in Accumulators :
             /\ \A i, j \in DOMAIN acc.pending : acc.pending[i].id = acc.pending[j].id => i = j
             /\ Indexed(acc)}

\* The fold of no records.
Nothing == [ok |-> TRUE, pending |-> <<>>, indexes |-> [x \in Ids |-> 0], terminal |-> {}]

\* It is a fold (pending_with_evidence starts from empty collections).
LEMMA NothingFolds == Nothing \in Folds
  BY DEF Nothing, Folds, Accumulators, Indexed

\* What one record does to the accumulator.
PreparedTo(acc, r, next) ==
    /\ next.ok <=> r.id \notin acc.terminal /\ \A i \in DOMAIN acc.pending : acc.pending[i].id # r.id
    /\ next.ok => /\ next.pending = Append(acc.pending, Entry(r))
                  /\ next.terminal = acc.terminal

\* An outcome of one that is prepared, and nothing else, marks its entry.
ObservedTo(acc, r, next) ==
    /\ next.ok <=> \E i \in DOMAIN acc.pending : acc.pending[i].id = r.id /\ ~acc.pending[i].observed
    /\ \A i \in DOMAIN acc.pending : next.ok /\ acc.pending[i].id = r.id =>
          /\ next.pending = [acc.pending EXCEPT ![i] = [id |-> r.id, observed |-> TRUE, state |-> r.state]]
          /\ next.terminal = acc.terminal

\* A commit of one that is observed, and nothing else, removes its entry.
CommittedTo(acc, r, next) ==
    /\ next.ok <=> \E i \in DOMAIN acc.pending : acc.pending[i].id = r.id /\ acc.pending[i].observed
    /\ \A i \in DOMAIN acc.pending : next.ok /\ acc.pending[i].id = r.id =>
          /\ next.pending = RemoveAt(acc.pending, i)
          /\ next.terminal = acc.terminal \cup {r.id}

\* A record the pass refuses leaves the rest of the accumulator as it is.
LEMMA RefusedFolds ==
    ASSUME NEW acc \in Folds
    PROVE  Refuse(acc) \in Folds /\ ~Refuse(acc).ok
  <1>1. acc \in Accumulators
    BY DEF Folds
  <1>2. /\ Refuse(acc) \in Accumulators /\ ~Refuse(acc).ok
        /\ Refuse(acc).pending = acc.pending /\ Refuse(acc).indexes = acc.indexes
    BY <1>1 DEF Refuse, Accumulators
  <1> QED BY <1>2 DEF Folds, Indexed

\* What the map finds is the entry of the id, and the only one.
LEMMA IndexFinds ==
    ASSUME NEW acc \in Folds, NEW x \in Ids
    PROVE  /\ acc.indexes[x] \in DOMAIN acc.pending =>
                /\ acc.pending[acc.indexes[x]].id = x
                /\ \A k \in DOMAIN acc.pending : acc.pending[k].id = x => k = acc.indexes[x]
           /\ acc.indexes[x] \notin DOMAIN acc.pending =>
                /\ acc.indexes[x] = 0
                /\ \A k \in DOMAIN acc.pending : acc.pending[k].id # x
  <1>1. acc \in Accumulators /\ Indexed(acc)
    BY DEF Folds
  <1>2. DOMAIN acc.pending = 1 .. Len(acc.pending) /\ Len(acc.pending) \in Nat
    BY <1>1 DEF Accumulators
  <1>3. 0 \notin DOMAIN acc.pending
    BY <1>2
  <1> QED BY <1>1, <1>3 DEF Indexed

\* What the Prepared arm of pending_with_evidence does.
LEMMA FoldPreparedStep ==
    ASSUME NEW acc \in Folds, acc.ok, NEW r \in Records
    PROVE  PreparedTo(acc, r, FoldPrepared(acc, r)) /\ FoldPrepared(acc, r) \in Folds
  <1>1. /\ acc \in Accumulators /\ Indexed(acc)
        /\ Entry(r) \in PendingEntries /\ Entry(r).id = r.id /\ r.id \in Ids
        /\ \A k, l \in DOMAIN acc.pending : acc.pending[k].id = acc.pending[l].id => k = l
    BY DEF Folds, Entry, PendingEntries, Records
  <1>2. CASE r.id \in acc.terminal \/ acc.indexes[r.id] # 0
    <2>1. FoldPrepared(acc, r) = Refuse(acc)
      BY <1>2 DEF FoldPrepared
    <2>2. r.id \in acc.terminal \/ \E k \in DOMAIN acc.pending : acc.pending[k].id = r.id
      BY <1>1, <1>2 DEF Indexed
    <2> QED BY <2>1, <2>2, RefusedFolds DEF PreparedTo
  <1>3. CASE r.id \notin acc.terminal /\ acc.indexes[r.id] = 0
    <2> DEFINE p == Append(acc.pending, Entry(r))
               ix == [acc.indexes EXCEPT ![r.id] = Len(acc.pending) + 1]
    <2>1. FoldPrepared(acc, r) = [acc EXCEPT !.indexes = ix, !.pending = p]
      BY <1>1, <1>3 DEF FoldPrepared, Accumulators
    <2>2. \A k \in DOMAIN acc.pending : acc.pending[k].id # r.id
      <3>1. DOMAIN acc.pending = 1 .. Len(acc.pending)
        BY <1>1 DEF Accumulators
      <3> QED BY <1>1, <1>3, <3>1 DEF Indexed
    <2>3. /\ p \in Seq(PendingEntries) /\ DOMAIN p = 1 .. (Len(acc.pending) + 1)
          /\ DOMAIN acc.pending = 1 .. Len(acc.pending) /\ Len(acc.pending) \in Nat
          /\ p[Len(acc.pending) + 1] = Entry(r)
          /\ \A k \in 1 .. Len(acc.pending) : p[k] = acc.pending[k]
          /\ \A k \in 1 .. Len(acc.pending) : acc.pending[k].id \in Ids
      <3>1. acc.pending \in Seq(PendingEntries)
        BY <1>1 DEF Accumulators
      <3>2. \A k \in 1 .. Len(acc.pending) : acc.pending[k] \in PendingEntries
        BY <3>1
      <3>3. \A k \in 1 .. Len(acc.pending) : acc.pending[k].id \in Ids
        BY <3>2 DEF PendingEntries
      <3> QED BY <1>1, <3>1, <3>3
    <2>4. \A i, j \in DOMAIN p : p[i].id = p[j].id => i = j
      <3> HIDE DEF p
      <3> QED BY <1>1, <2>2, <2>3
    <2>5. /\ ix \in [Ids -> Nat] /\ ix[r.id] = Len(acc.pending) + 1
          /\ \A x \in Ids \ {r.id} : ix[x] = acc.indexes[x]
      BY <1>1, <2>3 DEF Accumulators
    <2> HIDE DEF p, ix
    <2>6. /\ FoldPrepared(acc, r).pending = p /\ FoldPrepared(acc, r).ok
          /\ FoldPrepared(acc, r).indexes = ix
          /\ FoldPrepared(acc, r).terminal = acc.terminal
          /\ FoldPrepared(acc, r) \in Accumulators
      BY <1>1, <2>1, <2>3, <2>5 DEF Accumulators
    <2>7. \A k \in DOMAIN p : ix[p[k].id] = k
      <3> SUFFICES ASSUME NEW k \in DOMAIN p PROVE ix[p[k].id] = k
        OBVIOUS
      <3>1. CASE k = Len(acc.pending) + 1
        BY <1>1, <2>3, <2>5, <3>1
      <3>2. CASE k \in DOMAIN acc.pending
        BY <1>1, <2>2, <2>3, <2>5, <3>2 DEF Indexed
      <3> QED BY <2>3, <3>1, <3>2
    <2>8. ASSUME NEW x \in Ids, ix[x] # 0
          PROVE  ix[x] \in DOMAIN p /\ p[ix[x]].id = x
      <3>1. CASE x = r.id
        BY <1>1, <2>3, <2>5, <3>1
      <3>2. CASE x # r.id
        BY <1>1, <2>3, <2>5, <2>8, <3>2 DEF Indexed
      <3> QED BY <3>1, <3>2
    <2>9. FoldPrepared(acc, r) \in Folds
      BY <2>4, <2>6, <2>7, <2>8 DEF Folds, Indexed
    <2> QED BY <2>2, <2>6, <2>9, <1>3 DEF PreparedTo, p
  <1> QED BY <1>1, <1>2, <1>3 DEF Accumulators

\* What its RemoteOutcomeObserved arm does.
LEMMA FoldObservedStep ==
    ASSUME NEW acc \in Folds, acc.ok, NEW r \in Records
    PROVE  ObservedTo(acc, r, FoldObserved(acc, r)) /\ FoldObserved(acc, r) \in Folds
  <1> DEFINE i == acc.indexes[r.id]
  <1>1. /\ acc \in Accumulators /\ Indexed(acc)
        /\ r.id \in Ids /\ r.state \in States
        /\ \A k, l \in DOMAIN acc.pending : acc.pending[k].id = acc.pending[l].id => k = l
    BY DEF Folds, Records
  <1>2. CASE i \notin DOMAIN acc.pending \/ acc.pending[i].observed
    <2>1. FoldObserved(acc, r) = Refuse(acc)
      BY <1>2 DEF FoldObserved
    <2>2. ~\E k \in DOMAIN acc.pending : acc.pending[k].id = r.id /\ ~acc.pending[k].observed
      BY <1>1, <1>2, IndexFinds
    <2> QED BY <2>1, <2>2, RefusedFolds DEF ObservedTo
  <1>3. CASE i \in DOMAIN acc.pending /\ ~acc.pending[i].observed
    <2>1. /\ acc.pending[i].id = r.id
          /\ \A k \in DOMAIN acc.pending : acc.pending[k].id = r.id => k = i
      BY <1>1, <1>3, IndexFinds
    <2> HIDE DEF i
    <2> DEFINE e == [id |-> r.id, observed |-> TRUE, state |-> r.state]
               q == [acc.pending EXCEPT ![i] = e]
    <2>2. i \in 1 .. Len(acc.pending) /\ acc.pending[i] \in PendingEntries
      BY <1>1, <1>3 DEF Accumulators
    <2>3. [id |-> acc.pending[i].id, observed |-> TRUE, state |-> r.state] = e
      BY <2>1
    <2>4. FoldObserved(acc, r) = [acc EXCEPT !.pending = q]
      BY <1>1, <1>3, <2>3 DEF FoldObserved, Accumulators, i
    <2>5. q \in Seq(PendingEntries) /\ DOMAIN q = DOMAIN acc.pending
      BY <1>1, <2>2, ExceptSeq DEF PendingEntries, Accumulators
    <2>6. \A k \in DOMAIN q : q[k].id = acc.pending[k].id
      BY <1>1, <2>1 DEF Accumulators
    <2> HIDE DEF q
    <2>7. /\ FoldObserved(acc, r).pending = q /\ FoldObserved(acc, r).ok
          /\ FoldObserved(acc, r).indexes = acc.indexes
          /\ FoldObserved(acc, r).terminal = acc.terminal
          /\ FoldObserved(acc, r) \in Accumulators
      BY <1>1, <2>4, <2>5 DEF Accumulators
    <2>8. FoldObserved(acc, r) \in Folds
      BY <1>1, <2>5, <2>6, <2>7 DEF Folds, Indexed
    <2> QED BY <1>3, <2>1, <2>7, <2>8 DEF ObservedTo, q
  <1> QED BY <1>2, <1>3

\* What its StateCommitted arm does: the vector closes up behind the entry, and the
\* positions of the entries behind it follow.
LEMMA FoldCommittedStep ==
    ASSUME NEW acc \in Folds, acc.ok, NEW r \in Records
    PROVE  CommittedTo(acc, r, FoldCommitted(acc, r)) /\ FoldCommitted(acc, r) \in Folds
  <1> DEFINE i == acc.indexes[r.id]
  <1>1. /\ acc \in Accumulators /\ Indexed(acc) /\ r.id \in Ids
        /\ \A k, l \in DOMAIN acc.pending : acc.pending[k].id = acc.pending[l].id => k = l
    BY DEF Folds, Records
  <1>2. CASE i \notin DOMAIN acc.pending \/ ~acc.pending[i].observed
    <2>1. FoldCommitted(acc, r) = Refuse(acc)
      BY <1>2 DEF FoldCommitted
    <2>2. ~\E k \in DOMAIN acc.pending : acc.pending[k].id = r.id /\ acc.pending[k].observed
      BY <1>1, <1>2, IndexFinds
    <2> QED BY <2>1, <2>2, RefusedFolds DEF CommittedTo
  <1>3. CASE i \in DOMAIN acc.pending /\ acc.pending[i].observed
    <2>1. /\ acc.pending[i].id = r.id
          /\ \A k \in DOMAIN acc.pending : acc.pending[k].id = r.id => k = i
      BY <1>1, <1>3, IndexFinds
    <2> DEFINE p == RemoveAt(acc.pending, i)
               ix == Renumber(acc.indexes, r.id, i)
               tm == acc.terminal \cup {r.id}
    <2>2. FoldCommitted(acc, r) = [acc EXCEPT !.indexes = ix, !.pending = p, !.terminal = tm]
      BY <1>1, <1>3 DEF FoldCommitted, Accumulators
    <2> HIDE DEF i
    <2>3. /\ i \in 1 .. Len(acc.pending) /\ DOMAIN acc.pending = 1 .. Len(acc.pending)
          /\ Len(acc.pending) \in Nat
          /\ acc.pending \in Seq(PendingEntries) /\ acc.indexes \in [Ids -> Nat]
          /\ tm \in SUBSET Ids
          /\ \A k \in 1 .. Len(acc.pending) : acc.pending[k].id \in Ids
      <3>1. /\ acc.pending \in Seq(PendingEntries) /\ acc.indexes \in [Ids -> Nat]
            /\ tm \in SUBSET Ids
        BY <1>1 DEF Accumulators
      <3>2. \A k \in 1 .. Len(acc.pending) : acc.pending[k] \in PendingEntries
        BY <3>1
      <3>3. \A k \in 1 .. Len(acc.pending) : acc.pending[k].id \in Ids
        BY <3>2 DEF PendingEntries
      <3>4. i \in 1 .. Len(acc.pending) /\ DOMAIN acc.pending = 1 .. Len(acc.pending)
        BY <1>3, <3>1 DEF i
      <3> QED BY <3>1, <3>3, <3>4
    <2>4. /\ p \in Seq(PendingEntries) /\ DOMAIN p = 1 .. (Len(acc.pending) - 1)
          /\ \A k \in 1 .. (Len(acc.pending) - 1) :
                p[k] = IF k < i THEN acc.pending[k] ELSE acc.pending[k + 1]
      <3>1. /\ p \in Seq(PendingEntries) /\ Len(p) = Len(acc.pending) - 1
            /\ \A k \in 1 .. (Len(acc.pending) - 1) :
                  p[k] = IF k < i THEN acc.pending[k] ELSE acc.pending[k + 1]
        BY <2>3, RemoveAtProperties
      <3> HIDE DEF p
      <3> QED BY <3>1
    <2>5. /\ ix \in [Ids -> Nat] /\ ix[r.id] = 0
          /\ \A x \in Ids \ {r.id} :
                ix[x] = IF acc.indexes[x] > i THEN acc.indexes[x] - 1 ELSE acc.indexes[x]
      <3>1. ASSUME NEW x \in Ids
            PROVE  /\ ix[x] \in Nat
                   /\ x = r.id => ix[x] = 0
                   /\ x # r.id =>
                        ix[x] = IF acc.indexes[x] > i THEN acc.indexes[x] - 1 ELSE acc.indexes[x]
        <4>1. acc.indexes[x] \in Nat
          BY <2>3
        <4> QED BY <2>3, <4>1 DEF Renumber
      <3>2. ix = [x \in Ids |-> ix[x]]
        BY DEF Renumber
      <3> HIDE DEF ix
      <3> QED BY <1>1, <3>1, <3>2
    <2> HIDE DEF p, ix, tm
    <2>6. /\ FoldCommitted(acc, r).pending = p /\ FoldCommitted(acc, r).ok
          /\ FoldCommitted(acc, r).indexes = ix
          /\ FoldCommitted(acc, r).terminal = tm
          /\ FoldCommitted(acc, r) \in Accumulators
      BY <1>1, <2>2, <2>3, <2>4, <2>5 DEF Accumulators
    <2>7. ASSUME NEW k \in DOMAIN p
          PROVE  /\ ix[p[k].id] = k
                 /\ \A l \in DOMAIN p : p[k].id = p[l].id => k = l
      <3>1. ASSUME NEW m \in DOMAIN p
            PROVE  \E mm \in DOMAIN acc.pending :
                      /\ p[m] = acc.pending[mm] /\ mm # i /\ mm = IF m < i THEN m ELSE m + 1
        BY <2>3, <2>4, <3>1
      <3>2. PICK kk \in DOMAIN acc.pending :
                   p[k] = acc.pending[kk] /\ kk # i /\ kk = IF k < i THEN k ELSE k + 1
        BY <3>1
      <3>3. acc.pending[kk].id \in Ids \ {r.id} /\ acc.indexes[acc.pending[kk].id] = kk
        BY <1>1, <2>1, <2>3, <3>2 DEF Indexed
      <3>4. ix[p[k].id] = k
        BY <2>3, <2>4, <2>5, <3>2, <3>3
      <3>5. ASSUME NEW l \in DOMAIN p, p[k].id = p[l].id
            PROVE  k = l
        <4>1. PICK ll \in DOMAIN acc.pending :
                     p[l] = acc.pending[ll] /\ ll # i /\ ll = IF l < i THEN l ELSE l + 1
          BY <3>1
        <4>2. kk = ll
          BY <1>1, <3>2, <3>5, <4>1
        <4> QED BY <2>3, <2>4, <3>2, <4>1, <4>2
      <3> QED BY <3>4, <3>5
    <2>8. ASSUME NEW x \in Ids, ix[x] # 0
          PROVE  ix[x] \in DOMAIN p /\ p[ix[x]].id = x
      <3> DEFINE j == acc.indexes[x]
      <3>1. /\ x # r.id /\ j \in Nat /\ j # 0
            /\ ix[x] = IF j > i THEN j - 1 ELSE j
        BY <2>3, <2>5, <2>8
      <3>2. j \in DOMAIN acc.pending /\ acc.pending[j].id = x /\ j # i
        BY <1>1, <2>1, <3>1 DEF Indexed
      <3> HIDE DEF j
      <3>3. CASE j > i
        <4>1. ix[x] = j - 1 /\ j - 1 \in DOMAIN p /\ ~(j - 1 < i)
          BY <2>3, <2>4, <3>1, <3>2, <3>3
        <4>2. p[j - 1] = acc.pending[(j - 1) + 1] /\ (j - 1) + 1 = j
          BY <2>3, <2>4, <3>1, <4>1
        <4> QED BY <3>2, <4>1, <4>2
      <3>4. CASE j < i
        <4>1. ix[x] = j /\ j \in DOMAIN p /\ p[j] = acc.pending[j]
          BY <2>3, <2>4, <3>1, <3>2, <3>4
        <4> QED BY <3>2, <4>1
      <3> QED BY <2>3, <3>1, <3>2, <3>3, <3>4
    <2>9. FoldCommitted(acc, r) \in Folds
      BY <2>6, <2>7, <2>8 DEF Folds, Indexed
    <2> QED BY <1>3, <2>1, <2>6, <2>9 DEF CommittedTo, p, tm
  <1> QED BY <1>2, <1>3

\* What a record does to an accumulator, by its phase.
Step(acc, r, next) ==
    /\ ~acc.ok => next = acc
    /\ acc.ok /\ r.phase = "prepared" => PreparedTo(acc, r, next)
    /\ acc.ok /\ r.phase = "observed" => ObservedTo(acc, r, next)
    /\ acc.ok /\ r.phase = "committed" => CommittedTo(acc, r, next)

\* One record, of whichever phase.
LEMMA FoldRecordStep ==
    ASSUME NEW acc \in Folds, NEW r \in Records
    PROVE  Step(acc, r, FoldRecord(acc, r)) /\ FoldRecord(acc, r) \in Folds
  <1>1. r.phase \in {"prepared", "observed", "committed"} /\ acc.ok \in BOOLEAN
    BY DEF Records, Folds, Accumulators
  <1>2. CASE ~acc.ok
    BY <1>2 DEF FoldRecord, Step
  <1>3. CASE acc.ok /\ r.phase = "prepared"
    <2>1. FoldRecord(acc, r) = FoldPrepared(acc, r)
      BY <1>3 DEF FoldRecord
    <2> QED BY <1>3, <2>1, FoldPreparedStep DEF Step
  <1>4. CASE acc.ok /\ r.phase = "observed"
    <2>1. FoldRecord(acc, r) = FoldObserved(acc, r)
      BY <1>4 DEF FoldRecord
    <2> QED BY <1>4, <2>1, FoldObservedStep DEF Step
  <1>5. CASE acc.ok /\ r.phase = "committed"
    <2>1. FoldRecord(acc, r) = FoldCommitted(acc, r)
      BY <1>5 DEF FoldRecord
    <2> QED BY <1>5, <2>1, FoldCommittedStep DEF Step
  <1> QED BY <1>1, <1>2, <1>3, <1>4, <1>5

\* The accumulators that a pass over the records goes through.
Passes(f, records) ==
    /\ f \in [0 .. Len(records) -> Folds]
    /\ f[0] = Nothing
    /\ \A n \in 1 .. Len(records) : f[n] = FoldRecord(f[n - 1], records[n])

\* The recursive function of PendingWithEvidence exists.
LEMMA PassExists ==
    ASSUME NEW records \in Seq(Records)
    PROVE  \E f : Passes(f, records)
  <1> DEFINE step == [n \in 1 .. Len(records) |-> [acc \in Folds |-> FoldRecord(acc, records[n])]]
  <1>1. Len(records) \in Nat /\ \A n \in 1 .. Len(records) : records[n] \in Records
    BY ElementOfSeq
  <1>2. step \in [1 .. Len(records) -> [Folds -> Folds]]
    BY <1>1, FoldRecordStep
  <1>3. PICK f \in [0 .. Len(records) -> Folds] :
            f[0] = Nothing /\ \A n \in 1 .. Len(records) : f[n] = step[n][f[n - 1]]
    <2>1. HasIteration(Len(records), Folds, Nothing, step)
      <3> HIDE DEF step
      <3> QED BY <1>1, <1>2, NothingFolds, Iteration
    <2> HIDE DEF step
    <2> QED BY <2>1 DEF HasIteration
  <1>4. ASSUME NEW n \in 1 .. Len(records) PROVE f[n] = FoldRecord(f[n - 1], records[n])
    <2>1. n - 1 \in 0 .. Len(records)
      BY <1>1
    <2>2. f[n - 1] \in Folds
      BY <2>1
    <2> QED BY <1>3, <2>2
  <1> QED BY <1>3, <1>4 DEF Passes

\* The passes over a sequence and over its beginning agree.
LEMMA PassesAgree ==
    ASSUME NEW rs \in Seq(Records), NEW qs \in Seq(Records), Len(rs) <= Len(qs),
           \A i \in 1 .. Len(rs) : rs[i] = qs[i],
           NEW f, Passes(f, rs), NEW g, Passes(g, qs)
    PROVE  f[Len(rs)] = g[Len(rs)]
  <1> DEFINE S == {n \in 0 .. Len(rs) : f[n] = g[n]}
  <1>1. 0 \in S
    BY DEF Passes
  <1>2. ASSUME NEW n \in 0 .. (Len(rs) - 1), n \in S PROVE n + 1 \in S
    <2>1. n + 1 \in 1 .. Len(rs) /\ n + 1 \in 1 .. Len(qs) /\ (n + 1) - 1 = n
      OBVIOUS
    <2>2. f[n + 1] = FoldRecord(f[n], rs[n + 1]) /\ g[n + 1] = FoldRecord(g[n], qs[n + 1])
      BY <2>1 DEF Passes
    <2> QED BY <1>2, <2>1, <2>2
  <1>3. 0 .. Len(rs) \subseteq S
    <2> HIDE DEF S
    <2>1. \A n \in 0 .. (Len(rs) - 1) : n \in S => n + 1 \in S
      BY <1>2
    <2>2. Len(rs) \in Nat
      OBVIOUS
    <2> QED BY <1>1, <2>1, <2>2, Induction
  <1> QED BY <1>3

\* pending_with_evidence is the last accumulator of the pass.
LEMMA FoldIsPass ==
    ASSUME NEW records \in Seq(Records), NEW f, Passes(f, records)
    PROVE  PendingWithEvidence(records) = f[Len(records)]
  <1> DEFINE N == Len(records)
             Body(g) == [n \in 0 .. N |->
                IF n = 0 THEN [ok |-> TRUE, pending |-> <<>>, indexes |-> [x \in Ids |-> 0],
                               terminal |-> {}]
                ELSE CHOOSE next \in {FoldRecord(acc, records[n]) : acc \in {g[n - 1]}} : TRUE]
             after == CHOOSE g : g = Body(g)
  <1>1. f = Body(f)
    <2>1. \A n \in 0 .. N : f[n] = Body(f)[n]
      <3> SUFFICES ASSUME NEW n \in 0 .. N PROVE f[n] = Body(f)[n]
        OBVIOUS
      <3>1. CASE n = 0
        BY <3>1 DEF Passes, Nothing
      <3>2. CASE n # 0
        <4>1. (CHOOSE next \in {FoldRecord(acc, records[n]) : acc \in {f[n - 1]}} : TRUE)
                = FoldRecord(f[n - 1], records[n])
          OBVIOUS
        <4>2. f[n] = FoldRecord(f[n - 1], records[n])
          BY <3>2 DEF Passes
        <4> QED BY <3>2, <4>1, <4>2
      <3> QED BY <3>1, <3>2
    <2>2. f = [n \in 0 .. N |-> f[n]]
      BY DEF Passes
    <2>3. Body(f) = [n \in 0 .. N |-> Body(f)[n]]
      OBVIOUS
    <2> HIDE DEF Body
    <2> QED BY <2>1, <2>2, <2>3
  <1>2. after = Body(after)
    <2> HIDE DEF Body
    <2> QED BY <1>1, Zenon
  <1>3. PendingWithEvidence(records) = after[N]
    BY Zenon DEF PendingWithEvidence
  <1> DEFINE S == {n \in 0 .. N : f[n] = after[n]}
  <1>4. ASSUME NEW g, g = Body(g) PROVE f[N] = g[N]
    <2> DEFINE T == {n \in 0 .. N : f[n] = g[n]}
    <2>1. 0 \in T
      <3>1. g[0] = Nothing
        BY <1>4 DEF Nothing
      <3> QED BY <3>1 DEF Passes
    <2>2. ASSUME NEW n \in 0 .. (N - 1), n \in T PROVE n + 1 \in T
      <3>1. n + 1 \in 0 .. N /\ n + 1 # 0 /\ n + 1 \in 1 .. N /\ (n + 1) - 1 = n
        OBVIOUS
      <3>2. g[n + 1] = CHOOSE next \in {FoldRecord(acc, records[n + 1]) : acc \in {g[(n + 1) - 1]}} : TRUE
        BY <1>4, <3>1, Zenon
      <3>3. g[n + 1] = FoldRecord(g[n], records[n + 1])
        BY <3>1, <3>2
      <3>4. f[n + 1] = FoldRecord(f[n], records[n + 1])
        BY <3>1 DEF Passes
      <3> QED BY <2>2, <3>1, <3>3, <3>4
    <2>3. N \in T
      <3> HIDE DEF T
      <3>1. \A n \in 0 .. (N - 1) : n \in T => n + 1 \in T
        BY <2>2
      <3>2. 0 .. N \subseteq T
        BY <2>1, <3>1, Induction
      <3> QED BY <3>2
    <2> QED BY <2>3
  <1> HIDE DEF after, Body
  <1> QED BY <1>2, <1>3, <1>4

\* An empty journal has nothing pending.
LEMMA FoldEmpty == PendingWithEvidence(<<>>) = Nothing
  <1>1. <<>> \in Seq(Records) /\ Len(<<>>) = 0
    OBVIOUS
  <1>2. PICK f : Passes(f, <<>>)
    BY <1>1, PassExists
  <1> QED BY <1>1, <1>2, FoldIsPass DEF Passes

\* One more record takes one more step, and the accumulator stays well formed.
LEMMA FoldAppend ==
    ASSUME NEW rs \in Seq(Records), NEW r \in Records
    PROVE  PendingWithEvidence(Append(rs, r)) = FoldRecord(PendingWithEvidence(rs), r)
  <1> DEFINE qs == Append(rs, r)
  <1>1. /\ qs \in Seq(Records) /\ Len(qs) = Len(rs) + 1 /\ Len(rs) \in Nat
        /\ qs[Len(rs) + 1] = r /\ \A i \in 1 .. Len(rs) : rs[i] = qs[i]
    OBVIOUS
  <1> HIDE DEF qs
  <1>2. PICK f : Passes(f, rs)
    BY PassExists
  <1>3. PICK g : Passes(g, qs)
    BY <1>1, PassExists
  <1>4. f[Len(rs)] = g[Len(rs)]
    BY <1>1, <1>2, <1>3, PassesAgree
  <1>5. g[Len(rs) + 1] = FoldRecord(g[(Len(rs) + 1) - 1], qs[Len(rs) + 1])
    BY <1>1, <1>3 DEF Passes
  <1>6. PendingWithEvidence(rs) = f[Len(rs)] /\ PendingWithEvidence(qs) = g[Len(rs) + 1]
    BY <1>1, <1>2, <1>3, FoldIsPass
  <1>7. (Len(rs) + 1) - 1 = Len(rs)
    BY <1>1
  <1> QED BY <1>1, <1>4, <1>5, <1>6, <1>7 DEF qs

\* A fold has an entry of an id at most once, and no terminal id among them.
LEMMA FoldType ==
    ASSUME NEW records \in Seq(Records)
    PROVE  PendingWithEvidence(records) \in Folds
  <1>1. PICK f : Passes(f, records)
    BY PassExists
  <1>2. Len(records) \in 0 .. Len(records)
    OBVIOUS
  <1> QED BY <1>1, <1>2, FoldIsPass DEF Passes

-----------------------------------------------------------------------------
(* What the fold says of the records                                       *)

\* The phases that the records of x are in.
Seen(records, x) == {records[j].phase : j \in {k \in DOMAIN records : records[k].id = x}}

\* Record j is the last of x.
IsLast(records, j, x) ==
    /\ j \in DOMAIN records /\ records[j].id = x
    /\ \A l \in DOMAIN records : records[l].id = x => l <= j

\* x was prepared before y.
PreparedFirst(records, x, y) ==
    \A i, j \in DOMAIN records :
        records[i].id = x /\ records[i].phase = "prepared"
        /\ records[j].id = y /\ records[j].phase = "prepared" => i < j

\* An entry says what the last record of its id says.
EntryMatches(records, e) ==
    /\ Seen(records, e.id) = IF e.observed THEN {"prepared", "observed"} ELSE {"prepared"}
    /\ \E j \in DOMAIN records :
          /\ IsLast(records, j, e.id)
          /\ records[j].state = e.state
          /\ records[j].phase = IF e.observed THEN "observed" ELSE "prepared"

\* A fold says what the records say.
Matches(records, acc) ==
    /\ \A x \in acc.terminal : Seen(records, x) = {"prepared", "observed", "committed"}
    /\ \A k \in DOMAIN acc.pending : EntryMatches(records, acc.pending[k])
    /\ \A x \in Ids : Seen(records, x) # {} =>
          x \in acc.terminal \/ \E k \in DOMAIN acc.pending : acc.pending[k].id = x
    /\ \A k, l \in DOMAIN acc.pending :
          k < l => PreparedFirst(records, acc.pending[k].id, acc.pending[l].id)

\* One more record is the last of its id.
LEMMA AppendRecord ==
    ASSUME NEW rs \in Seq(Records), NEW r \in Records
    PROVE  /\ DOMAIN Append(rs, r) = 1 .. (Len(rs) + 1) /\ DOMAIN rs = 1 .. Len(rs)
           /\ Len(rs) \in Nat
           /\ \A i \in 1 .. Len(rs) : Append(rs, r)[i] = rs[i]
           /\ Append(rs, r)[Len(rs) + 1] = r
           /\ \A x : Seen(Append(rs, r), x) = Seen(rs, x) \cup (IF x = r.id THEN {r.phase} ELSE {})
  <1>1. /\ DOMAIN Append(rs, r) = 1 .. (Len(rs) + 1) /\ DOMAIN rs = 1 .. Len(rs)
        /\ Len(rs) \in Nat
        /\ \A i \in 1 .. Len(rs) : Append(rs, r)[i] = rs[i]
        /\ Append(rs, r)[Len(rs) + 1] = r
    OBVIOUS
  <1> DEFINE q == Append(rs, r)
  <1> HIDE DEF q
  <1>2. ASSUME NEW x PROVE Seen(q, x) = Seen(rs, x) \cup (IF x = r.id THEN {r.phase} ELSE {})
    <2>1. Seen(q, x) \subseteq Seen(rs, x) \cup (IF x = r.id THEN {r.phase} ELSE {})
      BY <1>1 DEF Seen, q
    <2>2. Seen(rs, x) \subseteq Seen(q, x)
      BY <1>1 DEF Seen, q
    <2>3. x = r.id => r.phase \in Seen(q, x)
      BY <1>1 DEF Seen, q
    <2> QED BY <2>1, <2>2, <2>3
  <1> QED BY <1>1, <1>2 DEF q

\* The order of phases, record by record.
LEMMA OrderAppend ==
    ASSUME NEW rs \in Seq(Records), NEW r \in Records
    PROVE  InPhaseOrder(Append(rs, r)) <=>
              InPhaseOrder(rs) /\ Seen(rs, r.id) = Preceding(r.phase)
  <1> DEFINE q == Append(rs, r)
             n == Len(rs) + 1
  <1>1. /\ DOMAIN q = 1 .. n /\ DOMAIN rs = 1 .. Len(rs) /\ Len(rs) \in Nat /\ q[n] = r
        /\ \A i \in 1 .. Len(rs) : q[i] = rs[i]
    BY AppendRecord
  <1> HIDE DEF q
  <1>2. ASSUME NEW i \in 1 .. Len(rs) PROVE PhasesBefore(q, i) = PhasesBefore(rs, i)
    <2>1. \A k \in 1 .. (i - 1) : q[k] = rs[k]
      BY <1>1
    <2>2. q[i] = rs[i]
      BY <1>1
    <2>3. {k \in 1 .. (i - 1) : q[k].id = q[i].id} = {k \in 1 .. (i - 1) : rs[k].id = rs[i].id}
      BY <2>1, <2>2
    <2> QED BY <2>1, <2>3 DEF PhasesBefore
  <1>3. PhasesBefore(q, n) = Seen(rs, r.id)
    <2>1. {k \in 1 .. (n - 1) : q[k].id = q[n].id} = {k \in DOMAIN rs : rs[k].id = r.id}
      BY <1>1
    <2> QED BY <1>1, <2>1 DEF PhasesBefore, Seen
  <1>4. \A i \in 1 .. n : i \in 1 .. Len(rs) \/ i = n
    BY <1>1
  <1>5. n \in 1 .. n /\ \A i \in 1 .. Len(rs) : i \in 1 .. n
    BY <1>1
  <1> HIDE DEF n
  <1>6. ASSUME InPhaseOrder(q) PROVE InPhaseOrder(rs) /\ Seen(rs, r.id) = Preceding(r.phase)
    BY <1>6, <1>1, <1>2, <1>3, <1>5 DEF InPhaseOrder
  <1>7. ASSUME InPhaseOrder(rs), Seen(rs, r.id) = Preceding(r.phase) PROVE InPhaseOrder(q)
    BY <1>7, <1>1, <1>2, <1>3, <1>4 DEF InPhaseOrder
  <1> QED BY <1>6, <1>7 DEF q

\* Entries of other ids are not touched by a record.
LEMMA EntryKept ==
    ASSUME NEW rs \in Seq(Records), NEW r \in Records, NEW e, e.id # r.id, EntryMatches(rs, e)
    PROVE  EntryMatches(Append(rs, r), e)
  <1> DEFINE q == Append(rs, r)
  <1>1. /\ DOMAIN q = 1 .. (Len(rs) + 1) /\ DOMAIN rs = 1 .. Len(rs) /\ Len(rs) \in Nat
        /\ \A i \in 1 .. Len(rs) : q[i] = rs[i]
        /\ q[Len(rs) + 1] = r
        /\ \A x : Seen(q, x) = Seen(rs, x) \cup (IF x = r.id THEN {r.phase} ELSE {})
    BY AppendRecord
  <1> HIDE DEF q
  <1>2. Seen(q, e.id) = Seen(rs, e.id)
    BY <1>1
  <1>3. PICK j \in DOMAIN rs : /\ IsLast(rs, j, e.id) /\ rs[j].state = e.state
                               /\ rs[j].phase = IF e.observed THEN "observed" ELSE "prepared"
    BY DEF EntryMatches
  <1>4. IsLast(q, j, e.id)
    BY <1>1, <1>3 DEF IsLast
  <1>5. j \in DOMAIN q /\ q[j] = rs[j]
    BY <1>1
  <1>6. EntryMatches(q, e)
    BY <1>2, <1>3, <1>4, <1>5 DEF EntryMatches
  <1> QED BY <1>6 DEF q

\* An entry that the last record is about.
LEMMA EntryWritten ==
    ASSUME NEW rs \in Seq(Records), NEW r \in Records, NEW e, e.id = r.id, e.state = r.state,
           Seen(rs, r.id) \cup {r.phase} = (IF e.observed THEN {"prepared", "observed"} ELSE {"prepared"}),
           r.phase = IF e.observed THEN "observed" ELSE "prepared"
    PROVE  EntryMatches(Append(rs, r), e)
  <1> DEFINE q == Append(rs, r)
  <1>1. /\ DOMAIN q = 1 .. (Len(rs) + 1) /\ Len(rs) \in Nat /\ q[Len(rs) + 1] = r
        /\ Seen(q, e.id) = Seen(rs, e.id) \cup {r.phase}
    BY AppendRecord
  <1> HIDE DEF q
  <1>2. IsLast(q, Len(rs) + 1, e.id)
    BY <1>1 DEF IsLast
  <1>3. EntryMatches(q, e)
    BY <1>1, <1>2 DEF EntryMatches
  <1> QED BY <1>3 DEF q

\* The order of Prepared records, once one more record is there.
LEMMA FirstKept ==
    ASSUME NEW rs \in Seq(Records), NEW r \in Records, NEW x, NEW y,
           PreparedFirst(rs, x, y), r.phase = "prepared" => r.id # x /\ r.id # y
    PROVE  PreparedFirst(Append(rs, r), x, y)
  <1> DEFINE q == Append(rs, r)
  <1>1. /\ DOMAIN q = 1 .. (Len(rs) + 1) /\ DOMAIN rs = 1 .. Len(rs) /\ Len(rs) \in Nat
        /\ \A i \in 1 .. Len(rs) : q[i] = rs[i]
        /\ q[Len(rs) + 1] = r
    BY AppendRecord
  <1> HIDE DEF q
  <1>2. PreparedFirst(q, x, y)
    BY <1>1 DEF PreparedFirst
  <1> QED BY <1>2 DEF q

\* A new preparation is the last.
LEMMA FirstNew ==
    ASSUME NEW rs \in Seq(Records), NEW r \in Records, NEW x, r.id # x, Seen(rs, r.id) = {}
    PROVE  PreparedFirst(Append(rs, r), x, r.id)
  <1> DEFINE q == Append(rs, r)
  <1>1. /\ DOMAIN q = 1 .. (Len(rs) + 1) /\ DOMAIN rs = 1 .. Len(rs) /\ Len(rs) \in Nat
        /\ \A i \in 1 .. Len(rs) : q[i] = rs[i]
        /\ q[Len(rs) + 1] = r
    BY AppendRecord
  <1>2. \A i \in 1 .. Len(rs) : rs[i].id # r.id
    BY <1>1 DEF Seen
  <1> HIDE DEF q
  <1>3. PreparedFirst(q, x, r.id)
    BY <1>1, <1>2 DEF PreparedFirst
  <1> QED BY <1>3 DEF q

-----------------------------------------------------------------------------
(* The fold and its reference                                              *)

\* The records of an id, by where the accumulator has it.
LEMMA SeenCases ==
    ASSUME NEW rs \in Seq(Records), NEW acc \in Folds, Matches(rs, acc), NEW x \in Ids
    PROVE  /\ x \in acc.terminal <=> Seen(rs, x) = {"prepared", "observed", "committed"}
           /\ (\E k \in DOMAIN acc.pending : acc.pending[k].id = x /\ acc.pending[k].observed)
                 <=> Seen(rs, x) = {"prepared", "observed"}
           /\ (\E k \in DOMAIN acc.pending : acc.pending[k].id = x /\ ~acc.pending[k].observed)
                 <=> Seen(rs, x) = {"prepared"}
           /\ (x \notin acc.terminal /\ \A k \in DOMAIN acc.pending : acc.pending[k].id # x)
                 <=> Seen(rs, x) = {}
  <1>1. x \in acc.terminal => Seen(rs, x) = {"prepared", "observed", "committed"}
    BY DEF Matches
  <1>2. ASSUME NEW k \in DOMAIN acc.pending, acc.pending[k].id = x
        PROVE  Seen(rs, x) = IF acc.pending[k].observed THEN {"prepared", "observed"} ELSE {"prepared"}
    BY <1>2 DEF Matches, EntryMatches
  <1>3. Seen(rs, x) # {} => x \in acc.terminal \/ \E k \in DOMAIN acc.pending : acc.pending[k].id = x
    BY DEF Matches
  <1>4. /\ {"prepared", "observed", "committed"} # {"prepared", "observed"}
        /\ {"prepared", "observed", "committed"} # {"prepared"}
        /\ {"prepared", "observed"} # {"prepared"}
        /\ {"prepared", "observed", "committed"} # {} /\ {"prepared", "observed"} # {} /\ {"prepared"} # {}
    <2>1. /\ "prepared" \in {"prepared"} /\ "observed" \notin {"prepared"}
          /\ "observed" \in {"prepared", "observed"} /\ "committed" \notin {"prepared", "observed"}
          /\ "committed" \notin {"prepared"}
          /\ "observed" \in {"prepared", "observed", "committed"}
          /\ "committed" \in {"prepared", "observed", "committed"}
      OBVIOUS
    <2> QED BY <2>1, Zenon
  <1> QED BY <1>1, <1>2, <1>3, <1>4

\* A preparation is accepted when its id is new, and the fold still matches.
LEMMA PreparedMatches ==
    ASSUME NEW rs \in Seq(Records), NEW r \in Records, r.phase = "prepared",
           NEW acc \in Folds, Matches(rs, acc), NEW next, PreparedTo(acc, r, next)
    PROVE  /\ next.ok <=> Seen(rs, r.id) = Preceding(r.phase)
           /\ next.ok => Matches(Append(rs, r), next)
  <1>1. r.id \in Ids /\ r.state \in States /\ Preceding(r.phase) = {}
    BY DEF Records, Preceding
  <1>2. next.ok <=> Seen(rs, r.id) = {}
    BY <1>1, SeenCases DEF PreparedTo
  <1>3. ASSUME next.ok PROVE Matches(Append(rs, r), next)
    <2> DEFINE q == Append(rs, r)
    <2>1. \A x : Seen(q, x) = Seen(rs, x) \cup (IF x = r.id THEN {r.phase} ELSE {})
      BY AppendRecord
    <2>2. Seen(rs, r.id) = {} /\ Seen(q, r.id) = {"prepared"}
      BY <1>2, <1>3, <2>1
    <2>3. /\ next.pending = Append(acc.pending, Entry(r)) /\ next.terminal = acc.terminal
          /\ r.id \notin acc.terminal /\ \A i \in DOMAIN acc.pending : acc.pending[i].id # r.id
      BY <1>3 DEF PreparedTo
    <2>4. /\ acc.pending \in Seq(PendingEntries) /\ Entry(r) \in PendingEntries
          /\ Entry(r).id = r.id /\ Entry(r).state = r.state /\ ~Entry(r).observed
      BY <1>1 DEF Folds, Accumulators, Entry, PendingEntries
    <2> DEFINE n == Len(acc.pending) + 1
    <2>5. /\ DOMAIN next.pending = 1 .. n /\ DOMAIN acc.pending = 1 .. (n - 1) /\ n \in Nat \ {0}
          /\ next.pending[n] = Entry(r)
          /\ \A k \in 1 .. (n - 1) : next.pending[k] = acc.pending[k]
      BY <2>3, <2>4
    <2> HIDE DEF q, n
    <2>6. \A x \in next.terminal : Seen(q, x) = {"prepared", "observed", "committed"}
      <3>1. \A x \in next.terminal : Seen(q, x) = Seen(rs, x)
        BY <2>1, <2>3
      <3> QED BY <2>3, <3>1 DEF Matches
    <2>7. ASSUME NEW k \in DOMAIN next.pending PROVE EntryMatches(q, next.pending[k])
      <3>1. CASE k = n
        <4>1. EntryMatches(Append(rs, r), Entry(r))
          BY <2>2, <2>4, EntryWritten
        <4> QED BY <4>1, <3>1, <2>5 DEF q
      <3>2. CASE k # n
        <4>1. k \in DOMAIN acc.pending /\ next.pending[k] = acc.pending[k]
          BY <2>5, <3>2
        <4>2. EntryMatches(rs, acc.pending[k]) /\ acc.pending[k].id # r.id
          BY <2>3, <4>1 DEF Matches
        <4> QED BY <4>1, <4>2, EntryKept DEF q
      <3> QED BY <3>1, <3>2
    <2>8. ASSUME NEW x \in Ids, Seen(q, x) # {}
          PROVE  x \in next.terminal \/ \E k \in DOMAIN next.pending : next.pending[k].id = x
      <3>1. CASE x = r.id
        BY <2>4, <2>5, <3>1
      <3>2. CASE x # r.id
        <4>1. Seen(rs, x) # {}
          BY <2>1, <2>8, <3>2
        <4>2. x \in acc.terminal \/ \E k \in DOMAIN acc.pending : acc.pending[k].id = x
          BY <4>1 DEF Matches
        <4> QED BY <2>3, <2>5, <4>2
      <3> QED BY <3>1, <3>2
    <2>9. ASSUME NEW k \in DOMAIN next.pending, NEW l \in DOMAIN next.pending, k < l
          PROVE  PreparedFirst(q, next.pending[k].id, next.pending[l].id)
      <3>1. k \in DOMAIN acc.pending /\ next.pending[k] = acc.pending[k] /\ acc.pending[k].id # r.id
        BY <2>3, <2>5, <2>9
      <3>2. CASE l = n
        <4>1. next.pending[l].id = r.id
          BY <2>4, <2>5, <3>2
        <4> QED BY <2>2, <3>1, <4>1, FirstNew DEF q
      <3>3. CASE l # n
        <4>1. l \in DOMAIN acc.pending /\ next.pending[l] = acc.pending[l] /\ acc.pending[l].id # r.id
          BY <2>3, <2>5, <3>3
        <4>2. PreparedFirst(rs, acc.pending[k].id, acc.pending[l].id)
          BY <2>9, <3>1, <4>1 DEF Matches
        <4> QED BY <3>1, <4>1, <4>2, FirstKept DEF q
      <3> QED BY <3>2, <3>3
    <2>10. Matches(q, next)
      BY <2>6, <2>7, <2>8, <2>9 DEF Matches
    <2> QED BY <2>10 DEF q
  <1> QED BY <1>1, <1>2, <1>3

\* An outcome is accepted when its id is prepared, and the fold still matches.
LEMMA ObservedMatches ==
    ASSUME NEW rs \in Seq(Records), NEW r \in Records, r.phase = "observed",
           NEW acc \in Folds, Matches(rs, acc), NEW next, ObservedTo(acc, r, next)
    PROVE  /\ next.ok <=> Seen(rs, r.id) = Preceding(r.phase)
           /\ next.ok => Matches(Append(rs, r), next)
  <1>1. r.id \in Ids /\ r.state \in States /\ Preceding(r.phase) = {"prepared"}
    BY DEF Records, Preceding
  <1>2. next.ok <=> Seen(rs, r.id) = {"prepared"}
    BY <1>1, SeenCases DEF ObservedTo
  <1>3. ASSUME next.ok PROVE Matches(Append(rs, r), next)
    <2> DEFINE q == Append(rs, r)
    <2>1. \A x : Seen(q, x) = Seen(rs, x) \cup (IF x = r.id THEN {r.phase} ELSE {})
      BY AppendRecord
    <2>2. PICK i \in DOMAIN acc.pending : acc.pending[i].id = r.id /\ ~acc.pending[i].observed
      BY <1>3 DEF ObservedTo
    <2> DEFINE e == [id |-> r.id, observed |-> TRUE, state |-> r.state]
    <2>3. next.pending = [acc.pending EXCEPT ![i] = e] /\ next.terminal = acc.terminal
      BY <1>3, <2>2 DEF ObservedTo
    <2>4. e.id = r.id /\ e.state = r.state /\ e.observed
      OBVIOUS
    <2> HIDE DEF q, e
    <2>5. /\ DOMAIN next.pending = DOMAIN acc.pending /\ next.pending[i] = e
          /\ \A k \in DOMAIN acc.pending : k # i => next.pending[k] = acc.pending[k] /\ acc.pending[k].id # r.id
          /\ \A k \in DOMAIN acc.pending : next.pending[k].id = acc.pending[k].id
      BY <2>2, <2>3, <2>4 DEF Folds, Accumulators
    <2>6. Seen(rs, r.id) = {"prepared"} /\ r.id \notin acc.terminal
      BY <1>1, <1>2, <1>3, SeenCases
    <2>7. \A x \in next.terminal : Seen(q, x) = {"prepared", "observed", "committed"}
      <3>1. \A x \in next.terminal : Seen(q, x) = Seen(rs, x)
        BY <2>1, <2>3, <2>6
      <3> QED BY <2>3, <3>1 DEF Matches
    <2>8. ASSUME NEW k \in DOMAIN next.pending PROVE EntryMatches(q, next.pending[k])
      <3>1. CASE k = i
        <4>1. Seen(rs, r.id) \cup {r.phase} = {"prepared", "observed"}
          BY <2>6
        <4>2. EntryMatches(Append(rs, r), e)
          BY <2>4, <4>1, EntryWritten
        <4> QED BY <4>2, <3>1, <2>5 DEF q
      <3>2. CASE k # i
        <4>1. EntryMatches(rs, acc.pending[k]) /\ acc.pending[k].id # r.id
              /\ next.pending[k] = acc.pending[k]
          BY <2>5, <3>2 DEF Matches
        <4> QED BY <4>1, EntryKept DEF q
      <3> QED BY <3>1, <3>2
    <2>9. ASSUME NEW x \in Ids, Seen(q, x) # {}
          PROVE  x \in next.terminal \/ \E k \in DOMAIN next.pending : next.pending[k].id = x
      <3>1. Seen(rs, x) # {}
        BY <2>1, <2>6, <2>9
      <3>2. x \in acc.terminal \/ \E k \in DOMAIN acc.pending : acc.pending[k].id = x
        BY <3>1 DEF Matches
      <3> QED BY <2>3, <2>5, <3>2
    <2>10. ASSUME NEW k \in DOMAIN next.pending, NEW l \in DOMAIN next.pending, k < l
           PROVE  PreparedFirst(q, next.pending[k].id, next.pending[l].id)
      <3>1. PreparedFirst(rs, acc.pending[k].id, acc.pending[l].id)
        BY <2>5, <2>10 DEF Matches
      <3>2. PreparedFirst(q, acc.pending[k].id, acc.pending[l].id)
        BY <3>1, FirstKept DEF q
      <3> QED BY <2>5, <3>2
    <2>11. Matches(q, next)
      BY <2>7, <2>8, <2>9, <2>10 DEF Matches
    <2> QED BY <2>11 DEF q
  <1> QED BY <1>1, <1>2, <1>3

\* A commit is accepted when its id is observed, and the fold still matches.
LEMMA CommittedMatches ==
    ASSUME NEW rs \in Seq(Records), NEW r \in Records, r.phase = "committed",
           NEW acc \in Folds, Matches(rs, acc), NEW next, CommittedTo(acc, r, next)
    PROVE  /\ next.ok <=> Seen(rs, r.id) = Preceding(r.phase)
           /\ next.ok => Matches(Append(rs, r), next)
  <1>1. r.id \in Ids /\ r.state \in States /\ Preceding(r.phase) = {"prepared", "observed"}
    BY DEF Records, Preceding
  <1>2. next.ok <=> Seen(rs, r.id) = {"prepared", "observed"}
    BY <1>1, SeenCases DEF CommittedTo
  <1>3. ASSUME next.ok PROVE Matches(Append(rs, r), next)
    <2> DEFINE q == Append(rs, r)
    <2>1. \A x : Seen(q, x) = Seen(rs, x) \cup (IF x = r.id THEN {r.phase} ELSE {})
      BY AppendRecord
    <2>2. PICK i \in DOMAIN acc.pending : acc.pending[i].id = r.id /\ acc.pending[i].observed
      BY <1>3 DEF CommittedTo
    <2>3. next.pending = RemoveAt(acc.pending, i) /\ next.terminal = acc.terminal \cup {r.id}
      BY <1>3, <2>2 DEF CommittedTo
    <2> DEFINE n == Len(acc.pending)
    <2>4. acc.pending \in Seq(PendingEntries) /\ DOMAIN acc.pending = 1 .. n /\ n \in Nat /\ i \in 1 .. n
      BY <2>2 DEF Folds, Accumulators
    <2>5. /\ next.pending \in Seq(PendingEntries) /\ Len(next.pending) = n - 1
          /\ \A k \in 1 .. (n - 1) :
                next.pending[k] = IF k < i THEN acc.pending[k] ELSE acc.pending[k + 1]
      BY <2>3, <2>4, RemoveAtProperties
    <2> HIDE DEF q, n
    <2>6. DOMAIN next.pending = 1 .. (n - 1)
      BY <2>5
    \* Where the entries come from, in order, and where they go to.
    <2> DEFINE old(k) == IF k < i THEN k ELSE k + 1
    <2>7. \A k \in 1 .. (n - 1) : /\ old(k) \in DOMAIN acc.pending /\ old(k) # i
                                  /\ next.pending[k] = acc.pending[old(k)]
      BY <2>4, <2>5
    <2>8. \A k, l \in 1 .. (n - 1) : k < l => old(k) < old(l)
      BY <2>4
    <2>9. \A m \in DOMAIN acc.pending : m # i => \E k \in 1 .. (n - 1) : next.pending[k] = acc.pending[m]
      <3> SUFFICES ASSUME NEW m \in DOMAIN acc.pending, m # i
                   PROVE  \E k \in 1 .. (n - 1) : next.pending[k] = acc.pending[m]
        OBVIOUS
      <3>1. CASE m < i
        BY <2>4, <2>5, <3>1
      <3>2. CASE m > i
        <4>1. m - 1 \in 1 .. (n - 1) /\ ~(m - 1 < i) /\ (m - 1) + 1 = m
          BY <2>4, <3>2
        <4> QED BY <2>5, <4>1
      <3> QED BY <2>4, <3>1, <3>2
    <2>10. \A m \in DOMAIN acc.pending : m # i => acc.pending[m].id # r.id
      BY <2>2 DEF Folds, Accumulators
    <2> HIDE DEF old
    <2>11. Seen(q, r.id) = {"prepared", "observed", "committed"}
      BY <1>2, <1>3, <2>1
    <2>12. \A x \in next.terminal : Seen(q, x) = {"prepared", "observed", "committed"}
      <3>1. \A x \in acc.terminal : x # r.id => Seen(q, x) = {"prepared", "observed", "committed"}
        BY <2>1 DEF Matches
      <3> QED BY <2>3, <2>11, <3>1
    <2>13. ASSUME NEW k \in DOMAIN next.pending PROVE EntryMatches(q, next.pending[k])
      <3>1. EntryMatches(rs, next.pending[k]) /\ next.pending[k].id # r.id
        BY <2>6, <2>7, <2>10 DEF Matches
      <3> QED BY <3>1, EntryKept DEF q
    <2>14. ASSUME NEW x \in Ids, Seen(q, x) # {}
           PROVE  x \in next.terminal \/ \E k \in DOMAIN next.pending : next.pending[k].id = x
      <3>1. CASE x = r.id
        BY <2>3, <3>1
      <3>2. CASE x # r.id
        <4>1. Seen(rs, x) # {}
          BY <2>1, <2>14, <3>2
        <4>2. x \in acc.terminal \/ \E m \in DOMAIN acc.pending : m # i /\ acc.pending[m].id = x
          BY <2>2, <3>2, <4>1 DEF Matches
        <4> QED BY <2>3, <2>6, <2>9, <4>2
      <3> QED BY <3>1, <3>2
    <2>15. ASSUME NEW k \in DOMAIN next.pending, NEW l \in DOMAIN next.pending, k < l
           PROVE  PreparedFirst(q, next.pending[k].id, next.pending[l].id)
      <3>1. PreparedFirst(rs, acc.pending[old(k)].id, acc.pending[old(l)].id)
        BY <2>6, <2>7, <2>8, <2>15 DEF Matches
      <3>2. PreparedFirst(q, acc.pending[old(k)].id, acc.pending[old(l)].id)
        BY <3>1, FirstKept DEF q
      <3> QED BY <2>6, <2>7, <3>2
    <2>16. Matches(q, next)
      BY <2>12, <2>13, <2>14, <2>15 DEF Matches
    <2> QED BY <2>16 DEF q
  <1> QED BY <1>1, <1>2, <1>3

\* pending_with_evidence accepts the records exactly when every id went through its
\* phases in order, and what it returns is then what the records say.
THEOREM FoldIsReference ==
    ASSUME NEW records \in Seq(Records)
    PROVE  /\ PendingWithEvidence(records).ok <=> InPhaseOrder(records)
           /\ PendingWithEvidence(records).ok => Matches(records, PendingWithEvidence(records))
  <1> DEFINE PWE(rs) == PendingWithEvidence(rs)
             Good(rs) == /\ PWE(rs).ok <=> InPhaseOrder(rs)
                         /\ PWE(rs).ok => Matches(rs, PWE(rs))
             S == {rs \in Seq(Records) : Good(rs)}
  <1>1. <<>> \in S
    <2>1. InPhaseOrder(<<>>)
      BY DEF InPhaseOrder
    <2>2. Matches(<<>>, Nothing)
      BY DEF Matches, Nothing, Seen
    <2>3. PWE(<<>>) = Nothing /\ Nothing.ok /\ <<>> \in Seq(Records)
      BY FoldEmpty DEF Nothing
    <2> HIDE DEF PWE, Nothing
    <2> QED BY <2>1, <2>2, <2>3
  <1>2. ASSUME NEW rs \in Seq(Records), NEW r \in Records, rs \in S PROVE Append(rs, r) \in S
    <2>1. PWE(rs) \in Folds /\ PWE(Append(rs, r)) = FoldRecord(PWE(rs), r)
      BY FoldType, FoldAppend
    <2>2. Step(PWE(rs), r, PWE(Append(rs, r)))
      BY <2>1, FoldRecordStep
    <2>3. InPhaseOrder(Append(rs, r)) <=> InPhaseOrder(rs) /\ Seen(rs, r.id) = Preceding(r.phase)
      BY OrderAppend
    <2>4. CASE ~PWE(rs).ok
      <3>1. ~InPhaseOrder(rs) /\ PWE(Append(rs, r)) = PWE(rs)
        BY <1>2, <2>2, <2>4 DEF Step
      <3> QED BY <3>1, <2>3, <2>4
    <2>5. CASE PWE(rs).ok
      <3>1. InPhaseOrder(rs) /\ Matches(rs, PWE(rs))
        BY <1>2, <2>5
      <3> HIDE DEF PWE
      <3>2. /\ PWE(Append(rs, r)).ok <=> Seen(rs, r.id) = Preceding(r.phase)
            /\ PWE(Append(rs, r)).ok => Matches(Append(rs, r), PWE(Append(rs, r)))
        <4>1. CASE r.phase = "prepared"
          BY <2>1, <2>2, <2>5, <3>1, <4>1, PreparedMatches DEF Step
        <4>2. CASE r.phase = "observed"
          BY <2>1, <2>2, <2>5, <3>1, <4>2, ObservedMatches DEF Step
        <4>3. CASE r.phase = "committed"
          BY <2>1, <2>2, <2>5, <3>1, <4>3, CommittedMatches DEF Step
        <4> QED BY <4>1, <4>2, <4>3 DEF Records
      <3>3. Good(Append(rs, r))
        BY <2>3, <3>1, <3>2 
      <3> QED BY <3>3
    <2> QED BY <2>4, <2>5
  <1>3. Seq(Records) \subseteq S
    <2> HIDE DEF S
    <2>1. \A rs \in Seq(Records), r \in Records : rs \in S => Append(rs, r) \in S
      BY <1>2
    <2> QED BY <1>1, <2>1, SeqInduction
  <1> QED BY <1>3

-----------------------------------------------------------------------------
(* Lines and their records                                                 *)

\* The records of lines that parse.
RecordsIn(ls) == [i \in DOMAIN ls |-> CHOOSE r \in ls[i].rec : TRUE]

\* What load reads of the file.
LEMMA RecordsOfLines == TheRecords = RecordsIn(lines) /\ (AllParse <=> Parse(lines))
  BY DEF TheRecords, RecordsIn, AllParse, Parse

\* Lines that parse hold one record each.
LEMMA ParsedLines ==
    ASSUME NEW ls \in Seq(Lines), Parse(ls)
    PROVE  /\ RecordsIn(ls) \in Seq(Records) /\ Len(RecordsIn(ls)) = Len(ls)
           /\ DOMAIN RecordsIn(ls) = DOMAIN ls
           /\ \A i \in DOMAIN ls : ls[i].rec = {RecordsIn(ls)[i]}
  <1>1. DOMAIN ls = 1 .. Len(ls) /\ Len(ls) \in Nat
    OBVIOUS
  <1>2. ASSUME NEW i \in DOMAIN ls
        PROVE  ls[i].rec = {RecordsIn(ls)[i]} /\ RecordsIn(ls)[i] \in Records
    <2>1. ls[i] \in Lines /\ ls[i].rec # {}
      BY <1>1 DEF Lines, Parse
    <2>2. PICK r \in Records : ls[i].rec = {r}
      BY <2>1 DEF Lines
    <2>3. (CHOOSE q \in {r} : TRUE) = r
      OBVIOUS
    <2>4. RecordsIn(ls)[i] = r
      BY <2>2, <2>3 DEF RecordsIn
    <2> QED BY <2>2, <2>4
  <1>3. DOMAIN RecordsIn(ls) = 1 .. Len(ls)
    BY <1>1 DEF RecordsIn
  <1>4. RecordsIn(ls) \in [1 .. Len(ls) -> Records]
    <2>1. RecordsIn(ls) = [i \in 1 .. Len(ls) |-> RecordsIn(ls)[i]]
      BY <1>1 DEF RecordsIn
    <2> QED BY <1>1, <1>2, <2>1
  <1> HIDE DEF RecordsIn
  <1>5. RecordsIn(ls) \in Seq(Records) /\ Len(RecordsIn(ls)) = Len(ls)
    BY <1>1, <1>4, IsASeq
  <1> QED BY <1>1, <1>2, <1>3, <1>5

\* The records that the service writes.
LEMMA RecordIsRecord ==
    ASSUME NEW p \in {"prepared", "observed", "committed"}, NEW x \in Ids, NEW s \in States
    PROVE  /\ Record(p, x, s) \in Records
           /\ Record(p, x, s).phase = p /\ Record(p, x, s).id = x
           /\ p # "committed" => Record(p, x, s).state = s
  BY FileAssumption DEF Record, Records

\* A whole record, appended to lines that parse.
LEMMA AppendLine ==
    ASSUME NEW ls \in Seq(Lines), NEW r \in Records
    PROVE  /\ Append(ls, Line(r)) \in Seq(Lines)
           /\ Parse(Append(ls, Line(r))) <=> Parse(ls)
           /\ Parse(ls) => RecordsIn(Append(ls, Line(r))) = Append(RecordsIn(ls), r)
  <1> DEFINE ms == Append(ls, Line(r))
  <1>1. Line(r) \in Lines /\ Line(r).parses /\ Line(r).rec = {r}
    BY DEF Line, Lines
  <1>2. /\ ms \in Seq(Lines) /\ DOMAIN ms = 1 .. (Len(ls) + 1) /\ DOMAIN ls = 1 .. Len(ls)
        /\ Len(ls) \in Nat /\ \A i \in 1 .. Len(ls) : ms[i] = ls[i]
        /\ ms[Len(ls) + 1] = Line(r) /\ Len(ms) = Len(ls) + 1
    BY <1>1
  <1> HIDE DEF ms
  <1>3. Parse(ms) <=> Parse(ls)
    BY <1>1, <1>2 DEF Parse
  <1>4. ASSUME Parse(ls) PROVE RecordsIn(ms) = Append(RecordsIn(ls), r)
    <2> DEFINE rs == RecordsIn(ls)
               qs == RecordsIn(ms)
    <2>1. rs \in Seq(Records) /\ Len(rs) = Len(ls) /\ \A i \in DOMAIN ls : ls[i].rec = {rs[i]}
      BY <1>4, ParsedLines
    <2>2. qs \in Seq(Records) /\ Len(qs) = Len(ms) /\ \A i \in DOMAIN ms : ms[i].rec = {qs[i]}
      BY <1>2, <1>3, <1>4, ParsedLines
    <2> HIDE DEF rs, qs
    <2>3. /\ Append(rs, r) \in Seq(Records) /\ Len(Append(rs, r)) = Len(qs)
          /\ \A i \in 1 .. Len(rs) : Append(rs, r)[i] = rs[i]
          /\ Append(rs, r)[Len(rs) + 1] = r
      BY <1>2, <2>1, <2>2
    <2>4. \A i \in 1 .. Len(qs) : qs[i] = Append(rs, r)[i]
      <3>1. ASSUME NEW i \in 1 .. Len(ls) PROVE {qs[i]} = {rs[i]}
        <4>1. i \in DOMAIN ls /\ i \in DOMAIN ms /\ ms[i] = ls[i]
          BY <1>2
        <4>2. ls[i].rec = {rs[i]} /\ ms[i].rec = {qs[i]}
          BY <2>1, <2>2, <4>1
        <4> QED BY <4>1, <4>2
      <3>2. {qs[Len(ls) + 1]} = {r}
        BY <1>1, <1>2, <2>2
      <3> QED BY <1>2, <2>1, <2>2, <2>3, <3>1, <3>2
    <2>5. qs = Append(rs, r)
      BY <2>2, <2>3, <2>4, SeqEqual
    <2> QED BY <2>5 DEF rs, qs
  <1> QED BY <1>2, <1>3, <1>4 DEF ms

\* A record after an unfinished line: the lines no longer parse.
LEMMA MangledLines ==
    ASSUME FileTypeOK, tail # "terminated"
    PROVE  Mangle \in Seq(Lines) /\ ~Parse(Mangle)
  <1>1. lines \in Seq(Lines) /\ DOMAIN lines = 1 .. Len(lines) /\ Len(lines) \in Nat
    BY DEF FileTypeOK
  <1>2. CASE tail = "partial"
    <2> DEFINE l == [parses |-> FALSE, rec |-> {}]
    <2>1. l \in Lines /\ ~l.parses
      BY DEF Lines
    <2>2. Mangle = Append(lines, l)
      BY <1>2 DEF Mangle
    <2> HIDE DEF l
    <2>3. Append(lines, l) \in Seq(Lines) /\ Append(lines, l)[Len(lines) + 1] = l
          /\ Len(lines) + 1 \in DOMAIN Append(lines, l)
      BY <1>1, <2>1
    <2> QED BY <2>1, <2>2, <2>3 DEF Parse
  <1>3. CASE tail # "partial"
    <2> DEFINE n == Len(lines)
    <2>1. n \in 1 .. Len(lines)
      BY <1>1, <1>3, EmptySeq DEF FileTypeOK
    <2>2. Mangle = [lines EXCEPT ![n] = [lines[n] EXCEPT !.parses = FALSE]]
      BY <1>3 DEF Mangle
    <2> DEFINE l == [lines[n] EXCEPT !.parses = FALSE]
    <2>3. l \in Lines /\ ~l.parses
      <3>1. lines[n] \in [parses : BOOLEAN, rec : {{}} \cup {{r} : r \in Records}]
        BY <1>1, <2>1 DEF Lines
      <3>2. l \in [parses : BOOLEAN, rec : {{}} \cup {{r} : r \in Records}] /\ ~l.parses
        <4> HIDE DEF n
        <4> QED BY <3>1
      <3> HIDE DEF l
      <3> QED BY <3>2 DEF Lines
    <2> HIDE DEF n, l
    <2>4. /\ [lines EXCEPT ![n] = l] \in Seq(Lines) /\ [lines EXCEPT ![n] = l][n] = l
          /\ n \in DOMAIN [lines EXCEPT ![n] = l]
      BY <1>1, <2>1, <2>3, ExceptSeq
    <2> QED BY <2>2, <2>3, <2>4 DEF Parse, l
  <1> QED BY <1>2, <1>3

\* FlattenSeq concatenates, one sequence after the other.
HasFlattening(seqs, T) ==
    \E f \in [0 .. Len(seqs) -> Seq(T)] :
       /\ f[0] = <<>> /\ FlattenSeq(seqs) = f[Len(seqs)]
       /\ \A n \in 1 .. Len(seqs) : f[n] = f[n - 1] \o seqs[n]

\* Flattening adds one sequence after the other.
LEMMA Flattening ==
    ASSUME NEW T, NEW seqs \in Seq(Seq(T))
    PROVE  HasFlattening(seqs, T)
  <1> DEFINE N == Len(seqs)
             step == [n \in 1 .. N |-> [s \in Seq(T) |-> s \o seqs[n]]]
  <1>1. N \in Nat /\ \A n \in 1 .. N : seqs[n] \in Seq(T)
    OBVIOUS
  <1>2. step \in [1 .. N -> [Seq(T) -> Seq(T)]] /\ <<>> \in Seq(T)
    BY <1>1, ConcatProperties
  <1>3. HasIteration(N, Seq(T), <<>>, step)
    <2> HIDE DEF step, N
    <2> QED BY <1>1, <1>2, Iteration
  <1>4. PICK f \in [0 .. N -> Seq(T)] :
            f[0] = <<>> /\ \A n \in 1 .. N : f[n] = step[n][f[n - 1]]
    <2> HIDE DEF step, N
    <2> QED BY <1>3 DEF HasIteration
  <1>5. ASSUME NEW n \in 1 .. N PROVE f[n] = f[n - 1] \o seqs[n]
    <2>1. n - 1 \in 0 .. N
      BY <1>1
    <2>2. f[n - 1] \in Seq(T)
      BY <2>1
    <2> QED BY <1>4, <2>2
  <1>6. FlattenSeq(seqs) = f[N]
    <2>1. CASE N = 0
      <3>1. seqs = <<>>
        BY <2>1, EmptySeq
      <3> QED BY <2>1, <3>1, <1>4 DEF FlattenSeq
    <2>2. CASE N # 0
      <3> DEFINE Body(g) == [i \in 1 .. N |-> IF i = 1 THEN seqs[i] ELSE g[i - 1] \o seqs[i]]
                 flatten == CHOOSE g : g = Body(g)
                 h == [i \in 1 .. N |-> f[i]]
      <3>1. h = Body(h)
        <4>1. ASSUME NEW i \in 1 .. N PROVE h[i] = Body(h)[i]
          <5>1. CASE i = 1
            <6>1. 1 \in 1 .. N /\ 1 - 1 = 0
              BY <1>1, <2>2
            <6>2. f[1] = <<>> \o seqs[1] /\ seqs[1] \in Seq(T)
              <7> HIDE DEF N, step
              <7> QED BY <1>1, <1>4, <1>5, <6>1
            <6>3. <<>> \o seqs[1] = seqs[1]
              BY <6>2, ConcatEmptySeq
            <6> QED BY <5>1, <6>2, <6>3
          <5>2. CASE i # 1
            <6>1. i - 1 \in 1 .. N
              BY <1>1, <5>2
            <6> QED BY <1>5, <5>2, <6>1
          <5> QED BY <5>1, <5>2
        <4>2. h = [i \in 1 .. N |-> h[i]] /\ Body(h) = [i \in 1 .. N |-> Body(h)[i]]
          OBVIOUS
        <4> HIDE DEF h, Body
        <4> QED BY <4>1, <4>2
      <3>2. flatten = Body(flatten)
        <4> HIDE DEF Body, h
        <4> QED BY <3>1, Zenon
      <3>3. FlattenSeq(seqs) = flatten[N]
        BY <2>2, Zenon DEF FlattenSeq
      <3> HIDE DEF flatten
      <3> DEFINE S == {n \in 0 .. N : n # 0 => flatten[n] = f[n]}
      <3>4. 0 \in S
        OBVIOUS
      <3>5. ASSUME NEW n \in 0 .. (N - 1), n \in S PROVE n + 1 \in S
        <4>1. n + 1 \in 1 .. N /\ (n + 1) - 1 = n
          BY <1>1
        <4>2. flatten[n + 1] = IF n + 1 = 1 THEN seqs[n + 1] ELSE flatten[(n + 1) - 1] \o seqs[n + 1]
          BY <3>2, <4>1, Zenon
        <4>3. h[n + 1] = IF n + 1 = 1 THEN seqs[n + 1] ELSE h[(n + 1) - 1] \o seqs[n + 1]
          BY <3>1, <4>1, Zenon
        <4>4. CASE n = 0
          BY <4>1, <4>2, <4>3, <4>4
        <4>5. CASE n # 0
          <5>1. n \in 1 .. N /\ flatten[n] = f[n] /\ h[n] = f[n] /\ h[n + 1] = f[n + 1]
            BY <3>5, <4>1, <4>5
          <5> QED BY <4>1, <4>2, <4>3, <4>5, <5>1
        <4> QED BY <4>4, <4>5
      <3>6. 0 .. N \subseteq S
        <4> HIDE DEF S
        <4>1. \A n \in 0 .. (N - 1) : n \in S => n + 1 \in S
          BY <3>5
        <4> QED BY <1>1, <3>4, <4>1, Induction
      <3> QED BY <1>1, <2>2, <3>3, <3>6
    <2> QED BY <2>1, <2>2
  <1> HIDE DEF step
  <1>7. Len(seqs) = N
    OBVIOUS
  <1> HIDE DEF N
  <1> QED BY <1>4, <1>5, <1>6, <1>7 DEF HasFlattening

-----------------------------------------------------------------------------
(* compact                                                                 *)

\* The two records that compact writes for an entry bring the entry back.
LEMMA CompactedEntryFolds ==
    ASSUME NEW rs \in Seq(Records), NEW e \in PendingEntries,
           PendingWithEvidence(rs).ok, PendingWithEvidence(rs).terminal = {},
           \A i \in DOMAIN PendingWithEvidence(rs).pending :
              PendingWithEvidence(rs).pending[i].id # e.id
    PROVE  LET r1 == Record("prepared", e.id, e.state)
               r2 == Record("observed", e.id, e.state)
               qs == IF e.observed THEN Append(Append(rs, r1), r2) ELSE Append(rs, r1)
           IN  /\ r1 \in Records /\ r2 \in Records /\ qs \in Seq(Records)
               /\ PendingWithEvidence(qs).ok /\ PendingWithEvidence(qs).terminal = {}
               /\ PendingWithEvidence(qs).pending = Append(PendingWithEvidence(rs).pending, e)
  <1> DEFINE r1 == Record("prepared", e.id, e.state)
             r2 == Record("observed", e.id, e.state)
             qs == Append(rs, r1)
             F == PendingWithEvidence(rs)
             G == PendingWithEvidence(qs)
             H == PendingWithEvidence(Append(qs, r2))
             n == Len(F.pending) + 1
  <1>1. /\ r1 \in Records /\ r1.phase = "prepared" /\ r1.id = e.id /\ r1.state = e.state
        /\ r2 \in Records /\ r2.phase = "observed" /\ r2.id = e.id /\ r2.state = e.state
        /\ e = [id |-> e.id, observed |-> e.observed, state |-> e.state] /\ e.observed \in BOOLEAN
    BY RecordIsRecord DEF PendingEntries
  <1> HIDE DEF r1, r2
  <1>2. qs \in Seq(Records) /\ Append(qs, r2) \in Seq(Records)
    BY <1>1
  <1>3. G = FoldRecord(F, r1) /\ F \in Folds
    BY <1>1, FoldAppend, FoldType
  <1>4. H = FoldRecord(G, r2) /\ G \in Folds
    <2> HIDE DEF qs
    <2> QED BY <1>1, <1>2, FoldAppend, FoldType
  <1>5. F.ok /\ F.terminal = {} /\ \A i \in DOMAIN F.pending : F.pending[i].id # e.id
    OBVIOUS
  <1> HIDE DEF F, G, H, qs
  <1>6. PreparedTo(F, r1, G)
    BY <1>1, <1>3, <1>5, FoldRecordStep DEF Step
  <1>7. G.ok /\ G.terminal = {} /\ G.pending = Append(F.pending, Entry(r1))
    BY <1>1, <1>5, <1>6 DEF PreparedTo
  <1>8. /\ F.pending \in Seq(PendingEntries) /\ DOMAIN F.pending = 1 .. (n - 1) /\ n \in Nat \ {0}
        /\ Entry(r1) = [id |-> e.id, observed |-> FALSE, state |-> e.state]
        /\ Entry(r1) \in PendingEntries
    BY <1>1, <1>3 DEF Folds, Accumulators, Entry, PendingEntries
  <1>9. CASE ~e.observed
    <2>1. Entry(r1) = e
      BY <1>1, <1>8, <1>9
    <2> QED BY <1>1, <1>2, <1>7, <1>9, <2>1 DEF qs, r1, r2, G, F
  <1>10. CASE e.observed
    <2>1. ObservedTo(G, r2, H)
      BY <1>1, <1>4, <1>7, FoldRecordStep DEF Step
    <2>2. /\ DOMAIN G.pending = 1 .. n /\ G.pending[n] = Entry(r1)
          /\ \A k \in 1 .. (n - 1) : G.pending[k] = F.pending[k]
      BY <1>7, <1>8
    <2>3. n \in DOMAIN G.pending /\ G.pending[n].id = r2.id /\ ~G.pending[n].observed
      BY <1>1, <1>8, <2>2
    <2>4. H.ok
      BY <2>1, <2>3 DEF ObservedTo
    <2>5. /\ H.pending = [G.pending EXCEPT ![n] = [id |-> r2.id, observed |-> TRUE, state |-> r2.state]]
          /\ H.terminal = G.terminal
      BY <2>1, <2>3, <2>4 DEF ObservedTo
    <2>6. H.pending = [G.pending EXCEPT ![n] = e]
      BY <1>1, <1>10, <2>5
    <2>7. H.pending = Append(F.pending, e)
      <3>1. Append(F.pending, e) \in Seq(PendingEntries) /\ Len(Append(F.pending, e)) = n
            /\ Append(F.pending, e)[n] = e
            /\ \A k \in 1 .. (n - 1) : Append(F.pending, e)[k] = F.pending[k]
        BY <1>8
      <3>2. H.pending \in Seq(PendingEntries) /\ Len(H.pending) = n
        <4>1. G.pending \in Seq(PendingEntries) /\ Len(G.pending) = n /\ n \in 1 .. Len(G.pending)
          BY <1>7, <1>8, <2>2
        <4> QED BY <2>6, <4>1, ExceptSeq
      <3>3. \A k \in 1 .. n : H.pending[k] = Append(F.pending, e)[k]
        <4> HIDE DEF n
        <4> QED BY <2>2, <2>6, <3>1, <1>8
      <3> HIDE DEF n
      <3> QED BY <3>1, <3>2, <3>3, SeqEqual
    <2> QED BY <1>1, <1>2, <1>7, <1>10, <2>4, <2>5, <2>7 DEF qs, r1, r2, G, F, H
  <1> QED BY <1>1, <1>9, <1>10

\* The lines that compact writes for these entries.
Compacted(pending) == FlattenSeq([i \in DOMAIN pending |-> CompactedEntry(pending[i])])

\* A compacted journal has pending what the journal had, and nothing terminal.
LEMMA CompactionFolds ==
    ASSUME NEW acc \in Folds
    PROVE  /\ Compacted(acc.pending) \in Seq(Lines) /\ Parse(Compacted(acc.pending))
           /\ PendingWithEvidence(RecordsIn(Compacted(acc.pending))).ok
           /\ PendingWithEvidence(RecordsIn(Compacted(acc.pending))).pending = acc.pending
           /\ PendingWithEvidence(RecordsIn(Compacted(acc.pending))).terminal = {}
  <1> DEFINE P == acc.pending
             N == Len(P)
             seqs == [i \in DOMAIN P |-> CompactedEntry(P[i])]
  <1>1. /\ P \in Seq(PendingEntries) /\ N \in Nat /\ DOMAIN P = 1 .. N
        /\ \A i \in 1 .. N : P[i] \in PendingEntries
        /\ \A i, j \in DOMAIN P : P[i].id = P[j].id => i = j
    BY DEF Folds, Accumulators
  <1> HIDE DEF P
  <1>2. ASSUME NEW e \in PendingEntries
        PROVE  LET l1 == Line(Record("prepared", e.id, e.state))
                   l2 == Line(Record("observed", e.id, e.state))
               IN  /\ l1 \in Lines /\ l2 \in Lines
                   /\ CompactedEntry(e) = IF e.observed THEN <<l1>> \o <<l2>> ELSE <<l1>>
                   /\ CompactedEntry(e) \in Seq(Lines)
    <2> DEFINE l1 == Line(Record("prepared", e.id, e.state))
               l2 == Line(Record("observed", e.id, e.state))
    <2>1. l1 \in Lines /\ l2 \in Lines
      <3>1. e.id \in Ids /\ e.state \in States
        BY DEF PendingEntries
      <3>2. Record("prepared", e.id, e.state) \in Records /\ Record("observed", e.id, e.state) \in Records
        BY <3>1, RecordIsRecord
      <3> QED BY <3>2 DEF Line, Lines
    <2>2. CompactedEntry(e) = <<l1>> \o (IF e.observed THEN <<l2>> ELSE <<>>)
      BY DEF CompactedEntry
    <2> HIDE DEF l1, l2
    <2>3. <<l1>> \in Seq(Lines) /\ <<l2>> \in Seq(Lines) /\ <<>> \in Seq(Lines)
      BY <2>1
    <2>4. <<l1>> \o <<>> = <<l1>> /\ <<l1>> \o <<l2>> \in Seq(Lines)
      BY <2>3, ConcatEmptySeq, ConcatProperties
    <2>5. CompactedEntry(e) = IF e.observed THEN <<l1>> \o <<l2>> ELSE <<l1>>
      BY <2>2, <2>4
    <2>6. CompactedEntry(e) \in Seq(Lines)
      BY <2>3, <2>4, <2>5
    <2> QED BY <2>1, <2>5, <2>6 DEF l1, l2
  <1>3. seqs \in Seq(Seq(Lines)) /\ Len(seqs) = N /\ \A n \in 1 .. N : seqs[n] = CompactedEntry(P[n])
    <2>1. seqs = [i \in 1 .. N |-> CompactedEntry(P[i])]
      BY <1>1
    <2>2. \A i \in 1 .. N : CompactedEntry(P[i]) \in Seq(Lines)
      BY <1>1, <1>2
    <2>3. seqs \in [1 .. N -> Seq(Lines)]
      BY <2>1, <2>2
    <2> HIDE DEF seqs, N
    <2>4. seqs \in Seq(Seq(Lines)) /\ Len(seqs) = N
      BY <1>1, <2>3, IsASeq
    <2> QED BY <2>1, <2>4
  <1> HIDE DEF seqs
  <1>4. PICK f \in [0 .. N -> Seq(Lines)] :
            /\ f[0] = <<>> /\ FlattenSeq(seqs) = f[N]
            /\ \A n \in 1 .. N : f[n] = f[n - 1] \o CompactedEntry(P[n])
    <2>1. HasFlattening(seqs, Lines)
      BY <1>3, Flattening
    <2> QED BY <2>1, <1>3 DEF HasFlattening
  <1> DEFINE PWE(ls) == PendingWithEvidence(RecordsIn(ls))
             Good(n) == /\ Parse(f[n]) /\ PWE(f[n]).ok /\ PWE(f[n]).terminal = {}
                        /\ PWE(f[n]).pending = SubSeq(P, 1, n)
             S == {n \in 0 .. N : Good(n)}
  <1>5. 0 \in S
    <2>1. RecordsIn(<<>>) = <<>> /\ Parse(<<>>)
      BY DEF RecordsIn, Parse
    <2>2. PWE(f[0]) = Nothing
      BY <1>4, <2>1, FoldEmpty
    <2>3. SubSeq(P, 1, 0) = <<>>
      BY <1>1
    <2> HIDE DEF PWE
    <2> QED BY <1>1, <1>4, <2>1, <2>2, <2>3 DEF Nothing
  <1>6. ASSUME NEW n \in 0 .. (N - 1), n \in S PROVE n + 1 \in S
    <2>1. n + 1 \in 1 .. N /\ n \in 0 .. N /\ (n + 1) - 1 = n /\ n + 1 \in 0 .. N
      BY <1>1
    <2> DEFINE e == P[n + 1]
               r1 == Record("prepared", e.id, e.state)
               r2 == Record("observed", e.id, e.state)
               rs == RecordsIn(f[n])
               qs == IF e.observed THEN Append(Append(rs, r1), r2) ELSE Append(rs, r1)
    <2>2. f[n] \in Seq(Lines) /\ Good(n) /\ e \in PendingEntries
      BY <1>1, <1>6, <2>1
    <2>3. rs \in Seq(Records)
      BY <2>2, ParsedLines
    <2>4. /\ SubSeq(P, 1, n) \in Seq(PendingEntries) /\ Len(SubSeq(P, 1, n)) = n
          /\ \A i \in 1 .. n : SubSeq(P, 1, n)[i] = P[i]
      <3> HIDE DEF N
      <3>1. n \in 0 .. Len(P)
        BY <2>1 DEF N
      <3> QED BY <1>1, <3>1, FrontOfSeq
    <2>5. DOMAIN SubSeq(P, 1, n) = 1 .. n
      BY <2>4
    <2>6. \A i \in DOMAIN SubSeq(P, 1, n) : SubSeq(P, 1, n)[i].id # e.id
      <3> SUFFICES ASSUME NEW i \in 1 .. n PROVE P[i].id # P[n + 1].id
        BY <2>4, <2>5
      <3>1. i \in DOMAIN P /\ n + 1 \in DOMAIN P /\ i # n + 1
        BY <1>1, <2>1
      <3> QED BY <1>1, <3>1
    <2>7. /\ PendingWithEvidence(rs).ok /\ PendingWithEvidence(rs).terminal = {}
          /\ PendingWithEvidence(rs).pending = SubSeq(P, 1, n)
      BY <2>2
    <2>8. /\ r1 \in Records /\ r2 \in Records /\ qs \in Seq(Records)
          /\ PendingWithEvidence(qs).ok /\ PendingWithEvidence(qs).terminal = {}
          /\ PendingWithEvidence(qs).pending = Append(SubSeq(P, 1, n), e)
      <3> HIDE DEF rs, e
      <3> QED BY <2>2, <2>3, <2>6, <2>7, CompactedEntryFolds
    <2>9. RecordsIn(f[n + 1]) = qs /\ Parse(f[n + 1])
      <3>1. f[n + 1] = f[n] \o CompactedEntry(e)
        BY <1>4, <2>1
      <3>2. CompactedEntry(e) = IF e.observed THEN <<Line(r1)>> \o <<Line(r2)>> ELSE <<Line(r1)>>
        <4> HIDE DEF e
        <4> QED BY <1>2, <2>2
      <3>3. Line(r1) \in Lines /\ Line(r2) \in Lines
        <4> HIDE DEF r1, r2
        <4> QED BY <2>8 DEF Line, Lines
      <3> HIDE DEF e, r1, r2
      <3>4. f[n] \o <<Line(r1)>> = Append(f[n], Line(r1))
        BY <2>2, <3>3, AppendIsConcat
      <3>5. /\ Append(f[n], Line(r1)) \in Seq(Lines) /\ Parse(Append(f[n], Line(r1)))
            /\ RecordsIn(Append(f[n], Line(r1))) = Append(rs, r1)
        BY <2>2, <2>8, AppendLine
      <3>6. f[n] \o (<<Line(r1)>> \o <<Line(r2)>>) = Append(Append(f[n], Line(r1)), Line(r2))
        <4>1. <<Line(r1)>> \in Seq(Lines) /\ <<Line(r2)>> \in Seq(Lines)
          BY <3>3
        <4>2. (f[n] \o <<Line(r1)>>) \o <<Line(r2)>> = f[n] \o (<<Line(r1)>> \o <<Line(r2)>>)
          BY <2>2, <4>1, ConcatAssociative
        <4> QED BY <3>3, <3>4, <3>5, <4>2, AppendIsConcat
      <3>7. /\ Parse(Append(Append(f[n], Line(r1)), Line(r2)))
            /\ RecordsIn(Append(Append(f[n], Line(r1)), Line(r2))) = Append(Append(rs, r1), r2)
        BY <2>8, <3>5, AppendLine
      <3>8. CASE e.observed
        BY <3>1, <3>2, <3>6, <3>7, <3>8
      <3>9. CASE ~e.observed
        BY <3>1, <3>2, <3>4, <3>5, <3>9
      <3> QED BY <3>8, <3>9
    <2>10. SubSeq(P, 1, n + 1) = Append(SubSeq(P, 1, n), e)
      <3> DEFINE s == SubSeq(P, 1, n + 1)
                 t == Append(SubSeq(P, 1, n), e)
      <3>1. s \in Seq(PendingEntries) /\ Len(s) = n + 1 /\ \A i \in 1 .. (n + 1) : s[i] = P[i]
        <4>1. n + 1 \in 0 .. Len(P)
          BY <2>1
        <4> HIDE DEF N
        <4> QED BY <1>1, <4>1, FrontOfSeq
      <3>2. /\ t \in Seq(PendingEntries) /\ Len(t) = n + 1 /\ t[n + 1] = e
            /\ \A i \in 1 .. n : t[i] = SubSeq(P, 1, n)[i]
        <4> HIDE DEF e
        <4> QED BY <2>2, <2>4, AppendProperties
      <3> HIDE DEF s, t
      <3>3. \A i \in 1 .. (n + 1) : s[i] = t[i]
        BY <2>1, <2>4, <3>1, <3>2
      <3>4. s = t
        BY <3>1, <3>2, <3>3, SeqEqual
      <3> QED BY <3>4 DEF s, t
    <2>11. Good(n + 1)
      <3> HIDE DEF qs, e
      <3> QED BY <2>8, <2>9, <2>10
    <2> HIDE DEF Good
    <2> QED BY <2>1, <2>11
  <1>7. N \in S
    <2> HIDE DEF S
    <2>1. \A n \in 0 .. (N - 1) : n \in S => n + 1 \in S
      BY <1>6
    <2>2. 0 .. N \subseteq S
      <3> HIDE DEF N
      <3> QED BY <1>1, <1>5, <2>1, Induction
    <2> QED BY <1>1, <2>2
  <1>8. SubSeq(P, 1, N) = P
    BY <1>1
  <1>9. Compacted(P) = f[N] /\ f[N] \in Seq(Lines)
    BY <1>1, <1>4 DEF Compacted, seqs
  <1>10. /\ Parse(f[N]) /\ PWE(f[N]).ok /\ PWE(f[N]).terminal = {} /\ PWE(f[N]).pending = P
    BY <1>7, <1>8
  <1> QED BY <1>9, <1>10 DEF P

-----------------------------------------------------------------------------
(* append, as a start uses it                                              *)

\* The entries of lines, and whether their records fold.
Pends(ls) == PendingWithEvidence(RecordsIn(ls)).pending

Ok(ls) == PendingWithEvidence(RecordsIn(ls)).ok

\* The fold of lines that parse.
LEMMA FoldOfLines ==
    ASSUME NEW ls \in Seq(Lines), Parse(ls)
    PROVE  /\ PendingWithEvidence(RecordsIn(ls)) \in Folds
           /\ Pends(ls) \in Seq(PendingEntries)
           /\ \A i, j \in DOMAIN Pends(ls) : Pends(ls)[i].id = Pends(ls)[j].id => i = j
           /\ Ok(ls) => Matches(RecordsIn(ls), PendingWithEvidence(RecordsIn(ls)))
  <1>1. RecordsIn(ls) \in Seq(Records)
    BY ParsedLines
  <1>2. PendingWithEvidence(RecordsIn(ls)) \in Folds
    BY <1>1, FoldType
  <1> QED BY <1>1, <1>2, FoldIsReference DEF Folds, Accumulators, Pends, Ok

\* One more whole line is one more step of the fold.
LEMMA FoldOfAppended ==
    ASSUME NEW ls \in Seq(Lines), Parse(ls), NEW r \in Records
    PROVE  /\ Append(ls, Line(r)) \in Seq(Lines) /\ Parse(Append(ls, Line(r)))
           /\ RecordsIn(Append(ls, Line(r))) = Append(RecordsIn(ls), r)
           /\ PendingWithEvidence(RecordsIn(Append(ls, Line(r))))
                = FoldRecord(PendingWithEvidence(RecordsIn(ls)), r)
           /\ Step(PendingWithEvidence(RecordsIn(ls)), r,
                   PendingWithEvidence(RecordsIn(Append(ls, Line(r)))))
  <1>1. RecordsIn(ls) \in Seq(Records)
    BY ParsedLines
  <1>2. /\ Append(ls, Line(r)) \in Seq(Lines) /\ Parse(Append(ls, Line(r)))
        /\ RecordsIn(Append(ls, Line(r))) = Append(RecordsIn(ls), r)
    BY AppendLine
  <1>3. /\ PendingWithEvidence(Append(RecordsIn(ls), r)) = FoldRecord(PendingWithEvidence(RecordsIn(ls)), r)
        /\ PendingWithEvidence(RecordsIn(ls)) \in Folds
    BY <1>1, FoldAppend, FoldType
  <1>4. Step(PendingWithEvidence(RecordsIn(ls)), r, FoldRecord(PendingWithEvidence(RecordsIn(ls)), r))
    BY <1>3, FoldRecordStep
  <1> QED BY <1>2, <1>3, <1>4

\* The outcome of an entry that has none.
LEMMA OutcomeLine ==
    ASSUME NEW ls \in Seq(Lines), Parse(ls), Ok(ls), NEW d \in DOMAIN Pends(ls), ~Pends(ls)[d].observed
    PROVE  LET e == Pends(ls)[d]
               ms == Append(ls, Line(Outcome(e)))
           IN  /\ Outcome(e) \in Records
               /\ ms \in Seq(Lines) /\ Parse(ms) /\ Ok(ms)
               /\ Pends(ms) = [Pends(ls) EXCEPT ![d] = [id |-> e.id, observed |-> TRUE, state |-> e.state]]
  <1> DEFINE e == Pends(ls)[d]
             r == Outcome(e)
  <1>1. e \in PendingEntries
    BY FoldOfLines
  <1>2. e.id \in Ids /\ e.state \in States
    BY <1>1 DEF PendingEntries
  <1>3. r \in Records /\ r.phase = "observed" /\ r.id = e.id /\ r.state = e.state
    <2> HIDE DEF e
    <2> QED BY <1>2, RecordIsRecord DEF Outcome
  <1> HIDE DEF r
  <1>4. /\ Append(ls, Line(r)) \in Seq(Lines) /\ Parse(Append(ls, Line(r)))
        /\ Step(PendingWithEvidence(RecordsIn(ls)), r,
                PendingWithEvidence(RecordsIn(Append(ls, Line(r)))))
    BY <1>3, FoldOfAppended
  <1>5. ObservedTo(PendingWithEvidence(RecordsIn(ls)), r,
                   PendingWithEvidence(RecordsIn(Append(ls, Line(r)))))
    BY <1>3, <1>4 DEF Step, Ok
  <1>6. Ok(Append(ls, Line(r)))
    BY <1>3, <1>5 DEF ObservedTo, Ok, Pends
  <1>7. Pends(Append(ls, Line(r)))
          = [Pends(ls) EXCEPT ![d] = [id |-> r.id, observed |-> TRUE, state |-> r.state]]
    BY <1>3, <1>5, <1>6 DEF ObservedTo, Ok, Pends
  <1> QED BY <1>3, <1>4, <1>6, <1>7 DEF r

\* The commit of the first entry.
LEMMA TerminalLine ==
    ASSUME NEW ls \in Seq(Lines), Parse(ls), Ok(ls), Pends(ls) # <<>>, Pends(ls)[1].observed
    PROVE  LET e == Pends(ls)[1]
               ms == Append(ls, Line(Terminal(e)))
           IN  /\ Terminal(e) \in Records
               /\ ms \in Seq(Lines) /\ Parse(ms) /\ Ok(ms)
               /\ Pends(ms) = Tail(Pends(ls))
  <1> DEFINE e == Pends(ls)[1]
             r == Terminal(e)
             P == Pends(ls)
  <1>1. P \in Seq(PendingEntries) /\ 1 \in 1 .. Len(P) /\ DOMAIN P = 1 .. Len(P) /\ Len(P) \in Nat \ {0}
    BY FoldOfLines, EmptySeq
  <1>2. e \in PendingEntries
    BY <1>1
  <1>3. e.id \in Ids /\ NoState \in States
    BY <1>2, FileAssumption DEF PendingEntries
  <1>4. r \in Records /\ r.phase = "committed" /\ r.id = e.id
    <2> HIDE DEF e
    <2> QED BY <1>3, RecordIsRecord DEF Terminal
  <1> HIDE DEF r
  <1>5. /\ Append(ls, Line(r)) \in Seq(Lines) /\ Parse(Append(ls, Line(r)))
        /\ Step(PendingWithEvidence(RecordsIn(ls)), r,
                PendingWithEvidence(RecordsIn(Append(ls, Line(r)))))
    BY <1>4, FoldOfAppended
  <1>6. CommittedTo(PendingWithEvidence(RecordsIn(ls)), r,
                    PendingWithEvidence(RecordsIn(Append(ls, Line(r)))))
    BY <1>4, <1>5 DEF Step, Ok
  <1>7. Ok(Append(ls, Line(r)))
    BY <1>1, <1>4, <1>6 DEF CommittedTo, Ok, Pends
  <1>8. Pends(Append(ls, Line(r))) = RemoveAt(P, 1)
    BY <1>1, <1>4, <1>6, <1>7 DEF CommittedTo, Ok, Pends
  <1>9. RemoveAt(P, 1) = Tail(P)
    <2> HIDE DEF P
    <2>1. /\ RemoveAt(P, 1) \in Seq(PendingEntries) /\ Len(RemoveAt(P, 1)) = Len(P) - 1
          /\ \A k \in 1 .. (Len(P) - 1) : RemoveAt(P, 1)[k] = IF k < 1 THEN P[k] ELSE P[k + 1]
      BY <1>1, RemoveAtProperties
    <2>2. \A k \in 1 .. (Len(P) - 1) : RemoveAt(P, 1)[k] = P[k + 1]
      BY <1>1, <2>1
    <2>3. /\ Tail(P) \in Seq(PendingEntries) /\ Len(Tail(P)) = Len(P) - 1
          /\ \A k \in 1 .. (Len(P) - 1) : Tail(P)[k] = P[k + 1]
      BY <1>1
    <2> QED BY <2>1, <2>2, <2>3, SeqEqual
  <1> QED BY <1>4, <1>5, <1>7, <1>8, <1>9 DEF r

\* What was prepared by then stays so.
LEMMA UpToKept ==
    ASSUME NEW ls \in Seq(Lines), NEW l, NEW x
    PROVE  UpToIn(ls, x) \subseteq UpToIn(Append(ls, l), x)
  <1> DEFINE ms == Append(ls, l)
  <1>1. /\ DOMAIN ls \subseteq DOMAIN ms /\ DOMAIN ls = 1 .. Len(ls) /\ Len(ls) \in Nat
        /\ \A i \in DOMAIN ls : ms[i] = ls[i]
    OBVIOUS
  <1> HIDE DEF ms
  <1>2. \A i \in DOMAIN ls : \A j \in 1 .. (i - 1) : ms[j] = ls[j]
    BY <1>1
  <1>3. UpToIn(ls, x) \subseteq UpToIn(ms, x)
    BY <1>1, <1>2 DEF UpToIn
  <1> QED BY <1>3 DEF ms

\* An entry was prepared no later than those behind it.
LEMMA EarlierEntries ==
    ASSUME NEW ls \in Seq(Lines), Parse(ls), Ok(ls), NEW k \in DOMAIN Pends(ls),
           NEW l \in DOMAIN Pends(ls), k <= l
    PROVE  Pends(ls)[k].id \in UpToIn(ls, Pends(ls)[l].id)
  <1> DEFINE rs == RecordsIn(ls)
             x == Pends(ls)[k].id
             y == Pends(ls)[l].id
             T == {i \in DOMAIN rs : rs[i].id = x /\ rs[i].phase = "prepared"}
  <1>1. /\ rs \in Seq(Records) /\ DOMAIN rs = DOMAIN ls /\ Len(rs) = Len(ls)
        /\ \A i \in DOMAIN ls : ls[i].rec = {rs[i]}
    BY ParsedLines
  <1>2. Matches(rs, PendingWithEvidence(rs)) /\ x \in Ids
    <2>1. Pends(ls)[k] \in PendingEntries
      BY FoldOfLines
    <2> QED BY <2>1, FoldOfLines DEF PendingEntries
  <1>3. "prepared" \in Seen(rs, x)
    BY <1>2 DEF Matches, EntryMatches, Pends
  <1>4. k < l => PreparedFirst(rs, x, y)
    BY <1>2 DEF Matches, Pends
  <1>5. k \in Nat /\ l \in Nat /\ (k = l \/ k < l)
    BY FoldOfLines
  <1>6. k = l => x = y
    OBVIOUS
  <1> HIDE DEF x, y, rs
  <1>7. T # {} /\ T \subseteq Nat
    BY <1>1, <1>3 DEF Seen
  <1>8. PICK i \in T : \A m \in T : i <= m
    <2> HIDE DEF T
    <2> QED BY <1>7, LeastNumber
  <1>9. ASSUME NEW j \in 1 .. (i - 1), NEW q \in ls[j].rec, q.phase = "prepared" PROVE q.id # y
    <2>1. j \in DOMAIN rs /\ q = rs[j] /\ i \in DOMAIN rs /\ ~(i <= j) /\ ~(i < j)
      BY <1>1, <1>8
    <2>2. CASE k < l
      BY <2>1, <2>2, <1>4, <1>8, <1>9 DEF PreparedFirst
    <2>3. CASE k = l
      BY <2>1, <2>3, <1>6, <1>8, <1>9
    <2> QED BY <2>2, <2>3, <1>5
  <1>10. i \in DOMAIN ls /\ rs[i] \in ls[i].rec /\ rs[i].phase = "prepared" /\ rs[i].id = x
    BY <1>1, <1>8
  <1>11. x \in UpToIn(ls, y)
    BY <1>2, <1>9, <1>10 DEF UpToIn
  <1> QED BY <1>11 DEF x, y

-----------------------------------------------------------------------------
(* What a start makes of the loaded state                                  *)

\* apply_recovered_candidate_states, entry by entry.
ApplySteps(a) ==
    /\ a[0] = [ok |-> TRUE, holds |-> mem]
    /\ \A n \in 1 .. Len(Entries) : a[n] = ApplyEntry(a[n - 1], Entries[n])
    /\ Applied = a[Len(Entries)]

Results == [ok : BOOLEAN, holds : Contents]

\* Each entry leaves a state, or an error.
LEMMA ApplyEntryType ==
    ASSUME NEW acc \in Results, NEW e \in PendingEntries
    PROVE  ApplyEntry(acc, e) \in Results
  <1>1. Adopted(e) \in Contents
    BY DEF Adopted, Contents, UpTo
  <1>2. Changed(acc.holds, e) \in Contents
    BY DEF Changed, Contents, Results, PendingEntries
  <1> QED BY <1>1, <1>2 DEF ApplyEntry, Results

\* The recursive function of Applied exists.
LEMMA AppliedBySteps ==
    ASSUME Entries \in Seq(PendingEntries), mem \in Contents
    PROVE  \E a : ApplySteps(a)
  <1> DEFINE P == Entries
             N == Len(P)
             start == [ok |-> TRUE, holds |-> mem]
             step == [n \in 1 .. N |-> [acc \in Results |-> ApplyEntry(acc, P[n])]]
             Body(g) == [n \in 0 .. N |-> IF n = 0 THEN [ok |-> TRUE, holds |-> mem]
                                          ELSE ApplyEntry(g[n - 1], Entries[n])]
             after == CHOOSE g : g = Body(g)
  <1>1. N \in Nat /\ \A n \in 1 .. N : P[n] \in PendingEntries
    OBVIOUS
  <1>2. step \in [1 .. N -> [Results -> Results]] /\ start \in Results
    BY <1>1, ApplyEntryType DEF Results
  <1>3. HasIteration(N, Results, start, step)
    <2> HIDE DEF step, N, start
    <2> QED BY <1>1, <1>2, Iteration
  <1>4. PICK f \in [0 .. N -> Results] :
            f[0] = start /\ \A n \in 1 .. N : f[n] = step[n][f[n - 1]]
    <2> HIDE DEF step, N, start
    <2> QED BY <1>3 DEF HasIteration
  <1>5. ASSUME NEW n \in 1 .. N PROVE f[n] = ApplyEntry(f[n - 1], P[n])
    <2>1. n - 1 \in 0 .. N
      BY <1>1
    <2>2. f[n - 1] \in Results
      BY <2>1
    <2> QED BY <1>4, <2>2
  <1>6. f = Body(f)
    <2>1. ASSUME NEW n \in 0 .. N PROVE f[n] = Body(f)[n]
      <3>1. CASE n = 0
        BY <3>1, <1>4
      <3>2. CASE n # 0
        <4>1. n \in 1 .. N
          BY <1>1, <3>2
        <4> QED BY <3>2, <4>1, <1>5
      <3> QED BY <3>1, <3>2
    <2>2. f = [n \in 0 .. N |-> f[n]] /\ Body(f) = [n \in 0 .. N |-> Body(f)[n]]
      OBVIOUS
    <2> HIDE DEF Body
    <2> QED BY <2>1, <2>2
  <1>7. after = Body(after)
    <2> HIDE DEF Body
    <2> QED BY <1>6, Zenon
  <1>8. Applied = after[N]
    BY Zenon DEF Applied
  <1> HIDE DEF after
  <1>9. after[0] = start
    BY <1>1, <1>7
  <1>10. ASSUME NEW n \in 1 .. N PROVE after[n] = ApplyEntry(after[n - 1], Entries[n])
    <2>1. n \in 0 .. N /\ n # 0
      BY <1>1
    <2> QED BY <1>7, <2>1
  <1> QED BY <1>8, <1>9, <1>10 DEF ApplySteps

\* The saved state reflects all that is pending, and what the loaded one reflects
\* unless a candidate that replaces it was prepared without it.
LEMMA AppliedReflects ==
    ASSUME FileTypeOK, AllParse, PendingWithEvidence(TheRecords).ok, mem \in Contents
    PROVE  /\ Applied.holds \in Contents
           /\ \A k \in DOMAIN Entries : Entries[k].id \in Applied.holds.reflects
           /\ \A x \in mem.reflects : (\A k \in DOMAIN Entries : x \in UpTo(Entries[k].id))
                                        => x \in Applied.holds.reflects
  <1> DEFINE P == Entries
             N == Len(P)
  <1>1. /\ lines \in Seq(Lines) /\ Parse(lines) /\ Ok(lines) /\ Entries = Pends(lines)
        /\ \A x : UpTo(x) = UpToIn(lines, x)
    BY RecordsOfLines DEF FileTypeOK, Entries, Pends, Ok, UpTo, UpToIn
  <1>2. P \in Seq(PendingEntries) /\ N \in Nat /\ DOMAIN P = 1 .. N
        /\ \A n \in 1 .. N : P[n] \in PendingEntries
    BY <1>1, FoldOfLines
  <1>3. \A k, l \in 1 .. N : k <= l => P[k].id \in UpTo(P[l].id)
    BY <1>1, <1>2, EarlierEntries
  <1>4. PICK a : ApplySteps(a)
    BY <1>2, AppliedBySteps
  <1> DEFINE Kept == {x \in mem.reflects : \A k \in DOMAIN P : x \in UpTo(P[k].id)}
             Good(n) == /\ a[n] \in Results
                        /\ {P[k].id : k \in 1 .. n} \subseteq a[n].holds.reflects
                        /\ Kept \subseteq a[n].holds.reflects
             S == {n \in 0 .. N : Good(n)}
  <1>5. 0 \in S
    <2>1. a[0] = [ok |-> TRUE, holds |-> mem]
      BY <1>4 DEF ApplySteps
    <2>2. a[0] \in Results /\ a[0].holds = mem
      BY <2>1 DEF Results
    <2>3. {P[k].id : k \in 1 .. 0} = {}
      OBVIOUS
    <2> QED BY <1>2, <2>2, <2>3
  <1>6. ASSUME NEW n \in 0 .. (N - 1), n \in S PROVE n + 1 \in S
    <2> DEFINE e == P[n + 1]
    <2>1. n + 1 \in 1 .. N /\ (n + 1) - 1 = n /\ n + 1 \in 0 .. N
      BY <1>2
    <2>2. a[n + 1] = ApplyEntry(a[n], e) /\ e \in PendingEntries /\ a[n] \in Results
      BY <1>2, <1>4, <1>6, <2>1 DEF ApplySteps
    <2>3. a[n + 1] \in Results
      BY <2>2, ApplyEntryType
    <2>4. {P[k].id : k \in 1 .. (n + 1)} = {P[k].id : k \in 1 .. n} \cup {e.id}
      BY <2>1
    <2>5. {P[k].id : k \in 1 .. (n + 1)} \subseteq UpTo(e.id)
      BY <1>3, <2>1
    <2>6. Kept \subseteq UpTo(e.id)
      BY <1>2, <2>1
    <2>7. {P[k].id : k \in 1 .. n} \subseteq a[n].holds.reflects /\ Kept \subseteq a[n].holds.reflects
      BY <1>6
    <2> HIDE DEF e, Kept
    <2>8. CASE e.state = Bare
      <3>1. a[n + 1].holds.reflects = a[n].holds.reflects \cup {e.id}
        BY <2>2, <2>8 DEF ApplyEntry, Changed, Results, Contents
      <3>2. Good(n + 1)
        BY <2>3, <2>4, <2>7, <3>1
      <3> QED BY <2>1, <3>2
    <2>9. CASE e.state # Bare
      <3>1. a[n + 1].holds.reflects = UpTo(e.id)
        BY <2>2, <2>9 DEF ApplyEntry, Adopted
      <3>2. Good(n + 1)
        BY <2>3, <2>5, <2>6, <3>1
      <3> QED BY <2>1, <3>2
    <2> QED BY <2>8, <2>9
  <1>7. N \in S
    <2> HIDE DEF S
    <2>1. \A n \in 0 .. (N - 1) : n \in S => n + 1 \in S
      BY <1>6
    <2>2. 0 .. N \subseteq S
      <3> HIDE DEF N
      <3> QED BY <1>2, <1>5, <2>1, Induction
    <2> QED BY <1>2, <2>2
  <1>8. Applied = a[N]
    BY <1>4 DEF ApplySteps
  <1>9. a[N] \in Results /\ {P[k].id : k \in 1 .. N} \subseteq a[N].holds.reflects
        /\ Kept \subseteq a[N].holds.reflects
    BY <1>7
  <1> HIDE DEF N
  <1> QED BY <1>2, <1>8, <1>9 DEF Results

-----------------------------------------------------------------------------
(* Steps of the file                                                       *)

\* A step of the file, whoever takes it.
FileStep ==
    \/ AllParse /\ PendingWithEvidence(TheRecords).ok
       /\ \E r \in Records : Write(r) \/ WriteTorn(r)
    \/ Recover \/ RecoverRefused \/ RecoverPreservationFailed \/ CompactFile
    \/ UNCHANGED file

\* The specification of the file takes such steps.
LEMMA FileNextIsStep == [FileNext]_file => FileStep
  <1> SUFFICES ASSUME [FileNext]_file PROVE FileStep
    OBVIOUS
  <1>1. ASSUME NEW p \in {"prepared", "observed", "committed"}, NEW x \in Ids, NEW s \in States
        PROVE  Record(p, x, s) \in Records
    BY RecordIsRecord
  <1> QED BY <1>1 DEF FileNext, FileStep

\* The file keeps its type.
LEMMA FileTypeKept ==
    ASSUME FileTypeOK, FileStep
    PROVE  FileTypeOK'
  <1>1. ASSUME NEW r \in Records, Write(r) PROVE FileTypeOK'
    <2>1. lines' \in Seq(Lines)
      <3>1. CASE tail = "terminated"
        BY <1>1, <3>1, AppendLine DEF Write, FileTypeOK
      <3>2. CASE tail # "terminated"
        BY <1>1, <3>2, MangledLines DEF Write
      <3> QED BY <3>1, <3>2
    <2> QED BY <1>1, <2>1 DEF FileTypeOK, Write
  <1>2. ASSUME NEW r \in Records, WriteTorn(r) PROVE FileTypeOK'
    <2>1. /\ Append(lines, Line(r)) \in Seq(Lines) /\ Append(lines, Line(r)) # <<>>
      <3>1. Line(r) \in Lines
        BY DEF Line, Lines
      <3> QED BY <3>1, AppendProperties DEF FileTypeOK
    <2>2. lines' \in Seq(Lines)
      BY <1>2, <2>1 DEF WriteTorn, FileTypeOK
    <2>3. tail' = "unterminated" => lines' # <<>>
      BY <1>2, <2>1 DEF WriteTorn, FileTypeOK
    <2> QED BY <1>2, <2>2, <2>3 DEF FileTypeOK, WriteTorn
  <1>3. CASE Recover \/ RecoverRefused
    BY <1>3 DEF FileTypeOK, Recover, RecoverRefused
  <1>4. CASE RecoverPreservationFailed
    BY <1>4 DEF FileTypeOK, RecoverPreservationFailed
  <1>5. CASE CompactFile
    <2>1. AllParse
      BY <1>5 DEF CompactFile, Classify
    <2>2. PendingWithEvidence(TheRecords) \in Folds
      BY <2>1, RecordsOfLines, FoldOfLines DEF FileTypeOK
    <2>3. lines' = Compacted(PendingWithEvidence(TheRecords).pending)
      BY <1>5 DEF CompactFile, CompactLines, Compacted
    <2>4. lines' \in Seq(Lines)
      BY <2>2, <2>3, CompactionFolds
    <2> QED BY <1>5, <2>4 DEF FileTypeOK, CompactFile
  <1>6. CASE UNCHANGED file
    BY <1>6 DEF FileTypeOK, file
  <1> QED BY <1>1, <1>2, <1>3, <1>4, <1>5, <1>6 DEF FileStep

\* What the gate leaves.
LEMMA RecoverLeaves ==
    ASSUME FileTypeOK, Recover
    PROVE  AllParse' /\ PendingWithEvidence(TheRecords).ok' /\ tail' = "terminated" /\ ~marker'
  <1>1. AllParse /\ PendingWithEvidence(TheRecords).ok
    BY DEF Recover, Classify, FileTypeOK
  <1> QED BY <1>1 DEF Recover, AllParse, TheRecords

\* A start writes only what the file lets anyone write.
LEMMA StartupFileStep ==
    ASSUME RecoveryInv, [StartupNext]_startVars
    PROVE  [FileNext]_file
  <1>1. \A e \in PendingEntries :
           /\ e.id \in Ids /\ e.state \in States /\ NoState \in States
    BY FileAssumption DEF PendingEntries
  <1>2. CASE Earlier
    BY <1>2 DEF Earlier
  <1>3. CASE Admit \/ Blocked
    BY <1>3 DEF Admit, Blocked, FileNext
  <1>4. CASE Observe \/ ObserveFails
    <2>1. /\ AllParse /\ PendingWithEvidence(TheRecords).ok /\ todo # <<>> /\ todo \in Seq(PendingEntries)
      BY <1>4 DEF Observe, ObserveFails, RecoveryInv, Gated, Replaying
    <2>2. Head(todo) \in PendingEntries
      BY <2>1
    <2>3. \/ Write(Record("observed", Head(todo).id, Head(todo).state))
          \/ WriteTorn(Record("observed", Head(todo).id, Head(todo).state))
          \/ UNCHANGED file
      BY <1>4 DEF Observe, ObserveFails, Outcome
    <2> QED BY <1>1, <2>1, <2>2, <2>3 DEF FileNext
  <1>5. CASE Commit \/ CommitFails
    <2>1. /\ AllParse /\ PendingWithEvidence(TheRecords).ok /\ todo # <<>> /\ todo = Entries
      BY <1>5 DEF Commit, CommitFails, RecoveryInv, Gated, Committing
    <2>2. Entries \in Seq(PendingEntries)
      BY <2>1, RecordsOfLines, FoldOfLines DEF RecoveryInv, FileTypeOK, Entries, Pends
    <2>3. Head(todo) \in PendingEntries
      BY <2>1, <2>2
    <2>4. \/ Write(Record("committed", Head(todo).id, NoState))
          \/ WriteTorn(Record("committed", Head(todo).id, NoState))
          \/ UNCHANGED file
      BY <1>5 DEF Commit, CommitFails, Terminal
    <2> QED BY <1>1, <2>1, <2>3, <2>4 DEF FileNext
  <1>6. CASE CompactJournal \/ CompactFails
    BY <1>6 DEF CompactJournal, CompactFails, FileNext
  <1>7. CASE \/ EarlierEnd \/ LoadKey \/ LoadKeyFails \/ LoadState \/ LoadStateFails
             \/ Replay \/ ReplayFails \/ NothingPending \/ Inapplicable \/ Save \/ SaveFails
             \/ Crash \/ RemoveState \/ RemoveKey \/ UNCHANGED startVars
    BY <1>7 DEF EarlierEnd, LoadKey, LoadKeyFails, LoadState, LoadStateFails,
       Replay, ReplayFails, NothingPending, Inapplicable, Save, SaveFails,
       Crash, RemoveState, RemoveKey, startVars
  <1> QED BY <1>2, <1>3, <1>4, <1>5, <1>6, <1>7 DEF StartupNext

-----------------------------------------------------------------------------
(* The start's own state                                                   *)

\* A start keeps the types of its own variables.
LEMMA StartTypeKept ==
    ASSUME RecoveryInv, [StartupNext]_startVars
    PROVE  StartTypeOK'
  <1>1. Default \in Contents /\ NoStateFile \in [by : Keys \cup {NoKey}, holds : Contents]
    BY DEF Default, Contents, NoStateFile
  <1>2. StartTypeOK
    BY DEF RecoveryInv
  <1>3. CASE EarlierEnd
    <2>1. state' \in [by : Keys \cup {NoKey}, holds : Contents]
      <3>1. CASE state' = NoStateFile
        BY <1>1, <3>1
      <3>2. CASE state' \in [by : {key'}, holds : [reflects : {{}}, knows : SUBSET Ids]]
        BY <1>3, <3>2 DEF EarlierEnd, Contents
      <3> QED BY <1>3, <3>1, <3>2 DEF EarlierEnd
    <2> QED BY <1>2, <1>3, <2>1 DEF EarlierEnd, StartTypeOK, Goto, memory
  <1>4. CASE Earlier \/ Admit \/ Blocked
    BY <1>2, <1>4 DEF Earlier, Admit, Blocked, StartTypeOK, Goto, memory
  <1>5. CASE LoadKey \/ LoadKeyFails
    BY <1>1, <1>2, <1>5 DEF LoadKey, LoadKeyFails, FreshKeys, StartTypeOK, Goto, Ends
  <1>6. CASE LoadState
    BY <1>2, <1>6 DEF LoadState, StartTypeOK, Goto
  <1>7. CASE LoadStateFails \/ ObserveFails \/ Inapplicable \/ CommitFails \/ CompactFails \/ Crash
    BY <1>1, <1>2, <1>7 DEF LoadStateFails, ObserveFails, Inapplicable, CommitFails, CompactFails,
       Crash, StartTypeOK, Goto, Ends
  <1>8. CASE Replay \/ ReplayFails
    <2>1. /\ AllParse /\ todo # <<>> /\ todo \in Seq(PendingEntries)
      BY <1>8 DEF Replay, ReplayFails, RecoveryInv, Gated, Replaying
    <2>2. Head(todo) \in PendingEntries
      BY <2>1
    <2>3. Head(todo).id \in Ids
      BY <2>2 DEF PendingEntries
    <2>4. recovered' \subseteq Ids
      BY <1>2, <1>8, <2>3 DEF Replay, ReplayFails, StartTypeOK
    <2> QED BY <1>1, <1>2, <1>8, <2>4 DEF Replay, ReplayFails, StartTypeOK, Goto, Ends
  <1>9. CASE Observe \/ Commit
    BY <1>2, <1>9 DEF Observe, Commit, StartTypeOK, Goto
  <1>10. CASE NothingPending \/ CompactJournal \/ RemoveKey
    BY <1>2, <1>10 DEF NothingPending, CompactJournal, RemoveKey, StartTypeOK, Goto, memory
  <1>11. CASE Save \/ SaveFails
    <2>1. Applied.holds \in Contents
      BY <1>2, <1>11, AppliedReflects DEF Save, SaveFails, ReadyToSave, RecoveryInv, Gated, StartTypeOK
    <2>2. state' \in [by : Keys \cup {NoKey}, holds : Contents]
      BY <1>2, <1>11, <2>1 DEF Save, SaveFails, StartTypeOK
    <2> QED BY <1>1, <1>2, <1>11, <2>1, <2>2 DEF Save, SaveFails, StartTypeOK, Goto, Ends
  <1>12. CASE RemoveState
    BY <1>1, <1>2, <1>12 DEF RemoveState, StartTypeOK, memory
  <1>13. CASE UNCHANGED startVars
    BY <1>2, <1>13 DEF startVars, memory, StartTypeOK
  <1> QED BY <1>3, <1>4, <1>5, <1>6, <1>7, <1>8, <1>9, <1>10, <1>11, <1>12, <1>13 DEF StartupNext

-----------------------------------------------------------------------------
(* What a start has recovered is kept                                      *)

\* A start keeps what it has established when it leaves the lines alone.
LEMMA KeptOnSameLines ==
    ASSUME RecoveryInv, UNCHANGED lines,
           \A x \in recovered' :
              \/ \E i \in DOMAIN Entries : Entries[i].id = x
              \/ x \in recovered /\ (x \in state.holds.reflects => x \in state'.holds.reflects)
    PROVE  InOrder' /\ RecoveredIsKept'
  <1>1. /\ AllParse' <=> AllParse
        /\ Entries' = Entries
        /\ \A x : UpToIn(lines, x)' = UpToIn(lines, x)
    BY DEF AllParse, Entries, TheRecords, UpToIn
  <1>2. InOrder /\ RecoveredIsKept
    BY DEF RecoveryInv
  <1>3. InOrder'
    BY <1>1, <1>2 DEF InOrder
  <1>4. RecoveredIsKept'
    BY <1>1, <1>2 DEF RecoveredIsKept
  <1> QED BY <1>3, <1>4

\* The entries, seen as entries of the lines.
LEMMA OfLines ==
    /\ AllParse <=> Parse(lines)
    /\ PendingWithEvidence(TheRecords).ok <=> Ok(lines)
    /\ Entries = Pends(lines)
    /\ \A x : UpTo(x) = UpToIn(lines, x)
  BY RecordsOfLines DEF Ok, Pends, Entries, UpTo, UpToIn

\* A final outcome that is appended.
LEMMA KeptByOutcome ==
    ASSUME RecoveryInv, pc = "replayed", lines' = Append(lines, Line(Outcome(Head(todo)))),
           UNCHANGED <<state, recovered>>
    PROVE  /\ InOrder' /\ RecoveredIsKept'
           /\ AllParse' /\ PendingWithEvidence(TheRecords)'.ok
           /\ Tail(todo) \in Seq(PendingEntries) /\ Replayed(Tail(todo), Entries')
  <1> DEFINE P == Pends(lines)
             ms == Append(lines, Line(Outcome(Head(todo))))
             d == Len(P) - Len(todo) + 1
  <1>1. /\ lines \in Seq(Lines) /\ Parse(lines) /\ Ok(lines) /\ Entries = P
        /\ todo \in Seq(PendingEntries) /\ todo # <<>> /\ ~Head(todo).observed
        /\ Replayed(todo, P)
    BY OfLines DEF RecoveryInv, FileTypeOK, Gated, Replaying
  <1>2. /\ P \in Seq(PendingEntries) /\ DOMAIN P = 1 .. Len(P) /\ Len(P) \in Nat
        /\ \A i, j \in DOMAIN P : P[i].id = P[j].id => i = j
    BY <1>1, FoldOfLines
  <1>3. /\ Len(todo) \in Nat \ {0} /\ Head(todo) = todo[1] /\ Len(todo) <= Len(P)
        /\ d \in DOMAIN P /\ Head(todo) = P[d]
    <2>1. Len(todo) \in Nat \ {0} /\ Head(todo) = todo[1] /\ Len(todo) <= Len(P)
      BY <1>1, EmptySeq DEF Replayed
    <2>2. d \in DOMAIN P /\ 1 \in 1 .. Len(todo)
      BY <1>2, <2>1
    <2>3. todo[1] = P[Len(P) - Len(todo) + 1]
      BY <1>1, <2>2 DEF Replayed
    <2> QED BY <2>1, <2>2, <2>3
  <1> DEFINE e == P[d]
             q == [id |-> e.id, observed |-> TRUE, state |-> e.state]
  <1>4. /\ ms \in Seq(Lines) /\ Parse(ms) /\ Ok(ms)
        /\ Pends(ms) = [P EXCEPT ![d] = q]
    <2> HIDE DEF d
    <2> QED BY <1>1, <1>3, OutcomeLine
  <1>5. /\ DOMAIN Pends(ms) = DOMAIN P
        /\ \A k \in DOMAIN P : Pends(ms)[k].id = P[k].id
        /\ \A k \in DOMAIN P : k # d => Pends(ms)[k] = P[k]
        /\ Pends(ms)[d].observed
    <2>1. q.id = e.id /\ q.observed
      OBVIOUS
    <2> HIDE DEF q, d
    <2> QED BY <1>2, <1>3, <1>4, <2>1
  <1>6. /\ lines' = ms
        /\ AllParse' /\ PendingWithEvidence(TheRecords)'.ok /\ Entries' = Pends(ms)
    <2>1. lines' = ms
      OBVIOUS
    <2>2. TheRecords' = RecordsIn(ms)
      BY <2>1 DEF TheRecords, RecordsIn
    <2> HIDE DEF ms
    <2>3. AllParse'
      BY <1>4, <2>1 DEF AllParse, Parse
    <2>4. PendingWithEvidence(TheRecords)'.ok /\ Entries' = Pends(ms)
      BY <1>4, <2>2 DEF Entries, Pends, Ok
    <2> QED BY <2>1, <2>3, <2>4
  <1>7. \A x : UpToIn(lines, x) \subseteq UpToIn(ms, x)
    BY <1>1, UpToKept
  <1> HIDE DEF ms, d, e, q
  <1>8. InOrder'
    <2> SUFFICES ASSUME NEW x \in recovered, \A i \in DOMAIN Pends(ms) : Pends(ms)[i].id # x,
                        NEW k \in DOMAIN Pends(ms)
                 PROVE  x \in UpToIn(ms, Pends(ms)[k].id)
      BY <1>6 DEF InOrder
    <2>1. \A i \in DOMAIN P : P[i].id # x
      BY <1>5
    <2>2. x \in UpToIn(lines, P[k].id)
      BY <1>1, <1>5, <2>1, OfLines DEF RecoveryInv, InOrder
    <2>3. x \in UpToIn(lines, Pends(ms)[k].id)
      BY <1>5, <2>2
    <2> QED BY <1>7, <2>3
  <1>9. RecoveredIsKept'
    BY <1>1, <1>5, <1>6, OfLines DEF RecoveryInv, RecoveredIsKept
  <1>10. Tail(todo) \in Seq(PendingEntries) /\ Replayed(Tail(todo), Pends(ms))
    <2>1. /\ Tail(todo) \in Seq(PendingEntries) /\ Len(Tail(todo)) = Len(todo) - 1
          /\ \A k \in 1 .. (Len(todo) - 1) : Tail(todo)[k] = todo[k + 1]
      BY <1>1, <1>3, HeadTailProperties
    <2>2. Len(Pends(ms)) = Len(P)
      <3>1. Pends(ms) \in Seq(PendingEntries)
        BY <1>4, FoldOfLines
      <3>2. DOMAIN Pends(ms) = 1 .. Len(Pends(ms)) /\ Len(Pends(ms)) \in Nat
        BY <3>1
      <3> QED BY <1>2, <1>5, <3>2
    <2>3. ASSUME NEW k \in 1 .. (Len(todo) - 1)
          PROVE  Tail(todo)[k] = Pends(ms)[Len(P) - (Len(todo) - 1) + k]
      <3>1. k + 1 \in 1 .. Len(todo)
        BY <1>3
      <3>2. todo[k + 1] = P[Len(P) - Len(todo) + (k + 1)]
        BY <1>1, <3>1 DEF Replayed
      <3>3. /\ Len(P) - Len(todo) + (k + 1) = Len(P) - (Len(todo) - 1) + k
            /\ Len(P) - (Len(todo) - 1) + k \in DOMAIN P /\ Len(P) - (Len(todo) - 1) + k # d
        BY <1>2, <1>3 DEF d
      <3> QED BY <1>5, <2>1, <3>2, <3>3
    <2>4. ASSUME NEW k \in 1 .. (Len(P) - (Len(todo) - 1)) PROVE Pends(ms)[k].observed
      <3>1. CASE k = d
        BY <1>5, <3>1
      <3>2. CASE k # d
        <4>1. /\ Len(todo) \in Nat \ {0} /\ Len(P) \in Nat /\ Len(todo) <= Len(P)
              /\ k # Len(P) - Len(todo) + 1
          BY <1>2, <1>3, <3>2 DEF d
        <4>2. k \in 1 .. (Len(P) - Len(todo)) /\ k \in DOMAIN P
          <5> HIDE DEF P
          <5>1. k \in 1 .. (Len(P) - Len(todo)) /\ k \in 1 .. Len(P)
            BY <4>1
          <5> QED BY <5>1, <1>2
        <4> QED BY <1>1, <1>5, <3>2, <4>2 DEF Replayed
      <3> QED BY <3>1, <3>2
    <2>5. Len(todo) - 1 <= Len(P)
      BY <1>2, <1>3
    <2>6. Replayed(Tail(todo), Pends(ms))
      BY <2>1, <2>2, <2>3, <2>4, <2>5 DEF Replayed
    <2> QED BY <2>1, <2>6
  <1> QED BY <1>6, <1>8, <1>9, <1>10

\* A commit that is appended.
LEMMA KeptByTerminal ==
    ASSUME RecoveryInv, pc = "commit", todo # <<>>,
           lines' = Append(lines, Line(Terminal(Head(todo)))),
           UNCHANGED <<state, recovered>>
    PROVE  /\ InOrder' /\ RecoveredIsKept'
           /\ AllParse' /\ PendingWithEvidence(TheRecords)'.ok
           /\ Entries' = Tail(todo)
           /\ \A k \in DOMAIN Entries' :
                 Entries'[k].observed /\ Entries'[k].id \in state.holds.reflects
  <1> DEFINE P == Pends(lines)
             ms == Append(lines, Line(Terminal(P[1])))
  <1>1. /\ lines \in Seq(Lines) /\ Parse(lines) /\ Ok(lines) /\ Entries = P /\ todo = P
        /\ \A k \in DOMAIN P : P[k].observed /\ P[k].id \in state.holds.reflects
    BY OfLines DEF RecoveryInv, FileTypeOK, Gated, Committing
  <1>2. /\ P \in Seq(PendingEntries) /\ DOMAIN P = 1 .. Len(P) /\ Len(P) \in Nat \ {0}
        /\ 1 \in DOMAIN P /\ Head(P) = P[1] /\ P # <<>>
    <2>1. P \in Seq(PendingEntries) /\ P # <<>>
      BY <1>1, FoldOfLines
    <2> QED BY <2>1, EmptySeq
  <1>3. ms \in Seq(Lines) /\ Parse(ms) /\ Ok(ms) /\ Pends(ms) = Tail(P)
    BY <1>1, <1>2, TerminalLine
  <1>4. /\ Tail(P) \in Seq(PendingEntries) /\ DOMAIN Tail(P) = 1 .. (Len(P) - 1)
        /\ \A k \in 1 .. (Len(P) - 1) : Tail(P)[k] = P[k + 1] /\ k + 1 \in DOMAIN P
    BY <1>2, HeadTailProperties
  <1>5. lines' = ms
    BY <1>1, <1>2
  <1>6. /\ AllParse' /\ PendingWithEvidence(TheRecords)'.ok /\ Entries' = Pends(ms)
    <2>1. TheRecords' = RecordsIn(ms)
      BY <1>5 DEF TheRecords, RecordsIn
    <2> HIDE DEF ms
    <2>2. AllParse'
      BY <1>3, <1>5 DEF AllParse, Parse
    <2>3. PendingWithEvidence(TheRecords)'.ok /\ Entries' = Pends(ms)
      BY <1>3, <2>1 DEF Entries, Pends, Ok
    <2> QED BY <2>2, <2>3
  <1>7. \A x : UpToIn(lines, x) \subseteq UpToIn(ms, x)
    BY <1>1, UpToKept
  <1>8. Entries' = Tail(P)
    BY <1>3, <1>6
  <1> HIDE DEF ms
  <1>9. ASSUME NEW x \in recovered, \A i \in DOMAIN Tail(P) : Tail(P)[i].id # x
        PROVE  x \in state.holds.reflects /\ \A k \in DOMAIN Tail(P) : x \in UpToIn(lines, Tail(P)[k].id)
    <2>1. CASE x = P[1].id
      <3>1. x \in state.holds.reflects
        BY <1>1, <1>2, <2>1
      <3>2. ASSUME NEW k \in DOMAIN Tail(P) PROVE x \in UpToIn(lines, Tail(P)[k].id)
        <4>1. Tail(P)[k] = P[k + 1] /\ k + 1 \in DOMAIN P /\ 1 <= k + 1
          BY <1>4
        <4>2. P[1].id \in UpToIn(lines, P[k + 1].id)
          BY <1>1, <1>2, <4>1, EarlierEntries
        <4> QED BY <2>1, <4>1, <4>2, OfLines
      <3> QED BY <3>1, <3>2
    <2>2. CASE x # P[1].id
      <3>1. \A i \in DOMAIN P : P[i].id # x
        <4> SUFFICES ASSUME NEW i \in DOMAIN P, i # 1 PROVE P[i].id # x
          BY <2>2
        <4>1. i - 1 \in 1 .. (Len(P) - 1) /\ (i - 1) + 1 = i
          BY <1>2
        <4> QED BY <1>4, <1>9, <4>1
      <3>2. x \in state.holds.reflects /\ \A k \in DOMAIN P : x \in UpToIn(lines, P[k].id)
        BY <1>1, <3>1, OfLines DEF RecoveryInv, RecoveredIsKept, InOrder
      <3> QED BY <1>4, <3>2
    <2> QED BY <2>1, <2>2
  <1>10. InOrder'
    <2> SUFFICES ASSUME NEW x \in recovered, \A i \in DOMAIN Tail(P) : Tail(P)[i].id # x,
                        NEW k \in DOMAIN Tail(P)
                 PROVE  x \in UpToIn(ms, Tail(P)[k].id)
      BY <1>5, <1>8 DEF InOrder
    <2> QED BY <1>7, <1>9
  <1>11. RecoveredIsKept'
    BY <1>8, <1>9 DEF RecoveredIsKept
  <1>12. \A k \in DOMAIN Tail(P) : Tail(P)[k].observed /\ Tail(P)[k].id \in state.holds.reflects
    BY <1>1, <1>4
  <1> QED BY <1>1, <1>6, <1>8, <1>10, <1>11, <1>12

\* Outside the part of a start that the gate guards, there is less to keep.
LEMMA KeptWhenDown ==
    ASSUME RecoveryInv, [StartupNext]_startVars, pc' \in {"down", "serving"},
           InOrder', RecoveredIsKept'
    PROVE  RecoveryInv'
  <1>1. FileTypeOK' /\ StartTypeOK'
    BY StartupFileStep, FileNextIsStep, FileTypeKept, StartTypeKept DEF RecoveryInv
  <1> QED BY <1>1 DEF RecoveryInv, Gated, Replaying, Committing

\* What a start established is kept by every step.
LEMMA RecoveryStep ==
    ASSUME RecoveryInv, [StartupNext]_startVars
    PROVE  RecoveryInv'
  <1>1. FileTypeOK' /\ StartTypeOK'
    BY StartupFileStep, FileNextIsStep, FileTypeKept, StartTypeKept DEF RecoveryInv
  <1>2. CASE Earlier
    <2>1. pc' = "before" /\ recovered' = {}
      BY <1>2 DEF Earlier, RecoveryInv
    <2> QED BY <1>1, <2>1 DEF RecoveryInv, Gated, Replaying, Committing, InOrder, RecoveredIsKept
  <1>3. CASE EarlierEnd
    <2>1. pc' = "down" /\ recovered' = {} /\ UNCHANGED lines
      BY <1>3 DEF EarlierEnd, RecoveryInv, Goto, file
    <2> QED BY <2>1, KeptOnSameLines, KeptWhenDown
  <1>4. CASE Blocked \/ LoadKeyFails \/ LoadStateFails \/ NothingPending \/ Inapplicable \/ Crash
             \/ RemoveState \/ RemoveKey
    <2>1. /\ pc' \in {"down", "serving"} /\ UNCHANGED lines
          /\ recovered' = {} \/ UNCHANGED <<recovered, state>>
      BY <1>4 DEF Blocked, LoadKeyFails, LoadStateFails, NothingPending, Inapplicable, Crash,
         RemoveState, RemoveKey, Goto, Ends, file, RecoverRefused, RecoverPreservationFailed
    <2> QED BY <2>1, KeptOnSameLines, KeptWhenDown
  <1>5. CASE Admit
    <2>1. pc' = "admitted" /\ UNCHANGED <<lines, state, recovered>>
      BY <1>5 DEF Admit, Recover, Goto
    <2>2. InOrder' /\ RecoveredIsKept'
      BY <2>1, KeptOnSameLines
    <2>3. Gated'
      BY <1>5, RecoverLeaves DEF Admit, RecoveryInv, Gated
    <2> QED BY <1>1, <2>1, <2>2, <2>3 DEF RecoveryInv, Replaying, Committing
  <1>6. CASE LoadKey
    <2>1. pc = "admitted" /\ pc' = "keyed" /\ UNCHANGED <<file, state, recovered>>
      BY <1>6 DEF LoadKey, Goto
    <2>2. InOrder' /\ RecoveredIsKept'
      BY <2>1, KeptOnSameLines DEF file
    <2>3. Gated'
      BY <2>1 DEF RecoveryInv, Gated, file, AllParse, TheRecords
    <2> QED BY <1>1, <2>1, <2>2, <2>3 DEF RecoveryInv, Replaying, Committing
  <1>7. CASE LoadState
    <2>1. /\ pc = "keyed" /\ pc' = "recovering" /\ UNCHANGED <<file, state, recovered>>
          /\ mem' = state.holds /\ todo' = Entries
      BY <1>7 DEF LoadState, Goto
    <2>2. InOrder' /\ RecoveredIsKept'
      BY <2>1, KeptOnSameLines DEF file
    <2>3. Gated'
      BY <2>1 DEF RecoveryInv, Gated, file, AllParse, TheRecords
    <2>4. Entries' = Entries
      BY <2>1 DEF Entries, TheRecords, file
    <2>5. Entries \in Seq(PendingEntries)
      BY <2>1, OfLines, FoldOfLines DEF RecoveryInv, FileTypeOK, Gated
    <2>6. Replayed(Entries, Entries)
      BY <2>5 DEF Replayed
    <2>7. Replaying'
      BY <2>1, <2>4, <2>5, <2>6 DEF Replaying
    <2> QED BY <1>1, <2>1, <2>2, <2>3, <2>7 DEF RecoveryInv, Committing
  <1>8. CASE Replay
    <2> DEFINE e == Head(todo)
    <2>1. /\ pc = "recovering" /\ todo # <<>> /\ recovered' = recovered \cup {e.id}
          /\ UNCHANGED <<file, state, mem>>
          /\ \/ e.observed /\ todo' = Tail(todo) /\ pc' = "recovering"
             \/ ~e.observed /\ pc' = "replayed" /\ todo' = todo
      BY <1>8 DEF Replay, Goto
    <2>2. todo \in Seq(PendingEntries) /\ Replayed(todo, Entries) /\ mem = state.holds
      BY <2>1 DEF RecoveryInv, Replaying
    <2>3. Entries' = Entries /\ Entries \in Seq(PendingEntries)
      <3>1. Entries' = Entries
        BY <2>1 DEF Entries, TheRecords, file
      <3> QED BY <2>1, <3>1, OfLines, FoldOfLines DEF RecoveryInv, FileTypeOK, Gated
    <2> DEFINE n == Len(todo)
               m == Len(Entries)
    <2>4. /\ n \in Nat \ {0} /\ m \in Nat /\ n <= m /\ e = todo[1] /\ DOMAIN Entries = 1 .. m
          /\ e = Entries[m - n + 1]
      <3>1. n \in Nat \ {0} /\ m \in Nat /\ n <= m /\ e = todo[1] /\ DOMAIN Entries = 1 .. m
        BY <2>1, <2>2, <2>3, EmptySeq DEF Replayed
      <3>2. 1 \in 1 .. n
        BY <3>1
      <3> QED BY <2>2, <3>1, <3>2 DEF Replayed
    <2>5. \E i \in DOMAIN Entries : Entries[i].id = e.id
      <3>1. m - n + 1 \in DOMAIN Entries
        BY <2>4
      <3> QED BY <2>4, <3>1
    <2>6. InOrder' /\ RecoveredIsKept'
      BY <2>1, <2>5, KeptOnSameLines DEF file
    <2>7. Gated'
      BY <2>1 DEF RecoveryInv, Gated, file, AllParse, TheRecords
    <2>8. e.observed => Tail(todo) \in Seq(PendingEntries) /\ Replayed(Tail(todo), Entries)
      <3> SUFFICES ASSUME e.observed
                   PROVE  Tail(todo) \in Seq(PendingEntries) /\ Replayed(Tail(todo), Entries)
        OBVIOUS
      <3>1. /\ Tail(todo) \in Seq(PendingEntries) /\ Len(Tail(todo)) = n - 1
            /\ \A k \in 1 .. (n - 1) : Tail(todo)[k] = todo[k + 1]
        BY <2>1, <2>2, HeadTailProperties
      <3>2. ASSUME NEW k \in 1 .. (n - 1) PROVE Tail(todo)[k] = Entries[m - (n - 1) + k]
        <4>1. k + 1 \in 1 .. n /\ m - n + (k + 1) = m - (n - 1) + k
          BY <2>4
        <4>2. todo[k + 1] = Entries[m - n + (k + 1)]
          BY <2>2, <4>1 DEF Replayed
        <4> QED BY <3>1, <4>1, <4>2
      <3>3. ASSUME NEW k \in 1 .. (m - (n - 1)) PROVE Entries[k].observed
        <4>1. CASE k = m - n + 1
          BY <2>4, <4>1
        <4>2. CASE k # m - n + 1
          <5>1. k \in 1 .. (m - n)
            BY <2>4, <4>2
          <5> QED BY <2>2, <5>1 DEF Replayed
        <4> QED BY <4>1, <4>2
      <3>4. n - 1 <= m
        BY <2>4
      <3>5. Replayed(Tail(todo), Entries)
        BY <3>1, <3>2, <3>3, <3>4 DEF Replayed
      <3> QED BY <3>1, <3>5
    <2>9. Replaying'
      <3>1. /\ todo' \in Seq(PendingEntries) /\ Replayed(todo', Entries') /\ mem' = state'.holds
        BY <2>1, <2>2, <2>3, <2>8
      <3>2. pc' = "replayed" => /\ todo' # <<>> /\ ~Head(todo').observed
                                /\ Head(todo').id \in recovered'
        BY <2>1
      <3> QED BY <3>1, <3>2 DEF Replaying
    <2> QED BY <1>1, <2>1, <2>6, <2>7, <2>9 DEF RecoveryInv, Committing
  <1>9. CASE ReplayFails
    <2>1. /\ pc = "recovering" /\ todo # <<>> /\ pc' = "down" /\ UNCHANGED <<lines, state>>
          /\ recovered' \subseteq recovered \cup {Head(todo).id}
      BY <1>9 DEF ReplayFails, Ends, Goto, file
    <2>2. \E i \in DOMAIN Entries : Entries[i].id = Head(todo).id
      <3>1. todo \in Seq(PendingEntries) /\ Replayed(todo, Entries) /\ Entries \in Seq(PendingEntries)
        BY <2>1, OfLines, FoldOfLines DEF RecoveryInv, FileTypeOK, Gated, Replaying
      <3>2. Len(todo) \in Nat \ {0} /\ Len(Entries) \in Nat /\ Len(todo) <= Len(Entries)
            /\ Head(todo) = todo[1] /\ DOMAIN Entries = 1 .. Len(Entries)
        BY <2>1, <3>1, EmptySeq DEF Replayed
      <3>3. 1 \in 1 .. Len(todo) /\ Len(Entries) - Len(todo) + 1 \in DOMAIN Entries
        BY <3>2
      <3>4. Head(todo) = Entries[Len(Entries) - Len(todo) + 1]
        BY <3>1, <3>2, <3>3 DEF Replayed
      <3> QED BY <3>3, <3>4
    <2>3. InOrder' /\ RecoveredIsKept'
      BY <2>1, <2>2, KeptOnSameLines
    <2> QED BY <2>1, <2>3, KeptWhenDown
  <1>10. CASE Observe
    <2>1. /\ pc = "replayed" /\ pc' = "recovering" /\ todo' = Tail(todo)
          /\ UNCHANGED <<state, mem, recovered>> /\ Write(Outcome(Head(todo)))
      BY <1>10 DEF Observe, Goto
    <2>2. lines' = Append(lines, Line(Outcome(Head(todo)))) /\ tail' = "terminated" /\ ~marker'
      BY <2>1 DEF RecoveryInv, Gated, Write
    <2>3. /\ InOrder' /\ RecoveredIsKept'
          /\ AllParse' /\ PendingWithEvidence(TheRecords)'.ok
          /\ todo' \in Seq(PendingEntries) /\ Replayed(todo', Entries')
      BY <2>1, <2>2, KeptByOutcome
    <2>4. Gated'
      BY <2>2, <2>3 DEF Gated
    <2>5. Replaying'
      BY <2>1, <2>3 DEF RecoveryInv, Replaying
    <2> QED BY <1>1, <2>1, <2>3, <2>4, <2>5 DEF RecoveryInv, Committing
  <1>11. CASE ObserveFails
    <2>1. /\ pc = "replayed" /\ pc' = "down" /\ UNCHANGED <<state, recovered>>
          /\ UNCHANGED lines \/ lines' = Append(lines, Line(Outcome(Head(todo))))
      BY <1>11 DEF ObserveFails, Ends, Goto, WriteTorn, file
    <2>2. InOrder' /\ RecoveredIsKept'
      BY <2>1, KeptOnSameLines, KeptByOutcome
    <2> QED BY <2>1, <2>2, KeptWhenDown
  <1>12. CASE Save \/ SaveFails
    <2>1. /\ pc = "recovering" /\ todo = <<>> /\ UNCHANGED <<file, recovered>>
          /\ state' = state \/ state' = [by |-> held, holds |-> Applied.holds]
      BY <1>12 DEF Save, SaveFails, ReadyToSave
    <2>2. /\ AllParse /\ PendingWithEvidence(TheRecords).ok /\ mem = state.holds /\ mem \in Contents
          /\ Replayed(todo, Entries) /\ Entries \in Seq(PendingEntries)
      BY <2>1, OfLines, FoldOfLines DEF RecoveryInv, Gated, Replaying, FileTypeOK, StartTypeOK
    <2>3. /\ Applied.holds \in Contents
          /\ \A k \in DOMAIN Entries : Entries[k].id \in Applied.holds.reflects
          /\ \A x \in mem.reflects : (\A k \in DOMAIN Entries : x \in UpTo(Entries[k].id))
                                        => x \in Applied.holds.reflects
      BY <2>2, AppliedReflects DEF RecoveryInv
    <2>4. ASSUME NEW x \in recovered
          PROVE  \/ \E i \in DOMAIN Entries : Entries[i].id = x
                 \/ x \in state.holds.reflects => x \in state'.holds.reflects
      <3>1. \/ \E i \in DOMAIN Entries : Entries[i].id = x
            \/ \A k \in DOMAIN Entries : x \in UpTo(Entries[k].id)
        BY <2>2, OfLines DEF RecoveryInv, InOrder
      <3> QED BY <2>1, <2>2, <2>3, <3>1
    <2>5. InOrder' /\ RecoveredIsKept'
      BY <2>1, <2>4, KeptOnSameLines DEF file
    <2>6. CASE SaveFails
      <3>1. pc' = "down"
        BY <2>6 DEF SaveFails, Ends, Goto
      <3> QED BY <2>5, <3>1, KeptWhenDown
    <2>7. CASE Save
      <3>1. pc' = "commit" /\ todo' = Entries /\ state'.holds = Applied.holds
        BY <2>7 DEF Save, Goto
      <3>2. Entries' = Entries
        BY <2>1 DEF Entries, TheRecords, file
      <3>3. Gated'
        BY <2>1 DEF RecoveryInv, Gated, file, AllParse, TheRecords
      <3>4. \A k \in DOMAIN Entries : Entries[k].observed
        BY <2>1, <2>2 DEF Replayed
      <3>5. Committing'
        BY <2>3, <3>1, <3>2, <3>4 DEF Committing
      <3> QED BY <1>1, <2>5, <3>1, <3>3, <3>5 DEF RecoveryInv, Replaying
    <2> QED BY <1>12, <2>6, <2>7
  <1>13. CASE Commit
    <2>1. /\ pc = "commit" /\ pc' = "commit" /\ todo # <<>> /\ todo' = Tail(todo)
          /\ UNCHANGED <<state, recovered>> /\ Write(Terminal(Head(todo)))
      BY <1>13 DEF Commit
    <2>2. lines' = Append(lines, Line(Terminal(Head(todo)))) /\ tail' = "terminated" /\ ~marker'
      BY <2>1 DEF RecoveryInv, Gated, Write
    <2>3. /\ InOrder' /\ RecoveredIsKept'
          /\ AllParse' /\ PendingWithEvidence(TheRecords)'.ok
          /\ Entries' = Tail(todo)
          /\ \A k \in DOMAIN Entries' :
                Entries'[k].observed /\ Entries'[k].id \in state.holds.reflects
      BY <2>1, <2>2, KeptByTerminal
    <2>4. Gated'
      BY <2>2, <2>3 DEF Gated
    <2>5. Committing'
      BY <2>1, <2>3 DEF Committing
    <2> QED BY <1>1, <2>1, <2>3, <2>4, <2>5 DEF RecoveryInv, Replaying
  <1>14. CASE CommitFails
    <2>1. /\ pc = "commit" /\ pc' = "down" /\ todo # <<>> /\ UNCHANGED <<state, recovered>>
          /\ UNCHANGED lines \/ lines' = Append(lines, Line(Terminal(Head(todo))))
      BY <1>14 DEF CommitFails, Ends, Goto, WriteTorn, file
    <2>2. InOrder' /\ RecoveredIsKept'
      BY <2>1, KeptOnSameLines, KeptByTerminal
    <2> QED BY <2>1, <2>2, KeptWhenDown
  <1>15. CASE CompactJournal \/ CompactFails
    <2>1. /\ pc = "commit" /\ pc' \in {"down", "serving"} /\ todo = <<>>
          /\ UNCHANGED <<state, recovered>>
          /\ UNCHANGED lines \/ lines' = CompactLines
      BY <1>15 DEF CompactJournal, CompactFails, CompactFile, Ends, Goto, file
    <2>2. Entries = <<>>
      BY <2>1 DEF RecoveryInv, Committing
    <2>3. CASE UNCHANGED lines
      <3>1. InOrder' /\ RecoveredIsKept'
        BY <2>1, <2>3, KeptOnSameLines
      <3> QED BY <2>1, <3>1, KeptWhenDown
    <2>4. CASE lines' = CompactLines
      <3>1. PendingWithEvidence(TheRecords) \in Folds /\ AllParse
        BY <2>1, RecordsOfLines, FoldOfLines DEF RecoveryInv, FileTypeOK, Gated
      <3>2. CompactLines = Compacted(PendingWithEvidence(TheRecords).pending)
        BY DEF CompactLines, Compacted
      <3>3. PendingWithEvidence(RecordsIn(CompactLines)).pending = PendingWithEvidence(TheRecords).pending
        <4>1. PendingWithEvidence(RecordsIn(Compacted(PendingWithEvidence(TheRecords).pending))).pending
                = PendingWithEvidence(TheRecords).pending
          BY <3>1, CompactionFolds
        <4> QED BY <3>2, <4>1
      <3>4. Entries' = <<>>
        <4>1. TheRecords' = RecordsIn(CompactLines)
          BY <2>4 DEF TheRecords, RecordsIn
        <4> QED BY <2>2, <3>3, <4>1 DEF Entries
      <3>5. InOrder'
        BY <3>4 DEF InOrder
      <3>6. RecoveredIsKept'
        <4>1. DOMAIN Entries = {}
          BY <2>2
        <4>2. \A x \in recovered : x \in state.holds.reflects
          BY <3>1, <4>1 DEF RecoveryInv, RecoveredIsKept
        <4> QED BY <2>1, <4>2 DEF RecoveredIsKept
      <3> QED BY <2>1, <3>5, <3>6, KeptWhenDown
    <2> QED BY <2>1, <2>3, <2>4
  <1>16. CASE UNCHANGED startVars
    <2>1. UNCHANGED <<lines, tail, marker, pc, key, state, held, mem, todo, recovered>>
      BY <1>16 DEF startVars, file, memory
    <2>2. InOrder' /\ RecoveredIsKept'
      BY <2>1, KeptOnSameLines
    <2>3. Entries' = Entries
      BY <2>1 DEF Entries, TheRecords
    <2>4. Gated' /\ Replaying' /\ Committing'
      BY <2>1, <2>3 DEF RecoveryInv, Gated, Replaying, Committing, AllParse, TheRecords
    <2> QED BY <1>1, <2>1, <2>2, <2>4 DEF RecoveryInv
  <1> QED BY <1>2, <1>3, <1>4, <1>5, <1>6, <1>7, <1>8, <1>9, <1>10, <1>11, <1>12, <1>13, <1>14,
             <1>15, <1>16 DEF StartupNext

\* The invariant holds of a new installation.
LEMMA RecoveryInit == StartupInit => RecoveryInv
  <1> SUFFICES ASSUME StartupInit PROVE RecoveryInv
    OBVIOUS
  <1>1. FileTypeOK
    BY EmptySeq DEF StartupInit, FileInit, FileTypeOK
  <1>2. StartTypeOK
    BY DEF StartupInit, StartTypeOK, Default, NoStateFile, Contents
  <1> QED BY <1>1, <1>2 DEF StartupInit, RecoveryInv, Gated, Replaying, Committing, InOrder, RecoveredIsKept

\* The invariant holds in every run: at each step of a start the journal is as the
\* gate of recover_journal left it, or as the start itself continued it.
THEOREM RecoveryInvariant == StartupSpec => []RecoveryInv
  BY RecoveryInit, RecoveryStep, PTL DEF StartupSpec

\* What any start has established on the server is reflected by state.toml or
\* pending in the journal, in every run: over failures and crashes at every step of
\* recover_owner_state, torn and malformed journals, records of earlier releases and
\* resets by the operator (sync_engine.rs, recover_pending and
\* apply_recovered_candidate_states).
THEOREM RecoveredStaysKept == StartupSpec => []RecoveredIsKept
  <1>1. RecoveryInv => RecoveredIsKept
    BY DEF RecoveryInv
  <1> QED BY <1>1, RecoveryInvariant, PTL

\* A start uses the journal as JournalFile says: it appends only to records that
\* fold, recovers and compacts, and touches the file in no other way (service.rs,
\* sync_engine.rs, through operation_journal.rs).
THEOREM StartupWritesTheFile == StartupSpec => FileSpec
  <1>1. StartupInit => FileInit
    BY DEF StartupInit
  <1>2. RecoveryInv /\ [StartupNext]_startVars => [FileNext]_file
    BY StartupFileStep
  <1> QED BY <1>1, <1>2, RecoveryInvariant, PTL DEF StartupSpec, FileSpec

-----------------------------------------------------------------------------
(* The key on file verifies the state on file                              *)

\* From the moment it has a key, a start holds the one on file.
HoldsKey == pc \in {"keyed", "recovering", "replayed", "commit"} => held = key

\* A step that leaves the key files alone, or ends the process.
Quiet ==
    /\ UNCHANGED key
    /\ held' = held \/ pc' \in {"down", "before"}
    /\ \/ pc' \in {"down", "before", "admitted", "serving"}
       \/ /\ pc \in {"keyed", "recovering", "replayed", "commit"}
          /\ held' = held

\* A quiet step keeps the key held.
LEMMA QuietKeeps == HoldsKey /\ Quiet => HoldsKey'
  BY DEF HoldsKey, Quiet

\* Every step of a start keeps the key held.
LEMMA KeyKept ==
    ASSUME HoldsKey, [StartupNext]_startVars
    PROVE  HoldsKey'
  <1>1. CASE Earlier \/ EarlierEnd \/ RemoveState \/ RemoveKey
    BY <1>1 DEF Earlier, EarlierEnd, RemoveState, RemoveKey, Goto, HoldsKey
  <1>2. CASE Admit \/ Blocked
    BY <1>2 DEF Admit, Blocked, Goto, HoldsKey
  <1>3. CASE LoadKey \/ LoadKeyFails
    BY <1>3 DEF LoadKey, LoadKeyFails, Goto, Ends, HoldsKey
  <1>4. CASE LoadState \/ Observe \/ Save
    BY <1>4, QuietKeeps DEF LoadState, Observe, Save, ReadyToSave, Goto, Quiet
  <1>5. CASE Replay
    BY <1>5, QuietKeeps DEF Replay, Goto, Quiet
  <1>6. CASE LoadStateFails \/ ReplayFails \/ ObserveFails \/ Inapplicable \/ SaveFails
             \/ CommitFails \/ CompactFails \/ Crash
    BY <1>6 DEF LoadStateFails, ReplayFails, ObserveFails, Inapplicable, SaveFails, CommitFails,
       CompactFails, Crash, Goto, Ends, HoldsKey
  <1>7. CASE NothingPending \/ CompactJournal
    BY <1>7 DEF NothingPending, CompactJournal, Goto, HoldsKey
  <1>8. CASE Commit
    BY <1>8, QuietKeeps DEF Commit, Quiet
  <1>9. CASE UNCHANGED startVars
    BY <1>9 DEF startVars, memory, HoldsKey
  <1> QED BY <1>1, <1>2, <1>3, <1>4, <1>5, <1>6, <1>7, <1>8, <1>9 DEF StartupNext

\* A start holds the key on file in every run.
THEOREM KeyHeld == StartupSpec => []HoldsKey
  <1>1. StartupInit => HoldsKey
    BY DEF StartupInit, HoldsKey
  <1> QED BY <1>1, KeyKept, PTL DEF StartupSpec

\* Whatever a start does, and wherever it ends, the key on file verifies the state
\* on file if it did before; only who removes the key alone undoes that
\* (state_io.rs, ServiceState::verify).
THEOREM StateStaysVerifiable == StartupSpec => StaysVerifiable
  <1> DEFINE Verifiable == (Verifies(key) => Verifies(key)') \/ (key # NoKey /\ key' = NoKey)
  <1>1. ASSUME HoldsKey, [StartupNext]_startVars
        PROVE  [Verifiable]_<<key, state>>
    <2>1. CASE EarlierEnd \/ RemoveState \/ RemoveKey
      BY <2>1 DEF EarlierEnd, RemoveState, RemoveKey, NoStateFile, Verifies
    <2>2. CASE LoadKey \/ LoadKeyFails
      BY <2>2 DEF LoadKey, LoadKeyFails, FreshKeys, Verifies
    <2>3. CASE Save \/ SaveFails
      <3>1. held = key /\ UNCHANGED key
        BY <1>1, <2>3 DEF Save, SaveFails, ReadyToSave, HoldsKey
      <3>2. state' = state \/ state'.by = held
        BY <2>3 DEF Save, SaveFails
      <3> QED BY <3>1, <3>2 DEF Verifies
    <2>4. CASE UNCHANGED <<key, state>>
      BY <2>4
    <2>5. \/ EarlierEnd \/ RemoveState \/ RemoveKey \/ LoadKey \/ LoadKeyFails \/ Save \/ SaveFails
          \/ UNCHANGED <<key, state>>
      BY <1>1 DEF StartupNext, startVars, Earlier, Admit, Blocked, LoadState, LoadStateFails,
         Replay, ReplayFails, Observe, ObserveFails, NothingPending, Inapplicable, Commit,
         CommitFails, CompactJournal, CompactFails, Crash
    <2> QED BY <2>1, <2>2, <2>3, <2>4, <2>5
  <1> QED BY <1>1, KeyHeld, PTL DEF StartupSpec, StaysVerifiable

-----------------------------------------------------------------------------
(* One more record, as evidence                                            *)

\* Functions are equal when their values are.
LEMMA SameFunction ==
    ASSUME NEW S, NEW f, NEW g, f = [x \in S |-> f[x]], g = [x \in S |-> g[x]],
           \A x \in S : f[x] = g[x]
    PROVE  f = g
  OBVIOUS

\* A function that differs from another at one place.
LEMMA Overwritten ==
    ASSUME NEW S, NEW f, NEW g, f = [x \in S |-> f[x]], g = [x \in S |-> g[x]],
           NEW a \in S, NEW v, g[a] = v, \A x \in S : x # a => g[x] = f[x]
    PROVE  g = [f EXCEPT ![a] = v]
  <1> DEFINE h == [f EXCEPT ![a] = v]
  <1>1. h = [x \in S |-> h[x]] /\ \A x \in S : h[x] = g[x]
    OBVIOUS
  <1> HIDE DEF h
  <1>2. g = h
    BY <1>1, SameFunction
  <1> QED BY <1>2 DEF h

\* The last of some lines, or 0.
LEMMA LastLine ==
    ASSUME NEW ls \in Seq(Lines), NEW S \in SUBSET DOMAIN ls
    PROVE  /\ Max({0} \cup S) \in {0} \cup S
           /\ \A i \in S : i <= Max({0} \cup S)
           /\ Max({0} \cup S) = 0 <=> S = {}
           /\ Max({0} \cup S) \in 0 .. Len(ls)
           /\ \A m \in S : (\A i \in S : i <= m) => Max({0} \cup S) = m
  <1> DEFINE T == {0} \cup S
  <1>1. /\ T \in SUBSET Nat /\ T # {} /\ Len(ls) \in Nat /\ \A i \in T : i <= Len(ls)
        /\ \A i \in S : i \in Nat \ {0}
    OBVIOUS
  <1>2. Max(T) \in T /\ \A i \in T : i <= Max(T)
    <2> HIDE DEF T
    <2> QED BY <1>1, MaxOfBounded
  <1>3. Max(T) \in Nat /\ Max(T) <= Len(ls)
    BY <1>1, <1>2
  <1>4. Max(T) = 0 <=> S = {}
    <2>1. ASSUME NEW i \in S, Max(T) = 0 PROVE FALSE
      <3>1. i \in T /\ i \in Nat \ {0}
        BY <1>1
      <3> HIDE DEF T
      <3> QED BY <1>2, <2>1, <3>1
    <2>2. S = {} => T = {0}
      OBVIOUS
    <2> HIDE DEF T
    <2> QED BY <1>2, <2>1, <2>2
  <1>5. ASSUME NEW m \in S, \A i \in S : i <= m PROVE Max(T) = m
    <2>1. m \in Nat \ {0} /\ m \in T /\ \A i \in T : i = 0 \/ i \in S
      BY <1>1
    <2> HIDE DEF T
    <2>2. m <= Max(T) /\ Max(T) <= m
      BY <1>2, <1>3, <1>5, <2>1
    <2> QED BY <1>3, <2>1, <2>2
  <1>6. \A i \in S : i \in T
    OBVIOUS
  <1>7. Max(T) \in 0 .. Len(ls)
    BY <1>1, <1>3
  <1> QED BY <1>2, <1>4, <1>5, <1>6, <1>7

\* Views agree when they have the same lines of every id.
LEMMA SameEvidence ==
    ASSUME NEW ls, NEW f \in BOOLEAN, NEW ms, NEW g \in BOOLEAN,
           \A x \in Ids : /\ LinesOf(ms, g, x) = LinesOf(ls, f, x)
                          /\ PreparedLines(ms, x) = PreparedLines(ls, x)
                          /\ LastOf(ls, f, x) # 0 => ms[LastOf(ls, f, x)].rec = ls[LastOf(ls, f, x)].rec
    PROVE  /\ View(ms, g).phase = View(ls, f).phase
           /\ View(ms, g).before = View(ls, f).before
           /\ View(ms, g).snap = View(ls, f).snap
  <1>1. ASSUME NEW x \in Ids PROVE LastOf(ms, g, x) = LastOf(ls, f, x) /\ PreparedAt(ms, x) = PreparedAt(ls, x)
    BY DEF LastOf, PreparedAt
  <1>2. ASSUME NEW x \in Ids
        PROVE  /\ PhaseOf(ms, g, x) = PhaseOf(ls, f, x)
               /\ LastOf(ls, f, x) # 0 =>
                    RecordOf(ms, LastOf(ms, g, x)) = RecordOf(ls, LastOf(ls, f, x))
    <2>1. LastOf(ls, f, x) # 0 =>
                    RecordOf(ms, LastOf(ms, g, x)) = RecordOf(ls, LastOf(ls, f, x))
      BY <1>1 DEF RecordOf
    <2> QED BY <1>1, <2>1 DEF PhaseOf
  <1>3. Waiting(ms, g) = Waiting(ls, f)
    BY <1>2 DEF Waiting
  <1>4. \A x \in Waiting(ls, f) : x \in Ids /\ LastOf(ls, f, x) # 0
    BY DEF Waiting, PhaseOf
  <1>5. View(ms, g).phase = View(ls, f).phase
    BY <1>2 DEF View
  <1>6. View(ms, g).before = View(ls, f).before
    <2>1. \A x \in Ids :
            {y \in Waiting(ms, g) : x \in Waiting(ms, g) /\ PreparedAt(ms, y) < PreparedAt(ms, x)}
              = {y \in Waiting(ls, f) : x \in Waiting(ls, f) /\ PreparedAt(ls, y) < PreparedAt(ls, x)}
      BY <1>1, <1>3, <1>4
    <2> QED BY <2>1 DEF View
  <1>7. View(ms, g).snap = View(ls, f).snap
    <2>1. \A x \in Ids :
            (IF x \in Waiting(ms, g) THEN RecordOf(ms, LastOf(ms, g, x)).state ELSE NoState)
              = (IF x \in Waiting(ls, f) THEN RecordOf(ls, LastOf(ls, f, x)).state ELSE NoState)
      BY <1>2, <1>3, <1>4
    <2> QED BY <2>1 DEF View
  <1> QED BY <1>5, <1>6, <1>7

\* The lines before the last one are counted, and it is unless it does not fold.
LEMMA CountedLines ==
    ASSUME NEW ls \in Seq(Lines), NEW r \in Records
    PROVE  LET ms == Append(ls, Line(r))
           IN  /\ Counted(ls, TRUE) = DOMAIN ls /\ Counted(ms, TRUE) = DOMAIN ms
               /\ Counted(ms, FALSE) = IF r.phase = "prepared" THEN DOMAIN ms ELSE DOMAIN ls
               /\ DOMAIN ms = DOMAIN ls \cup {Len(ls) + 1} /\ DOMAIN ls = 1 .. Len(ls) /\ Len(ls) \in Nat
               /\ \A i \in DOMAIN ls : ms[i] = ls[i]
               /\ ms[Len(ls) + 1].rec = {r}
  <1> DEFINE ms == Append(ls, Line(r))
  <1>1. Line(r) \in Lines /\ Line(r).rec = {r}
    BY DEF Line, Lines
  <1>2. /\ DOMAIN ms = DOMAIN ls \cup {Len(ls) + 1} /\ DOMAIN ls = 1 .. Len(ls) /\ Len(ls) \in Nat
        /\ \A i \in DOMAIN ls : ms[i] = ls[i]
        /\ ms[Len(ls) + 1] = Line(r) /\ Len(ms) = Len(ls) + 1
    <2>1. Append(ls, Line(r)) \in Seq(Lines) /\ Len(ls) \in Nat /\ DOMAIN ls = 1 .. Len(ls)
          /\ DOMAIN ms = 1 .. (Len(ls) + 1)
          /\ \A i \in DOMAIN ls : ms[i] = ls[i]
          /\ ms[Len(ls) + 1] = Line(r) /\ Len(ms) = Len(ls) + 1
      BY <1>1
    <2>2. 1 .. (Len(ls) + 1) = (1 .. Len(ls)) \cup {Len(ls) + 1}
      BY <2>1
    <2> QED BY <2>1, <2>2
  <1> HIDE DEF ms
  <1>3. Counted(ls, TRUE) = DOMAIN ls /\ Counted(ms, TRUE) = DOMAIN ms
    BY DEF Counted
  <1>4. /\ \A i \in DOMAIN ls : i < Len(ms)
        /\ ~(Len(ls) + 1 < Len(ms))
        /\ (\A q \in ms[Len(ls) + 1].rec : q.phase = "prepared") <=> r.phase = "prepared"
    BY <1>1, <1>2
  <1>5. Counted(ms, FALSE) = IF r.phase = "prepared" THEN DOMAIN ms ELSE DOMAIN ls
    BY <1>2, <1>4 DEF Counted
  <1> QED BY <1>1, <1>2, <1>3, <1>5 DEF ms

\* A record that is no evidence.
LEMMA UncountedRecord ==
    ASSUME NEW ls \in Seq(Lines), NEW r \in Records, NEW g \in BOOLEAN, r.phase # "prepared",
           Counted(Append(ls, Line(r)), g) = DOMAIN ls
    PROVE  LET ms == Append(ls, Line(r))
           IN  /\ View(ms, g).phase = View(ls, TRUE).phase
               /\ View(ms, g).before = View(ls, TRUE).before
               /\ View(ms, g).snap = View(ls, TRUE).snap
  <1> DEFINE ms == Append(ls, Line(r))
  <1>1. /\ Counted(ls, TRUE) = DOMAIN ls /\ Counted(ms, g) = DOMAIN ls
        /\ DOMAIN ms = DOMAIN ls \cup {Len(ls) + 1} /\ \A i \in DOMAIN ls : ms[i] = ls[i]
        /\ ms[Len(ls) + 1].rec = {r}
    BY CountedLines
  <1> HIDE DEF ms
  <1>2. ASSUME NEW x \in Ids
        PROVE  /\ LinesOf(ms, g, x) = LinesOf(ls, TRUE, x)
               /\ PreparedLines(ms, x) = PreparedLines(ls, x)
               /\ LastOf(ls, TRUE, x) # 0 => ms[LastOf(ls, TRUE, x)].rec = ls[LastOf(ls, TRUE, x)].rec
    <2>1. LinesOf(ms, g, x) = LinesOf(ls, TRUE, x)
      BY <1>1 DEF LinesOf
    <2>2. PreparedLines(ms, x) = PreparedLines(ls, x)
      BY <1>1 DEF PreparedLines
    <2>3. LinesOf(ls, TRUE, x) \in SUBSET DOMAIN ls
      BY <1>1 DEF LinesOf
    <2>4. LastOf(ls, TRUE, x) # 0 => LastOf(ls, TRUE, x) \in DOMAIN ls
      BY <2>3, LastLine DEF LastOf
    <2> QED BY <1>1, <2>1, <2>2, <2>4
  <1>3. /\ View(ms, g).phase = View(ls, TRUE).phase
        /\ View(ms, g).before = View(ls, TRUE).before
        /\ View(ms, g).snap = View(ls, TRUE).snap
    BY <1>2, SameEvidence
  <1> QED BY <1>3 DEF ms

\* A record that is.
LEMMA CountedRecord ==
    ASSUME NEW ls \in Seq(Lines), NEW r \in Records, NEW f \in BOOLEAN,
           Counted(Append(ls, Line(r)), f) = DOMAIN Append(ls, Line(r))
    PROVE  LET ms == Append(ls, Line(r))
           IN  \A x \in Ids :
                 /\ PhaseOf(ms, f, x) = IF x = r.id THEN r.phase ELSE PhaseOf(ls, TRUE, x)
                 /\ x = r.id => RecordOf(ms, LastOf(ms, f, x)) = r
                 /\ x # r.id /\ LastOf(ls, TRUE, x) # 0 =>
                      RecordOf(ms, LastOf(ms, f, x)) = RecordOf(ls, LastOf(ls, TRUE, x))
                 /\ PreparedAt(ms, x) = IF x = r.id /\ r.phase = "prepared" THEN Len(ls) + 1
                                        ELSE PreparedAt(ls, x)
                 /\ PreparedAt(ls, x) \in 0 .. Len(ls)
  <1> DEFINE ms == Append(ls, Line(r))
             n == Len(ls) + 1
  <1>1. /\ Counted(ls, TRUE) = DOMAIN ls
        /\ DOMAIN ms = DOMAIN ls \cup {n} /\ DOMAIN ls = 1 .. Len(ls) /\ Len(ls) \in Nat
        /\ \A i \in DOMAIN ls : ms[i] = ls[i]
        /\ ms[n].rec = {r}
    BY CountedLines
  <1>2. ms \in Seq(Lines) /\ Counted(ms, f) = DOMAIN ms
    BY AppendLine
  <1> HIDE DEF ms
  <1>3. \A i \in DOMAIN ls : i <= n /\ n # 0 /\ n \notin DOMAIN ls
    BY <1>1
  <1> SUFFICES ASSUME NEW x \in Ids
               PROVE  /\ PhaseOf(ms, f, x) = IF x = r.id THEN r.phase ELSE PhaseOf(ls, TRUE, x)
                      /\ x = r.id => RecordOf(ms, LastOf(ms, f, x)) = r
                      /\ x # r.id /\ LastOf(ls, TRUE, x) # 0 =>
                           RecordOf(ms, LastOf(ms, f, x)) = RecordOf(ls, LastOf(ls, TRUE, x))
                      /\ PreparedAt(ms, x) = IF x = r.id /\ r.phase = "prepared" THEN n
                                             ELSE PreparedAt(ls, x)
                      /\ PreparedAt(ls, x) \in 0 .. Len(ls)
    BY DEF ms
  <1>4. n \in Nat \ {0} /\ n <= n
    BY <1>1
  <1>5. LinesOf(ms, f, x) = LinesOf(ls, TRUE, x) \cup (IF x = r.id THEN {n} ELSE {})
    BY <1>1, <1>2 DEF LinesOf
  <1>6. PreparedLines(ms, x)
          = PreparedLines(ls, x) \cup (IF x = r.id /\ r.phase = "prepared" THEN {n} ELSE {})
    BY <1>1 DEF PreparedLines
  <1>7. /\ LinesOf(ls, TRUE, x) \in SUBSET DOMAIN ls /\ LinesOf(ms, f, x) \in SUBSET DOMAIN ms
        /\ PreparedLines(ls, x) \in SUBSET DOMAIN ls /\ PreparedLines(ms, x) \in SUBSET DOMAIN ms
    BY <1>1, <1>2 DEF LinesOf, PreparedLines
  <1>8. LastOf(ls, TRUE, x) # 0 => LastOf(ls, TRUE, x) \in DOMAIN ls
    BY <1>7, LastLine DEF LastOf
  <1>9. CASE x = r.id
    <2>1. n \in LinesOf(ms, f, x) /\ \A i \in LinesOf(ms, f, x) : i <= n
      BY <1>3, <1>4, <1>5, <1>7, <1>9
    <2>2. LastOf(ms, f, x) = n
      BY <1>2, <1>7, <2>1, LastLine DEF LastOf
    <2>3. RecordOf(ms, n) = r
      BY <1>1 DEF RecordOf
    <2>4. PhaseOf(ms, f, x) = r.phase
      BY <1>4, <2>2, <2>3 DEF PhaseOf
    <2>5. r.phase = "prepared" => PreparedAt(ms, x) = n
      <3> SUFFICES ASSUME r.phase = "prepared" PROVE PreparedAt(ms, x) = n
        OBVIOUS
      <3>1. n \in PreparedLines(ms, x) /\ \A i \in PreparedLines(ms, x) : i <= n
        BY <1>3, <1>4, <1>6, <1>7, <1>9
      <3> QED BY <1>2, <1>7, <3>1, LastLine DEF PreparedAt
    <2>6. r.phase # "prepared" => PreparedAt(ms, x) = PreparedAt(ls, x)
      BY <1>6 DEF PreparedAt
    <2>7. PreparedAt(ls, x) \in 0 .. Len(ls)
      BY <1>7, LastLine DEF PreparedAt
    <2> QED BY <1>9, <2>2, <2>3, <2>4, <2>5, <2>6, <2>7
  <1>10. CASE x # r.id
    <2>1. LastOf(ms, f, x) = LastOf(ls, TRUE, x) /\ PreparedAt(ms, x) = PreparedAt(ls, x)
      BY <1>5, <1>6, <1>10 DEF LastOf, PreparedAt
    <2>2. LastOf(ls, TRUE, x) # 0 => RecordOf(ms, LastOf(ms, f, x)) = RecordOf(ls, LastOf(ls, TRUE, x))
      BY <1>1, <1>8, <2>1 DEF RecordOf
    <2>3. PhaseOf(ms, f, x) = PhaseOf(ls, TRUE, x)
      BY <2>1, <2>2 DEF PhaseOf
    <2>4. PreparedAt(ls, x) \in 0 .. Len(ls)
      BY <1>7, LastLine DEF PreparedAt
    <2> QED BY <1>10, <2>1, <2>2, <2>3, <2>4
  <1> QED BY <1>9, <1>10

\* What a record makes of the evidence v in which the ids `waiting` are pending.
Recorded(v, waiting, r, w) ==
    /\ w.phase = [v.phase EXCEPT ![r.id] = r.phase]
    /\ w.before = IF r.phase = "observed" THEN v.before
                  ELSE [y \in Ids |-> IF y = r.id
                                        THEN (IF r.phase = "prepared" THEN waiting \ {r.id} ELSE {})
                                        ELSE v.before[y] \ {r.id}]
    /\ w.snap = [v.snap EXCEPT ![r.id] = IF r.phase = "committed" THEN NoState ELSE r.state]

\* The evidence that one more counted record leaves.
LEMMA CountedEvidence ==
    ASSUME NEW ls \in Seq(Lines), NEW r \in Records, NEW f \in BOOLEAN,
           Counted(Append(ls, Line(r)), f) = DOMAIN Append(ls, Line(r)),
           r.phase = "observed" => r.id \in Waiting(ls, TRUE)
    PROVE  Recorded(View(ls, TRUE), Waiting(ls, TRUE), r, View(Append(ls, Line(r)), f))
  <1> DEFINE V == View(ls, TRUE)
             ms == Append(ls, Line(r))
             W == View(ms, f)
             n == Len(ls) + 1
             before(us, g, x) == {y \in Waiting(us, g) : x \in Waiting(us, g) /\ PreparedAt(us, y) < PreparedAt(us, x)}
  <1>1. r.id \in Ids /\ r.phase \in {"prepared", "observed", "committed"} /\ Len(ls) \in Nat
    BY DEF Records
  <1>2. \A x \in Ids :
          /\ PhaseOf(ms, f, x) = IF x = r.id THEN r.phase ELSE PhaseOf(ls, TRUE, x)
          /\ x = r.id => RecordOf(ms, LastOf(ms, f, x)) = r
          /\ x # r.id /\ LastOf(ls, TRUE, x) # 0 =>
               RecordOf(ms, LastOf(ms, f, x)) = RecordOf(ls, LastOf(ls, TRUE, x))
          /\ PreparedAt(ms, x) = IF x = r.id /\ r.phase = "prepared" THEN n ELSE PreparedAt(ls, x)
          /\ PreparedAt(ls, x) \in 0 .. Len(ls)
    BY CountedRecord
  <1>3. /\ V.phase = [x \in Ids |-> PhaseOf(ls, TRUE, x)]
        /\ V.before = [x \in Ids |-> before(ls, TRUE, x)]
        /\ V.snap = [x \in Ids |-> IF x \in Waiting(ls, TRUE) THEN RecordOf(ls, LastOf(ls, TRUE, x)).state ELSE NoState]
        /\ W.phase = [x \in Ids |-> PhaseOf(ms, f, x)]
        /\ W.before = [x \in Ids |-> before(ms, f, x)]
        /\ W.snap = [x \in Ids |-> IF x \in Waiting(ms, f) THEN RecordOf(ms, LastOf(ms, f, x)).state ELSE NoState]
    BY DEF View
  <1> HIDE DEF V, W, ms
  <1>4. ASSUME NEW x \in Ids
         PROVE  /\ V.phase[x] = PhaseOf(ls, TRUE, x) /\ W.phase[x] = PhaseOf(ms, f, x)
                /\ V.before[x] = before(ls, TRUE, x) /\ W.before[x] = before(ms, f, x)
                /\ V.snap[x] = IF x \in Waiting(ls, TRUE) THEN RecordOf(ls, LastOf(ls, TRUE, x)).state ELSE NoState
                /\ W.snap[x] = IF x \in Waiting(ms, f) THEN RecordOf(ms, LastOf(ms, f, x)).state ELSE NoState
    BY <1>3
  <1>5. /\ V.phase = [x \in Ids |-> V.phase[x]] /\ W.phase = [x \in Ids |-> W.phase[x]]
         /\ V.snap = [x \in Ids |-> V.snap[x]] /\ W.snap = [x \in Ids |-> W.snap[x]]
         /\ W.before = [x \in Ids |-> W.before[x]] /\ V.before = [x \in Ids |-> V.before[x]]
    BY <1>3
  <1>6. Waiting(ms, f) = (Waiting(ls, TRUE) \ {r.id})
                           \cup (IF r.phase = "committed" THEN {} ELSE {r.id})
    BY <1>1, <1>2 DEF Waiting
  <1>7. \A x \in Waiting(ls, TRUE) : x \in Ids /\ LastOf(ls, TRUE, x) # 0
    BY DEF Waiting, PhaseOf
  <1>8. W.phase = [V.phase EXCEPT ![r.id] = r.phase]
    <2>1. \A x \in Ids : PhaseOf(ms, f, x) = IF x = r.id THEN r.phase ELSE PhaseOf(ls, TRUE, x)
      BY <1>2
    <2>2. W.phase[r.id] = r.phase
      BY <1>1, <1>4, <2>1
    <2>3. ASSUME NEW x \in Ids, x # r.id PROVE W.phase[x] = V.phase[x]
      <3>1. PhaseOf(ms, f, x) = PhaseOf(ls, TRUE, x)
        BY <2>1, <2>3
      <3>2. W.phase[x] = PhaseOf(ms, f, x) /\ V.phase[x] = PhaseOf(ls, TRUE, x)
        BY <1>4
      <3> QED BY <3>1, <3>2
    <2> QED BY <1>1, <1>5, <2>2, <2>3, Overwritten
  <1>9. W.snap = [V.snap EXCEPT ![r.id] = IF r.phase = "committed" THEN NoState ELSE r.state]
    <2>1. \A x \in Ids : (IF x \in Waiting(ms, f) THEN RecordOf(ms, LastOf(ms, f, x)).state ELSE NoState)
            = IF x = r.id THEN (IF r.phase = "committed" THEN NoState ELSE r.state)
              ELSE IF x \in Waiting(ls, TRUE) THEN RecordOf(ls, LastOf(ls, TRUE, x)).state ELSE NoState
      BY <1>1, <1>2, <1>6, <1>7
    <2> DEFINE v == IF r.phase = "committed" THEN NoState ELSE r.state
    <2>2. W.snap[r.id] = v /\ \A x \in Ids : x # r.id => W.snap[x] = V.snap[x]
      BY <1>1, <1>4, <2>1
    <2> HIDE DEF v
    <2>3. W.snap = [V.snap EXCEPT ![r.id] = v]
      BY <1>1, <1>5, <2>2, Overwritten
    <2> QED BY <2>3 DEF v
  <1>10. ASSUME r.phase = "observed" PROVE Recorded(V, Waiting(ls, TRUE), r, W)
    <2>1. Waiting(ms, f) = Waiting(ls, TRUE)
      BY <1>6, <1>10
    <2>2. \A x \in Ids : before(ms, f, x) = before(ls, TRUE, x)
      BY <1>2, <1>7, <1>10, <2>1
    <2> HIDE DEF before
    <2>3. ASSUME NEW x \in Ids PROVE W.before[x] = V.before[x]
      <3>1. V.before[x] = before(ls, TRUE, x) /\ W.before[x] = before(ms, f, x)
        BY <1>4
      <3> QED BY <2>2, <3>1
    <2>4. W.before = V.before
      BY <1>5, <2>3
    <2> QED BY <1>8, <1>9, <1>10, <2>4 DEF Recorded
  <1>11. ASSUME r.phase = "committed" PROVE Recorded(V, Waiting(ls, TRUE), r, W)
    <2>1. Waiting(ms, f) = Waiting(ls, TRUE) \ {r.id}
      BY <1>6, <1>11
    <2>2. \A x \in Ids : before(ms, f, x) = IF x = r.id THEN {} ELSE before(ls, TRUE, x) \ {r.id}
      BY <1>2, <1>7, <1>11, <2>1
    <2> HIDE DEF before
    <2>3. W.before = [y \in Ids |-> IF y = r.id THEN {} ELSE V.before[y] \ {r.id}]
      <3>1. \A y \in Ids : W.before[y] = IF y = r.id THEN {} ELSE V.before[y] \ {r.id}
        BY <1>4, <2>2
      <3> QED BY <3>1, <1>5
    <2> QED BY <1>8, <1>9, <1>11, <2>3 DEF Recorded
  <1>12. ASSUME r.phase = "prepared" PROVE Recorded(V, Waiting(ls, TRUE), r, W)
    <2>1. Waiting(ms, f) = (Waiting(ls, TRUE) \ {r.id}) \cup {r.id}
      BY <1>6, <1>12
    <2>2. /\ PreparedAt(ms, r.id) = n
          /\ \A x \in Ids : x # r.id => /\ PreparedAt(ms, x) = PreparedAt(ls, x)
                                        /\ PreparedAt(ms, x) < n /\ ~(n < PreparedAt(ms, x))
          /\ ~(n < n)
      <3>1. PreparedAt(ms, r.id) = n
        BY <1>1, <1>2, <1>12
      <3>2. ASSUME NEW x \in Ids, x # r.id
            PROVE  /\ PreparedAt(ms, x) = PreparedAt(ls, x)
                   /\ PreparedAt(ms, x) < n /\ ~(n < PreparedAt(ms, x))
        <4>1. PreparedAt(ms, x) = PreparedAt(ls, x) /\ PreparedAt(ls, x) \in 0 .. Len(ls)
          BY <1>2, <3>2
        <4> QED BY <1>1, <4>1
      <3>3. ~(n < n)
        BY <1>1
      <3> QED BY <3>1, <3>2, <3>3
    <2>3. before(ms, f, r.id) = Waiting(ls, TRUE) \ {r.id}
      BY <1>7, <2>1, <2>2
    <2>4. \A x \in Ids : x # r.id => before(ms, f, x) = before(ls, TRUE, x) \ {r.id}
      BY <1>1, <1>7, <2>1, <2>2
    <2> HIDE DEF before
    <2>5. W.before = [y \in Ids |-> IF y = r.id THEN Waiting(ls, TRUE) \ {r.id} ELSE V.before[y] \ {r.id}]
      <3>1. W.before[r.id] = Waiting(ls, TRUE) \ {r.id}
        BY <1>1, <1>4, <2>3
      <3>2. ASSUME NEW y \in Ids, y # r.id PROVE W.before[y] = V.before[y] \ {r.id}
        BY <1>4, <2>4, <3>2
      <3>3. \A y \in Ids : W.before[y] = IF y = r.id THEN Waiting(ls, TRUE) \ {r.id} ELSE V.before[y] \ {r.id}
        BY <3>1, <3>2
      <3> QED BY <3>3, <1>5
    <2> QED BY <1>8, <1>9, <1>12, <2>5 DEF Recorded
  <1>13. Recorded(V, Waiting(ls, TRUE), r, W)
    BY <1>1, <1>10, <1>11, <1>12
  <1> QED BY <1>13 DEF V, W, ms

\* The last record's phase tells the phases there are, when they are in order.
LEMMA PhaseBySeen ==
    ASSUME NEW ls \in Seq(Lines), Parse(ls), InPhaseOrder(RecordsIn(ls)), NEW x \in Ids
    PROVE  /\ PhaseOf(ls, TRUE, x) \in {"absent", "prepared", "observed", "committed"}
           /\ PhaseOf(ls, TRUE, x) = "absent" => Seen(RecordsIn(ls), x) = {}
           /\ PhaseOf(ls, TRUE, x) = "prepared" => Seen(RecordsIn(ls), x) = {"prepared"}
           /\ PhaseOf(ls, TRUE, x) = "observed" => Seen(RecordsIn(ls), x) = {"prepared", "observed"}
           /\ PhaseOf(ls, TRUE, x) = "committed" => Seen(RecordsIn(ls), x) = {"prepared", "observed", "committed"}
  <1> DEFINE rs == RecordsIn(ls)
             S == LinesOf(ls, TRUE, x)
             m == LastOf(ls, TRUE, x)
  <1>1. /\ rs \in Seq(Records) /\ DOMAIN rs = DOMAIN ls /\ DOMAIN ls = 1 .. Len(ls) /\ Len(ls) \in Nat
        /\ \A i \in DOMAIN ls : ls[i].rec = {rs[i]} /\ rs[i] \in Records
    <2>1. /\ rs \in Seq(Records) /\ DOMAIN rs = DOMAIN ls /\ \A i \in DOMAIN ls : ls[i].rec = {rs[i]}
      BY ParsedLines
    <2> QED BY <2>1
  <1> HIDE DEF rs
  <1>2. S = {i \in DOMAIN rs : rs[i].id = x}
    BY <1>1 DEF LinesOf, Counted
  <1>3. /\ m \in {0} \cup S /\ \A i \in S : i <= m
        /\ m = 0 <=> S = {}
    <2>1. S \in SUBSET DOMAIN ls
      BY <1>1, <1>2
    <2> QED BY <2>1, LastLine DEF LastOf
  <1>4. CASE m = 0
    <2>1. PhaseOf(ls, TRUE, x) = "absent"
      BY <1>4 DEF PhaseOf
    <2>2. Seen(rs, x) = {}
      BY <1>2, <1>3, <1>4 DEF Seen
    <2> QED BY <2>1, <2>2 DEF rs
  <1>5. CASE m # 0
    <2>1. m \in DOMAIN rs /\ rs[m].id = x /\ m \in DOMAIN ls
      BY <1>1, <1>2, <1>3, <1>5
    <2>2. PhaseOf(ls, TRUE, x) = rs[m].phase
      BY <1>1, <1>5, <2>1 DEF PhaseOf, RecordOf
    <2>3. Seen(rs, x) = PhasesBefore(rs, m) \cup {rs[m].phase}
      <3>1. \A j \in DOMAIN rs : rs[j].id = x <=> j = m \/ (j \in 1 .. (m - 1) /\ rs[j].id = x)
        <4>1. \A j \in S : j <= m
          BY <1>3
        <4>2. m \in 1 .. Len(ls)
          BY <1>1, <2>1
        <4> HIDE DEF m, S
        <4> QED BY <1>1, <1>2, <2>1, <4>1, <4>2
      <3>2. \A j \in 1 .. (m - 1) : j \in DOMAIN rs
        <4>1. m \in 1 .. Len(ls)
          BY <1>1, <2>1
        <4> HIDE DEF m, S
        <4> QED BY <1>1, <4>1
      <3> QED BY <2>1, <3>1, <3>2 DEF Seen, PhasesBefore
    <2>4. PhasesBefore(rs, m) = Preceding(rs[m].phase)
      BY <2>1 DEF InPhaseOrder, rs
    <2>5. rs[m].phase \in {"prepared", "observed", "committed"}
      BY <1>1, <2>1 DEF Records
    <2> QED BY <2>2, <2>3, <2>4, <2>5 DEF Preceding, rs
  <1> QED BY <1>4, <1>5

-----------------------------------------------------------------------------
(* The fold, as evidence                                                   *)

\* The lines of an id in a file whose lines parse are those of its records.
LEMMA LastRecord ==
    ASSUME NEW ls \in Seq(Lines), Parse(ls), NEW x \in Ids, NEW j, IsLast(RecordsIn(ls), j, x)
    PROVE  /\ LastOf(ls, TRUE, x) = j /\ j # 0
           /\ RecordOf(ls, j) = RecordsIn(ls)[j]
           /\ PhaseOf(ls, TRUE, x) = RecordsIn(ls)[j].phase
  <1> DEFINE rs == RecordsIn(ls)
             S == LinesOf(ls, TRUE, x)
  <1>1. /\ DOMAIN rs = DOMAIN ls /\ DOMAIN ls = 1 .. Len(ls) /\ Len(ls) \in Nat
        /\ \A i \in DOMAIN ls : ls[i].rec = {rs[i]}
    BY ParsedLines
  <1> HIDE DEF rs
  <1>2. S = {i \in DOMAIN rs : rs[i].id = x}
    BY <1>1 DEF LinesOf, Counted
  <1>3. j \in S /\ (\A i \in S : i <= j) /\ j \in DOMAIN ls
    BY <1>1, <1>2 DEF IsLast, rs
  <1>4. S \in SUBSET DOMAIN ls
    BY <1>1, <1>2
  <1>5. LastOf(ls, TRUE, x) = j
    BY <1>3, <1>4, LastLine DEF LastOf
  <1>6. RecordOf(ls, j) = rs[j]
    BY <1>1, <1>3 DEF RecordOf
  <1>7. j # 0
    BY <1>1, <1>3
  <1> QED BY <1>5, <1>6, <1>7 DEF PhaseOf, rs

\* The Prepared records of ids that are prepared in an order are on lines in this
\* order.
LEMMA PreparedInOrder ==
    ASSUME NEW ls \in Seq(Lines), Parse(ls), NEW x \in Ids, NEW y \in Ids,
           "prepared" \in Seen(RecordsIn(ls), x), "prepared" \in Seen(RecordsIn(ls), y),
           PreparedFirst(RecordsIn(ls), x, y)
    PROVE  /\ PreparedAt(ls, x) < PreparedAt(ls, y)
           /\ PreparedAt(ls, x) \in Nat /\ PreparedAt(ls, y) \in Nat
  <1> DEFINE rs == RecordsIn(ls)
  <1>1. /\ DOMAIN rs = DOMAIN ls /\ DOMAIN ls = 1 .. Len(ls) /\ Len(ls) \in Nat
        /\ \A i \in DOMAIN ls : ls[i].rec = {rs[i]}
    BY ParsedLines
  <1> HIDE DEF rs
  <1>2. ASSUME NEW z \in Ids, "prepared" \in Seen(rs, z)
        PROVE  /\ PreparedAt(ls, z) \in DOMAIN rs /\ rs[PreparedAt(ls, z)].id = z
               /\ rs[PreparedAt(ls, z)].phase = "prepared"
    <2>1. PreparedLines(ls, z) = {i \in DOMAIN rs : rs[i].id = z /\ rs[i].phase = "prepared"}
      BY <1>1 DEF PreparedLines
    <2>2. PreparedLines(ls, z) # {} /\ PreparedLines(ls, z) \in SUBSET DOMAIN ls
      BY <1>1, <1>2, <2>1 DEF Seen
    <2>3. PreparedAt(ls, z) \in PreparedLines(ls, z)
      BY <2>2, LastLine DEF PreparedAt
    <2> QED BY <2>1, <2>3
  <1>3. PreparedAt(ls, x) \in DOMAIN rs /\ PreparedAt(ls, y) \in DOMAIN rs
    BY <1>2 DEF rs
  <1>4. PreparedAt(ls, x) < PreparedAt(ls, y)
    BY <1>2 DEF PreparedFirst, rs
  <1> QED BY <1>1, <1>3, <1>4

\* What the fold returns is what the lines are evidence of.
LEMMA ViewOfFold ==
    ASSUME NEW ls \in Seq(Lines), Parse(ls), Ok(ls)
    PROVE  /\ \A k \in DOMAIN Pends(ls) :
                 /\ Pends(ls)[k].id \in Waiting(ls, TRUE)
                 /\ PhaseOf(ls, TRUE, Pends(ls)[k].id)
                      = IF Pends(ls)[k].observed THEN "observed" ELSE "prepared"
                 /\ RecordOf(ls, LastOf(ls, TRUE, Pends(ls)[k].id)).state = Pends(ls)[k].state
           /\ \A x \in Waiting(ls, TRUE) : \E k \in DOMAIN Pends(ls) : Pends(ls)[k].id = x
           /\ \A k, l \in DOMAIN Pends(ls) :
                 k < l <=> PreparedAt(ls, Pends(ls)[k].id) < PreparedAt(ls, Pends(ls)[l].id)
  <1> DEFINE rs == RecordsIn(ls)
             F == PendingWithEvidence(rs)
             P == Pends(ls)
  <1>1. /\ rs \in Seq(Records) /\ F \in Folds /\ P \in Seq(PendingEntries)
        /\ P = F.pending /\ Matches(rs, F) /\ InPhaseOrder(rs)
    <2>1. rs \in Seq(Records)
      BY ParsedLines
    <2> QED BY <2>1, FoldOfLines, FoldIsReference DEF Pends, Ok
  <1>2. ASSUME NEW k \in DOMAIN P PROVE P[k] \in PendingEntries /\ P[k].id \in Ids /\ EntryMatches(rs, P[k])
    <2>1. P[k] \in PendingEntries
      BY <1>1
    <2> QED BY <1>1, <2>1 DEF PendingEntries, Matches
  <1>3. ASSUME NEW k \in DOMAIN P
        PROVE  /\ P[k].id \in Waiting(ls, TRUE)
               /\ PhaseOf(ls, TRUE, P[k].id) = IF P[k].observed THEN "observed" ELSE "prepared"
               /\ RecordOf(ls, LastOf(ls, TRUE, P[k].id)).state = P[k].state
    <2>1. PICK j : /\ IsLast(rs, j, P[k].id) /\ rs[j].state = P[k].state
                   /\ rs[j].phase = IF P[k].observed THEN "observed" ELSE "prepared"
      BY <1>2 DEF EntryMatches
    <2>2. P[k].id \in Ids
      BY <1>2
    <2> HIDE DEF P
    <2>3. /\ LastOf(ls, TRUE, P[k].id) = j /\ RecordOf(ls, j) = rs[j]
          /\ PhaseOf(ls, TRUE, P[k].id) = rs[j].phase
      BY <2>1, <2>2, LastRecord
    <2> QED BY <2>1, <2>2, <2>3 DEF Waiting
  <1>4. ASSUME NEW x \in Waiting(ls, TRUE) PROVE \E k \in DOMAIN P : P[k].id = x
    <2>1. x \in Ids /\ PhaseOf(ls, TRUE, x) \in {"prepared", "observed"}
      BY DEF Waiting
    <2>2. Seen(rs, x) \in {{"prepared"}, {"prepared", "observed"}}
      BY <1>1, <2>1, PhaseBySeen
    <2>3. "committed" \notin Seen(rs, x) /\ Seen(rs, x) # {}
      BY <2>2
    <2>4. x \notin F.terminal
      BY <1>1, <2>3 DEF Matches
    <2> QED BY <1>1, <2>1, <2>3, <2>4 DEF Matches
  <1>5. ASSUME NEW k \in DOMAIN P, NEW l \in DOMAIN P, k < l
        PROVE  /\ PreparedAt(ls, P[k].id) < PreparedAt(ls, P[l].id)
               /\ PreparedAt(ls, P[k].id) \in Nat /\ PreparedAt(ls, P[l].id) \in Nat
    <2>1. PreparedFirst(rs, P[k].id, P[l].id)
      BY <1>1, <1>5 DEF Matches
    <2>2. "prepared" \in Seen(rs, P[k].id) /\ "prepared" \in Seen(rs, P[l].id)
      BY <1>2 DEF EntryMatches
    <2>3. P[k].id \in Ids /\ P[l].id \in Ids
      BY <1>2
    <2> HIDE DEF P
    <2> QED BY <2>1, <2>2, <2>3, PreparedInOrder
  <1>6. ASSUME NEW k \in DOMAIN P, NEW l \in DOMAIN P
        PROVE  k < l <=> PreparedAt(ls, P[k].id) < PreparedAt(ls, P[l].id)
    <2>1. k \in Nat /\ l \in Nat
      BY <1>1
    <2>2. CASE k < l
      BY <1>5, <2>2
    <2>3. CASE k = l
      <3>1. P[k].id \in Ids
        BY <1>2
      <3>2. PreparedAt(ls, P[k].id) \in Nat
        <4>1. PreparedLines(ls, P[k].id) \in SUBSET DOMAIN ls
          BY DEF PreparedLines
        <4> HIDE DEF P
        <4>2. PreparedAt(ls, P[k].id) \in 0 .. Len(ls)
          BY <4>1, LastLine DEF PreparedAt
        <4> QED BY <4>2
      <3> HIDE DEF P
      <3> QED BY <2>1, <2>3, <3>2
    <2>4. CASE l < k
      <3>1. /\ PreparedAt(ls, P[l].id) < PreparedAt(ls, P[k].id)
            /\ PreparedAt(ls, P[k].id) \in Nat /\ PreparedAt(ls, P[l].id) \in Nat
        BY <1>5, <2>4
      <3> HIDE DEF P
      <3> QED BY <2>1, <2>4, <3>1
    <2> QED BY <2>1, <2>2, <2>3, <2>4
  <1> QED BY <1>3, <1>4, <1>6

\* A record folds where the evidence has its id in the phase it must find.
LEMMA RecordFolds ==
    ASSUME NEW ls \in Seq(Lines), Parse(ls), Ok(ls), NEW r \in Records
    PROVE  Ok(Append(ls, Line(r))) <=> PhaseOf(ls, TRUE, r.id) = Evidence!RequiredPhase(r.phase)
  <1> DEFINE rs == RecordsIn(ls)
             x == r.id
  <1>1. rs \in Seq(Records) /\ InPhaseOrder(rs)
    BY ParsedLines, FoldIsReference DEF Ok
  <1>2. /\ Append(rs, r) \in Seq(Records)
        /\ Ok(Append(ls, Line(r))) <=> InPhaseOrder(Append(rs, r))
    <2>1. RecordsIn(Append(ls, Line(r))) = Append(rs, r)
      BY AppendLine
    <2>2. Append(rs, r) \in Seq(Records)
      BY <1>1
    <2> HIDE DEF rs
    <2>3. PendingWithEvidence(Append(rs, r)).ok <=> InPhaseOrder(Append(rs, r))
      BY <2>2, FoldIsReference
    <2> QED BY <2>1, <2>2, <2>3 DEF Ok
  <1>3. Ok(Append(ls, Line(r))) <=> Seen(rs, x) = Preceding(r.phase)
    BY <1>1, <1>2, OrderAppend
  <1>4. r.phase \in {"prepared", "observed", "committed"} /\ x \in Ids
    BY DEF Records
  <1>5. /\ PhaseOf(ls, TRUE, x) \in {"absent", "prepared", "observed", "committed"}
        /\ PhaseOf(ls, TRUE, x) = "absent" => Seen(rs, x) = {}
        /\ PhaseOf(ls, TRUE, x) = "prepared" => Seen(rs, x) = {"prepared"}
        /\ PhaseOf(ls, TRUE, x) = "observed" => Seen(rs, x) = {"prepared", "observed"}
        /\ PhaseOf(ls, TRUE, x) = "committed" => Seen(rs, x) = {"prepared", "observed", "committed"}
    BY <1>1, <1>4, PhaseBySeen
  <1> HIDE DEF rs, x
  <1>6. /\ {"prepared", "observed", "committed"} \notin {{}, {"prepared"}, {"prepared", "observed"}}
        /\ {"prepared", "observed"} # {"prepared"}
        /\ {"prepared", "observed"} # {} /\ {"prepared"} # {}
    <2>1. /\ "committed" \in {"prepared", "observed", "committed"} /\ "committed" \notin {"prepared", "observed"}
          /\ "committed" \notin {"prepared"} /\ "observed" \in {"prepared", "observed"}
          /\ "observed" \notin {"prepared"} /\ "prepared" \in {"prepared"}
      OBVIOUS
    <2> QED BY <2>1
  <1>7. Seen(rs, x) = Preceding(r.phase) <=> PhaseOf(ls, TRUE, x) = Evidence!RequiredPhase(r.phase)
    <2>1. CASE r.phase = "prepared"
      BY <1>5, <1>6, <2>1 DEF Preceding, Evidence!RequiredPhase
    <2>2. CASE r.phase = "observed"
      BY <1>5, <1>6, <2>2 DEF Preceding, Evidence!RequiredPhase
    <2>3. CASE r.phase = "committed"
      BY <1>5, <1>6, <2>3 DEF Preceding, Evidence!RequiredPhase
    <2> QED BY <1>4, <2>1, <2>2, <2>3
  <1> QED BY <1>3, <1>7 DEF x

-----------------------------------------------------------------------------
(* The view of the lines                                                   *)

\* The fields of the view.
LEMMA ShownView ==
    ASSUME Shown
    PROVE  /\ view.defect = IF ~AllParse THEN "malformed"
                            ELSE IF PendingWithEvidence(TheRecords).ok THEN "none" ELSE "sequence"
           /\ RecordsFold => view = View(lines, TRUE)
           /\ \A x \in Ids : RecordsFold => view.phase[x] = PhaseOf(lines, TRUE, x)
           /\ RecordsFold => Evidence!Pending = Waiting(lines, TRUE)
           /\ Evidence!Clean <=> ~marker /\ Classify = "clean"
  <1>1. PICK f \in BOOLEAN : (f <=> RecordsFold) /\ view = View(lines, f)
    BY DEF Shown
  <1>2. view.defect = IF ~AllParse THEN "malformed"
                      ELSE IF PendingWithEvidence(TheRecords).ok THEN "none" ELSE "sequence"
    <2>1. View(lines, f).defect = IF ~Parse(lines) THEN "malformed" ELSE IF f THEN "none" ELSE "sequence"
      BY DEF View
    <2> QED BY <1>1, <2>1, RecordsOfLines DEF RecordsFold
  <1>3. RecordsFold => view = View(lines, TRUE)
    <2>1. RecordsFold => f = TRUE
      BY <1>1
    <2> QED BY <1>1, <2>1
  <1>4. ASSUME NEW x \in Ids, RecordsFold PROVE view.phase[x] = PhaseOf(lines, TRUE, x)
    <2>1. View(lines, TRUE).phase[x] = PhaseOf(lines, TRUE, x)
      BY DEF View
    <2> QED BY <1>3, <1>4, <2>1
  <1>5. RecordsFold => Evidence!Pending = Waiting(lines, TRUE)
    BY <1>4 DEF Evidence!Pending, Waiting
  <1>6. Evidence!Clean <=> ~marker /\ Classify = "clean"
    BY <1>2 DEF Evidence!Clean, Classify
  <1> QED BY <1>2, <1>3, <1>4, <1>5, <1>6

\* The lines after a step.
LEMMA OfNextLines ==
    /\ AllParse' <=> Parse(lines')
    /\ PendingWithEvidence(TheRecords).ok' <=> Ok(lines')
  BY DEF AllParse, TheRecords, Parse, RecordsIn, Ok

\* A whole record on a line of its own is folded into the evidence.
LEMMA AppendedEvidence ==
    ASSUME FileTypeOK, AllParse, PendingWithEvidence(TheRecords).ok, Shown, Shown',
           NEW r \in Records, lines' = Append(lines, Line(r))
    PROVE  Evidence!Fold(r.id, r.phase, r.state)
  <1> DEFINE ls == lines
             ms == Append(lines, Line(r))
  <1>1. ls \in Seq(Lines) /\ Parse(ls) /\ Ok(ls) /\ RecordsFold /\ Parse(ms)
    BY OfLines, AppendLine DEF FileTypeOK, RecordsFold
  <1>2. PICK g \in BOOLEAN : (g <=> RecordsFold') /\ view' = View(ms, g)
    BY DEF Shown
  <1>3. g <=> Ok(ms)
    <2>1. lines' = ms /\ (AllParse' <=> Parse(lines')) /\ (PendingWithEvidence(TheRecords).ok' <=> Ok(lines'))
      BY OfNextLines
    <2> QED BY <1>1, <1>2, <2>1 DEF RecordsFold
  <1>4. /\ view = View(ls, TRUE) /\ view.defect = "none"
        /\ view.phase[r.id] = PhaseOf(ls, TRUE, r.id)
        /\ Evidence!Pending = Waiting(ls, TRUE)
        /\ r.id \in Ids /\ r.phase \in {"prepared", "observed", "committed"}
    <2>1. r.id \in Ids /\ r.phase \in {"prepared", "observed", "committed"}
      BY DEF Records
    <2> QED BY <1>1, <2>1, ShownView
  <1>5. view'.defect = IF g THEN "none" ELSE "sequence"
    BY <1>1, <1>2 DEF View
  <1>6. Ok(ms) <=> view.phase[r.id] = Evidence!RequiredPhase(r.phase)
    BY <1>1, <1>4, RecordFolds
  <1>7. Counted(ms, g) = IF g \/ r.phase = "prepared" THEN DOMAIN ms ELSE DOMAIN ls
    <2>1. Counted(ms, TRUE) = DOMAIN ms /\ Counted(ms, FALSE) = IF r.phase = "prepared" THEN DOMAIN ms ELSE DOMAIN ls
      BY <1>1, CountedLines
    <2>2. g = TRUE \/ g = FALSE
      BY <1>2
    <2> QED BY <2>1, <2>2
  <1>8. ASSUME g \/ r.phase = "prepared"
        PROVE  /\ view'.phase = [view.phase EXCEPT ![r.id] = r.phase]
               /\ view'.before = Evidence!FoldOrder(r.id, r.phase)
               /\ view'.snap = [view.snap EXCEPT ![r.id] = IF r.phase = "committed" THEN NoState ELSE r.state]
    <2>1. Counted(ms, g) = DOMAIN ms
      BY <1>7, <1>8
    <2>2. r.phase = "observed" => r.id \in Waiting(ls, TRUE)
      <3>1. r.phase = "observed" => PhaseOf(ls, TRUE, r.id) = "prepared"
        BY <1>3, <1>4, <1>6, <1>8 DEF Evidence!RequiredPhase
      <3> QED BY <1>4, <3>1 DEF Waiting
    <2>3. Recorded(View(ls, TRUE), Waiting(ls, TRUE), r, View(ms, g))
      <3>1. ms = Append(ls, Line(r))
        OBVIOUS
      <3> HIDE DEF ls, ms
      <3> QED BY <1>1, <2>1, <2>2, <3>1, CountedEvidence
    <2> HIDE DEF ls, ms
    <2> QED BY <1>2, <1>4, <2>3 DEF Evidence!FoldOrder, Recorded
  <1>9. CASE g
    BY <1>3, <1>4, <1>5, <1>6, <1>8, <1>9 DEF Evidence!Fold, Evidence!FoldLegal
  <1>10. CASE ~g /\ r.phase = "prepared"
    BY <1>3, <1>4, <1>5, <1>6, <1>8, <1>10 DEF Evidence!Fold, Evidence!FoldIllegal
  <1>11. CASE ~g /\ r.phase # "prepared"
    <2>1. Counted(ms, g) = DOMAIN ls
      BY <1>7, <1>11
    <2>2. /\ view'.phase = view.phase /\ view'.before = view.before /\ view'.snap = view.snap
      BY <1>1, <1>2, <1>4, <1>11, <2>1, UncountedRecord
    <2> QED BY <1>3, <1>4, <1>5, <1>6, <1>11, <2>2 DEF Evidence!Fold, Evidence!FoldIllegal
  <1> QED BY <1>9, <1>10, <1>11

\* A record that shares its line with an unfinished one adds no evidence.
LEMMA GluedEvidence ==
    ASSUME FileTypeOK, AllParse, PendingWithEvidence(TheRecords).ok, Shown, Shown',
           tail # "terminated", lines' = Mangle
    PROVE  Evidence!Glue
  <1> DEFINE ls == lines
             ms == Mangle
  <1>1. ls \in Seq(Lines) /\ ms \in Seq(Lines) /\ RecordsFold /\ ~Parse(ms)
    BY MangledLines DEF FileTypeOK, RecordsFold
  <1>2. PICK g \in BOOLEAN : (g <=> RecordsFold') /\ view' = View(ms, g)
    BY DEF Shown
  <1>3. g = TRUE
    <2>1. lines' = ms /\ (AllParse' <=> Parse(lines'))
      BY OfNextLines
    <2> QED BY <1>1, <1>2, <2>1 DEF RecordsFold
  <1>4. view = View(ls, TRUE)
    BY <1>1, ShownView
  <1>5. /\ DOMAIN ls \subseteq DOMAIN ms
        /\ \A i \in DOMAIN ls : ms[i].rec = ls[i].rec
        /\ \A i \in DOMAIN ms : i \notin DOMAIN ls => ms[i].rec = {}
    <2>1. tail \in {"unterminated", "partial"} /\ (tail = "unterminated" => ls # <<>>)
      BY DEF FileTypeOK
    <2>2. CASE tail = "partial"
      <3>1. ms = Append(ls, [parses |-> FALSE, rec |-> {}])
        BY <2>2 DEF Mangle
      <3>2. /\ DOMAIN ls = 1 .. Len(ls) /\ Len(ls) \in Nat
            /\ DOMAIN ms = 1 .. (Len(ls) + 1) /\ \A i \in 1 .. Len(ls) : ms[i] = ls[i]
            /\ ms[Len(ls) + 1] = [parses |-> FALSE, rec |-> {}]
        BY <1>1, <3>1
      <3> HIDE DEF ms
      <3> QED BY <3>2
    <2>3. CASE tail = "unterminated"
      <3>1. ms = [ls EXCEPT ![Len(ls)].parses = FALSE]
        BY <2>3 DEF Mangle
      <3>2. DOMAIN ms = DOMAIN ls /\ \A i \in DOMAIN ls : ms[i].rec = ls[i].rec
        <4>1. Len(ls) \in DOMAIN ls /\ \A i \in DOMAIN ls : ls[i] \in [parses : BOOLEAN, rec : {{}} \cup {{r} : r \in Records}]
          BY <1>1, <2>1, <2>3 DEF Lines
        <4> HIDE DEF ms
        <4> QED BY <3>1, <4>1
      <3> QED BY <3>2
    <2> QED BY <2>1, <2>2, <2>3
  <1> HIDE DEF ms, ls
  <1>6. ASSUME NEW x \in Ids
        PROVE  /\ LinesOf(ms, g, x) = LinesOf(ls, TRUE, x)
               /\ PreparedLines(ms, x) = PreparedLines(ls, x)
               /\ LastOf(ls, TRUE, x) # 0 => ms[LastOf(ls, TRUE, x)].rec = ls[LastOf(ls, TRUE, x)].rec
    <2>1. LinesOf(ms, g, x) = LinesOf(ls, TRUE, x)
      BY <1>3, <1>5 DEF LinesOf, Counted
    <2>2. PreparedLines(ms, x) = PreparedLines(ls, x)
      BY <1>5 DEF PreparedLines
    <2>3. LinesOf(ls, TRUE, x) \in SUBSET DOMAIN ls
      BY DEF LinesOf, Counted
    <2>4. LastOf(ls, TRUE, x) # 0 => LastOf(ls, TRUE, x) \in DOMAIN ls
      BY <1>1, <2>3, LastLine DEF LastOf
    <2> QED BY <1>5, <2>1, <2>2, <2>4
  <1>7. /\ view'.phase = view.phase /\ view'.before = view.before /\ view'.snap = view.snap
    <2> DEFINE f == TRUE
    <2>1. f \in BOOLEAN
      OBVIOUS
    <2>2. view = View(ls, f)
      BY <1>4
    <2>3. \A x \in Ids :
             /\ LinesOf(ms, g, x) = LinesOf(ls, f, x)
             /\ PreparedLines(ms, x) = PreparedLines(ls, x)
             /\ LastOf(ls, f, x) # 0 => ms[LastOf(ls, f, x)].rec = ls[LastOf(ls, f, x)].rec
      BY <1>6
    <2> HIDE DEF f
    <2>4. /\ View(ms, g).phase = View(ls, f).phase /\ View(ms, g).before = View(ls, f).before
          /\ View(ms, g).snap = View(ls, f).snap
      BY <2>1, <2>3, SameEvidence
    <2> QED BY <1>2, <2>2, <2>4
  <1>8. view'.defect = "malformed"
    BY <1>1, <1>2 DEF View
  <1> QED BY <1>7, <1>8 DEF Evidence!Glue

\* Compaction keeps the evidence of what is pending.
LEMMA CompactedEvidence ==
    ASSUME FileTypeOK, AllParse, PendingWithEvidence(TheRecords).ok, Shown, Shown',
           lines' = CompactLines
    PROVE  /\ view'.phase = [x \in Ids |-> IF x \in Evidence!Pending THEN view.phase[x] ELSE "absent"]
           /\ view'.before = view.before /\ view'.snap = view.snap /\ view'.defect = view.defect
  <1> DEFINE ls == lines
             ms == CompactLines
             P == Pends(ls)
  <1>1. ls \in Seq(Lines) /\ Parse(ls) /\ Ok(ls) /\ RecordsFold
    BY OfLines DEF FileTypeOK, RecordsFold
  <1>2. /\ ms \in Seq(Lines) /\ Parse(ms)
        /\ PendingWithEvidence(RecordsIn(ms)).ok /\ PendingWithEvidence(RecordsIn(ms)).pending = P
        /\ PendingWithEvidence(RecordsIn(ms)).terminal = {}
    <2>1. PendingWithEvidence(RecordsIn(ls)) \in Folds
      BY <1>1, FoldOfLines
    <2>2. ms = Compacted(P)
      BY RecordsOfLines DEF CompactLines, Compacted, Pends
    <2> HIDE DEF ms
    <2> QED BY <2>1, <2>2, CompactionFolds DEF Pends
  <1>3. PICK g \in BOOLEAN : (g <=> RecordsFold') /\ view' = View(ms, g)
    BY DEF Shown
  <1> HIDE DEF ms
  <1>4. Ok(ms) /\ Pends(ms) = P
    BY <1>2 DEF Ok, Pends
  <1>a. ms \in Seq(Lines) /\ Parse(ms)
    BY <1>2
  <1>5. g = TRUE
    <2>1. lines' = ms /\ (AllParse' <=> Parse(lines')) /\ (PendingWithEvidence(TheRecords).ok' <=> Ok(lines'))
      BY OfNextLines DEF ms
    <2> QED BY <1>2, <1>3, <1>4, <2>1 DEF RecordsFold
  <1>6. view = View(ls, TRUE) /\ Evidence!Pending = Waiting(ls, TRUE)
        /\ \A x \in Ids : view.phase[x] = PhaseOf(ls, TRUE, x)
    BY <1>1, ShownView
  <1> HIDE DEF ls, P
  <1>7. /\ \A k \in DOMAIN P :
             /\ P[k].id \in Waiting(ls, TRUE)
             /\ PhaseOf(ls, TRUE, P[k].id) = IF P[k].observed THEN "observed" ELSE "prepared"
             /\ RecordOf(ls, LastOf(ls, TRUE, P[k].id)).state = P[k].state
        /\ \A x \in Waiting(ls, TRUE) : \E k \in DOMAIN P : P[k].id = x
        /\ \A k, l \in DOMAIN P : k < l <=> PreparedAt(ls, P[k].id) < PreparedAt(ls, P[l].id)
    BY <1>1, ViewOfFold DEF P
  <1>8. /\ \A k \in DOMAIN P :
             /\ P[k].id \in Waiting(ms, TRUE)
             /\ PhaseOf(ms, TRUE, P[k].id) = IF P[k].observed THEN "observed" ELSE "prepared"
             /\ RecordOf(ms, LastOf(ms, TRUE, P[k].id)).state = P[k].state
        /\ \A x \in Waiting(ms, TRUE) : \E k \in DOMAIN P : P[k].id = x
        /\ \A k, l \in DOMAIN P : k < l <=> PreparedAt(ms, P[k].id) < PreparedAt(ms, P[l].id)
    BY <1>4, <1>a, ViewOfFold
  <1>9. Waiting(ms, TRUE) = Waiting(ls, TRUE)
    <2>1. ASSUME NEW x \in Waiting(ms, TRUE) PROVE x \in Waiting(ls, TRUE)
      BY <1>7, <1>8
    <2>2. ASSUME NEW x \in Waiting(ls, TRUE) PROVE x \in Waiting(ms, TRUE)
      BY <1>7, <1>8
    <2> QED BY <2>1, <2>2
  <1>10. ASSUME NEW x \in Ids
         PROVE  PhaseOf(ms, TRUE, x) = IF x \in Waiting(ls, TRUE) THEN PhaseOf(ls, TRUE, x) ELSE "absent"
    <2>1. CASE x \in Waiting(ls, TRUE)
      <3>1. PICK k \in DOMAIN P : P[k].id = x
        BY <1>7, <2>1
      <3>2. PhaseOf(ls, TRUE, x) = PhaseOf(ms, TRUE, x)
        BY <1>7, <1>8, <3>1
      <3> QED BY <2>1, <3>2
    <2>2. CASE x \notin Waiting(ls, TRUE)
      <3>1. RecordsIn(ms) \in Seq(Records)
        BY <1>2, ParsedLines
      <3>2. InPhaseOrder(RecordsIn(ms)) /\ Matches(RecordsIn(ms), PendingWithEvidence(RecordsIn(ms)))
        BY <1>4, <3>1, FoldIsReference DEF Ok
      <3>3. \A k \in DOMAIN P : P[k].id # x
        BY <1>7, <2>2
      <3>4. Seen(RecordsIn(ms), x) = {}
        BY <1>2, <3>2, <3>3 DEF Matches
      <3>5. Seen(RecordsIn(ms), x) \notin
              {{"prepared"}, {"prepared", "observed"}, {"prepared", "observed", "committed"}}
        <4>1. "prepared" \notin Seen(RecordsIn(ms), x)
          BY <3>4
        <4> QED BY <4>1
      <3>6. PhaseOf(ms, TRUE, x) = "absent"
        BY <1>2, <3>2, <3>5, PhaseBySeen
      <3> QED BY <2>2, <3>6
    <2> QED BY <2>1, <2>2
  <1>11. view'.phase = [x \in Ids |-> IF x \in Evidence!Pending THEN view.phase[x] ELSE "absent"]
    <2>1. view' = View(ms, TRUE)
      BY <1>3, <1>5
    <2>2. View(ms, TRUE).phase = [x \in Ids |-> PhaseOf(ms, TRUE, x)]
      BY DEF View
    <2> QED BY <1>6, <1>10, <2>1, <2>2
  <1>12. view'.before = view.before
    <2>1. \A x, y \in Waiting(ls, TRUE) :
             PreparedAt(ms, y) < PreparedAt(ms, x) <=> PreparedAt(ls, y) < PreparedAt(ls, x)
      <3> SUFFICES ASSUME NEW x \in Waiting(ls, TRUE), NEW y \in Waiting(ls, TRUE)
                   PROVE  PreparedAt(ms, y) < PreparedAt(ms, x) <=> PreparedAt(ls, y) < PreparedAt(ls, x)
        OBVIOUS
      <3>1. PICK k \in DOMAIN P : P[k].id = x
        BY <1>7
      <3>2. PICK l \in DOMAIN P : P[l].id = y
        BY <1>7
      <3>3. l < k <=> PreparedAt(ms, P[l].id) < PreparedAt(ms, P[k].id)
        BY <1>8
      <3>4. l < k <=> PreparedAt(ls, P[l].id) < PreparedAt(ls, P[k].id)
        BY <1>7
      <3> QED BY <3>1, <3>2, <3>3, <3>4
    <2>2. \A x \in Ids :
            {y \in Waiting(ms, TRUE) : x \in Waiting(ms, TRUE) /\ PreparedAt(ms, y) < PreparedAt(ms, x)}
              = {y \in Waiting(ls, TRUE) : x \in Waiting(ls, TRUE) /\ PreparedAt(ls, y) < PreparedAt(ls, x)}
      BY <1>9, <2>1
    <2> QED BY <1>3, <1>5, <1>6, <2>2 DEF View
  <1>13. view'.snap = view.snap
    <2>1. \A x \in Ids :
            (IF x \in Waiting(ms, TRUE) THEN RecordOf(ms, LastOf(ms, TRUE, x)).state ELSE NoState)
              = (IF x \in Waiting(ls, TRUE) THEN RecordOf(ls, LastOf(ls, TRUE, x)).state ELSE NoState)
      <3>1. ASSUME NEW x \in Waiting(ls, TRUE)
            PROVE  RecordOf(ms, LastOf(ms, TRUE, x)).state = RecordOf(ls, LastOf(ls, TRUE, x)).state
        <4>1. PICK k \in DOMAIN P : P[k].id = x
          BY <1>7
        <4> QED BY <1>7, <1>8, <4>1
      <3> QED BY <1>9, <3>1
    <2> QED BY <1>3, <1>5, <1>6, <2>1 DEF View
  <1>14. view'.defect = view.defect
    BY <1>1, <1>2, <1>3, <1>5, <1>6 DEF View
  <1> QED BY <1>11, <1>12, <1>13, <1>14

-----------------------------------------------------------------------------
(* The file implements the evidence                                        *)

\* Each step of the file is one step of the evidence, or none.
LEMMA EvidenceStep ==
    ASSUME FileTypeOK, Shown, Shown', FileStep
    PROVE  [Evidence!JournalNext]_Evidence!journal
  <1> USE DEF Evidence!Phases
  <1>1. ASSUME NEW r \in Records PROVE r.id \in Ids /\ r.phase \in Evidence!Phases \ {"absent"} /\ r.state \in States
    BY DEF Records
  <1>2. UNCHANGED lines => UNCHANGED view
    <2> SUFFICES ASSUME UNCHANGED lines PROVE UNCHANGED view
      OBVIOUS
    <2>1. PICK f \in BOOLEAN : (f <=> RecordsFold) /\ view = View(lines, f)
      BY DEF Shown
    <2>2. PICK g \in BOOLEAN : (g <=> RecordsFold') /\ view' = View(lines', g)
      BY DEF Shown
    <2>3. RecordsFold' <=> RecordsFold
      BY DEF RecordsFold, AllParse, TheRecords
    <2>4. f = g
      BY <2>1, <2>2, <2>3
    <2> QED BY <2>1, <2>2, <2>4
  <1>3. /\ view.defect = IF ~AllParse THEN "malformed"
                         ELSE IF PendingWithEvidence(TheRecords).ok THEN "none" ELSE "sequence"
        /\ Evidence!Clean <=> ~marker /\ Classify = "clean"
    BY ShownView
  <1>4. ASSUME AllParse, PendingWithEvidence(TheRecords).ok, NEW r \in Records, Write(r)
        PROVE  Evidence!AppendOk(r.id, r.phase, r.state)
    <2>1. CASE tail = "terminated"
      <3>1. Evidence!Fold(r.id, r.phase, r.state)
        BY <1>4, <2>1, AppendedEvidence DEF Write
      <3> QED BY <1>4, <2>1, <3>1 DEF Write, Evidence!AppendOk
    <2>2. CASE tail # "terminated"
      <3>1. Evidence!Glue
        BY <1>4, <2>2, GluedEvidence DEF Write
      <3> QED BY <1>4, <2>2, <3>1 DEF Write, Evidence!AppendOk
    <2> QED BY <2>1, <2>2
  <1>5. ASSUME AllParse, PendingWithEvidence(TheRecords).ok, NEW r \in Records, WriteTorn(r)
        PROVE  Evidence!AppendTorn(r.id, r.phase, r.state)
    <2>1. CASE tail' = "partial" /\ UNCHANGED lines
      BY <1>2, <1>5, <2>1 DEF WriteTorn, Evidence!AppendTorn
    <2>2. CASE tail' \in {"unterminated", "terminated"} /\ lines' = Append(lines, Line(r))
      <3>1. Evidence!Fold(r.id, r.phase, r.state)
        BY <1>5, <2>2, AppendedEvidence
      <3> QED BY <1>5, <2>2, <3>1 DEF WriteTorn, Evidence!AppendTorn
    <2> QED BY <1>5, <2>1, <2>2 DEF WriteTorn
  <1>6. CASE Recover
    <2>1. Evidence!RecoverClean
      BY <1>2, <1>3, <1>6 DEF Recover, Evidence!RecoverClean
    <2> QED BY <2>1 DEF Evidence!JournalNext
  <1>7. CASE RecoverRefused
    <2>1. Classify = "incomplete_suffix" <=> tail = "partial" /\ view.defect # "malformed"
      BY <1>3 DEF Classify
    <2>2. UNCHANGED view /\ UNCHANGED tail /\ ~Evidence!Clean
      BY <1>2, <1>3, <1>7 DEF RecoverRefused
    <2>3. marker' = (marker \/ (tail = "partial" /\ view.defect # "malformed"))
      BY <1>7, <2>1 DEF RecoverRefused
    <2>4. Evidence!RecoverBlocked
      BY <2>2, <2>3 DEF Evidence!RecoverBlocked
    <2> QED BY <2>4 DEF Evidence!JournalNext
  <1>8. CASE RecoverPreservationFailed
    <2>1. /\ Classify = "incomplete_suffix" <=> tail = "partial" /\ view.defect # "malformed"
          /\ Classify = "clean" <=> tail # "partial" /\ view.defect = "none"
      BY <1>3 DEF Classify
    <2>2. UNCHANGED view /\ ~marker
      BY <1>2, <1>8 DEF RecoverPreservationFailed
    <2>3. tail # "terminated" \/ view.defect # "none"
      BY <1>8, <2>1 DEF RecoverPreservationFailed
    <2>4. /\ \/ UNCHANGED tail
             \/ tail = "unterminated" /\ view.defect = "none" /\ tail' = "terminated"
          /\ marker' = FALSE \/ marker' = (tail = "partial" /\ view.defect # "malformed")
      <3>1. CASE UNCHANGED <<tail, marker>>
        BY <2>2, <3>1 DEF FileTypeOK
      <3>2. CASE Classify = "incomplete_suffix" /\ marker' = TRUE /\ UNCHANGED tail
        BY <2>1, <3>2
      <3>3. CASE Classify = "clean" /\ tail' = "terminated" /\ UNCHANGED marker
        BY <1>8, <2>1, <2>2, <3>3 DEF RecoverPreservationFailed, FileTypeOK
      <3> QED BY <1>8, <3>1, <3>2, <3>3 DEF RecoverPreservationFailed
    <2>5. Evidence!RecoverFailed
      BY <2>2, <2>3, <2>4 DEF Evidence!RecoverFailed
    <2> QED BY <2>5 DEF Evidence!JournalNext
  <1>9. CASE CompactFile
    <2>1. AllParse /\ PendingWithEvidence(TheRecords).ok
      BY <1>9 DEF CompactFile, Classify, FileTypeOK
    <2>2. /\ view'.phase = [x \in Ids |-> IF x \in Evidence!Pending THEN view.phase[x] ELSE "absent"]
          /\ view'.before = view.before /\ view'.snap = view.snap /\ view'.defect = view.defect
      BY <1>9, <2>1, CompactedEvidence DEF CompactFile
    <2>3. Evidence!Compact
      BY <1>3, <1>9, <2>2 DEF CompactFile, Evidence!Compact
    <2> QED BY <2>3 DEF Evidence!JournalNext
  <1>10. CASE UNCHANGED file
    BY <1>2, <1>10 DEF file, Evidence!journal
  <1>11. CASE AllParse /\ PendingWithEvidence(TheRecords).ok /\ \E r \in Records : Write(r) \/ WriteTorn(r)
    <2>1. PICK r \in Records : Write(r) \/ WriteTorn(r)
      BY <1>11
    <2>2. Evidence!AppendOk(r.id, r.phase, r.state) \/ Evidence!AppendTorn(r.id, r.phase, r.state)
      BY <1>4, <1>5, <1>11, <2>1
    <2>3. r.id \in Ids /\ r.phase \in Evidence!Phases \ {"absent"} /\ r.state \in States
      BY <1>1
    <2> QED BY <2>2, <2>3 DEF Evidence!JournalNext
  <1> QED BY <1>6, <1>7, <1>8, <1>9, <1>10, <1>11 DEF FileStep

\* The view is kept.
LEMMA ShownKept ==
    ASSUME Shown, [EvidenceNext]_evidenceVars
    PROVE  Shown'
  <1>1. CASE EvidenceNext
    <2>1. PICK g \in {RecordsFold'} : view' = View(lines', g)
      BY <1>1 DEF EvidenceNext
    <2>2. g \in BOOLEAN /\ (g <=> RecordsFold')
      BY <2>1 DEF RecordsFold
    <2> QED BY <2>1, <2>2 DEF Shown
  <1>2. CASE UNCHANGED evidenceVars
    <2>1. UNCHANGED lines /\ UNCHANGED view
      BY <1>2 DEF evidenceVars, startVars, file
    <2>2. RecordsFold' <=> RecordsFold
      BY <2>1 DEF RecordsFold, AllParse, TheRecords
    <2> QED BY <2>1, <2>2 DEF Shown
  <1> QED BY <1>1, <1>2

\* A missing file is evidence of nothing.
LEMMA ShownFirst ==
    ASSUME EvidenceInit
    PROVE  Shown /\ Evidence!JournalInit
  <1>1. lines = <<>> /\ view = View(<<>>, TRUE) /\ tail = "terminated" /\ marker = FALSE
    BY DEF EvidenceInit, StartupInit, FileInit
  <1>2. RecordsFold
    <2>1. TheRecords = <<>>
      BY <1>1 DEF TheRecords
    <2> QED BY <2>1, FoldEmpty DEF RecordsFold, Nothing
  <1>3. Shown
    BY <1>1, <1>2 DEF Shown
  <1>4. ASSUME NEW x \in Ids PROVE PhaseOf(<<>>, TRUE, x) = "absent"
    <2>1. LinesOf(<<>>, TRUE, x) = {}
      BY DEF LinesOf, Counted
    <2>2. <<>> \in Seq(Lines)
      BY EmptySeq
    <2>3. LinesOf(<<>>, TRUE, x) \in SUBSET DOMAIN <<>>
      BY <2>1
    <2>4. LastOf(<<>>, TRUE, x) = 0
      BY <2>1, <2>2, <2>3, LastLine DEF LastOf
    <2> QED BY <2>4 DEF PhaseOf
  <1>5. Waiting(<<>>, TRUE) = {}
    BY <1>4 DEF Waiting
  <1>6. /\ view.phase = [x \in Ids |-> "absent"]
        /\ view.before = [x \in Ids |-> {}]
        /\ view.snap = [x \in Ids |-> NoState]
        /\ view.defect = "none"
    <2>1. Parse(<<>>)
      BY DEF Parse
    <2> QED BY <1>1, <1>4, <1>5, <2>1 DEF View
  <1> QED BY <1>1, <1>3, <1>6 DEF Evidence!JournalInit

\* The file implements the evidence that the owner relies on: over any run of starts
\* and earlier processes, each append, torn append, recovery and compaction of
\* operations.jsonl is one step of OperationJournal under the declarative reading of
\* the lines, or none.
THEOREM FileImplementsEvidence == EvidenceSpec => ImplementsEvidence
  <1>1. EvidenceInit => RecoveryInv /\ Shown /\ Evidence!JournalInit
    BY ShownFirst, RecoveryInit DEF EvidenceInit
  <1>2. RecoveryInv /\ Shown /\ [EvidenceNext]_evidenceVars
          => RecoveryInv' /\ Shown' /\ [Evidence!JournalNext]_Evidence!journal
    <2> SUFFICES ASSUME RecoveryInv, Shown, [EvidenceNext]_evidenceVars
                 PROVE  RecoveryInv' /\ Shown' /\ [Evidence!JournalNext]_Evidence!journal
      OBVIOUS
    <2>1. [StartupNext]_startVars
      BY DEF EvidenceNext, evidenceVars
    <2>2. RecoveryInv' /\ Shown' /\ FileStep
      BY <2>1, RecoveryStep, ShownKept, StartupFileStep, FileNextIsStep
    <2> QED BY <2>2, EvidenceStep DEF RecoveryInv
  <1> QED BY <1>1, <1>2, PTL DEF EvidenceSpec, ImplementsEvidence, Evidence!JournalSpec

\* The fold and the declarative reading of the records agree on every file.
LEMMA FoldMeetsReferenceOfShown ==
    ASSUME FileTypeOK, Shown
    PROVE  FoldMeetsReference
  <1> SUFFICES ASSUME AllParse
               PROVE  LET fold == PendingWithEvidence(TheRecords)
                      IN  /\ fold.ok <=> InPhaseOrder(TheRecords)
                          /\ fold.ok =>
                               /\ {e.id : e \in ToSet(fold.pending)}
                                    = {x \in Ids : view.phase[x] \in {"prepared", "observed"}}
                               /\ \A e \in ToSet(fold.pending) :
                                    /\ e.observed <=> view.phase[e.id] = "observed"
                                    /\ e.state = view.snap[e.id]
                               /\ \A i, j \in DOMAIN fold.pending :
                                    i < j => fold.pending[i].id \in view.before[fold.pending[j].id]
    BY DEF FoldMeetsReference
  <1> DEFINE fold == PendingWithEvidence(TheRecords)
             P == Pends(lines)
  <1>1. /\ lines \in Seq(Lines) /\ Parse(lines) /\ TheRecords = RecordsIn(lines)
        /\ fold.pending = P /\ (fold.ok <=> Ok(lines))
    BY RecordsOfLines DEF FileTypeOK, Pends, Ok
  <1>2. fold.ok <=> InPhaseOrder(TheRecords)
    BY <1>1, ParsedLines, FoldIsReference
  <1>3. ASSUME fold.ok
        PROVE  /\ {e.id : e \in ToSet(P)} = {x \in Ids : view.phase[x] \in {"prepared", "observed"}}
               /\ \A e \in ToSet(P) : /\ e.observed <=> view.phase[e.id] = "observed"
                                      /\ e.state = view.snap[e.id]
               /\ \A i, j \in DOMAIN P : i < j => P[i].id \in view.before[P[j].id]
    <2>1. /\ view = View(lines, TRUE)
          /\ \A x \in Ids : view.phase[x] = PhaseOf(lines, TRUE, x)
          /\ Evidence!Pending = Waiting(lines, TRUE)
      BY <1>3, ShownView DEF RecordsFold
    <2>2. /\ \A k \in DOMAIN P :
               /\ P[k].id \in Waiting(lines, TRUE)
               /\ PhaseOf(lines, TRUE, P[k].id) = IF P[k].observed THEN "observed" ELSE "prepared"
               /\ RecordOf(lines, LastOf(lines, TRUE, P[k].id)).state = P[k].state
          /\ \A x \in Waiting(lines, TRUE) : \E k \in DOMAIN P : P[k].id = x
          /\ \A k, l \in DOMAIN P :
               k < l <=> PreparedAt(lines, P[k].id) < PreparedAt(lines, P[l].id)
      BY <1>1, <1>3, ViewOfFold
    <2> HIDE DEF P
    <2>3. ToSet(P) = {P[k] : k \in DOMAIN P}
      BY DEF ToSet
    <2>4. ASSUME NEW x \in Waiting(lines, TRUE)
          PROVE  /\ x \in Ids
                 /\ view.snap[x] = RecordOf(lines, LastOf(lines, TRUE, x)).state
                 /\ view.before[x] = {y \in Waiting(lines, TRUE) : PreparedAt(lines, y) < PreparedAt(lines, x)}
      <3>1. x \in Ids
        BY DEF Waiting
      <3>2. /\ view.snap = [z \in Ids |-> IF z \in Waiting(lines, TRUE)
                                           THEN RecordOf(lines, LastOf(lines, TRUE, z)).state ELSE NoState]
            /\ view.before = [z \in Ids |-> {y \in Waiting(lines, TRUE) :
                     z \in Waiting(lines, TRUE) /\ PreparedAt(lines, y) < PreparedAt(lines, z)}]
        BY <2>1 DEF View
      <3> QED BY <3>1, <3>2
    <2>5. {e.id : e \in ToSet(P)} = {x \in Ids : view.phase[x] \in {"prepared", "observed"}}
      <3>1. {e.id : e \in ToSet(P)} = {P[k].id : k \in DOMAIN P}
        BY <2>3
      <3>2. {P[k].id : k \in DOMAIN P} = Waiting(lines, TRUE)
        BY <2>2
      <3>3. Waiting(lines, TRUE) = {x \in Ids : view.phase[x] \in {"prepared", "observed"}}
        BY <2>1 DEF Waiting
      <3> QED BY <3>1, <3>2, <3>3
    <2>6. ASSUME NEW e \in ToSet(P)
          PROVE  /\ e.observed <=> view.phase[e.id] = "observed"
                 /\ e.state = view.snap[e.id]
      <3>1. PICK k \in DOMAIN P : P[k] = e
        BY <2>3
      <3>2. /\ e.id \in Waiting(lines, TRUE) /\ e.id \in Ids
            /\ PhaseOf(lines, TRUE, e.id) = IF e.observed THEN "observed" ELSE "prepared"
            /\ RecordOf(lines, LastOf(lines, TRUE, e.id)).state = e.state
        BY <2>2, <2>4, <3>1
      <3> QED BY <2>1, <2>4, <3>2
    <2>7. ASSUME NEW i \in DOMAIN P, NEW j \in DOMAIN P, i < j
          PROVE  P[i].id \in view.before[P[j].id]
      <3>1. PreparedAt(lines, P[i].id) < PreparedAt(lines, P[j].id)
        BY <2>2, <2>7
      <3>2. P[i].id \in Waiting(lines, TRUE) /\ P[j].id \in Waiting(lines, TRUE)
        BY <2>2
      <3> QED BY <2>4, <3>1, <3>2
    <2> QED BY <2>5, <2>6, <2>7
  <1> HIDE DEF fold, P
  <1>4. /\ fold.ok <=> InPhaseOrder(TheRecords)
        /\ fold.ok =>
             /\ {e.id : e \in ToSet(fold.pending)} = {x \in Ids : view.phase[x] \in {"prepared", "observed"}}
             /\ \A e \in ToSet(fold.pending) : /\ e.observed <=> view.phase[e.id] = "observed"
                                               /\ e.state = view.snap[e.id]
             /\ \A i, j \in DOMAIN fold.pending :
                  i < j => fold.pending[i].id \in view.before[fold.pending[j].id]
    BY <1>1, <1>2, <1>3
  <1> QED BY <1>4 DEF fold

\* In every run, pending_with_evidence accepts a file exactly when each id went
\* through its phases in order, and returns what is uncommitted, in the order of
\* its preparations, as the last record of each says.
THEOREM FoldAlwaysMeetsReference == EvidenceSpec => []FoldMeetsReference
  <1>1. EvidenceInit => RecoveryInv /\ Shown
    BY ShownFirst, RecoveryInit DEF EvidenceInit
  <1>2. RecoveryInv /\ Shown /\ [EvidenceNext]_evidenceVars => RecoveryInv' /\ Shown'
    <2>1. [EvidenceNext]_evidenceVars => [StartupNext]_startVars
      BY DEF EvidenceNext, evidenceVars
    <2> QED BY <2>1, RecoveryStep, ShownKept
  <1>3. RecoveryInv /\ Shown => FoldMeetsReference
    BY FoldMeetsReferenceOfShown DEF RecoveryInv
  <1> QED BY <1>1, <1>2, <1>3, PTL DEF EvidenceSpec

=============================================================================
