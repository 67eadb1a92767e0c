--------------------------- MODULE Gathering_proofs ---------------------------
(***************************************************************************)
(* Proofs about Gathering: its type invariant, that a search which         *)
(* succeeds has skipped no row that was listed all along, however many     *)
(* rows others add meanwhile, that a search ends in bounded time, and that *)
(* neither a gather nor a mutating call takes a reply for what it is not.  *)
(***************************************************************************)
EXTENDS Gathering, TLAPS, FiniteSetTheorems, SequenceTheorems

AllRows == Makers \cup Models

\* Where a row that was listed all along is, while the search is under way: read,
\* or in the list behind what was asked for.
Ahead(row, read) == \E i \in 1 .. Len(listing) : i > read /\ listing[i] = row

\* What the search keeps, besides its type.
SearchInv ==
    /\ search.pc \in {"page", "sent", "body"} => Len(search.values) = search.page * PageSize
    /\ search.pc \in {"page", "sent"} /\ ~shrunk =>
          \A row \in steady : row \in Range(search.values) \/ Ahead(row, search.page * PageSize)
    /\ search.pc = "body" /\ search.read = "ok" /\ ~shrunk =>
          \A row \in steady :
             \/ row \in Range(search.values)
             \/ row \in Range(search.served)
             \/ /\ Len(search.served) >= PageSize
                /\ Ahead(row, search.page * PageSize + PageSize)
    /\ NothingSkipped

\* What the search's clock keeps.
ClockInv ==
    /\ search.pc \in {"sent", "body"} =>
          search.sent < Deadline /\ search.elapsed <= search.sent + RequestTimeout
    /\ SearchBounded

SInv == SearchTypeOK(AllRows) /\ SearchInv /\ ClockInv

-----------------------------------------------------------------------------
(* Lists and pages                                                         *)

\* Inserting a row into a list gives a list with that row and the old ones.
LEMMA InsertedSeq ==
    ASSUME NEW S, NEW list \in Seq(S), NEW i \in 1 .. Len(list) + 1, NEW row \in S
    PROVE  /\ Inserted(list, i, row) \in Seq(S)
           /\ Len(Inserted(list, i, row)) = Len(list) + 1
  BY DEF Inserted

\* Removing a row from a list gives a list of the others.
LEMMA RemovedSeq ==
    ASSUME NEW S, NEW list \in Seq(S), NEW i \in 1 .. Len(list)
    PROVE  Removed(list, i) \in Seq(S)
  BY DEF Removed

\* An insertion moves no row towards the front.
LEMMA InsertedKeeps ==
    ASSUME NEW S, NEW list \in Seq(S), NEW i \in 1 .. Len(list) + 1, NEW row \in S,
           NEW k \in 1 .. Len(list)
    PROVE  \E j \in 1 .. Len(Inserted(list, i, row)) :
              j >= k /\ Inserted(list, i, row)[j] = list[k]
  <1>1. Len(Inserted(list, i, row)) = Len(list) + 1
    BY InsertedSeq
  <1>2. CASE k < i
    BY <1>1, <1>2 DEF Inserted
  <1>3. CASE k >= i
    <2>1. k + 1 \in 1 .. Len(list) + 1 /\ k + 1 # i /\ ~ (k + 1 < i)
      BY <1>3
    <2>2. Inserted(list, i, row)[k + 1] = list[k]
      BY <2>1 DEF Inserted
    <2> QED BY <1>1, <2>1, <2>2
  <1> QED BY <1>2, <1>3

\* A page of a list is a list of at most limit of its rows.
LEMMA PageOfSeq ==
    ASSUME NEW S, NEW list \in Seq(S), NEW page \in Nat, NEW limit \in Nat
    PROVE  PageOf(list, page, limit) \in Seq(S)
  <1> DEFINE offset == page * PageSize
             count == IF Len(list) <= offset THEN 0
                      ELSE IF Len(list) - offset < limit THEN Len(list) - offset ELSE limit
  <1>1. offset \in Nat
    BY ClientAssumption
  <1>2. count \in Nat /\ (count = 0 \/ offset + count <= Len(list))
    BY <1>1
  <1>3. \A k \in 1 .. count : list[offset + k] \in S
    BY <1>1, <1>2
  <1>4. PageOf(list, page, limit) = [k \in 1 .. count |-> list[offset + k]]
    BY DEF PageOf
  <1> HIDE DEF offset, count
  <1> QED BY <1>2, <1>3, <1>4

\* A row from the offset on is in the page, or the page is full and it is behind.
LEMMA PageOfHas ==
    ASSUME NEW S, NEW list \in Seq(S), NEW page \in Nat, NEW limit \in ServerLimits,
           NEW i \in 1 .. Len(list), i > page * PageSize
    PROVE  \/ list[i] \in Range(PageOf(list, page, limit))
           \/ Len(PageOf(list, page, limit)) >= PageSize /\ i > page * PageSize + PageSize
  <1> DEFINE offset == page * PageSize
             count == IF Len(list) <= offset THEN 0
                      ELSE IF Len(list) - offset < limit THEN Len(list) - offset ELSE limit
  <1>1. /\ offset \in Nat /\ limit \in Nat /\ PageSize \in Nat /\ limit >= PageSize
        /\ Len(list) \in Nat /\ i \in Nat /\ i <= Len(list) /\ i > offset
    BY ClientAssumption, ServerAssumption
  <1>2. PageOf(list, page, limit) = [k \in 1 .. count |-> list[offset + k]]
    BY DEF PageOf
  <1> SUFFICES \/ list[i] \in Range(PageOf(list, page, limit))
               \/ Len(PageOf(list, page, limit)) >= PageSize /\ i > offset + PageSize
    OBVIOUS
  <1> HIDE DEF offset
  <1>3. count \in Nat /\ (i <= offset + count \/ count = limit)
    BY <1>1
  <1> HIDE DEF count
  <1>4. CASE i <= offset + count
    <2>1. i - offset \in 1 .. count /\ offset + (i - offset) = i
      BY <1>1, <1>3, <1>4
    <2>2. i - offset \in DOMAIN PageOf(list, page, limit)
      BY <1>2, <2>1
    <2>3. PageOf(list, page, limit)[i - offset] = list[i]
      BY <1>2, <2>1
    <2> QED BY <2>2, <2>3 DEF Range
  <1>5. CASE i > offset + count
    <2>1. count = limit
      BY <1>1, <1>3, <1>5
    <2>2. i > offset + PageSize /\ count >= PageSize
      BY <1>1, <1>5, <2>1
    <2>3. Len(PageOf(list, page, limit)) = count
      BY <1>2, <1>3
    <2> QED BY <2>2, <2>3
  <1> QED BY <1>1, <1>3, <1>4, <1>5

\* Rows of a concatenation are the rows of its parts.
LEMMA ConcatRange ==
    ASSUME NEW S, NEW a \in Seq(S), NEW b \in Seq(S)
    PROVE  /\ a \o b \in Seq(S)
           /\ Len(a \o b) = Len(a) + Len(b)
           /\ Range(a) \subseteq Range(a \o b)
           /\ Range(b) \subseteq Range(a \o b)
  <1>1. a \o b \in Seq(S) /\ Len(a \o b) = Len(a) + Len(b)
    OBVIOUS
  <1>2. \A k \in 1 .. Len(a) : (a \o b)[k] = a[k] /\ k \in 1 .. Len(a \o b)
    OBVIOUS
  <1>3. \A k \in 1 .. Len(b) : (a \o b)[Len(a) + k] = b[k] /\ Len(a) + k \in 1 .. Len(a \o b)
    OBVIOUS
  <1>4. DOMAIN a = 1 .. Len(a) /\ DOMAIN b = 1 .. Len(b) /\ DOMAIN (a \o b) = 1 .. Len(a \o b)
    BY <1>1
  <1>5. Range(a) \subseteq Range(a \o b)
    BY <1>2, <1>4 DEF Range
  <1>6. Range(b) \subseteq Range(a \o b)
    BY <1>3, <1>4 DEF Range
  <1> QED BY <1>1, <1>5, <1>6

-----------------------------------------------------------------------------
(* The steps of a search                                                   *)

\* Reading a reply yields one of the answers.
LEMMA ReadType ==
    ASSUME NEW reply \in Replies
    PROVE  ReadResponse(reply) \in Answers
  BY DEF ReadResponse, ClassifyStatus, Answers, Errors

\* Decoding a reply yields what the decoder was given for its kind, or an error.
LEMMA DecodedType ==
    ASSUME NEW reply \in Replies, NEW good, NEW special, DOMAIN special \subseteq Answers
    PROVE  /\ Decoded(reply, good, special) \in Answers
           /\ Decoded(reply, good, special) = "ok" /\ "ok" \notin DOMAIN special => reply.body \in good
  <1> DEFINE own == {e \in DOMAIN special : reply.body \in special[e]}
  <1>1. own # {} => (CHOOSE e \in own : TRUE) \in DOMAIN special
    OBVIOUS
  <1>2. "ok" \in Answers /\ "InvalidResponse" \in Answers
    BY DEF Answers, Errors
  <1> QED BY <1>1, <1>2, ReadType DEF Decoded

\* Each request's classification yields one of the answers.
LEMMA AnswerTypes ==
    ASSUME NEW reply \in Replies
    PROVE  /\ PageAnswer(reply) \in Answers /\ AssetAnswer(reply) \in Answers
           /\ PatchAnswer(reply) \in Answers /\ MutationAnswer(reply) \in Answers
           /\ PageAnswer(reply) = "ok" => reply.body \in RowBodies
  <1>1. PageAnswer(reply) \in Answers /\ (PageAnswer(reply) = "ok" => reply.body \in RowBodies)
    <2> DEFINE special == [InvalidResponse |-> {}]
    <2>1. DOMAIN special = {"InvalidResponse"}
      OBVIOUS
    <2>2. DOMAIN special \subseteq Answers /\ "ok" \notin DOMAIN special
      BY <2>1 DEF Answers, Errors
    <2> HIDE DEF special
    <2>3. /\ Decoded(reply, RowBodies, special) \in Answers
          /\ Decoded(reply, RowBodies, special) = "ok" => reply.body \in RowBodies
      BY <2>2, DecodedType
    <2> QED BY <2>3 DEF PageAnswer, special
  <1>2. AssetAnswer(reply) \in Answers
    BY DecodedType DEF AssetAnswer, Answers, Errors
  <1>3. PatchAnswer(reply) \in Answers
    BY DecodedType DEF PatchAnswer, Answers, Errors
  <1>4. MutationAnswer(reply) \in Answers
    BY DecodedType DEF MutationAnswer, Answers, Errors
  <1> QED BY <1>1, <1>2, <1>3, <1>4

Records == [pc : {"idle", "page", "sent", "body", "done"}, page : Nat, elapsed : Nat,
            sent : Nat, read : Answers, served : Seq(AllRows), values : Seq(AllRows),
            answer : Answers]

\* The record of no search is well typed.
LEMMA NoSearchRecord == NoSearch \in Records
  <1>1. <<>> \in Seq(AllRows) /\ 0 \in Nat /\ "ok" \in Answers
    BY DEF Answers
  <1> QED BY <1>1 DEF NoSearch, Records

\* The search's type, in the form the steps below use.
LEMMA TypeAsRecord ==
    SearchTypeOK(AllRows) <=> /\ listing \in Seq(AllRows) /\ changes \in Nat
                              /\ search \in Records
                              /\ steady \subseteq AllRows /\ shrunk \in BOOLEAN
  BY DEF SearchTypeOK, Records

\* What every step of a search is: the record changes in its fields only.
LEMMA EndedRecord ==
    ASSUME SearchTypeOK(AllRows), NEW answer \in Answers, NEW values \in Seq(AllRows),
           SearchEnds(answer, values)
    PROVE  /\ SearchTypeOK(AllRows)'
           /\ search'.pc = "done" /\ search'.answer = answer /\ search'.values = values
           /\ search'.elapsed = search.elapsed
           /\ shrunk' = shrunk /\ steady' = steady
  <1>1. /\ search' = [NoSearch EXCEPT !.pc = "done", !.answer = answer, !.values = values,
                                      !.elapsed = search.elapsed]
        /\ listing' = listing /\ changes' = changes /\ steady' = steady /\ shrunk' = shrunk
    BY DEF SearchEnds, listVars
  <1>2. search.elapsed \in Nat
    BY DEF SearchTypeOK
  <1>3. search' \in Records
    BY <1>1, <1>2, NoSearchRecord DEF Records
  <1>4. /\ search'.pc = "done" /\ search'.answer = answer /\ search'.values = values
        /\ search'.elapsed = search.elapsed
    BY <1>1, NoSearchRecord DEF Records
  <1>5. SearchTypeOK(AllRows)'
    BY <1>1, <1>3 DEF SearchTypeOK, Records
  <1> QED BY <1>1, <1>4, <1>5

\* A search that ends with an error keeps the invariant.
LEMMA EndingKeeps ==
    ASSUME SInv, NEW answer \in Errors, SearchEnds(answer, <<>>)
    PROVE  SInv'
  <1>1. answer \in Answers /\ answer # "ok" /\ <<>> \in Seq(AllRows)
    BY DEF Answers, Errors
  <1>2. /\ SearchTypeOK(AllRows)' /\ search'.pc = "done" /\ search'.answer # "ok"
        /\ search'.elapsed = search.elapsed
    BY <1>1, EndedRecord DEF SInv
  <1> QED BY <1>2 DEF SInv, SearchInv, ClockInv, NothingSkipped, SearchBounded

\* The invariant survives Begin.
LEMMA BeginKeeps ==
    ASSUME SInv, NEW rows \in SUBSET AllRows, BeginSearch(rows)
    PROVE  SInv'
  <1>1. listing' \in Seq(AllRows) /\ steady' = Range(listing')
    BY DEF BeginSearch, Listings
  <1>2. /\ search' = [NoSearch EXCEPT !.pc = "page"] /\ changes' = changes /\ shrunk' = shrunk
    BY DEF BeginSearch
  <1>3. /\ search'.pc = "page" /\ search'.page = 0 /\ search'.values = <<>>
        /\ search'.elapsed = 0 /\ search'.answer = "ok"
    BY <1>2 DEF NoSearch
  <1>r. search' \in Records
    BY <1>2, NoSearchRecord DEF Records
  <1>4. SearchTypeOK(AllRows)'
    BY <1>1, <1>2, <1>r DEF SInv, SearchTypeOK, Records, Range
  <1>5. 0 * PageSize = 0
    BY ClientAssumption
  <1>6. \A row \in steady' : \E i \in 1 .. Len(listing') : i > 0 /\ listing'[i] = row
    BY <1>1 DEF Range
  <1>7. SearchInv'
    BY <1>3, <1>5, <1>6 DEF SearchInv, NothingSkipped, Ahead
  <1>8. ClockInv'
    BY <1>3, ClientAssumption DEF ClockInv, SearchBounded
  <1> QED BY <1>4, <1>7, <1>8 DEF SInv

\* The invariant survives Taken.
LEMMA TakenKeeps ==
    ASSUME SInv, SearchTaken
    PROVE  SInv'
  <1>1. /\ search'.pc = "idle" /\ search'.elapsed = 0 /\ shrunk' = FALSE
    BY DEF SearchTaken, NoSearch
  <1>2. SearchTypeOK(AllRows)'
    <2>1. /\ listing' = <<>> /\ changes' = 0 /\ search' = NoSearch /\ steady' = {}
          /\ shrunk' = FALSE
      BY DEF SearchTaken
    <2>2. search' \in Records /\ listing' \in Seq(AllRows)
      BY <2>1, NoSearchRecord
    <2> QED BY <2>1, <2>2 DEF SearchTypeOK, Records
  <1> QED BY <1>1, <1>2, ClientAssumption
          DEF SInv, SearchInv, ClockInv, NothingSkipped, SearchBounded

\* A row added by someone else keeps the invariant: positions shift upwards only.
LEMMA AddsKeeps ==
    ASSUME SInv, NEW rows \in SUBSET AllRows, SomeoneAdds(rows)
    PROVE  SInv'
  <1>1. PICK row \in rows, i \in 1 .. Len(listing) + 1 : listing' = Inserted(listing, i, row)
    BY DEF SomeoneAdds
  <1>2. listing \in Seq(AllRows) /\ row \in AllRows
    BY DEF SInv, SearchTypeOK
  <1>3. listing' \in Seq(AllRows)
    BY <1>1, <1>2, InsertedSeq
  <1>4. search' = search /\ steady' = steady /\ shrunk' = shrunk /\ changes' = changes + 1
    BY DEF SomeoneAdds
  <1>5. SearchTypeOK(AllRows)'
    BY <1>3, <1>4 DEF SInv, SearchTypeOK
  <1>6. ASSUME NEW r, NEW read \in Nat, Ahead(r, read)
        PROVE  Ahead(r, read)'
    <2>1. PICK k \in 1 .. Len(listing) : k > read /\ listing[k] = r
      BY <1>6 DEF Ahead
    <2>2. PICK j \in 1 .. Len(Inserted(listing, i, row)) :
             j >= k /\ Inserted(listing, i, row)[j] = listing[k]
      BY <1>2, InsertedKeeps
    <2>3. j \in 1 .. Len(listing') /\ j > read /\ listing'[j] = r
      BY <1>1, <1>3, <2>1, <2>2
    <2> QED BY <2>3, <1>6 DEF Ahead
  <1>7. search.page * PageSize \in Nat /\ search.page * PageSize + PageSize \in Nat
    BY ClientAssumption DEF SInv, SearchTypeOK
  <1>8. SearchInv'
    BY <1>4, <1>6, <1>7 DEF SInv, SearchInv, NothingSkipped
  <1> QED BY <1>4, <1>5, <1>8 DEF SInv, ClockInv, SearchBounded

\* A row removed by someone else keeps the invariant, which promises nothing once a row is gone.
LEMMA RemovesKeeps ==
    ASSUME SInv, SomeoneRemoves
    PROVE  SInv'
  <1>1. PICK i \in 1 .. Len(listing) :
           listing' = Removed(listing, i) /\ steady' = steady \ {listing[i]}
    BY DEF SomeoneRemoves
  <1>2. search' = search /\ shrunk' = TRUE /\ changes' = changes + 1
    BY DEF SomeoneRemoves
  <1>3. SearchTypeOK(AllRows)'
    BY <1>1, <1>2, RemovedSeq DEF SInv, SearchTypeOK
  <1>4. SearchInv'
    BY <1>2 DEF SInv, SearchInv, NothingSkipped
  <1> QED BY <1>2, <1>3, <1>4 DEF SInv, ClockInv, SearchBounded

\* The invariant survives Send.
LEMMA SendKeeps ==
    ASSUME SInv, SendPage
    PROVE  SInv'
  <1>1. /\ search.pc = "page" /\ search.elapsed < Deadline
        /\ search' = [search EXCEPT !.pc = "sent", !.sent = search.elapsed]
        /\ listing' = listing /\ changes' = changes /\ steady' = steady /\ shrunk' = shrunk
    BY DEF SendPage, listVars
  <1>2. SearchTypeOK(AllRows)'
    BY <1>1 DEF SInv, SearchTypeOK
  <1>3. /\ search'.pc = "sent" /\ search'.page = search.page /\ search'.values = search.values
        /\ search'.elapsed = search.elapsed /\ search'.sent = search.elapsed
    BY <1>1 DEF SInv, SearchTypeOK
  <1>4. SearchInv'
    BY <1>1, <1>3 DEF SInv, SearchInv, NothingSkipped, Ahead
  <1>5. search.elapsed \in Nat
    BY DEF SInv, SearchTypeOK
  <1>6. ClockInv'
    BY <1>1, <1>3, <1>5, ClientAssumption DEF SInv, ClockInv, SearchBounded
  <1> QED BY <1>2, <1>4, <1>6 DEF SInv

\* The invariant survives Time.
LEMMA TimeKeeps ==
    ASSUME SInv, TimePasses
    PROVE  SInv'
  <1>1. /\ search.pc \in {"sent", "body"} /\ ~ (search.elapsed - search.sent >= RequestTimeout)
        /\ search' = [search EXCEPT !.elapsed = @ + 1]
        /\ listing' = listing /\ changes' = changes /\ steady' = steady /\ shrunk' = shrunk
    BY DEF TimePasses, RequestExpired, listVars
  <1>2. search.elapsed \in Nat /\ search.sent \in Nat
    BY DEF SInv, SearchTypeOK
  <1>r. search \in Records /\ search.elapsed + 1 \in Nat
    BY <1>2, TypeAsRecord DEF SInv
  <1>s. search' \in Records
    BY <1>1, <1>r DEF Records
  <1>3. SearchTypeOK(AllRows)'
    BY <1>1, <1>s DEF SInv, SearchTypeOK, Records
  <1>4. /\ search'.pc = search.pc /\ search'.page = search.page
        /\ search'.values = search.values /\ search'.read = search.read
        /\ search'.served = search.served /\ search'.sent = search.sent
        /\ search'.elapsed = search.elapsed + 1
    BY <1>1 DEF SInv, SearchTypeOK
  <1>5. SearchInv'
    BY <1>1, <1>4 DEF SInv, SearchInv, NothingSkipped, Ahead
  <1>6. search.sent < Deadline /\ search.elapsed + 1 <= search.sent + RequestTimeout
    BY <1>1, <1>2, ClientAssumption DEF SInv, ClockInv
  <1>7. ClockInv'
    BY <1>1, <1>2, <1>4, <1>6, ClientAssumption DEF ClockInv, SearchBounded
  <1> QED BY <1>3, <1>5, <1>7 DEF SInv

\* The page is what the list holds when the server answers.
LEMMA HeadersKeep ==
    ASSUME SInv, NEW reply \in Replies, HeadersArrive(reply)
    PROVE  SInv'
  <1>1. PICK limit \in ServerLimits :
           search' = [search EXCEPT !.pc = "body", !.read = PageAnswer(reply),
                        !.served = IF reply.body \in RowBodies
                                   THEN PageOf(listing, search.page, limit) ELSE <<>>]
    BY DEF HeadersArrive
  <1>2. /\ search.pc = "sent"
        /\ listing' = listing /\ changes' = changes /\ steady' = steady /\ shrunk' = shrunk
    BY DEF HeadersArrive, listVars
  <1>3. listing \in Seq(AllRows) /\ search.page \in Nat /\ limit \in Nat
    BY ServerAssumption DEF SInv, SearchTypeOK
  <1>4. PageOf(listing, search.page, limit) \in Seq(AllRows) /\ PageAnswer(reply) \in Answers
    BY <1>3, PageOfSeq, AnswerTypes
  <1>q. (IF reply.body \in RowBodies THEN PageOf(listing, search.page, limit) ELSE <<>>)
           \in Seq(AllRows)
    BY <1>4
  <1>r. search \in Records
    BY TypeAsRecord DEF SInv
  <1>s. search' \in Records
    BY <1>1, <1>4, <1>q, <1>r DEF Records
  <1>5. SearchTypeOK(AllRows)'
    BY <1>2, <1>s DEF SInv, SearchTypeOK, Records
  <1>6. /\ search'.pc = "body" /\ search'.page = search.page /\ search'.values = search.values
        /\ search'.sent = search.sent /\ search'.elapsed = search.elapsed
        /\ search'.read = PageAnswer(reply)
        /\ reply.body \in RowBodies => search'.served = PageOf(listing, search.page, limit)
    BY <1>1 DEF SInv, SearchTypeOK
  <1>7. ASSUME search'.read = "ok", ~shrunk, NEW row \in steady, row \notin Range(search.values)
        PROVE  \/ row \in Range(search'.served)
               \/ /\ Len(search'.served) >= PageSize
                  /\ Ahead(row, search.page * PageSize + PageSize)
    <2>1. search'.served = PageOf(listing, search.page, limit)
      BY <1>6, <1>7, AnswerTypes
    <2>2. PICK i \in 1 .. Len(listing) : i > search.page * PageSize /\ listing[i] = row
      BY <1>2, <1>7 DEF SInv, SearchInv, Ahead
    <2>3. \/ listing[i] \in Range(PageOf(listing, search.page, limit))
          \/ /\ Len(PageOf(listing, search.page, limit)) >= PageSize
             /\ i > search.page * PageSize + PageSize
      BY <1>3, <2>2, PageOfHas
    <2> QED BY <2>1, <2>2, <2>3 DEF Ahead
  <1>8. SearchInv'
    BY <1>2, <1>6, <1>7 DEF SInv, SearchInv, NothingSkipped, Ahead
  <1>9. ClockInv'
    BY <1>2, <1>6 DEF SInv, ClockInv, SearchBounded
  <1> QED BY <1>5, <1>8, <1>9 DEF SInv

\* A short page leaves nothing behind it.
LEMMA ShortKeeps ==
    ASSUME SInv, ShortPage
    PROVE  SInv'
  <1>1. /\ search.pc = "body" /\ search.read = "ok" /\ Len(search.served) < PageSize
        /\ SearchEnds("ok", search.values \o search.served)
    BY DEF ShortPage
  <1>2. search.values \in Seq(AllRows) /\ search.served \in Seq(AllRows)
    BY DEF SInv, SearchTypeOK
  <1>3. /\ search.values \o search.served \in Seq(AllRows)
        /\ Range(search.values) \subseteq Range(search.values \o search.served)
        /\ Range(search.served) \subseteq Range(search.values \o search.served)
    BY <1>2, ConcatRange
  <1>4. /\ SearchTypeOK(AllRows)' /\ search'.pc = "done"
        /\ search'.values = search.values \o search.served
        /\ search'.elapsed = search.elapsed /\ shrunk' = shrunk /\ steady' = steady
    BY <1>1, <1>3, EndedRecord DEF SInv, Answers
  <1>5. ~ (Len(search.served) >= PageSize)
    BY <1>1, <1>2, ClientAssumption
  <1>6. ~shrunk => \A row \in steady : row \in Range(search.values) \/ row \in Range(search.served)
    BY <1>1, <1>5 DEF SInv, SearchInv
  <1>7. SearchInv'
    BY <1>3, <1>4, <1>6 DEF SearchInv, NothingSkipped
  <1>8. ClockInv'
    BY <1>4 DEF SInv, ClockInv, SearchBounded
  <1> QED BY <1>4, <1>7, <1>8 DEF SInv

\* The invariant survives Full.
LEMMA FullKeeps ==
    ASSUME SInv, FullPage
    PROVE  SInv'
  <1>1. /\ search.pc = "body" /\ search.read = "ok" /\ Len(search.served) = PageSize
        /\ search' = [search EXCEPT !.pc = "page", !.page = @ + 1, !.served = <<>>,
                                    !.values = @ \o search.served]
        /\ listing' = listing /\ changes' = changes /\ steady' = steady /\ shrunk' = shrunk
    BY DEF FullPage, listVars
  <1>2. search.values \in Seq(AllRows) /\ search.served \in Seq(AllRows) /\ search.page \in Nat
    BY DEF SInv, SearchTypeOK
  <1>3. /\ search.values \o search.served \in Seq(AllRows)
        /\ Len(search.values \o search.served) = Len(search.values) + Len(search.served)
        /\ Range(search.values) \subseteq Range(search.values \o search.served)
        /\ Range(search.served) \subseteq Range(search.values \o search.served)
    BY <1>2, ConcatRange
  <1>r. search \in Records /\ search.page + 1 \in Nat /\ <<>> \in Seq(AllRows)
    BY <1>2, TypeAsRecord DEF SInv
  <1>s. search' \in Records
    BY <1>1, <1>3, <1>r DEF Records
  <1>4. SearchTypeOK(AllRows)'
    BY <1>1, <1>s DEF SInv, SearchTypeOK, Records
  <1>5. /\ search'.pc = "page" /\ search'.page = search.page + 1
        /\ search'.values = search.values \o search.served /\ search'.elapsed = search.elapsed
    BY <1>1 DEF SInv, SearchTypeOK
  <1>6. (search.page + 1) * PageSize = search.page * PageSize + PageSize
    BY <1>2, ClientAssumption
  <1>7. Len(search'.values) = search'.page * PageSize
    BY <1>1, <1>3, <1>5, <1>6 DEF SInv, SearchInv
  <1>8. ASSUME ~shrunk, NEW row \in steady
        PROVE  row \in Range(search'.values) \/ Ahead(row, search'.page * PageSize)
    BY <1>1, <1>3, <1>5, <1>6, <1>8 DEF SInv, SearchInv
  <1>9. SearchInv'
    BY <1>1, <1>5, <1>7, <1>8 DEF SearchInv, NothingSkipped, Ahead
  <1>10. ClockInv'
    BY <1>1, <1>5 DEF SInv, ClockInv, SearchBounded
  <1> QED BY <1>4, <1>9, <1>10 DEF SInv

\* Every step of a search or of those who edit its list keeps the invariant.
LEMMA SearchKeeps ==
    ASSUME SInv, NEW rows \in SUBSET AllRows, NEW replies \in SUBSET Replies,
           SearchStep(rows, replies)
    PROVE  SInv'
  <1>1. search.read \in Answers
    BY DEF SInv, SearchTypeOK
  <1>2. CASE DeadlinePassed
    BY <1>2, EndingKeeps DEF DeadlinePassed, Errors
  <1>3. CASE RequestFails
    BY <1>3, EndingKeeps DEF RequestFails, Errors
  <1>4. CASE BodyFails
    BY <1>1, <1>4, EndingKeeps DEF BodyFails, Answers
  <1>5. CASE LimitExceeded
    BY <1>5, EndingKeeps DEF LimitExceeded, Errors
  <1>6. CASE \E reply \in replies : HeadersArrive(reply)
    BY <1>6, HeadersKeep
  <1> QED BY <1>2, <1>3, <1>4, <1>5, <1>6, SendKeeps, TimeKeeps, ShortKeeps, FullKeeps,
             AddsKeeps, RemovesKeeps DEF SearchStep

-----------------------------------------------------------------------------
(* The gather                                                              *)

ResultOK ==
    /\ pc \in {"start", "asset", "makers", "models", "done", "failed", "carrying"}
    /\ todo \in Seq(Targets) /\ (pc \in {"asset", "makers", "models"} => todo # <<>>)
    /\ found \subseteq Targets /\ missing \subseteq Targets
    /\ resolved \subseteq Targets /\ denied \subseteq Targets
    /\ maker \in Nat \cup {Missing, Ambiguous}
    /\ state \in {"Idle", "Error", "Unconfigured"}
    /\ wrong \in BOOLEAN
    /\ call \in [pc : {"none", "sent", "answered"}, kind : Calls, applied : BOOLEAN,
                 answer : Answers]

\* The monitors WMI reports form a list of them.
LEMMA ReportedSeq ==
    ASSUME NEW rows \in [Monitors -> WmiRows]
    PROVE  SetToSeq(Reported(rows)) \in Seq(Targets)
  <1> DEFINE S == Reported(rows)
  <1>1. S \subseteq Monitors /\ IsFiniteSet(S)
    BY GatherAssumption, FS_Subset DEF Reported
  <1>2. Cardinality(S) \in Nat
    BY <1>1, FS_CardinalityType
  <1>3. \E f \in [1 .. Cardinality(S) -> S] : IsInjective(f)
    BY <1>1, FS_CardinalityType, FS_NatBijection DEF IsInjective, ExistsBijection, Bijection,
       Injection
  <1>4. SetToSeq(S) \in [1 .. Cardinality(S) -> S]
    BY <1>3 DEF SetToSeq
  <1> HIDE DEF S
  <1>5. S \subseteq Targets
    BY <1>1 DEF Targets
  <1> QED BY <1>2, <1>4, <1>5 DEF S

\* Resolving a taxonomy name yields an id, none or an ambiguity.
LEMMA ResolutionType ==
    ASSUME NEW ids \in SUBSET Nat
    PROVE  Resolution(ids) \in Nat \cup {Missing, Ambiguous}
  <1> DEFINE real == ids \ {0}
  <1>1. CASE real # {}
    <2>1. (CHOOSE id \in real : TRUE) \in Nat
      BY <1>1
    <2> QED BY <2>1 DEF Resolution
  <1>2. CASE real = {}
    BY <1>2 DEF Resolution
  <1> QED BY <1>1, <1>2

\* What becomes of a looked-up maker is well typed.
LEMMA MakerType ==
    ASSUME SInv, NEW target
    PROVE  MakerOf(search.values, target) \in Nat \cup {Missing, Ambiguous}
  <1>1. search.values \in Seq(AllRows)
    BY DEF SInv, SearchTypeOK
  <1>2. \A row \in Range(search.values) : row.id \in Nat
    BY <1>1, GatherAssumption DEF AllRows, Range
  <1>3. {row.id : row \in Named(search.values, target)} \in SUBSET Nat
    BY <1>2 DEF Named
  <1> QED BY <1>3, ResolutionType DEF MakerOf

\* A failed gather leaves a well-typed result.
LEMMA FailsType ==
    ASSUME NEW answer, Fails(answer)
    PROVE  /\ pc' = "failed" /\ todo' = <<>> /\ found' = {} /\ missing' = {} /\ resolved' = {}
           /\ denied' = {} /\ maker' = Missing /\ state' \in {"Idle", "Error", "Unconfigured"}
  BY DEF Fails, GatherDropped, StateAfter

\* Every step of a gather keeps its result well typed.
LEMMA StepKeepsType ==
    ASSUME SInv, ResultOK, Next
    PROVE  ResultOK'
  <1> <<>> \in Seq(Targets) /\ Head(todo) \in Targets \cup {Head(todo)}
    OBVIOUS
  <1>h. todo # <<>> => Head(todo) \in Targets /\ Tail(todo) \in Seq(Targets)
    BY DEF ResultOK
  <1>1. CASE Discover
    <2>1. PICK rows \in [Monitors -> WmiRows] : todo' = <<Computer>> \o SetToSeq(Reported(rows))
      BY <1>1 DEF Discover
    <2>2. <<Computer>> \in Seq(Targets) /\ SetToSeq(Reported(rows)) \in Seq(Targets)
      BY ReportedSeq DEF Targets
    <2>3. todo' \in Seq(Targets) /\ Len(todo') >= 1
      BY <2>1, <2>2
    <2>4. todo' # <<>>
      BY <2>3
    <2> QED BY <1>1, <2>3, <2>4 DEF Discover, ResultOK, NothingCalled
  <1>2. CASE DiscoverFails \/ LookupFails \/ LookupRefused \/ SearchFailed
    BY <1>2, FailsType
       DEF DiscoverFails, LookupFails, LookupRefused, SearchFailed, ResultOK, NothingCalled
  <1>3. CASE LookupAnswered
    <2>1. todo # <<>> /\ pc' = "makers"
      BY <1>3 DEF LookupAnswered, ResultOK
    <2>2. found' \subseteq Targets /\ missing' \subseteq Targets /\ denied' \subseteq Targets
      BY <1>3, <1>h, <2>1 DEF LookupAnswered, ResultOK
    <2> QED BY <1>3, <2>1, <2>2 DEF LookupAnswered, ResultOK, NothingCalled
  <1>4. CASE SearchList \/ SearchGoesOn
    BY <1>4 DEF SearchList, SearchGoesOn, gatherVars, ResultOK, NothingCalled
  <1>5. CASE MakersListed
    BY <1>5, MakerType DEF MakersListed, ResultOK, NothingCalled
  <1>6. CASE ModelsListed
    <2>1. todo # <<>>
      BY <1>6 DEF ModelsListed, ResultOK
    <2>2. /\ resolved' \subseteq Targets /\ todo' \in Seq(Targets) /\ maker' = Missing
          /\ pc' \in {"asset", "done"} /\ (pc' = "asset" => todo' # <<>>)
      BY <1>6, <1>h, <2>1 DEF ModelsListed, ResultOK
    <2> QED BY <1>6, <2>2 DEF ModelsListed, ResultOK, NothingCalled
  <1>7. CASE \E kind \in Calls : BeginCall(kind)
    <2>1. PICK kind \in Calls, applied \in BOOLEAN, reply \in Replies :
             call' = [kind |-> kind, applied |-> applied, answer |-> AssetAnswer(reply),
                      pc |-> IF AssetAnswer(reply) # "ok" \/ applied THEN "answered" ELSE "sent"]
      BY <1>7 DEF BeginCall
    <2>2. call' \in [pc : {"none", "sent", "answered"}, kind : Calls, applied : BOOLEAN,
                     answer : Answers]
      BY <2>1, AnswerTypes
    <2> QED BY <1>7, <2>2 DEF BeginCall, GatherDropped, ResultOK
  <1>8. CASE ServerApplies
    BY <1>8 DEF ServerApplies, gatherVars, ResultOK
  <1>9. CASE CallAnswered
    <2>1. PICK reply \in Replies :
             call' = [call EXCEPT !.pc = "answered", !.answer = CallAnswer(call.kind, reply)]
      BY <1>9 DEF CallAnswered, CallReplies
    <2>2. CallAnswer(call.kind, reply) \in Answers
      BY AnswerTypes DEF CallAnswer
    <2> QED BY <1>9, <2>1, <2>2 DEF CallAnswered, gatherVars, ResultOK
  <1>10. CASE CallFails
    BY <1>10 DEF CallFails, gatherVars, ResultOK, Answers, Errors
  <1>11. CASE StartAgain
    BY <1>11 DEF StartAgain, GatherDropped, ResultOK, NoCall, Calls, Answers
  <1> QED BY <1>1, <1>2, <1>3, <1>4, <1>5, <1>6, <1>7, <1>8, <1>9, <1>10, <1>11 DEF Next

\* Every step of a gather keeps the search's invariant.
LEMMA StepKeepsSearch ==
    ASSUME SInv, Next
    PROVE  SInv'
  <1>1. ListRows \in SUBSET AllRows /\ PageReplies \in SUBSET Replies
    BY DEF ListRows, AllRows, PageReplies
  <1>2. CASE SearchList
    BY <1>1, <1>2, BeginKeeps DEF SearchList
  <1>3. CASE SearchGoesOn
    BY <1>1, <1>3, SearchKeeps DEF SearchGoesOn
  <1>4. CASE SearchFailed \/ MakersListed \/ ModelsListed
    BY <1>4, TakenKeeps DEF SearchFailed, MakersListed, ModelsListed
  <1>5. ASSUME UNCHANGED searchVars PROVE SInv'
    BY <1>5 DEF searchVars, listVars, SInv, SearchTypeOK, SearchInv, ClockInv, NothingSkipped,
                SearchBounded, Ahead
  <1> QED BY <1>2, <1>3, <1>4, <1>5
          DEF Next, Discover, DiscoverFails, LookupFails, LookupAnswered, LookupRefused, BeginCall,
              ServerApplies, CallAnswered, CallFails, StartAgain

\* The invariant holds initially.
LEMMA InitHolds == Init => SInv /\ ResultOK
  <1> SUFFICES ASSUME Init PROVE SInv /\ ResultOK
    OBVIOUS
  <1>1. search.pc = "idle" /\ search.elapsed = 0
    BY DEF Init, NoSearching, NoSearch
  <1>2. SearchTypeOK(AllRows)
    <2>1. listing = <<>> /\ changes = 0 /\ search = NoSearch /\ steady = {} /\ shrunk = FALSE
      BY DEF Init, NoSearching
    <2>2. search \in Records /\ listing \in Seq(AllRows)
      BY <2>1, NoSearchRecord
    <2> QED BY <2>1, <2>2 DEF SearchTypeOK, Records
  <1>3. SInv
    BY <1>1, <1>2, ClientAssumption DEF SInv, SearchInv, ClockInv, NothingSkipped, SearchBounded
  <1>4. ResultOK
    BY DEF Init, GatherEmpty, ResultOK, NoCall, Calls, Answers
  <1> QED BY <1>3, <1>4

\* The invariant holds in every reachable state.
LEMMA Inductive == Spec => [](SInv /\ ResultOK)
  <1>1. ASSUME SInv, ResultOK, [Next]_vars PROVE SInv' /\ ResultOK'
    <2>1. CASE Next
      BY <1>1, <2>1, StepKeepsSearch, StepKeepsType
    <2>2. CASE UNCHANGED vars
      BY <1>1, <2>2 DEF vars, searchVars, listVars, gatherVars, SInv, SearchTypeOK, SearchInv,
         ClockInv, NothingSkipped, SearchBounded, Ahead, ResultOK
    <2> QED BY <1>1, <2>1, <2>2
  <1> QED BY <1>1, InitHolds, PTL DEF Spec

\* Every variable of a gather keeps its type (gather.rs 35-76, snipeit_client.rs
\* 264-313), for any monitors and lists.
THEOREM GatherTypeOK == Spec => []TypeOK
  <1>1. SInv /\ ResultOK => TypeOK
    BY DEF SInv, ResultOK, TypeOK, AllRows
  <1> QED BY <1>1, Inductive, PTL

\* A search that succeeds has read every row that was listed all along, for any
\* page size, limits and number of additions (snipeit_client.rs 264-313).
THEOREM SearchSkipsNothing == Spec => []NothingSkipped
  <1>1. SInv => NothingSkipped
    BY DEF SInv, SearchInv
  <1> QED BY <1>1, Inductive, PTL

\* A search ends within its deadline and the timeout of one request, for any two
\* of them (snipeit_client.rs 276-291).
THEOREM SearchIsBounded == Spec => []SearchBounded
  <1>1. SInv => SearchBounded
    BY DEF SInv, ClockInv
  <1> QED BY <1>1, Inductive, PTL

-----------------------------------------------------------------------------
(* What an answer says of the server                                       *)

\* A request answers Ok only to a reply of success whose body its parser accepts,
\* and a lookup NotFound only to the server's word or a 404.
LEMMA WhatAnswersSay ==
    ASSUME NEW reply \in Replies
    PROVE  /\ PageAnswer(reply) = "ok" => IsSuccess(reply.status)
           /\ AssetAnswer(reply) = "NotFound" => SaysMissing(reply)
           /\ PatchAnswer(reply) = "ok" =>
                IsSuccess(reply.status) /\ reply.body \in {"success", "asset"}
           /\ MutationAnswer(reply) = "ok" =>
                IsSuccess(reply.status) /\ reply.body \in RowBodies \cup {"success"}
  <1> DEFINE read == ReadResponse(reply)
  <1>1. /\ read = "ok" => IsSuccess(reply.status)
        /\ read = "NotFound" => reply.status = 404
    BY DEF ReadResponse, ClassifyStatus
  <1>2. ASSUME NEW good, NEW special, "ok" \notin DOMAIN special,
               Decoded(reply, good, special) = "ok"
        PROVE  IsSuccess(reply.status) /\ reply.body \in good
    <2> DEFINE own == {e \in DOMAIN special : reply.body \in special[e]}
    <2>1. own # {} => (CHOOSE e \in own : TRUE) \in DOMAIN special
      OBVIOUS
    <2> QED BY <1>1, <1>2, <2>1 DEF Decoded
  <1>3. PageAnswer(reply) = "ok" => IsSuccess(reply.status)
    BY <1>2 DEF PageAnswer
  <1>4. PatchAnswer(reply) = "ok" =>
          IsSuccess(reply.status) /\ reply.body \in {"success", "asset"}
    <2>1. "ok" \notin DOMAIN [InvalidResponse |-> {"no payload"}]
      OBVIOUS
    <2>2. CASE PatchAnswer(reply) = "ok"
      <3>1. Decoded(reply, {"success", "asset"}, [InvalidResponse |-> {"no payload"}]) = "ok"
        BY <2>2 DEF PatchAnswer
      <3> QED BY <1>2, <2>1, <3>1
    <2> QED BY <2>2
  <1>5. MutationAnswer(reply) = "ok" =>
          IsSuccess(reply.status) /\ reply.body \in RowBodies \cup {"success"}
    <2> DEFINE special == [Validation |-> {"refusal"}, InvalidResponse |-> {"no payload"}]
    <2>1. "ok" \notin DOMAIN special
      OBVIOUS
    <2>2. CASE MutationAnswer(reply) = "ok"
      <3>1. Decoded(reply, RowBodies \cup {"success"}, special) = "ok"
        BY <2>2 DEF MutationAnswer
      <3> HIDE DEF special
      <3> QED BY <1>2, <2>1, <3>1
    <2> QED BY <2>2
  <1>6. AssetAnswer(reply) = "NotFound" => SaysMissing(reply)
    <2> DEFINE special == [NotFound |-> {"not found", "no rows"},
                           AmbiguousResponse |-> {"more rows"}]
               own == {e \in DOMAIN special : reply.body \in special[e]}
    <2>1. own # {} => (CHOOSE e \in own : TRUE) \in own
      OBVIOUS
    <2>2. "NotFound" \in own => reply.body \in {"not found", "no rows"}
      OBVIOUS
    <2>3. AssetAnswer(reply) = IF read # "ok" THEN read
                               ELSE IF reply.body \in {"asset", "one row"} THEN "ok"
                               ELSE IF own # {} THEN CHOOSE e \in own : TRUE
                               ELSE "InvalidResponse"
      BY DEF AssetAnswer, Decoded
    <2> HIDE DEF own, read
    <2> QED BY <1>1, <2>1, <2>2, <2>3 DEF SaysMissing
  <1> QED BY <1>3, <1>4, <1>5, <1>6

\* A server without this API never gives a page, and what is missing was denied.
AnsweredInv ==
    /\ wrong /\ search.pc = "body" => search.read # "ok"
    /\ wrong /\ search.pc = "done" => search.answer # "ok"
    /\ missing \subseteq denied
    /\ CompletedWasAnswered

\* The record of a search that ends.
LEMMA EndedAnswer ==
    ASSUME NEW answer, NEW values, SearchEnds(answer, values)
    PROVE  search'.pc = "done" /\ search'.answer = answer
  BY DEF SearchEnds, NoSearch

\* A step of a search against the wrong server ends in no page.
LEMMA SearchKeepsAnswered ==
    ASSUME SInv, ResultOK, AnsweredInv, SearchGoesOn
    PROVE  AnsweredInv'
  <1>1. UNCHANGED <<pc, missing, denied, wrong>>
    BY DEF SearchGoesOn, gatherVars, NothingCalled
  <1>2. search \in Records
    BY DEF SInv, SearchTypeOK, Records
  <1>3. \/ SearchEnds("InvalidResponse", <<>>) \/ SearchEnds("NetworkError", <<>>)
        \/ search.pc = "body" /\ search.read # "ok" /\ SearchEnds(search.read, <<>>)
        \/ search.pc = "body" /\ search.read = "ok"
             /\ SearchEnds("ok", search.values \o search.served)
        \/ \E reply \in PageReplies : HeadersArrive(reply)
        \/ FullPage \/ SendPage \/ TimePasses \/ UNCHANGED search
    BY DEF SearchGoesOn, SearchStep, DeadlinePassed, RequestFails, BodyFails, LimitExceeded,
           ShortPage, SomeoneAdds, SomeoneRemoves
  <1>4. /\ wrong /\ search'.pc = "body" => search'.read # "ok"
        /\ wrong /\ search'.pc = "done" => search'.answer # "ok"
    <2>1. CASE SearchEnds("InvalidResponse", <<>>) \/ SearchEnds("NetworkError", <<>>)
      BY <2>1, EndedAnswer
    <2>2. CASE search.pc = "body" /\ search.read # "ok" /\ SearchEnds(search.read, <<>>)
      BY <2>2, EndedAnswer
    <2>3. CASE search.pc = "body" /\ search.read = "ok"
                 /\ SearchEnds("ok", search.values \o search.served)
      BY <2>3, EndedAnswer DEF AnsweredInv
    <2>4. CASE \E reply \in PageReplies : HeadersArrive(reply)
      <3>1. PICK reply \in PageReplies : HeadersArrive(reply)
        BY <2>4
      <3>2. search'.pc = "body" /\ search'.read = PageAnswer(reply)
        BY <1>2, <3>1 DEF HeadersArrive, Records
      <3>3. wrong => ~IsSuccess(reply.status)
        BY DEF PageReplies, IsSuccess
      <3> QED BY <3>2, <3>3, WhatAnswersSay DEF PageReplies
    <2>5. CASE FullPage \/ SendPage
      BY <1>2, <2>5 DEF FullPage, SendPage, Records
    <2>6. CASE TimePasses
      BY <1>2, <2>6 DEF TimePasses, Records, AnsweredInv
    <2>7. CASE UNCHANGED search
      BY <2>7 DEF AnsweredInv
    <2> QED BY <1>3, <2>1, <2>2, <2>3, <2>4, <2>5, <2>6, <2>7
  <1> QED BY <1>1, <1>4 DEF AnsweredInv, CompletedWasAnswered

\* Every step of a gather keeps that the server answered for what it lacks.
LEMMA StepKeepsAnswered ==
    ASSUME SInv, ResultOK, AnsweredInv, Next
    PROVE  AnsweredInv'
  <1>1. CASE Discover
    BY <1>1 DEF Discover, NothingCalled, searchVars, AnsweredInv, CompletedWasAnswered
  <1>2. CASE DiscoverFails \/ LookupFails \/ LookupRefused
    BY <1>2, FailsType DEF DiscoverFails, LookupFails, LookupRefused, NothingCalled, searchVars,
       AnsweredInv, CompletedWasAnswered
  <1>3. CASE LookupAnswered
    <2>0. PICK exists \in BOOLEAN : \E reply \in LookupReplies(exists) :
             /\ AssetAnswer(reply) \in {"ok", "NotFound"}
             /\ IF AssetAnswer(reply) = "ok"
                THEN found' = found \cup {Head(todo)} /\ UNCHANGED missing
                ELSE missing' = missing \cup {Head(todo)} /\ UNCHANGED found
             /\ denied' = IF SaysMissing(reply) THEN denied \cup {Head(todo)} ELSE denied
      BY <1>3 DEF LookupAnswered
    <2>1. PICK reply \in LookupReplies(exists) :
             /\ AssetAnswer(reply) \in {"ok", "NotFound"}
             /\ IF AssetAnswer(reply) = "ok"
                THEN found' = found \cup {Head(todo)} /\ UNCHANGED missing
                ELSE missing' = missing \cup {Head(todo)} /\ UNCHANGED found
             /\ denied' = IF SaysMissing(reply) THEN denied \cup {Head(todo)} ELSE denied
      BY <2>0
    <2>2. missing' \subseteq denied'
      <3>1. AssetAnswer(reply) = "NotFound" => SaysMissing(reply)
        BY WhatAnswersSay DEF LookupReplies
      <3>2. AssetAnswer(reply) = "ok" => missing' = missing
        BY <2>1
      <3>3. AssetAnswer(reply) # "ok" => missing' = missing \cup {Head(todo)}
        BY <2>1
      <3>4. denied \subseteq denied' /\ (SaysMissing(reply) => Head(todo) \in denied')
        BY <2>1
      <3> QED BY <2>1, <3>1, <3>2, <3>3, <3>4 DEF AnsweredInv
    <2> QED BY <1>3, <2>2 DEF LookupAnswered, NothingCalled, searchVars, AnsweredInv,
               CompletedWasAnswered
  <1>4. CASE SearchList
    <2>1. search'.pc = "page"
      BY <1>4 DEF SearchList, BeginSearch, NoSearch
    <2> QED BY <1>4, <2>1 DEF SearchList, gatherVars, NothingCalled, AnsweredInv,
               CompletedWasAnswered
  <1>5. CASE SearchGoesOn
    BY <1>5, SearchKeepsAnswered
  <1>6. CASE SearchFailed
    <2>1. search'.pc = "idle"
      BY <1>6 DEF SearchFailed, SearchTaken, NoSearch
    <2> QED BY <1>6, <2>1, FailsType DEF SearchFailed, NothingCalled, AnsweredInv,
               CompletedWasAnswered
  <1>7. CASE MakersListed \/ ModelsListed
    <2>1. search'.pc = "idle"
      BY <1>7 DEF MakersListed, ModelsListed, SearchTaken, NoSearch
    <2>2. ~wrong
      BY <1>7 DEF MakersListed, ModelsListed, SearchTaken, AnsweredInv
    <2> QED BY <1>7, <2>1, <2>2 DEF MakersListed, ModelsListed, NothingCalled, AnsweredInv,
               CompletedWasAnswered
  <1>8. CASE \E kind \in Calls : BeginCall(kind)
    BY <1>8 DEF BeginCall, GatherDropped, searchVars, AnsweredInv, CompletedWasAnswered
  <1>9. CASE ServerApplies \/ CallAnswered \/ CallFails
    <2>1. UNCHANGED <<search, pc, missing, denied, wrong>>
      BY <1>9 DEF ServerApplies, CallAnswered, CallFails, searchVars, gatherVars
    <2> QED BY <2>1 DEF AnsweredInv, CompletedWasAnswered
  <1>10. CASE StartAgain
    BY <1>10 DEF StartAgain, GatherDropped, searchVars, AnsweredInv, CompletedWasAnswered
  <1> QED BY <1>1, <1>2, <1>3, <1>4, <1>5, <1>6, <1>7, <1>8, <1>9, <1>10 DEF Next

\* Every step of a mutating call keeps that an Ok was carried out.
LEMMA StepKeepsApplied ==
    ASSUME ResultOK, OkWasApplied, Next
    PROVE  OkWasApplied'
  <1>1. CASE \E kind \in Calls : BeginCall(kind)
    BY <1>1 DEF BeginCall, OkWasApplied
  <1>2. CASE ServerApplies
    BY <1>2 DEF ServerApplies, OkWasApplied, ResultOK
  <1>3. CASE CallAnswered
    <2>1. PICK reply \in CallReplies :
             call' = [call EXCEPT !.pc = "answered", !.answer = CallAnswer(call.kind, reply)]
      BY <1>3 DEF CallAnswered
    <2>2. call'.answer = CallAnswer(call.kind, reply) /\ call'.applied = call.applied
      BY <2>1 DEF ResultOK
    <2>3. CallAnswer(call.kind, reply) = "ok" => call.applied
      BY <2>1, WhatAnswersSay DEF CallReplies, CallAnswer
    <2> QED BY <2>2, <2>3 DEF OkWasApplied
  <1>4. CASE CallFails
    BY <1>4 DEF CallFails, OkWasApplied, ResultOK
  <1>5. CASE StartAgain
    BY <1>5 DEF StartAgain, NoCall, OkWasApplied
  <1> QED BY <1>1, <1>2, <1>3, <1>4, <1>5
          DEF Next, Discover, DiscoverFails, LookupFails, LookupAnswered, LookupRefused,
              SearchList, SearchGoesOn, SearchFailed, MakersListed, ModelsListed, NothingCalled,
              OkWasApplied

\* A gather that completes found each serial's asset or the server's word that it
\* has none, and never completes against a server without this API (gather.rs
\* 78-91), for any monitors, lists and limits.
THEOREM MissingWasAnswered == Spec => []CompletedWasAnswered
  <1>1. Init => AnsweredInv
    BY DEF Init, NoSearching, NoSearch, GatherEmpty, AnsweredInv, CompletedWasAnswered
  <1>2. ASSUME SInv, ResultOK, AnsweredInv, [Next]_vars PROVE AnsweredInv'
    <2>1. CASE UNCHANGED vars
      BY <1>2, <2>1 DEF vars, searchVars, gatherVars, AnsweredInv, CompletedWasAnswered
    <2> QED BY <1>2, <2>1, StepKeepsAnswered
  <1>3. AnsweredInv => CompletedWasAnswered
    BY DEF AnsweredInv
  <1> QED BY <1>1, <1>2, <1>3, Inductive, PTL DEF Spec

\* A mutating call that returns Ok has been carried out, whatever replies the
\* server or what stands before it gives (snipeit/mod.rs 219-275).
THEOREM OkMeansApplied == Spec => []OkWasApplied
  <1>1. Init => OkWasApplied
    BY DEF Init, NoCall, OkWasApplied
  <1>2. ASSUME ResultOK, OkWasApplied, [Next]_vars PROVE OkWasApplied'
    <2>1. CASE UNCHANGED vars
      BY <1>2, <2>1 DEF vars, OkWasApplied
    <2> QED BY <1>2, <2>1, StepKeepsApplied
  <1> QED BY <1>1, <1>2, Inductive, PTL DEF Spec

=============================================================================
