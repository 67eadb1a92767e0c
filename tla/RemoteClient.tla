----------------------------- MODULE RemoteClient -----------------------------
(***************************************************************************)
(* The Snipe-IT client: what it makes of the server's replies, and the     *)
(* paged search over a list that other people edit meanwhile               *)
(* (snipeit_client.rs and spotter-core's snipeit module).  A reply is its  *)
(* status and the kind of body the client tells apart; an answer is "ok"   *)
(* or the SnipeItError the caller gets.                                    *)
(***************************************************************************)
EXTENDS Naturals, Sequences, Functions

CONSTANTS
    PageSize,        \* PAGE_SIZE, 100 in the code
    MaxPages,        \* MAX_PAGE_REQUESTS, 100
    MaxRows,         \* MAX_TOTAL_ROWS, 10 000
    Deadline,        \* PAGINATION_DEADLINE, 60 s
    RequestTimeout,  \* the HTTP client's timeout, 30 s
    ServerLimits,    \* how many rows the server may put in a page
    MaxListed,       \* bound: the longest list
    MaxChanges       \* bound: edits of a list while it is searched

ASSUME ClientAssumption ==
    /\ PageSize \in Nat \ {0} /\ MaxPages \in Nat \ {0} /\ MaxRows \in Nat
    /\ Deadline \in Nat \ {0} /\ RequestTimeout \in Nat \ {0}
    /\ MaxListed \in Nat /\ MaxChanges \in Nat
\* A server that gave shorter pages than it was asked for would end a search early.
ASSUME ServerAssumption == ServerLimits \subseteq {n \in Nat : n >= PageSize}

VARIABLES
    listing,  \* the list being searched, in the order the server lists it
    changes,  \* edits of it so far
    search,   \* the search in progress
    steady,   \* history: rows listed ever since the search began
    shrunk    \* history: whether a row has left the list since then

listVars   == <<listing, changes, steady, shrunk>>
searchVars == <<listVars, search>>

-----------------------------------------------------------------------------
(* Replies and answers                                                     *)

\* One status of each arm of classify_status, and a redirect.
Statuses == {200, 301, 401, 403, 404, 422, 429, 503}

RowBodies == {"no rows", "one row", "more rows"}

Bodies ==
    RowBodies \cup
    {"oversized",    \* over the limit for its status, by header or by content
     "garbage",      \* not UTF-8, or not JSON
     "not found",    \* a message that says "not found" or "no asset"
     "refusal",      \* {"status": "error"}, its payload not an asset
     "no payload",   \* a payload that is null
     "success",      \* {"status": "success", "payload": an asset}
     "asset",        \* an asset with its id
     "blank"}        \* an object with none of these: serde's defaults, id 0

Replies == [status : Statuses, body : Bodies]

Errors ==
    {"NotFound", "AuthFailure", "PermissionDenied", "RateLimited", "Validation",
     "ServerError", "AmbiguousResponse", "InvalidResponse", "NetworkError"}

Answers == Errors \cup {"ok"}

IsSuccess(status) == status \in 200 .. 299

\* classify_status; parse_success has the same arms.
ClassifyStatus(status) ==
    IF status = 401 THEN "AuthFailure"
    ELSE IF status = 403 THEN "PermissionDenied"
    ELSE IF status = 404 THEN "NotFound"
    ELSE IF status = 429 THEN "RateLimited"
    ELSE IF status \in 500 .. 599 THEN "ServerError"
    ELSE IF status \in {400, 409, 422} THEN "Validation"
    ELSE "InvalidResponse"

\* read_response: an oversized body of an error keeps the error's class.
ReadResponse(reply) ==
    IF ~ IsSuccess(reply.status) THEN ClassifyStatus(reply.status)
    ELSE IF reply.body = "oversized" THEN "InvalidResponse"
    ELSE "ok"

\* decode_response with a parser that accepts the bodies of `good` and has an
\* error of its own for some others; whatever else fails to decode.
Decoded(reply, good, special) ==
    LET read == ReadResponse(reply)
        own  == {e \in DOMAIN special : reply.body \in special[e]}
    IN  IF read # "ok" THEN read
        ELSE IF reply.body \in good THEN "ok"
        ELSE IF own # {} THEN CHOOSE e \in own : TRUE
        ELSE "InvalidResponse"

\* parse_asset_by_serial, for find_asset_by_serial and get_asset.
AssetAnswer(reply) ==
    Decoded(reply, {"asset", "one row"},
            [NotFound |-> {"not found", "no rows"}, AmbiguousResponse |-> {"more rows"}])

\* parse_asset_patch: the payload when there is one, else the object itself.
PatchAnswer(reply) == Decoded(reply, {"success", "asset"}, [InvalidResponse |-> {"no payload"}])

\* Mutant of MutationAnswer: the status of the body is not looked at.
MutationAnswerByHttpStatus(reply) ==
    Decoded(reply, RowBodies \cup {"success", "refusal"}, [InvalidResponse |-> {"no payload"}])

\* parse_mutation_response, for check-out and check-in: rows or a status, no null
\* payload, and no status "error".
MutationAnswer(reply) ==
    Decoded(reply, RowBodies \cup {"success"},
            [Validation |-> {"refusal"}, InvalidResponse |-> {"no payload"}])

\* Mutant of PageAnswer: a list that is not there is an empty list.
PageAnswerLenient(reply) ==
    IF reply.status = 404 THEN "ok" ELSE Decoded(reply, RowBodies, [InvalidResponse |-> {}])

\* One page of a list, whatever it holds.
PageAnswer(reply) == Decoded(reply, RowBodies, [InvalidResponse |-> {}])

-----------------------------------------------------------------------------
(* The server's list.  New rows appear anywhere in its order.              *)

Inserted(list, i, row) ==
    [k \in 1 .. Len(list) + 1 |->
        IF k < i THEN list[k] ELSE IF k = i THEN row ELSE list[k - 1]]

Removed(list, i) == [k \in 1 .. Len(list) - 1 |-> IF k < i THEN list[k] ELSE list[k + 1]]

\* Mutant of PageOf: the first page is left out.
PageOfFromOne(list, page, limit) ==
    LET offset == (page + 1) * PageSize
        count  == IF Len(list) <= offset THEN 0
                  ELSE IF Len(list) - offset < limit THEN Len(list) - offset ELSE limit
    IN  [k \in 1 .. count |-> list[offset + k]]

\* The page a request for `page` gets: up to `limit` rows from its offset.
PageOf(list, page, limit) ==
    LET offset == page * PageSize
        count  == IF Len(list) <= offset THEN 0
                  ELSE IF Len(list) - offset < limit THEN Len(list) - offset ELSE limit
    IN  [k \in 1 .. count |-> list[offset + k]]

Searching == search.pc \notin {"idle", "done"}

\* `rows` are those the list may hold.
SomeoneAdds(rows) ==
    /\ Searching /\ changes < MaxChanges /\ Len(listing) < MaxListed
    /\ \E row \in rows \ Range(listing), i \in 1 .. Len(listing) + 1 :
          listing' = Inserted(listing, i, row)
    /\ changes' = changes + 1
    /\ UNCHANGED <<search, steady, shrunk>>

SomeoneRemoves ==
    /\ Searching /\ changes < MaxChanges
    /\ \E i \in 1 .. Len(listing) :
          /\ listing' = Removed(listing, i)
          /\ steady' = steady \ {listing[i]}
    /\ shrunk' = TRUE
    /\ changes' = changes + 1
    /\ UNCHANGED search

-----------------------------------------------------------------------------
(* paginated                                                               *)

NoSearch ==
    [pc |-> "idle", page |-> 0, elapsed |-> 0, sent |-> 0,
     read |-> "ok", served |-> <<>>, values |-> <<>>, answer |-> "ok"]

\* Distinct rows in any order: between two searches the lists change at will.
Listings(rows) ==
    {list \in UNION {[1 .. n -> rows] : n \in 0 .. MaxListed} : IsInjective(list)}

BeginSearch(rows) ==
    /\ search.pc = "idle"
    /\ search' = [NoSearch EXCEPT !.pc = "page"]
    /\ listing' \in Listings(rows)
    /\ steady' = Range(listing')
    /\ UNCHANGED <<changes, shrunk>>

\* Everything but the values is forgotten, and those too when the search fails.
SearchEnds(answer, values) ==
    /\ search' = [NoSearch EXCEPT !.pc = "done", !.answer = answer, !.values = values,
                                  !.elapsed = search.elapsed]
    /\ UNCHANGED listVars

NoSearching ==
    /\ listing = <<>> /\ changes = 0
    /\ search = NoSearch
    /\ steady = {} /\ shrunk = FALSE

\* The caller has taken the answer.
SearchTaken ==
    /\ search.pc = "done"
    /\ listing' = <<>> /\ changes' = 0
    /\ search' = NoSearch
    /\ steady' = {} /\ shrunk' = FALSE

\* Mutant of SendPage: the deadline is only looked at while a request is out.
SendPageAnyway ==
    /\ search.pc = "page"
    /\ search' = [search EXCEPT !.pc = "sent", !.sent = search.elapsed]
    /\ UNCHANGED listVars

SendPage ==
    /\ search.pc = "page" /\ search.elapsed < Deadline
    /\ search' = [search EXCEPT !.pc = "sent", !.sent = search.elapsed]
    /\ UNCHANGED listVars

DeadlinePassed ==
    /\ search.pc \in {"page", "sent"} /\ search.elapsed >= Deadline
    /\ SearchEnds("InvalidResponse", <<>>)

RequestExpired == search.elapsed - search.sent >= RequestTimeout

\* The wait for the headers is cut at the deadline; the body has only the
\* request's own timeout.
TimePasses ==
    /\ \/ search.pc = "sent" /\ search.elapsed < Deadline
       \/ search.pc = "body"
    /\ ~ RequestExpired
    /\ search' = [search EXCEPT !.elapsed = @ + 1]
    /\ UNCHANGED listVars

\* The connection fails at any time, or the request's timeout passes.
RequestFails ==
    /\ search.pc \in {"sent", "body"}
    /\ SearchEnds("NetworkError", <<>>)

\* The server answers from the list as it is now.
HeadersArrive(reply) ==
    /\ search.pc = "sent"
    /\ \E limit \in ServerLimits :
          search' = [search EXCEPT !.pc = "body", !.read = PageAnswer(reply),
              !.served = IF reply.body \in RowBodies
                         THEN PageOf(listing, search.page, limit) ELSE <<>>]
    /\ UNCHANGED listVars

TooMuch ==
    \/ Len(search.served) > PageSize
    \/ Len(search.values) + Len(search.served) > MaxRows

BodyFails ==
    /\ search.pc = "body" /\ search.read # "ok"
    /\ SearchEnds(search.read, <<>>)

\* Too long a page, too many rows, or a full page that is the last one allowed.
LimitExceeded ==
    /\ search.pc = "body" /\ search.read = "ok"
    /\ TooMuch \/ (Len(search.served) = PageSize /\ search.page + 1 = MaxPages)
    /\ SearchEnds("InvalidResponse", <<>>)

\* A short page ends the search.
ShortPage ==
    /\ search.pc = "body" /\ search.read = "ok" /\ ~ TooMuch
    /\ Len(search.served) < PageSize
    /\ SearchEnds("ok", search.values \o search.served)

FullPage ==
    /\ search.pc = "body" /\ search.read = "ok" /\ ~ TooMuch
    /\ Len(search.served) = PageSize /\ search.page + 1 < MaxPages
    /\ search' = [search EXCEPT !.pc = "page", !.page = @ + 1, !.served = <<>>,
                                !.values = @ \o search.served]
    /\ UNCHANGED listVars

\* `replies` is what the server may answer.
SearchStep(rows, replies) ==
    \/ SendPage \/ DeadlinePassed \/ TimePasses \/ RequestFails
    \/ BodyFails \/ LimitExceeded \/ ShortPage \/ FullPage
    \/ \E reply \in replies : HeadersArrive(reply)
    \/ SomeoneAdds(rows) \/ SomeoneRemoves

-----------------------------------------------------------------------------
(* Properties                                                              *)

\* The type of the variables, for lists of `rows`.
SearchTypeOK(rows) ==
    /\ listing \in Seq(rows) /\ changes \in Nat
    /\ search \in [pc : {"idle", "page", "sent", "body", "done"}, page : Nat, elapsed : Nat,
                   sent : Nat, read : Answers, served : Seq(rows), values : Seq(rows),
                   answer : Answers]
    /\ steady \subseteq rows /\ shrunk \in BOOLEAN

\* A search that succeeds has every row that was listed all along, although
\* pages are counted from the start of a list that grows between them: nothing
\* less than a removal hides a row, so a name that two rows carry is never taken
\* for a unique one (paginated, snipeit_client.rs 264-313).
NothingSkipped ==
    search.pc = "done" /\ search.answer = "ok" /\ ~shrunk
        => steady \subseteq Range(search.values)

\* A search lasts no longer than its deadline and the timeout of one request: a
\* body that dribbles in is not cut at the deadline, but no page is asked for
\* after it (snipeit_client.rs 276-291).
SearchBounded == search.elapsed < Deadline + RequestTimeout

=============================================================================
