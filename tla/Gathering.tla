------------------------------- MODULE Gathering -------------------------------
(***************************************************************************)
(* What a synchronization gathers before it plans: the computer and its    *)
(* monitors as the firmware and WMI report them, the asset each serial     *)
(* finds, and the maker, model and category its names resolve to in lists  *)
(* that other people edit meanwhile (gather.rs, discovery.rs, smbios.rs);  *)
(* and the mutating calls that follow from it.                             *)
(***************************************************************************)
EXTENDS RemoteClient, FiniteSets, SequencesExt

CONSTANTS
    Computer,   \* the computer, one of the things looked up
    Monitors,   \* monitors that may be attached
    Makers, Models,     \* the rows the two lists may hold
    Missing, Ambiguous, \* TaxonomyResolution without an id
    MaxStructures       \* bound: SMBIOS structures in a table

Targets == {Computer} \cup Monitors

\* `names` are the targets whose name is the row's, normalized; an id of 0 is
\* what serde makes of a missing one.
ASSUME GatherAssumption ==
    /\ \A row \in Makers : row.id \in Nat /\ row.names \subseteq Targets
    /\ \A row \in Models : /\ row.id \in Nat /\ row.names \subseteq Targets
                           /\ row.maker \in Nat /\ row.category \in Nat
    /\ IsFiniteSet(Monitors) /\ Computer \notin Monitors
    /\ Missing # Ambiguous /\ {Missing, Ambiguous} \cap Nat = {}
    /\ MaxStructures \in Nat

VARIABLES
    pc,        \* where gather_sync is
    todo,      \* targets whose asset and taxonomy are still to be found
    found,     \* targets with an asset
    missing,   \* targets without one
    maker,     \* the resolution of the current target's manufacturer
    resolved,  \* targets with all of their taxonomy resolved
    state,     \* the service state that a failed gather leaves
    wrong,     \* whether the base URL leads to a server without this API
    call,      \* the mutating call in progress
    denied     \* history: targets the server itself said it has no asset for

gatherVars == <<pc, todo, found, missing, maker, resolved, state, denied>>
vars == <<searchVars, gatherVars, wrong, call>>

-----------------------------------------------------------------------------
(* Discovery                                                               *)

\* An SMBIOS structure, by what parse_smbios_tables tells apart: its kind and
\* whether its strings carry the machine's identity.
Structures == [kind : {"system", "board", "chassis", "end", "other"}, filled : BOOLEAN]

\* A system structure replaces what is known, a board structure fills the gaps,
\* and nothing is read after an end-of-table structure.
Nothing == [filled |-> FALSE, chassis |-> FALSE, ended |-> FALSE]

Absorb(known, next) ==
    IF known.ended THEN known
    ELSE [filled  |-> IF next.kind = "system" THEN next.filled
                      ELSE known.filled \/ (next.kind = "board" /\ next.filled),
          chassis |-> known.chassis \/ next.kind = "chassis",
          ended   |-> next.kind = "end"]

\* A table that parses: required system and chassis information is there.
Identified(table) ==
    LET known == FoldLeft(Absorb, Nothing, table) IN known.filled /\ known.chassis

\* convert_monitor: an active monitor with a serial is reported.
WmiRows == [active : BOOLEAN, serial : BOOLEAN]
Reported(rows) == {m \in Monitors : rows[m].active /\ rows[m].serial}

-----------------------------------------------------------------------------
(* Resolution                                                              *)

\* resolution_from_ids: missing, the one nonzero id, or ambiguous.
Resolution(ids) ==
    LET real == ids \ {0}
    IN  IF real = {} THEN Missing
        ELSE IF Cardinality(real) = 1 THEN CHOOSE id \in real : TRUE
        ELSE Ambiguous

Resolved(resolution) == resolution \notin {Missing, Ambiguous}

Named(rows, target) == {row \in Range(rows) : target \in row.names}

\* resolve_named
MakerOf(rows, target) == Resolution({row.id : row \in Named(rows, target)})

\* matching_models: of any manufacturer when none was resolved.
MatchingModels(rows, target, by) ==
    {row \in Named(rows, target) : Resolved(by) => row.maker = by}

TaxonomyOf(rows, target, by) ==
    LET models == MatchingModels(rows, target, by)
    IN  [maker    |-> by,
         model    |-> Resolution({row.id : row \in models}),
         category |-> Resolution({row.category : row \in models})]

\* taxonomy_resolved
TaxonomyResolved(taxonomy) == \A part \in DOMAIN taxonomy : Resolved(taxonomy[part])

-----------------------------------------------------------------------------
(* gather_sync                                                             *)

\* A server without this API answers every request 404; the real one shows an
\* asset it has and says so when it has none.  Anything in between may answer
\* instead of it.
LookupReplies(exists) ==
    {reply \in Replies :
        /\ wrong => reply.status = 404
        /\ IsSuccess(reply.status) /\ reply.body \in {"asset", "one row"} => exists
        /\ IsSuccess(reply.status) /\ reply.body \in {"not found", "no rows"} => ~ exists}

PageReplies == {reply \in Replies : wrong => reply.status = 404}

SaysMissing(reply) ==
    \/ reply.status = 404
    \/ IsSuccess(reply.status) /\ reply.body \in {"not found", "no rows"}

\* state_after_sync_error
StateAfter(answer) ==
    IF answer \in {"AuthFailure", "PermissionDenied"} THEN "Unconfigured" ELSE "Error"

GatherEmpty ==
    /\ todo = <<>> /\ found = {} /\ missing = {} /\ maker = Missing
    /\ resolved = {} /\ denied = {}

GatherDropped ==
    /\ todo' = <<>> /\ found' = {} /\ missing' = {} /\ maker' = Missing
    /\ resolved' = {} /\ denied' = {}

\* The error is all that is left of the gather.
Fails(answer) ==
    /\ pc' = "failed"
    /\ state' = StateAfter(answer)
    /\ GatherDropped

NothingCalled == UNCHANGED <<wrong, call>>

\* The firmware table and the WMI rows are read ...
Discover ==
    /\ pc = "start"
    /\ \E table \in BoundedSeq(Structures, MaxStructures) : Identified(table)
    /\ \E rows \in [Monitors -> WmiRows] : todo' = <<Computer>> \o SetToSeq(Reported(rows))
    /\ pc' = "asset"
    /\ UNCHANGED <<searchVars, found, missing, maker, resolved, state, denied>> /\ NothingCalled

\* ... unless one of them cannot be, or the table does not parse.
DiscoverFails ==
    /\ pc = "start"
    /\ Fails("discovery")
    /\ UNCHANGED searchVars /\ NothingCalled

\* The serial is not a URL segment, or the request does not come through.
LookupFails ==
    /\ pc = "asset"
    /\ \E answer \in {"Validation", "NetworkError"} : Fails(answer)
    /\ UNCHANGED searchVars /\ NothingCalled

\* find_asset_by_serial and optional_asset: only NotFound is a missing asset.
LookupAnswered ==
    /\ pc = "asset"
    /\ \E exists \in BOOLEAN : \E reply \in LookupReplies(exists) :
          /\ AssetAnswer(reply) \in {"ok", "NotFound"}
          /\ IF AssetAnswer(reply) = "ok"
             THEN found' = found \cup {Head(todo)} /\ UNCHANGED missing
             ELSE missing' = missing \cup {Head(todo)} /\ UNCHANGED found
          /\ denied' = IF SaysMissing(reply) THEN denied \cup {Head(todo)} ELSE denied
    /\ pc' = "makers"
    /\ UNCHANGED <<searchVars, todo, maker, resolved, state>> /\ NothingCalled

LookupRefused ==
    /\ pc = "asset"
    /\ \E exists \in BOOLEAN : \E reply \in LookupReplies(exists) :
          AssetAnswer(reply) \notin {"ok", "NotFound"} /\ Fails(AssetAnswer(reply))
    /\ UNCHANGED searchVars /\ NothingCalled

\* resolve_taxonomy: find_manufacturers, then find_models.
ListRows == IF pc = "makers" THEN Makers ELSE Models

SearchList ==
    /\ pc \in {"makers", "models"}
    /\ BeginSearch(ListRows)
    /\ UNCHANGED gatherVars /\ NothingCalled

SearchGoesOn == SearchStep(ListRows, PageReplies) /\ UNCHANGED gatherVars /\ NothingCalled

SearchFailed ==
    /\ SearchTaken /\ search.answer # "ok"
    /\ Fails(search.answer)
    /\ NothingCalled

MakersListed ==
    /\ SearchTaken /\ search.answer = "ok" /\ pc = "makers"
    /\ maker' = MakerOf(search.values, Head(todo))
    /\ pc' = "models"
    /\ UNCHANGED <<todo, found, missing, resolved, state, denied>> /\ NothingCalled

ModelsListed ==
    /\ SearchTaken /\ search.answer = "ok" /\ pc = "models"
    /\ resolved' = IF TaxonomyResolved(TaxonomyOf(search.values, Head(todo), maker))
                   THEN resolved \cup {Head(todo)} ELSE resolved
    /\ maker' = Missing
    /\ todo' = Tail(todo)
    /\ pc' = IF Tail(todo) = <<>> THEN "done" ELSE "asset"
    /\ UNCHANGED <<found, missing, state, denied>> /\ NothingCalled

-----------------------------------------------------------------------------
(* The mutating calls                                                      *)

Calls == {"patch", "checkout", "checkin"}

NoCall == [pc |-> "none", kind |-> "patch", applied |-> FALSE, answer |-> "ok"]

\* plan_system_update and plan_sync: what a plan asks of the server.  A check-in
\* is of a known monitor, whatever was gathered.
Planned(kind) ==
    \/ kind = "patch" /\ Computer \in found /\ Computer \in resolved
    \/ /\ kind = "checkout" /\ Computer \in found
       /\ Monitors \cap found \cap resolved # {}
    \/ kind = "checkin"

\* The port reads the asset first: what is applied already is not sent again.
BeginCall(kind) ==
    /\ pc = "done" /\ Planned(kind)
    /\ pc' = "carrying" /\ GatherDropped
    /\ \E applied \in BOOLEAN, reply \in Replies :
          LET read == AssetAnswer(reply)
          IN  call' = [kind |-> kind, applied |-> applied, answer |-> read,
                       pc |-> IF read # "ok" \/ applied THEN "answered" ELSE "sent"]
    /\ UNCHANGED <<searchVars, state, wrong>>

\* The server carries it out at any time after it was sent, also when the client
\* no longer waits.
ServerApplies ==
    /\ call.pc \in {"sent", "answered"} /\ ~ call.applied
    /\ call.pc = "answered" => call.answer = "NetworkError"
    /\ call' = [call EXCEPT !.applied = TRUE]
    /\ UNCHANGED <<searchVars, gatherVars, wrong>>

CallAnswer(kind, reply) == IF kind = "patch" THEN PatchAnswer(reply) ELSE MutationAnswer(reply)

\* The server says "success", or shows the asset, only of what it carried out;
\* whatever stands before it may say anything else.
CallReplies ==
    {reply \in Replies :
        IsSuccess(reply.status) /\ reply.body \in RowBodies \cup {"success", "asset"}
            => call.applied}

CallAnswered ==
    /\ call.pc = "sent"
    /\ \E reply \in CallReplies :
          call' = [call EXCEPT !.pc = "answered", !.answer = CallAnswer(call.kind, reply)]
    /\ UNCHANGED <<searchVars, gatherVars, wrong>>

CallFails ==
    /\ call.pc = "sent"
    /\ call' = [call EXCEPT !.pc = "answered", !.answer = "NetworkError"]
    /\ UNCHANGED <<searchVars, gatherVars, wrong>>

\* The next synchronization, against the same server.
StartAgain ==
    /\ pc = "failed" \/ call.pc = "answered"
    /\ pc' = "start" /\ state' = "Idle" /\ GatherDropped
    /\ call' = NoCall
    /\ UNCHANGED <<searchVars, wrong>>

-----------------------------------------------------------------------------
(* The system                                                              *)

Init ==
    /\ NoSearching
    /\ pc = "start" /\ state = "Idle" /\ GatherEmpty
    /\ wrong \in BOOLEAN
    /\ call = NoCall

Next ==
    \/ Discover \/ DiscoverFails \/ LookupFails \/ LookupAnswered \/ LookupRefused
    \/ SearchList \/ SearchGoesOn \/ SearchFailed \/ MakersListed \/ ModelsListed
    \/ \E kind \in Calls : BeginCall(kind)
    \/ ServerApplies \/ CallAnswered \/ CallFails
    \/ StartAgain

Spec == Init /\ [][Next]_vars

-----------------------------------------------------------------------------
(* Properties                                                              *)

\* Every variable keeps its type.
TypeOK ==
    /\ SearchTypeOK(Makers \cup Models)
    /\ pc \in {"start", "asset", "makers", "models", "done", "failed", "carrying"}
    /\ todo \in Seq(Targets) /\ (pc \in {"asset", "makers", "models"} => todo # <<>>)
    /\ found \subseteq Targets /\ missing \subseteq Targets
    /\ resolved \subseteq Targets /\ denied \subseteq Targets
    /\ maker \in Nat \cup {Missing, Ambiguous}
    /\ state \in {"Idle", "Error", "Unconfigured"}
    /\ wrong \in BOOLEAN
    /\ call \in [pc : {"none", "sent", "answered"}, kind : Calls, applied : BOOLEAN,
                 answer : Answers]

\* "Authentication, permission, network, rate-limit, server, and malformed-
\* response failures abort gathering rather than being converted into a
\* misleading missing result" (gather.rs 28-30).  A gather that completes has an
\* asset for a serial or the server's word that there is none, and a base URL
\* without this API behind it, where every lookup reads as a missing asset, never
\* completes one: the known monitors keep their assets.
CompletedWasAnswered ==
    pc = "done" => ~ wrong /\ missing \subseteq denied

\* A mutating call that returns Ok has been carried out: neither a refusal in a
\* 200 nor a page of something in between is taken for a success, so the journal
\* never confirms what did not happen (parse_mutation_response, parse_asset_patch).
OkWasApplied == call.pc = "answered" /\ call.answer = "ok" => call.applied

=============================================================================
