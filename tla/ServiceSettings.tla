---------------------------- MODULE ServiceSettings ----------------------------
(***************************************************************************)
(* The settings the service runs under: config.rs and ipc.rs, which check  *)
(* them, config_io.rs, which loads and saves settings.toml, and the two    *)
(* commands of CommandOwner that change them (set_config and set_token of  *)
(* service.rs) with the Snipe-IT client they build (owner_ports.rs).       *)
(*                                                                         *)
(* Of the settings the three that decide whether the service is configured *)
(* are kept: url, token and checkout_status_id.  checkin_status_id is      *)
(* taken as set; the polling, logging and monitor fields guard nothing     *)
(* here.  A ciphertext stands for its plaintext.                           *)
(***************************************************************************)
EXTENDS Naturals

CONSTANTS
    Endpoints,   \* url values an administrator may type
    Tokens,      \* API tokens
    StatusIds,   \* status ids of the server
    Blank,       \* an empty url or token, the status id 0
    NoFile,      \* settings.toml is absent
    NoRemote     \* UnavailableRemote

\* The parts of a url that validate_snipeit_url and Url::parse look at.  An
\* "illegal" host holds a character Url::parse refuses in a name.
UrlShapes ==
    [scheme : {"https", "http"}, userinfo : BOOLEAN,
     host : {"none", "name", "address", "illegal"},
     port : {"none", "number", "zero", "word"}, tail : {"path", "query"}]

Urls == Endpoints \cup {Blank}

SettingsRecords ==
    [url : Urls, token : Tokens \cup {Blank}, status : StatusIds \cup {Blank}]

ASSUME SettingsAssumption ==
    /\ Endpoints \subseteq UrlShapes
    /\ Blank \notin Endpoints \cup Tokens \cup StatusIds
    /\ NoFile \notin SettingsRecords

\* BLANK_SETTINGS_TOML
Template == [url |-> Blank, token |-> Blank, status |-> Blank]

Fields == {"url", "token", "status"}

\* validate_snipeit_url
ValidUrl(u) ==
    u # Blank =>
      /\ u.scheme = "https"
      /\ ~u.userinfo
      /\ u.host # "none"
      /\ u.port \in {"none", "number"}
      /\ u.tail = "path"

\* SnipeItClient::with_timeout: the url is parsed once more, by another parser.
UrlParses(u) == ValidUrl(u) /\ u # Blank /\ u.host # "illegal"

\* validate_config_field for the two fields; SetToken refuses an empty token.
Accepted(field, value) ==
    \/ field = "url" /\ value \in Urls /\ ValidUrl(value)
    \/ field = "status" /\ value \in StatusIds
    \/ field = "token" /\ value \in Tokens

Updates == [field : {"url"}, value : Urls] \cup [field : {"status"}, value : StatusIds]
             \cup [field : {"token"}, value : Tokens]

\* config_status: nothing is missing.
Complete(s) == s.url # Blank /\ s.token # Blank /\ s.status # Blank

\* validate_settings: a partial identity is staged, never refused.
ValidSettings(s) == ValidUrl(s.url)

\* apply_settings_update; set_token assigns its field likewise.
Updated(s, u) == [s EXCEPT ![u.field] = u.value]

\* The account a client works under.
Account(s) == [url |-> s.url, token |-> s.token]
Accounts == [url : Urls, token : Tokens \cup {Blank}]

\* run_service, from load_settings to the client: the file lets the service start.
Startable(s) == ValidSettings(s) /\ (Complete(s) => UrlParses(s.url))

-----------------------------------------------------------------------------
VARIABLES
    file,      \* settings.toml
    running,   \* the service process serves
    mem,       \* controller.settings
    remote,    \* the account the owner's client works under
    applied,   \* history: each field's last acknowledged value
    unsure     \* history: values of updates that failed after the file had them

settingsVars == <<file, running, mem, remote, applied, unsure>>

Remotes == Accounts \cup {NoRemote}

\* Every variable keeps its type.
SettingsTypeOK ==
    /\ file \in SettingsRecords \cup {NoFile}
    /\ running \in BOOLEAN
    /\ mem \in SettingsRecords
    /\ remote \in Remotes
    /\ applied \in SettingsRecords
    /\ unsure \in [Fields -> SUBSET (Urls \cup Tokens \cup StatusIds \cup {Blank})]

\* load_settings: an absent file is written first.
Loaded == IF file = NoFile THEN Template ELSE file

\* Before its first run, or with what an earlier one left.
SettingsInit ==
    /\ file \in {NoFile} \cup {s \in SettingsRecords : Startable(s)}
    /\ running = FALSE
    /\ mem = Template
    /\ remote = NoRemote
    /\ applied = Loaded
    /\ unsure = [f \in Fields |-> {}]

\* run_service up to the owner.
Start ==
    /\ ~running
    /\ Startable(Loaded)
    /\ file' = Loaded
    /\ running' = TRUE
    /\ mem' = Loaded
    /\ remote' = IF Complete(Loaded) THEN Account(Loaded) ELSE NoRemote
    /\ UNCHANGED <<applied, unsure>>

\* DPAPI, a protected directory, the journal gate or the signed state stops it.
StartFails ==
    /\ ~running
    /\ file' = Loaded
    /\ UNCHANGED <<running, mem, remote, applied, unsure>>

\* The process ends: a stop or a crash.
End ==
    /\ running
    /\ running' = FALSE
    /\ UNCHANGED <<file, mem, remote, applied, unsure>>

\* remote_factory.build of set_config and set_token, for a complete candidate.
Buildable(s) == Complete(s) => UrlParses(s.url)

\* Mutant of Acceptable: only set_config builds the client before it saves.
AcceptableForToken(u) == LET s == Updated(mem, u) IN
    /\ Accepted(u.field, u.value) /\ ValidSettings(s)
    /\ u.field # "token" => Buildable(s)

\* The candidate of an update, before it is saved.
Acceptable(u) == LET s == Updated(mem, u) IN
    Accepted(u.field, u.value) /\ ValidSettings(s) /\ Buildable(s)

\* Mutant of Adopt: the client is built once, and again when a complete
\* configuration is replaced by another one.
AdoptKeepingClient(s) ==
    /\ mem' = s
    /\ remote' = IF Complete(s) /\ (remote = NoRemote \/ Complete(mem))
                 THEN Account(s) ELSE remote

\* What follows a save that succeeded.  A candidate that is not complete keeps
\* the client of the settings before it.
Adopt(s) ==
    /\ mem' = s
    /\ remote' = IF Complete(s) THEN Account(s) ELSE remote

\* set_config and set_token, to their Ok.
Apply(u) ==
    /\ running /\ Acceptable(u)
    /\ file' = Updated(mem, u)
    /\ Adopt(Updated(mem, u))
    /\ applied' = [applied EXCEPT ![u.field] = u.value]
    /\ unsure' = [unsure EXCEPT ![u.field] = {}]
    /\ UNCHANGED running

\* Mutant of Refuse: memory changes before the save that fails.
RefuseAfterAdopting(u) ==
    /\ running
    /\ IF Acceptable(u) THEN Adopt(Updated(mem, u)) ELSE UNCHANGED <<mem, remote>>
    /\ UNCHANGED <<file, running, applied, unsure>>

\* An Error: the field or the candidate is refused, the journal's guard holds a
\* change of account back, DPAPI or the client fails, or nothing was saved.
Refuse(u) ==
    /\ running
    /\ UNCHANGED settingsVars

\* atomic_file::write replaced the file and then failed: an Error all the same.
RefuseAfterReplacing(u) ==
    /\ running /\ Acceptable(u)
    /\ file' = Updated(mem, u)
    /\ unsure' = [unsure EXCEPT ![u.field] = @ \cup {u.value}]
    /\ UNCHANGED <<running, mem, remote, applied>>

\* The process ends once the file is replaced.
EndAfterReplacing(u) ==
    /\ running /\ Acceptable(u)
    /\ file' = Updated(mem, u)
    /\ running' = FALSE
    /\ unsure' = [unsure EXCEPT ![u.field] = @ \cup {u.value}]
    /\ UNCHANGED <<mem, remote, applied>>

\* The service and the updates it is sent, from whomever they are.
SettingsNext ==
    \/ Start \/ StartFails \/ End
    \/ \E u \in Updates : Apply(u) \/ Refuse(u) \/ RefuseAfterReplacing(u) \/ EndAfterReplacing(u)

SettingsSpec == SettingsInit /\ [][SettingsNext]_settingsVars

-----------------------------------------------------------------------------
(* Properties                                                              *)

\* A service that is configured works under the account its settings name,
\* whatever updates were refused, staged or lost on the way there: also when it
\* kept the client of older settings while its settings were incomplete.
RemoteIsCurrent == running /\ Complete(mem) => remote = Account(mem)

\* The settings file never holds what the next start would refuse: such a
\* service could not be configured any more, which needs it running.
StoredIsStartable == file # NoFile => Startable(file)

\* No acknowledged update is undone by a later update of another field, a
\* failed save or a restart: each field has its last acknowledged value, or one
\* whose update failed after the file had it.
NoLostUpdate ==
    \A f \in Fields :
      /\ file # NoFile => file[f] \in {applied[f]} \cup unsure[f]
      /\ running => mem[f] \in {applied[f]} \cup unsure[f]

=============================================================================
