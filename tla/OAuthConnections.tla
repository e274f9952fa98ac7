--------------------------- MODULE OAuthConnections ---------------------------
(***************************************************************************)
(* shared/services/oauth_storage_service.py, oauth_provider.py and          *)
(* shared/handlers/oauth_handlers.py: the OAuth connections.                *)
(*                                                                         *)
(* A connection is one row of the Config table in the partition of an       *)
(* organization or of "GLOBAL", and two Key Vault secrets it refers to: the *)
(* client secret and the last answer of the provider's token endpoint.      *)
(* Administrators create, change, authorize, cancel, refresh and delete it, *)
(* the browser posts authorization codes, and a timer refreshes what        *)
(* expires.  Each request to the table, to Key Vault or to the provider is  *)
(* one step; nothing is locked.  The module follows one connection name.    *)
(*                                                                         *)
(* The provider is external.  Tokens are numbered in the order of issue;    *)
(* number t stands for an access token and the refresh token it came with.  *)
(***************************************************************************)
EXTENDS Naturals, FiniteSetsExt

CONSTANTS
    Scopes, Global, NoScope,   \* partitions of the Config table
    Clients, NoClient,         \* client registrations at the provider
    Public,                    \* clients that have no secret (PKCE)
    Refs, NoRef,               \* names of Key Vault secrets
    Handlers, Timers,          \* HTTP requests and runs of oauth_refresh_timer
    Settings,                  \* what varies between installations, and bounds
    MaxTokens                  \* bound of those settings: tokens ever issued

Processes == Handlers \cup Timers

ASSUME OAuthAssumption ==
    /\ Global \in Scopes /\ NoScope \notin Scopes
    /\ NoClient \notin Clients /\ Public \subseteq Clients
    /\ Refs \subseteq Nat /\ NoRef \notin Refs
    /\ Handlers \cap Timers = {}
    /\ MaxTokens \in Nat

Tokens == 0..MaxTokens         \* 0: no token

\* No handler writes "testing".
OAuthStatus == {"not_connected", "waiting_callback", "testing", "completed", "failed"}
Statuses == OAuthStatus \cup {"exchanging"}
Flows == {"authorization_code", "client_credentials"}
Kinds == {"create", "update", "delete", "authorize", "cancel", "callback", "refresh", "sweep"}

\* configured: AZURE_KEY_VAULT_URL is set; rotates: the provider gives a new
\* refresh token for the old one.  Bounds: the requests each process makes and
\* for which scope, the flows and clients of new connections, the tokens the
\* provider issues, and how many requests fail, answers are lost or processes die.
Setting == [configured: BOOLEAN, rotates: BOOLEAN,
            duties: [Processes -> SUBSET Kinds], scope: [Processes -> Scopes],
            flows: SUBSET Flows, clients: SUBSET Clients,
            tokens: Tokens, disruptions: Nat]

ASSUME SettingAssumption == Settings \subseteq Setting

\* expires: the ExpiresAt of that token.
Row == [status: Statuses, flow: Flows, client: Clients,
        secretRef: Refs \cup {NoRef}, responseRef: Refs \cup {NoRef}, expires: Tokens]
NoRow == [status |-> "none", flow |-> "none", client |-> NoClient,
          secretRef |-> NoRef, responseRef |-> NoRef, expires |-> 0]

\* A client secret, or the stored answer of the token endpoint.
Secret == [client: Clients \cup {NoClient}, access: Tokens, refresh: Tokens]
NoSecret == [client |-> NoClient, access |-> 0, refresh |-> 0]

VARIABLES
    rows,         \* [Scopes -> Row or NoRow]
    vault,        \* [Refs -> Secret]
    issued,       \* tokens the provider has issued
    holder,       \* [1..MaxTokens -> the client a token was issued to]
    usable,       \* refresh tokens the provider accepts
    codes,        \* clients for which the browser holds an unspent code
    soon,         \* tokens that expire within 30 minutes
    setting,      \* a member of Settings
    pc, job,      \* the step and the local variables of each process
    disturbed,    \* history: scopes where requests overlapped or broke off
    lostTokens,   \* history: scopes where an answer was dropped, or stored beside another
    deleted,      \* history: scopes where a deletion has begun
    disruptions

providerVars == <<issued, holder, usable, codes>>
history == <<disturbed, lostTokens, deleted>>
oauthVars == <<rows, vault, providerVars, soon, setting, pc, job, history, disruptions>>

Steps == {"idle",
          "settingSecret", "inserting",              \* create_connection
          "changing", "changingSecret", "writing",   \* update_connection
          "deleting", "removingSecret", "removingResponse", "removingRow",
          "finding", "fetchingResponse",             \* refresh_token
          "fetching", "asking",                      \* client secret, provider
          "loading", "keeping", "completing",        \* store_tokens
          "reading", "marking"}                      \* update_connection_status

\* connection: the row as get_connection returned it; copy: the row to write;
\* secret: the client the fetched secret belongs to; code: that of the callback.
Job == [kind: Kinds \cup {"none"}, scope: Scopes \cup {NoScope},
        connection: Row \cup {NoRow}, copy: Row \cup {NoRow},
        client: Clients \cup {NoClient}, secret: Clients \cup {NoClient},
        code: Clients \cup {NoClient},
        access: Tokens, refresh: Tokens,
        status: Statuses \cup {"none"}]
NoJob == [kind |-> "none", scope |-> NoScope, connection |-> NoRow, copy |-> NoRow,
          client |-> NoClient, secret |-> NoClient, code |-> NoClient,
          access |-> 0, refresh |-> 0, status |-> "none"]

OAuthTypeOK ==
    /\ rows \in [Scopes -> Row \cup {NoRow}]
    /\ vault \in [Refs -> Secret]
    /\ issued \in 0..setting.tokens
    /\ holder \in [1..MaxTokens -> Clients \cup {NoClient}]
    /\ usable \subseteq 1..issued /\ soon \subseteq 1..issued
    /\ codes \subseteq Clients
    /\ setting \in Settings
    /\ pc \in [Processes -> Steps]
    /\ job \in [Processes -> Job]
    /\ \A p \in Processes :
          /\ pc[p] \in {"completing", "marking", "writing"} => job[p].copy \in Row
          /\ pc[p] \in {"fetching", "asking"} => job[p].connection \in Row
    /\ disturbed \subseteq Scopes /\ lostTokens \subseteq Scopes /\ deleted \subseteq Scopes
    /\ disruptions \in 0..setting.disruptions

OAuthInit ==
    /\ rows = [s \in Scopes |-> NoRow]
    /\ vault = [r \in Refs |-> NoSecret]
    /\ issued = 0 /\ holder = [t \in 1..MaxTokens |-> NoClient]
    /\ usable = {} /\ codes = {} /\ soon = {}
    /\ setting \in Settings
    /\ pc = [p \in Processes |-> "idle"]
    /\ job = [p \in Processes |-> NoJob]
    /\ disturbed = {} /\ lostTokens = {} /\ deleted = {}
    /\ disruptions = 0

-----------------------------------------------------------------------------

configured == setting.configured
rotates == setting.rotates

Exists(s) == rows[s] # NoRow

\* _entity_to_oauth_connection: OAuthStatus does not know "exchanging", so a row
\* with that status cannot be converted.
Readable(s) == Exists(s) /\ rows[s].status \in OAuthStatus

\* get_connection: the organization's own row, else the global one.
Found(s) ==
    LET nearest == IF Exists(s) THEN s ELSE Global IN
    IF Readable(nearest) THEN nearest ELSE NoScope

Working(p) == pc[p] # "idle"
Overlapping(p, s) ==
    IF \E q \in Processes \ {p} : job[q].scope = s THEN {s} ELSE {}

\* p starts on a request for the connection of scope s.
Begin(p, kind, step, new) ==
    /\ pc[p] = "idle" /\ kind \in setting.duties[p]
    /\ pc' = [pc EXCEPT ![p] = step]
    /\ job' = [job EXCEPT ![p] = new]
    /\ disturbed' = disturbed \cup Overlapping(p, new.scope)

Continue(p, step, new) ==
    /\ pc' = [pc EXCEPT ![p] = step]
    /\ job' = [job EXCEPT ![p] = new]

GoTo(p, step) == Continue(p, step, job[p])
End(p) == Continue(p, "idle", NoJob)

\* Tokens that a request holds are lost with it.
Disturb(p) ==
    /\ disturbed' = disturbed \cup {job[p].scope}
    /\ lostTokens' = IF pc[p] \in {"loading", "keeping"}
                     THEN lostTokens \cup {job[p].scope} ELSE lostTokens

\* The request ends in an error, or its process dies.
BreakOff(p) == End(p) /\ Disturb(p)

Disrupt == disruptions < setting.disruptions /\ disruptions' = disruptions + 1

\* update_connection_status comes next.
Announce(p, status) ==
    Continue(p, "reading", [NoJob EXCEPT !.kind = job[p].kind, !.scope = job[p].scope,
                                         !.status = status])

\* An exception: a creation that has its row announces the failure, anything
\* else ends in an error.
Abandon(p) ==
    IF /\ job[p].kind = "create" /\ job[p].status # "failed"
       /\ pc[p] \notin {"settingSecret", "inserting"}
    THEN Announce(p, "failed") /\ Disturb(p)
    ELSE BreakOff(p)

\* Mutant of Merged: upsert_entity with REPLACE.
Replaced(row, copy) == copy

\* upsert_entity with MERGE: what the copy does not have stays in the row, and a
\* row that is gone comes back.
Merged(row, copy) ==
    [copy EXCEPT !.secretRef = IF @ = NoRef THEN row.secretRef ELSE @,
                 !.responseRef = IF @ = NoRef THEN row.responseRef ELSE @,
                 !.expires = IF @ = 0 THEN row.expires ELSE @]

Upsert(p, copy) == rows' = [rows EXCEPT ![job[p].scope] = Merged(@, copy)]

\* generate_oauth_secret_name: a name with a new uuid, here one that nothing
\* refers to.
Referred ==
    UNION {{row.secretRef, row.responseRef} :
           row \in {rows[s] : s \in Scopes} \cup {job[p].connection : p \in Processes}
                   \cup {job[p].copy : p \in Processes}}
FreshNames == Refs \ Referred

\* A deleted secret keeps its name, which cannot be set before it is purged.
Settable(ref) == ref # NoRef /\ vault[ref] # NoSecret
Fetched(ref) == IF ref = NoRef THEN NoSecret ELSE vault[ref]
SetSecret(ref, secret) == vault' = [vault EXCEPT ![ref] = secret]

ClientSecret(client) == [NoSecret EXCEPT !.client = client]
HasSecret(client) == client \notin Public

-----------------------------------------------------------------------------
(* Create, update, delete.                                                   *)

\* create_oauth_connection_handler: a connection that get_connection finds, the
\* global one included, is a conflict.
BeginCreate(p, s, flow, client) ==
    LET row == [NoRow EXCEPT !.status = "not_connected", !.flow = flow, !.client = client] IN
    /\ Found(s) = NoScope
    /\ Begin(p, "create", IF HasSecret(client) THEN "settingSecret" ELSE "inserting",
             [NoJob EXCEPT !.kind = "create", !.scope = s, !.copy = row])
    /\ UNCHANGED <<rows, vault, providerVars, soon, setting, lostTokens, deleted, disruptions>>

\* create_connection: without Key Vault the secret is not kept.
SetClientSecret(p) ==
    /\ pc[p] = "settingSecret"
    /\ IF configured
       THEN \E ref \in FreshNames :
               /\ ref = Min(FreshNames)
               /\ SetSecret(ref, ClientSecret(job[p].copy.client))
               /\ Continue(p, "inserting", [job[p] EXCEPT !.copy.secretRef = ref])
       ELSE GoTo(p, "inserting") /\ UNCHANGED vault
    /\ UNCHANGED <<rows, providerVars, soon, setting, history, disruptions>>

\* insert_entity; a client_credentials connection asks for its token at once.
Insert(p) ==
    LET s == job[p].scope
        row == job[p].copy
    IN
    /\ pc[p] = "inserting"
    /\ IF Exists(s)
       THEN BreakOff(p) /\ UNCHANGED rows
       ELSE /\ rows' = [rows EXCEPT ![s] = row]
            /\ IF row.flow = "client_credentials"
               THEN Continue(p, "fetching", [job[p] EXCEPT !.connection = row, !.copy = NoRow])
               ELSE End(p)
            /\ UNCHANGED <<disturbed, lostTokens>>
    /\ UNCHANGED <<vault, providerVars, soon, setting, deleted, disruptions>>

\* update_oauth_connection_handler; without a client only the scopes change.
BeginUpdate(p, s, client) ==
    /\ Found(s) # NoScope
    /\ Begin(p, "update", "changing", [NoJob EXCEPT !.kind = "update", !.scope = s, !.client = client])
    /\ UNCHANGED <<rows, vault, providerVars, soon, setting, lostTokens, deleted, disruptions>>

\* Mutant of ReadToUpdate: the status stays what it was.
ReadToUpdateKeepingStatus(p) ==
    LET client == job[p].client
        row == rows[job[p].scope]
    IN
    /\ pc[p] = "changing" /\ Exists(job[p].scope)
    /\ Continue(p, IF client # NoClient /\ HasSecret(client) THEN "changingSecret" ELSE "writing",
                [job[p] EXCEPT !.copy = IF client = NoClient THEN row
                                        ELSE [row EXCEPT !.client = client]])
    /\ UNCHANGED <<rows, vault, providerVars, soon, setting, history, disruptions>>

\* update_connection: the organization's own row or nothing.  Another client
\* disconnects it.
ReadToUpdate(p) ==
    LET client == job[p].client
        row == rows[job[p].scope]
    IN
    /\ pc[p] = "changing"
    /\ IF ~Exists(job[p].scope)
       THEN End(p)
       ELSE IF client = NoClient
       THEN Continue(p, "writing", [job[p] EXCEPT !.copy = row])
       ELSE Continue(p, IF HasSecret(client) THEN "changingSecret" ELSE "writing",
                     [job[p] EXCEPT !.copy = [row EXCEPT !.client = client,
                                                         !.status = "not_connected"]])
    /\ UNCHANGED <<rows, vault, providerVars, soon, setting, history, disruptions>>

\* A new version of the secret the row refers to, or its first secret.
ChangeSecret(p) ==
    LET row == job[p].copy
        secret == ClientSecret(job[p].client)
    IN
    /\ pc[p] = "changingSecret"
    /\ \/ /\ ~configured
          /\ GoTo(p, "writing") /\ UNCHANGED <<vault, disturbed, lostTokens>>
       \/ /\ configured /\ Settable(row.secretRef)
          /\ SetSecret(row.secretRef, secret)
          /\ GoTo(p, "writing") /\ UNCHANGED <<disturbed, lostTokens>>
       \/ /\ configured /\ row.secretRef = NoRef
          /\ \E ref \in FreshNames :
                /\ ref = Min(FreshNames)
                /\ SetSecret(ref, secret)
                /\ Continue(p, "writing", [job[p] EXCEPT !.copy.secretRef = ref])
          /\ UNCHANGED <<disturbed, lostTokens>>
       \/ /\ configured /\ row.secretRef # NoRef /\ ~Settable(row.secretRef)
          /\ BreakOff(p) /\ UNCHANGED vault
    /\ UNCHANGED <<rows, providerVars, soon, setting, deleted, disruptions>>

WriteUpdate(p) ==
    /\ pc[p] = "writing"
    /\ Upsert(p, job[p].copy)
    /\ End(p)
    /\ UNCHANGED <<vault, providerVars, soon, setting, history, disruptions>>

\* delete_oauth_connection_handler.
BeginDelete(p, s) ==
    /\ Found(s) # NoScope
    /\ Begin(p, "delete", "deleting", [NoJob EXCEPT !.kind = "delete", !.scope = s])
    /\ UNCHANGED <<rows, vault, providerVars, soon, setting, lostTokens, deleted, disruptions>>

\* delete_connection: a connection found under GLOBAL only is not deleted.
ReadToDelete(p) ==
    LET s == job[p].scope IN
    /\ pc[p] = "deleting"
    /\ IF Exists(s)
       THEN /\ Continue(p, IF configured THEN "removingSecret" ELSE "removingRow",
                        [job[p] EXCEPT !.copy = rows[s]])
            /\ deleted' = deleted \cup {s}
       ELSE End(p) /\ UNCHANGED deleted
    /\ UNCHANGED <<rows, vault, providerVars, soon, setting, disturbed, lostTokens, disruptions>>

\* delete_secret; the failure to delete one is swallowed.
Remove(ref) ==
    vault' = IF ref = NoRef THEN vault ELSE [vault EXCEPT ![ref] = NoSecret]

RemoveSecret(p) ==
    /\ pc[p] = "removingSecret"
    /\ Remove(job[p].copy.secretRef)
    /\ GoTo(p, "removingResponse")
    /\ UNCHANGED <<rows, providerVars, soon, setting, history, disruptions>>

RemoveResponse(p) ==
    /\ pc[p] = "removingResponse"
    /\ Remove(job[p].copy.responseRef)
    /\ Continue(p, "removingRow", [job[p] EXCEPT !.copy = NoRow])
    /\ UNCHANGED <<rows, providerVars, soon, setting, history, disruptions>>

RemoveRow(p) ==
    /\ pc[p] = "removingRow"
    /\ rows' = [rows EXCEPT ![job[p].scope] = NoRow]
    /\ End(p)
    /\ UNCHANGED <<vault, providerVars, soon, setting, history, disruptions>>

-----------------------------------------------------------------------------
(* Authorization: authorize, the callback of the browser, cancel.            *)

\* authorize_oauth_connection_handler: the URL names the client of the row found.
BeginAuthorize(p, s) ==
    /\ Found(s) # NoScope
    /\ rows[Found(s)].flow # "client_credentials"
    /\ Begin(p, "authorize", "reading", [NoJob EXCEPT !.kind = "authorize", !.scope = s,
                                         !.client = rows[Found(s)].client,
                                         !.status = "waiting_callback"])
    /\ UNCHANGED <<rows, vault, providerVars, soon, setting, lostTokens, deleted, disruptions>>

\* cancel_oauth_authorization_handler, whatever the status is.
BeginCancel(p, s) ==
    /\ Found(s) # NoScope
    /\ Begin(p, "cancel", "reading", [NoJob EXCEPT !.kind = "cancel", !.scope = s,
                                         !.status = "not_connected"])
    /\ UNCHANGED <<rows, vault, providerVars, soon, setting, lostTokens, deleted, disruptions>>

\* oauth_callback_handler: GLOBAL only, whatever the status is; the code may be
\* one that the provider does not accept.
BeginCallback(p, code) ==
    /\ Found(Global) = Global
    /\ code \in codes \cup {NoClient}
    /\ Begin(p, "callback", "reading", [NoJob EXCEPT !.kind = "callback", !.scope = Global,
                                         !.connection = rows[Global], !.code = code,
                                         !.status = "exchanging"])
    /\ UNCHANGED <<rows, vault, providerVars, soon, setting, lostTokens, deleted, disruptions>>

\* After update_connection_status, whatever it returned: a callback that marked
\* the exchange goes on; the URL of an authorization is returned, and the user
\* consents (a URL that is not used leaves the code unspent).
Announced(p) ==
    IF job[p].status = "exchanging"
    THEN /\ Continue(p, "fetching", [job[p] EXCEPT !.status = "none", !.copy = NoRow])
         /\ UNCHANGED codes
    ELSE /\ End(p)
         /\ codes' = IF job[p].kind = "authorize" THEN codes \cup {job[p].client} ELSE codes

\* update_connection_status.
ReadStatus(p) ==
    LET s == job[p].scope IN
    /\ pc[p] = "reading"
    /\ IF Exists(s)
       THEN Continue(p, "marking", [job[p] EXCEPT !.copy = rows[s]]) /\ UNCHANGED codes
       ELSE Announced(p)
    /\ UNCHANGED <<rows, vault, issued, holder, usable, soon, setting, history, disruptions>>

MarkStatus(p) ==
    /\ pc[p] = "marking"
    /\ Upsert(p, [job[p].copy EXCEPT !.status = job[p].status])
    /\ Announced(p)
    /\ UNCHANGED <<vault, issued, holder, usable, soon, setting, history, disruptions>>

-----------------------------------------------------------------------------
(* Tokens: refresh_token, the provider, store_tokens.                        *)

\* refresh_oauth_token_handler.
BeginRefresh(p, s) ==
    /\ Found(s) # NoScope
    /\ Begin(p, "refresh", "finding", [NoJob EXCEPT !.kind = "refresh", !.scope = s])
    /\ UNCHANGED <<rows, vault, providerVars, soon, setting, lostTokens, deleted, disruptions>>

\* Mutant of Expiring: connections are skipped once they expire soon.
ExpiringLater(s) == rows[s].expires # 0 /\ rows[s].expires \notin soon

Expiring(s) == rows[s].expires \in soon

\* run_refresh_job: the completed global connections, when a timer runs it those
\* that expire within 30 minutes.
BeginSweep(p) ==
    /\ rows[Global].status = "completed"
    /\ p \in Timers => Expiring(Global)
    /\ Begin(p, "sweep", "finding", [NoJob EXCEPT !.kind = "refresh", !.scope = Global])
    /\ UNCHANGED <<rows, vault, providerVars, soon, setting, lostTokens, deleted, disruptions>>

\* refresh_token reads the connection again.
Find(p) ==
    LET s == Found(job[p].scope) IN
    /\ pc[p] = "finding"
    /\ IF s = NoScope
       THEN End(p) /\ UNCHANGED disturbed
       ELSE /\ Continue(p, "fetching", [job[p] EXCEPT !.scope = s, !.connection = rows[s]])
            /\ disturbed' = disturbed \cup Overlapping(p, s)
    /\ UNCHANGED <<rows, vault, providerVars, soon, setting, lostTokens, deleted, disruptions>>

\* The client secret, if there is one; a client_credentials connection needs it.
WithSecret(p, secret) ==
    LET byCredentials == /\ job[p].connection.flow = "client_credentials"
                         /\ job[p].kind # "callback"
    IN
    IF byCredentials /\ secret = NoClient
    THEN IF job[p].kind = "create" THEN Announce(p, "failed") ELSE End(p)
    ELSE Continue(p, IF job[p].kind = "refresh" /\ ~byCredentials
                     THEN "fetchingResponse" ELSE "asking",
                  [job[p] EXCEPT !.secret = secret])

FetchSecret(p) ==
    /\ pc[p] = "fetching"
    /\ WithSecret(p, IF configured THEN Fetched(job[p].connection.secretRef).client
                     ELSE NoClient)
    /\ UNCHANGED <<rows, vault, providerVars, soon, setting, history, disruptions>>

\* The refresh token of the authorization code flow; without it the refresh ends.
FetchResponse(p) ==
    LET response == Fetched(job[p].connection.responseRef) IN
    /\ pc[p] = "fetchingResponse"
    /\ IF configured /\ response.refresh # 0
       THEN Continue(p, "asking", [job[p] EXCEPT !.refresh = response.refresh])
       ELSE End(p)
    /\ UNCHANGED <<rows, vault, providerVars, soon, setting, history, disruptions>>

\* The provider knows the client by its secret, and the code or refresh token is
\* the client's and not spent.
Acceptable(p) ==
    LET client == job[p].connection.client IN
    /\ \/ job[p].secret = client
       \/ job[p].secret = NoClient /\ client \in Public
    /\ job[p].kind = "callback" => job[p].code = client /\ client \in codes
    /\ job[p].refresh # 0 => job[p].refresh \in usable /\ holder[job[p].refresh] = client

CanIssue == issued < setting.tokens

\* A code may come with a refresh token; a refresh token that rotates is spent.
NewRefreshTokens(p) ==
    IF job[p].kind = "callback" THEN {0, issued + 1}
    ELSE IF job[p].refresh # 0 /\ rotates THEN {issued + 1}
    ELSE {0}

Issue(p, refresh) ==
    /\ issued' = issued + 1
    /\ holder' = [holder EXCEPT ![issued + 1] = job[p].connection.client]
    /\ usable' = (IF job[p].kind = "refresh" /\ refresh # 0
                  THEN usable \ {job[p].refresh} ELSE usable) \cup ({refresh} \ {0})
    /\ codes' = IF job[p].kind = "callback" THEN codes \ {job[p].code} ELSE codes

\* Mutant of Answer: a new refresh token is not taken over from the answer.
AnswerKeepingOldToken(p) ==
    /\ pc[p] = "asking" /\ Acceptable(p) /\ CanIssue
    /\ \E refresh \in NewRefreshTokens(p) :
          /\ Issue(p, refresh)
          /\ Continue(p, "loading",
                      [job[p] EXCEPT !.access = issued + 1, !.connection = NoRow, !.secret = NoClient,
                                     !.code = NoClient, !.refresh = IF @ # 0 THEN @ ELSE refresh])
    /\ UNCHANGED <<rows, vault, soon, setting, history, disruptions>>

\* The old refresh token is kept where no new one is given.
Answer(p) ==
    /\ pc[p] = "asking" /\ Acceptable(p) /\ CanIssue
    /\ \E refresh \in NewRefreshTokens(p) :
          /\ Issue(p, refresh)
          /\ Continue(p, "loading",
                      [job[p] EXCEPT !.access = issued + 1, !.connection = NoRow, !.secret = NoClient,
                                     !.code = NoClient, !.refresh = IF refresh # 0 THEN refresh ELSE @])
    /\ UNCHANGED <<rows, vault, soon, setting, history, disruptions>>

\* A refused request: the status tells, except after a refresh.
Refused(p) == IF job[p].kind = "refresh" THEN End(p) ELSE Announce(p, "failed")

\* Mutant of Refuse: the failure of an exchange is not announced.
RefuseSilently(p) ==
    /\ pc[p] = "asking" /\ ~(Acceptable(p) /\ CanIssue)
    /\ End(p)
    /\ UNCHANGED <<rows, vault, providerVars, soon, setting, history, disruptions>>

Refuse(p) ==
    /\ pc[p] = "asking" /\ ~(Acceptable(p) /\ CanIssue)
    /\ Refused(p)
    /\ UNCHANGED <<rows, vault, providerVars, soon, setting, history, disruptions>>

\* _make_token_request: no answer to any of its attempts.
FindUnreachable(p) ==
    /\ pc[p] = "asking" /\ Disrupt
    /\ Refused(p)
    /\ disturbed' = disturbed \cup {job[p].scope}
    /\ UNCHANGED <<rows, vault, providerVars, soon, setting, lostTokens, deleted>>

\* The provider acts and its answer is lost: the same request is sent again,
\* unless it was the last attempt.
LoseAnswer(p) ==
    /\ pc[p] = "asking" /\ Acceptable(p) /\ CanIssue /\ Disrupt
    /\ \E refresh \in NewRefreshTokens(p) : Issue(p, refresh)
    /\ Refused(p) \/ UNCHANGED <<pc, job>>
    /\ disturbed' = disturbed \cup {job[p].scope}
    /\ lostTokens' = lostTokens \cup {job[p].scope}
    /\ UNCHANGED <<rows, vault, soon, setting, deleted>>

\* After store_tokens, whatever it returned.
Stored(p) == IF job[p].kind = "refresh" THEN End(p) ELSE Announce(p, "completed")

\* Mutant of ReadToStore: a connection that is gone is not noticed.
ReadToStoreUnchecked(p) ==
    /\ pc[p] = "loading"
    /\ Continue(p, "keeping", [job[p] EXCEPT !.copy = rows[job[p].scope]])
    /\ UNCHANGED <<rows, vault, providerVars, soon, setting, history, disruptions>>

\* store_tokens reads the row again.
ReadToStore(p) ==
    LET s == job[p].scope IN
    /\ pc[p] = "loading"
    /\ IF Exists(s)
       THEN Continue(p, "keeping", [job[p] EXCEPT !.copy = rows[s]]) /\ UNCHANGED lostTokens
       ELSE Stored(p) /\ lostTokens' = lostTokens \cup {s}
    /\ UNCHANGED <<rows, vault, providerVars, soon, setting, disturbed, deleted, disruptions>>

\* The row of scope s, or a copy that may be written to it, refers to tokens.
KeptElsewhere(s) ==
    \/ rows[s].responseRef # NoRef
    \/ \E q \in Processes : job[q].scope = s /\ job[q].copy.responseRef # NoRef

\* A new version of the secret the row refers to, or its first secret.  Where two
\* requests store a first one, a row leads to one of the two.
KeepTokens(p) ==
    LET ref == job[p].copy.responseRef
        response == [NoSecret EXCEPT !.access = job[p].access, !.refresh = job[p].refresh]
    IN
    /\ pc[p] = "keeping"
    /\ \/ /\ ~configured
          /\ Stored(p) /\ UNCHANGED <<vault, disturbed, lostTokens>>
       \/ /\ configured /\ Settable(ref)
          /\ SetSecret(ref, response)
          /\ GoTo(p, "completing") /\ UNCHANGED <<disturbed, lostTokens>>
       \/ /\ configured /\ ref = NoRef
          /\ \E new \in FreshNames :
                /\ new = Min(FreshNames)
                /\ SetSecret(new, response)
                /\ Continue(p, "completing", [job[p] EXCEPT !.copy.responseRef = new])
          /\ lostTokens' = lostTokens \cup (IF KeptElsewhere(job[p].scope) THEN {job[p].scope} ELSE {})
          /\ UNCHANGED disturbed
       \/ /\ configured /\ ref # NoRef /\ ~Settable(ref)
          /\ Abandon(p) /\ UNCHANGED vault
    /\ UNCHANGED <<rows, providerVars, soon, setting, deleted, disruptions>>

Complete(p) ==
    /\ pc[p] = "completing"
    /\ Upsert(p, [job[p].copy EXCEPT !.status = "completed", !.expires = job[p].access])
    /\ Stored(p)
    /\ UNCHANGED <<vault, providerVars, soon, setting, history, disruptions>>

\* Time passes.
Age(t) ==
    /\ t # 0 /\ t \notin soon /\ \E s \in Scopes : rows[s].expires = t
    /\ soon' = soon \cup {t}
    /\ UNCHANGED <<rows, vault, providerVars, setting, pc, job, history, disruptions>>

-----------------------------------------------------------------------------
(* Failures.                                                                 *)

\* Key Vault or the table fails.  The deletion of a connection and the fetching
\* of a client secret swallow that.
Fail(p) ==
    /\ Disrupt
    /\ \/ /\ pc[p] = "removingSecret"
          /\ GoTo(p, "removingResponse")
          /\ disturbed' = disturbed \cup {job[p].scope} /\ UNCHANGED lostTokens
       \/ /\ pc[p] = "removingResponse"
          /\ Continue(p, "removingRow", [job[p] EXCEPT !.copy = NoRow])
          /\ disturbed' = disturbed \cup {job[p].scope} /\ UNCHANGED lostTokens
       \/ /\ pc[p] = "fetching" /\ job[p].kind # "create"
          /\ WithSecret(p, NoClient)
          /\ disturbed' = disturbed \cup {job[p].scope} /\ UNCHANGED lostTokens
       \/ /\ Working(p)
          /\ pc[p] \notin {"removingSecret", "removingResponse", "fetching", "asking"}
          /\ Abandon(p)
       \/ /\ pc[p] = "fetching" /\ job[p].kind = "create"
          /\ Abandon(p)
    /\ UNCHANGED <<rows, vault, providerVars, soon, setting, deleted>>

Die(p) ==
    /\ Working(p) /\ Disrupt
    /\ BreakOff(p)
    /\ UNCHANGED <<rows, vault, providerVars, soon, setting, deleted>>

-----------------------------------------------------------------------------

Request(p) ==
    \/ BeginSweep(p)
    \/ \E code \in Clients \cup {NoClient} : BeginCallback(p, code)
    \/ LET s == setting.scope[p] IN
          \/ \E flow \in setting.flows, client \in setting.clients : BeginCreate(p, s, flow, client)
          \/ \E client \in setting.clients \cup {NoClient} : BeginUpdate(p, s, client)
          \/ BeginDelete(p, s)
          \/ BeginAuthorize(p, s)
          \/ BeginCancel(p, s)
          \/ BeginRefresh(p, s)

Progress(p) ==
    \/ SetClientSecret(p) \/ Insert(p)
    \/ ReadToUpdate(p) \/ ChangeSecret(p) \/ WriteUpdate(p)
    \/ ReadToDelete(p) \/ RemoveSecret(p) \/ RemoveResponse(p) \/ RemoveRow(p)
    \/ ReadStatus(p) \/ MarkStatus(p)
    \/ Find(p) \/ FetchSecret(p) \/ FetchResponse(p)
    \/ Answer(p) \/ Refuse(p)
    \/ ReadToStore(p) \/ KeepTokens(p) \/ Complete(p)

Disruption(p) == FindUnreachable(p) \/ LoseAnswer(p) \/ Fail(p) \/ Die(p)

OAuthNext ==
    \/ \E p \in Processes : Request(p) \/ Progress(p) \/ Disruption(p)
    \/ \E t \in Tokens : Age(t)

OAuthSpec == OAuthInit /\ [][OAuthNext]_oauthVars

\* A request that awaits an answer gets one, and the timer fires every 15 minutes.
OAuthFairSpec ==
    /\ OAuthSpec
    /\ \A p \in Processes : WF_oauthVars(Progress(p))
    /\ \A p \in Timers : WF_oauthVars(BeginSweep(p))

-----------------------------------------------------------------------------
(* Properties.                                                               *)

\* A connection that is shown as completed has its tokens in Key Vault, however
\* requests overlap, fail or die, as long as nobody deletes it: store_tokens
\* writes the secret before the status, and a stale copy never takes the
\* reference away (oauth_storage_service.py:476-509, async_storage.py:381-415).
CompletedHasTokens ==
    \A s \in Scopes \ deleted :
        configured /\ rows[s].status = "completed" =>
            rows[s].responseRef # NoRef /\ vault[rows[s].responseRef].access # 0

\* However requests overlap, the refresh token a connection keeps is one the
\* provider still accepts: unless an answer of the provider was lost, or two
\* requests stored first answers at once, nobody needs to authorize again
\* (oauth_storage_service.py:588-623).
StoredTokenUsable ==
    \A s \in Scopes \ lostTokens :
        /\ rows[s].responseRef # NoRef
        /\ \A p \in Processes : job[p].scope = s => pc[p] \notin {"loading", "keeping"}
        => vault[rows[s].responseRef].refresh \in usable \cup {0}

\* Between requests that did not overlap, a completed connection shows when the
\* token it keeps expires, and the token is of the client it names: a change of
\* client disconnects it (oauth_storage_service.py:286-287, 507).
TokensMatchRow ==
    \A s \in Scopes \ disturbed :
        /\ configured /\ rows[s].status = "completed"
        /\ \A p \in Processes : job[p].scope # s
        => LET access == vault[rows[s].responseRef].access IN
           access = rows[s].expires /\ holder[access] = rows[s].client

\* A code exchange comes to an end that the status tells
\* (oauth_handlers.py:436-513), where no requests overlapped or broke off.
ExchangeEnds ==
    \A s \in Scopes :
        rows[s].status = "exchanging" ~> rows[s].status # "exchanging" \/ s \in disturbed

\* The timer renews the token of a completed global connection before it
\* expires, whatever happened to the connection before, as long as requests for
\* it neither overlapped nor broke off and the provider issues tokens.
ExpiringIsRefreshed ==
    (/\ \E p \in Timers : "sweep" \in setting.duties[p]
     /\ rows[Global].status = "completed" /\ rows[Global].expires \in soon
     /\ \/ rows[Global].flow = "client_credentials"
        \/ Fetched(rows[Global].responseRef).refresh # 0)
    ~> (\/ rows[Global].status # "completed" \/ rows[Global].expires \notin soon
        \/ Global \in disturbed \/ ~CanIssue)

\* The tokens that are kept are accepted by the provider and are those the row speaks of.
TokensFit == StoredTokenUsable /\ TokensMatchRow
=============================================================================
