---------------------------- MODULE ModelRegistry ----------------------------
(***************************************************************************)
(* Model providers of rubezh-api: the table model_providers, which          *)
(* administrators change through /api/models, and the llm.Router, a copy of *)
(* its enabled rows that the handlers rebuild after every change.  A chat   *)
(* request takes its provider (id, trust level, personal key) from the      *)
(* table and calls it through the copy, by name.                            *)
(***************************************************************************)
EXTENDS Naturals, FiniteSets

CONSTANTS
    Names,         \* provider names, unique in the table
    MaxIds,        \* rows ever inserted
    Admins,        \* concurrent requests to /api/models
    Chats,         \* concurrent chat requests, each of a user of its own
    Offers,        \* bodies of POST /api/models: [name, adapter, key : BOOLEAN]
    SSHRunner,     \* is the ssh bridge configured
    MaxChanges,    \* bound on changes of the table
    MaxFaults,     \* bound on failing statements and cancelled requests
    MaxRestarts,   \* bound on restarts of the process
    None

Ids      == 1..MaxIds
Adapters == {"keyed", "ssh_cli", "mock"}   \* keyed: openai_compatible and anthropic

ASSUME RegistryAssumption ==
    /\ MaxIds \in Nat \ {0} /\ MaxChanges \in Nat /\ MaxFaults \in Nat /\ MaxRestarts \in Nat
    /\ SSHRunner \in BOOLEAN
    /\ Offers \subseteq [name : Names, adapter : Adapters, key : BOOLEAN]
    /\ Names # {}
    /\ None \notin Ids

VARIABLES
    rows,        \* model_providers by id; a deleted row stays here by its name only
    history,     \* ids that chat_messages and audit_events reference
    creds,       \* <<chat, id>>: user_provider_credentials that can be decrypted
    router,      \* llm.Router: name |-> adapter, or None
    op,          \* the administrators' requests in flight
    chat,        \* the chat requests
    calls,       \* what each chat request has called
    version,     \* number of changes of rows
    installed,   \* the version router was built from
    lost,        \* a handler ended without the reload its change needed
    overtaken,   \* a reload installed an older reading over a newer one
    faults, restarts

adminVars == <<op, lost>>
vars == <<rows, history, creds, router, op, chat, calls, version, installed, lost, overtaken,
          faults, restarts>>

-----------------------------------------------------------------------------

\* key: no api_key_encrypted, one the cipher can decrypt, or one it cannot.
\* asked: the create request brought a key.  owed: it is not stored (yet).
RowType ==
    [state : {"unused", "live", "deleted"}, name : Names, adapter : Adapters,
     enabled : BOOLEAN, key : {"none", "good", "bad"}, asked : BOOLEAN, owed : BOOLEAN]

Adapter == [id : Ids, key : {"own", "env", "none"}]
Routers == [Names -> Adapter \cup {None}]

OpType ==
    [pc : {"idle"}]
    \cup [pc : {"key", "model"}, id : Ids]
    \cup [pc : {"reload"}]
    \cup [pc : {"replace"}, built : Routers, read : 0..MaxChanges]

Idle  == [pc |-> "idle"]
Fresh == [pc |-> "idle", id |-> None, reviewer |-> None, personal |-> FALSE]

ChatType ==
    [pc : {"idle", "has", "review", "has_review", "key", "record", "call", "reviewers",
           "revise", "done"},
     id : Ids \cup {None}, reviewer : Ids \cup {None}, personal : BOOLEAN]

\* role: the model that answers, the same when it revises, or a reviewer.  asked:
\* the row the request was decided for; reached: the row the adapter was built
\* from; key: what authenticated it; behind: the router was older than the table;
\* promised: the asked row was given a key of its own, and it is stored.
CallType ==
    [role : {"primary", "revision", "reviewer"}, asked : Ids, reached : Ids,
     key : {"own", "env", "none", "personal"}, behind : BOOLEAN, promised : BOOLEAN]

TypeOK ==
    /\ rows \in [Ids -> RowType]
    /\ history \in SUBSET Ids
    /\ creds \in SUBSET (Chats \X Ids)
    /\ router \in Routers
    /\ op \in [Admins -> OpType]
    /\ chat \in [Chats -> ChatType]
    /\ calls \in [Chats -> SUBSET CallType]
    /\ version \in 0..MaxChanges
    /\ installed \in 0..MaxChanges
    /\ lost \in BOOLEAN /\ overtaken \in BOOLEAN
    /\ faults \in 0..MaxFaults
    /\ restarts \in 0..MaxRestarts

Live == {i \in Ids : rows[i].state = "live"}

\* Mutant of ResolveKey: an undecryptable key falls back to the environment's.
ResolveKeyOrEnv(row) == IF row.key = "good" THEN "own" ELSE "env"

\* resolveProviderKey: the environment's key only for a row without one; a key
\* that cannot be decrypted excludes the provider.
ResolveKey(row) == IF row.key = "none" THEN "env" ELSE IF row.key = "good" THEN "own" ELSE "fail"

\* Mutant of Registered: no continue after a key that cannot be decrypted.
RegisteredWithoutKey(row) ==
    /\ row.state = "live" /\ row.enabled
    /\ row.adapter = "ssh_cli" => SSHRunner

\* buildProviders, for one row: is it registered.
Registered(row) ==
    /\ row.state = "live" /\ row.enabled
    /\ row.adapter = "keyed" => ResolveKey(row) # "fail"
    /\ row.adapter = "ssh_cli" => SSHRunner

AdapterOf(i, row) ==
    [id |-> i, key |-> IF row.adapter = "keyed" THEN ResolveKey(row) ELSE "none"]

\* The router built from some reading of the table: names are unique among live
\* rows, so at most one row qualifies.
BuildRouter(providers) ==
    [n \in Names |->
        IF \E i \in Ids : providers[i].name = n /\ Registered(providers[i])
        THEN LET i == CHOOSE i \in Ids : providers[i].name = n /\ Registered(providers[i])
             IN AdapterOf(i, providers[i])
        ELSE None]

Built == BuildRouter(rows)

\* The seeded rows: enabled, without keys; main builds the first router from them.
Init ==
    /\ \E seed \in Offers :
         rows = [i \in Ids |->
                   [state |-> IF i = 1 THEN "live" ELSE "unused", name |-> seed.name,
                    adapter |-> seed.adapter, enabled |-> TRUE, key |-> "none",
                    asked |-> FALSE, owed |-> FALSE]]
    /\ router = Built
    /\ history = {} /\ creds = {}
    /\ op = [a \in Admins |-> Idle]
    /\ chat = [c \in Chats |-> Fresh]
    /\ calls = [c \in Chats |-> {}]
    /\ version = 0 /\ installed = 0
    /\ lost = FALSE /\ overtaken = FALSE
    /\ faults = 0 /\ restarts = 0

(***************************************************************************)
(* Administrators: the handlers of /api/models                             *)
(***************************************************************************)

Fault == faults < MaxFaults /\ faults' = faults + 1

\* One statement that changes rows commits.
Change(i, row) ==
    /\ version < MaxChanges
    /\ rows' = [rows EXCEPT ![i] = row]
    /\ version' = version + 1

Become(a, o) == op' = [op EXCEPT ![a] = o]

Reload == [pc |-> "reload"]

\* The request ends here, without the reload: it matters if the table has changed
\* since the router was built.
GiveUp(a) ==
    /\ Become(a, Idle)
    /\ lost' = (lost \/ installed # version)

\* createModelHandler up to CreateModelProvider: the row is inserted without its key.
CreateModel(a, i, offer) ==
    /\ op[a] = Idle
    /\ rows[i].state = "unused" /\ \A j \in Ids : j < i => rows[j].state # "unused"
    /\ \A j \in Live : rows[j].name # offer.name     \* ErrModelProviderExists otherwise
    /\ Change(i, [state |-> "live", name |-> offer.name, adapter |-> offer.adapter,
                  enabled |-> TRUE, key |-> "none", asked |-> offer.key, owed |-> offer.key])
    /\ Become(a, IF offer.key THEN [pc |-> "key", id |-> i] ELSE Reload)
    /\ UNCHANGED <<history, creds, router, chat, calls, installed, lost, overtaken, faults, restarts>>

\* Phase 2 of createModelHandler, encryption bound to the new id.
CreateModelKey(a) ==
    /\ op[a].pc = "key"
    /\ LET i == op[a].id IN
         IF i \in Live
         THEN /\ Change(i, [rows[i] EXCEPT !.key = "good", !.owed = FALSE])
              /\ Become(a, Reload) /\ UNCHANGED lost
         ELSE GiveUp(a) /\ UNCHANGED <<rows, version>>       \* no row updated: 500
    /\ UNCHANGED <<history, creds, router, chat, calls, installed, overtaken, faults, restarts>>

\* Phase 2 fails: 500, the row stays without its key and the router without the row.
CreateModelKeyError(a) ==
    /\ op[a].pc = "key"
    /\ Fault
    /\ GiveUp(a)
    /\ UNCHANGED <<rows, history, creds, router, chat, calls, version, installed, overtaken, restarts>>

\* SetModelProviderEnabled, the first statement of patchModelHandler; model: the
\* body has default_model too, which a second statement writes.
SetEnabled(a, i, enabled, model) ==
    /\ op[a] = Idle
    /\ i \in Live
    /\ Change(i, [rows[i] EXCEPT !.enabled = enabled])
    /\ Become(a, IF model THEN [pc |-> "model", id |-> i] ELSE Reload)
    /\ UNCHANGED <<history, creds, router, chat, calls, installed, lost, overtaken, faults, restarts>>

\* SetModelProviderDefaultModel: nothing the router holds.
SetDefaultModel(a) ==
    /\ op[a].pc = "model"
    /\ IF op[a].id \in Live
       THEN Become(a, Reload) /\ UNCHANGED lost
       ELSE GiveUp(a)                                      \* 404
    /\ UNCHANGED <<rows, history, creds, router, chat, calls, version, installed, overtaken,
                   faults, restarts>>

\* The second statement fails after the first committed.
SetDefaultModelError(a) ==
    /\ op[a].pc = "model"
    /\ Fault
    /\ GiveUp(a)
    /\ UNCHANGED <<rows, history, creds, router, chat, calls, version, installed, overtaken, restarts>>

\* Mutant of DeleteModel: the router is not rebuilt after a deletion.
DeleteModelOnly(a, i) ==
    /\ op[a] = Idle
    /\ i \in Live \ history
    /\ Change(i, [rows[i] EXCEPT !.state = "deleted", !.enabled = FALSE, !.key = "none",
                                 !.asked = FALSE, !.owed = FALSE])
    /\ creds' = {k \in creds : k[2] # i}
    /\ UNCHANGED <<history, router, op, chat, calls, installed, lost, overtaken, faults, restarts>>

\* deleteModelHandler: refused while history references the row; personal keys
\* for it go with it.
DeleteModel(a, i) ==
    /\ op[a] = Idle
    /\ i \in Live \ history                                \* ErrModelProviderReferenced otherwise
    /\ Change(i, [rows[i] EXCEPT !.state = "deleted", !.enabled = FALSE, !.key = "none",
                                 !.asked = FALSE, !.owed = FALSE])
    /\ creds' = {k \in creds : k[2] # i}
    /\ Become(a, Reload)
    /\ UNCHANGED <<history, router, chat, calls, installed, lost, overtaken, faults, restarts>>

\* updateModelAPIKeyHandler: a new key, or "" to remove it.  The row is read before
\* it is updated, but both statements answer 404 for a row that is gone.
UpdateAPIKey(a, i, key) ==
    /\ op[a] = Idle
    /\ i \in Live
    /\ Change(i, [rows[i] EXCEPT !.key = key, !.asked = (key = "good"), !.owed = FALSE])
    /\ Become(a, Reload)
    /\ UNCHANGED <<history, creds, router, chat, calls, installed, lost, overtaken, faults, restarts>>

\* reloadRouter, first half: ListModelProviders.
ReloadRead(a) ==
    /\ op[a] = Reload
    /\ Become(a, [pc |-> "replace", built |-> Built, read |-> version])
    /\ UNCHANGED <<rows, history, creds, router, chat, calls, version, installed, lost, overtaken,
                   faults, restarts>>

\* tryReloadRouter: an error (or the administrator leaving: it is the request's
\* context) is logged, the answer is a success all the same.
ReloadError(a) ==
    /\ op[a] = Reload
    /\ Fault
    /\ GiveUp(a)
    /\ UNCHANGED <<rows, history, creds, router, chat, calls, version, installed, overtaken, restarts>>

\* reloadRouter, second half: buildProviders and Router.Replace, whatever has been
\* installed since the rows were read.
ReloadReplace(a) ==
    /\ op[a].pc = "replace"
    /\ router' = op[a].built
    /\ installed' = op[a].read
    /\ IF op[a].read = version
       THEN lost' = FALSE /\ overtaken' = FALSE
       ELSE overtaken' = (overtaken \/ op[a].read < installed) /\ UNCHANGED lost
    /\ Become(a, Idle)
    /\ UNCHANGED <<rows, history, creds, chat, calls, version, faults, restarts>>

(***************************************************************************)
(* Users: personal keys and chat requests                                  *)
(***************************************************************************)

\* createMyCredentialHandler: upsert, enabled, for a provider that exists.
SetCredential(c, i) ==
    /\ i \in Live
    /\ creds' = creds \cup {<<c, i>>}
    /\ UNCHANGED <<rows, history, router, adminVars, chat, calls, version, installed, overtaken,
                   faults, restarts>>

\* deleteMyCredentialHandler: only one's own.
DeleteCredential(c, i) ==
    /\ <<c, i>> \in creds
    /\ creds' = creds \ {<<c, i>>}
    /\ UNCHANGED <<rows, history, router, adminVars, chat, calls, version, installed, overtaken,
                   faults, restarts>>

NameOf(i) == rows[i].name

Turn(c, pc) == chat' = [chat EXCEPT ![c].pc = pc]

\* The request is over, one way or another.
End(c) == chat' = [chat EXCEPT ![c] = [Fresh EXCEPT !.pc = "done"]]

requestOnly == <<rows, creds, router, adminVars, version, installed, overtaken, restarts>>

\* resolveProvider, first half: an enabled row with the name asked for.
ResolveProvider(c, i) ==
    /\ chat[c].pc = "idle"
    /\ i \in Live /\ rows[i].enabled
    /\ chat' = [chat EXCEPT ![c].pc = "has", ![c].id = i]
    /\ UNCHANGED <<requestOnly, history, calls, faults>>

\* resolveProvider, second half: router.Has, by name.
HasProvider(c) ==
    /\ chat[c].pc = "has"
    /\ IF router[NameOf(chat[c].id)] = None
       THEN End(c)
       ELSE Turn(c, "review") \/ Turn(c, "key")             \* is a review asked for
    /\ UNCHANGED <<requestOnly, history, calls, faults>>

\* resolveReviewProviders: another enabled row, then its name in the router.
ResolveReviewer(c, i) ==
    /\ chat[c].pc = "review"
    /\ i \in Live /\ rows[i].enabled /\ NameOf(i) # NameOf(chat[c].id)
    /\ chat' = [chat EXCEPT ![c].pc = "has_review", ![c].reviewer = i]
    /\ UNCHANGED <<requestOnly, history, calls, faults>>

HasReviewer(c) ==
    /\ chat[c].pc = "has_review"
    /\ IF router[NameOf(chat[c].reviewer)] = None THEN End(c) ELSE Turn(c, "key")
    /\ UNCHANGED <<requestOnly, history, calls, faults>>

\* resolveUserKey: the user's own key for the row's id, if there is one that can
\* be read and decrypted; otherwise the organisation's.
ResolveUserKey(c) ==
    /\ chat[c].pc = "key"
    /\ \E found \in BOOLEAN :
         /\ found => <<c, chat[c].id>> \in creds
         /\ chat' = [chat EXCEPT ![c].pc = "record", ![c].personal = found]
    /\ UNCHANGED <<requestOnly, history, calls, faults>>

\* Mutant of RecordRequest: the event does not name the provider.
RecordRequestWithoutProvider(c) ==
    /\ chat[c].pc = "record"
    /\ Turn(c, "call")
    /\ UNCHANGED <<requestOnly, history, calls, faults>>

\* Transaction 1: the audit event chat_request references the provider's row, so a
\* row that is gone by now fails the request.
RecordRequest(c) ==
    /\ chat[c].pc = "record"
    /\ IF chat[c].id \in Live
       THEN Turn(c, "call") /\ history' = history \cup {chat[c].id}
       ELSE End(c) /\ UNCHANGED history
    /\ UNCHANGED <<requestOnly, calls, faults>>

\* Router.Complete for the row i: whatever adapter has its name now.  Only the
\* keyed adapters send a key; personal: the request overrides it.
Call(c, role, i, personal) ==
    LET to == router[NameOf(i)] IN
      calls' = [calls EXCEPT ![c] = @ \cup
                  {[role |-> role, asked |-> i, reached |-> to.id,
                    key |-> IF personal /\ to.key # "none" THEN "personal" ELSE to.key,
                    behind |-> installed # version,
                    promised |-> rows[i].asked /\ ~rows[i].owed]}]

\* runLLM; a provider that is not registered (any more) ends the request with chat_error.
Complete(c) ==
    /\ chat[c].pc = "call"
    /\ IF router[NameOf(chat[c].id)] = None
       THEN End(c) /\ UNCHANGED calls
       ELSE /\ Call(c, "primary", chat[c].id, chat[c].personal)
            /\ IF chat[c].reviewer = None THEN End(c) ELSE Turn(c, "reviewers")
    /\ UNCHANGED <<requestOnly, history, faults>>

\* runModelReview: the reviewer is content, or the answer is revised once.
CompleteReviewer(c) ==
    /\ chat[c].pc = "reviewers"
    /\ IF router[NameOf(chat[c].reviewer)] = None
       THEN End(c) /\ UNCHANGED calls
       ELSE /\ Call(c, "reviewer", chat[c].reviewer, FALSE)
            /\ End(c) \/ Turn(c, "revise")
    /\ UNCHANGED <<requestOnly, history, faults>>

\* The revision goes to the primary model, without the personal key.
CompleteRevision(c) ==
    /\ chat[c].pc = "revise"
    /\ IF router[NameOf(chat[c].id)] = None
       THEN UNCHANGED calls
       ELSE Call(c, "revision", chat[c].id, FALSE)
    /\ End(c)
    /\ UNCHANGED <<requestOnly, history, faults>>

-----------------------------------------------------------------------------

\* The process restarts, perhaps with another MAPPING_ENCRYPTION_KEY: requests are
\* gone, keys encrypted before cannot be decrypted, main builds a new router.
Restart(rekeyed) ==
    /\ restarts < MaxRestarts
    /\ restarts' = restarts + 1
    /\ rows' = [i \in Ids |-> IF rekeyed /\ rows[i].key = "good"
                              THEN [rows[i] EXCEPT !.key = "bad"] ELSE rows[i]]
    /\ creds' = IF rekeyed THEN {} ELSE creds
    /\ router' = Built'
    /\ op' = [a \in Admins |-> Idle]
    /\ chat' = [c \in Chats |-> IF chat[c].pc = "idle" THEN chat[c] ELSE [Fresh EXCEPT !.pc = "done"]]
    /\ installed' = version
    /\ lost' = FALSE /\ overtaken' = FALSE
    /\ UNCHANGED <<history, calls, version, faults>>

AdminStep(a) ==
    \/ \E i \in Ids, offer \in Offers : CreateModel(a, i, offer)
    \/ CreateModelKey(a) \/ CreateModelKeyError(a)
    \/ \E i \in Ids, enabled, model \in BOOLEAN : SetEnabled(a, i, enabled, model)
    \/ SetDefaultModel(a) \/ SetDefaultModelError(a)
    \/ \E i \in Ids : DeleteModel(a, i)
    \/ \E i \in Ids, key \in {"none", "good"} : UpdateAPIKey(a, i, key)
    \/ ReloadRead(a) \/ ReloadError(a) \/ ReloadReplace(a)

UserStep(c) ==
    \/ \E i \in Ids : SetCredential(c, i) \/ DeleteCredential(c, i)
    \/ \E i \in Ids : ResolveProvider(c, i) \/ ResolveReviewer(c, i)
    \/ HasProvider(c) \/ HasReviewer(c) \/ ResolveUserKey(c) \/ RecordRequest(c)
    \/ Complete(c) \/ CompleteReviewer(c) \/ CompleteRevision(c)

Next ==
    \/ \E a \in Admins : AdminStep(a)
    \/ \E c \in Chats : UserStep(c)
    \/ \E rekeyed \in BOOLEAN : Restart(rekeyed)

Spec == Init /\ [][Next]_vars

(***************************************************************************)
(* Properties                                                              *)
(***************************************************************************)

\* Once every handler of /api/models has finished, the router is exactly the
\* enabled rows of the table with their keys, unless a reload failed or an older
\* one was installed last (reloads are not serialised).
RouterIsCurrent ==
    (\A a \in Admins : op[a] = Idle) /\ ~lost /\ ~overtaken => router = Built

\* A prompt (and a personal key with it) reaches the model it was decided for,
\* although it is looked up again by name: only a router older than the table
\* sends it to another, or, for a reviewer, the deletion of its row.  The row of
\* the answering model cannot be deleted: transaction 1 has referenced it.
RightModel ==
    \A c \in Chats : \A k \in calls[c] :
        /\ k.reached # k.asked => k.behind \/ rows[k.asked].state = "deleted"
        /\ k.role # "reviewer" => rows[k.asked].state = "live"

\* The environment's key never stands in for a provider's own, stored one, not
\* even when that cannot be decrypted: only a router older than the table does that.
\* So says resolveProviderKey, and does it; the comment of buildRouter
\* (main.go:227-228) still announces the fallback it replaced.
EnvKeyNotMasking ==
    \A c \in Chats : \A k \in calls[c] : k.key = "env" /\ k.promised => k.behind

=============================================================================
