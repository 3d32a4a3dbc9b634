------------------------ MODULE ModelRegistry_proofs ------------------------
(***************************************************************************)
(* Proofs about ModelRegistry: the router of rubezh-api against the table  *)
(* of model providers, and the model and key a chat request reaches, for   *)
(* any number of rows, names, administrators, requests and failures.       *)
(***************************************************************************)
EXTENDS ModelRegistry, TLAPS

\* Nothing the router holds, or will be given, is newer than the table.
Versions ==
    /\ installed <= version
    /\ \A a \in Admins : op[a].pc = "replace" => op[a].read <= version

\* A router built from the present version is the present table's.
Copies ==
    /\ installed = version => router = Built
    /\ \A a \in Admins : op[a].pc = "replace" /\ op[a].read = version => op[a].built = Built

\* A router that is behind was given up, or an administrator is on the way to
\* bringing it up to date.
OnTheWay(a) == op[a].pc \in {"key", "model", "reload"} \/ (op[a].pc = "replace" /\ op[a].read = version)
Owed == installed # version => lost \/ overtaken \/ \E a \in Admins : OnTheWay(a)

\* model_providers: the unique name, and a key that was asked for and is not owed.
UniqueNames == \A i, j \in Live : rows[i].name = rows[j].name => i = j
Stored == \A i \in Ids : rows[i].asked /\ ~rows[i].owed => rows[i].state = "live" /\ rows[i].key # "none"

\* Requests hold ids of rows that exist or existed; from transaction 1 on, the
\* answering row is referenced and cannot be deleted.
Chosen(c) ==
    /\ chat[c].id # None => rows[chat[c].id].state # "unused"
    /\ chat[c].reviewer # None => rows[chat[c].reviewer].state # "unused"
    /\ chat[c].pc \notin {"idle", "done"} => chat[c].id # None
    /\ chat[c].pc \in {"has_review", "reviewers", "revise"} => chat[c].reviewer # None
    /\ chat[c].pc \in {"call", "reviewers", "revise"} => chat[c].id \in history
Requests == \A c \in Chats : Chosen(c)
Referenced ==
    /\ history \subseteq Live
    /\ \A c \in Chats : \A k \in calls[c] : k.role # "reviewer" => k.asked \in history

IInv ==
    /\ TypeOK
    /\ Versions /\ Copies /\ Owed
    /\ UniqueNames /\ Stored
    /\ Requests /\ Referenced
    /\ RightModel /\ EnvKeyNotMasking

(***************************************************************************)
(* Operators                                                               *)
(***************************************************************************)

\* A router built from a table holds live rows of that table under their names,
\* and the environment's key only where the row has none.
LEMMA Entries ==
    ASSUME RegistryAssumption, NEW r \in [Ids -> RowType], NEW n \in Names
    PROVE  LET e == BuildRouter(r)[n] IN
             /\ e \in Adapter \cup {None}
             /\ e # None => /\ e.id \in Ids
                            /\ r[e.id].state = "live"
                            /\ r[e.id].name = n
                            /\ e.key = "env" => r[e.id].key = "none"
<1> DEFINE P(i) == r[i].name = n /\ Registered(r[i])
<1>1. CASE \E i \in Ids : P(i)
  <2> DEFINE j == CHOOSE i \in Ids : P(i)
  <2>1. j \in Ids /\ P(j)
    BY <1>1
  <2>2. BuildRouter(r)[n] = AdapterOf(j, r[j])
    BY <1>1 DEF BuildRouter
  <2> HIDE DEF j
  <2>3. r[j].state = "live" /\ (r[j].adapter = "keyed" => ResolveKey(r[j]) # "fail")
    BY <2>1 DEF Registered
  <2>4. AdapterOf(j, r[j]) \in Adapter
    BY <2>1, <2>3 DEF AdapterOf, Adapter, ResolveKey
  <2>5. AdapterOf(j, r[j]).id = j
    BY DEF AdapterOf
  <2>6. AdapterOf(j, r[j]).key = "env" => r[j].key = "none"
    BY DEF AdapterOf, ResolveKey
  <2> QED BY <2>1, <2>2, <2>3, <2>4, <2>5, <2>6
<1>2. CASE ~\E i \in Ids : P(i)
  <2>1. BuildRouter(r)[n] = None
    BY <1>2 DEF BuildRouter
  <2> QED BY <2>1
<1> QED BY <1>1, <1>2

LEMMA RouterTyped ==
    ASSUME RegistryAssumption, NEW r \in [Ids -> RowType]
    PROVE  BuildRouter(r) \in Routers
<1>1. \A n \in Names : BuildRouter(r)[n] \in Adapter \cup {None}
  BY Entries
<1> QED BY <1>1 DEF BuildRouter, Routers

\* What the fields of a request in flight are.
LEMMA OpTyped ==
    ASSUME NEW o \in OpType
    PROVE  /\ o.pc \in {"key", "model"} => o.id \in Ids
           /\ o.pc = "replace" => o.built \in Routers /\ o.read \in 0..MaxChanges
BY DEF OpType

LEMMA OpShapes ==
    /\ Idle \in OpType /\ Reload \in OpType
    /\ \A i \in Ids : [pc |-> "key", id |-> i] \in OpType /\ [pc |-> "model", id |-> i] \in OpType
    /\ \A b \in Routers, v \in 0..MaxChanges : [pc |-> "replace", built |-> b, read |-> v] \in OpType
BY DEF OpType, Idle, Reload

\* The updates of a row the handlers make.
LEMMA RowUpdates ==
    ASSUME NEW r \in RowType
    PROVE  /\ [r EXCEPT !.key = "good", !.owed = FALSE] \in RowType
           /\ \A b \in BOOLEAN : [r EXCEPT !.enabled = b] \in RowType
           /\ [r EXCEPT !.state = "deleted", !.enabled = FALSE, !.key = "none",
                        !.asked = FALSE, !.owed = FALSE] \in RowType
           /\ \A k \in {"none", "good"} :
                [r EXCEPT !.key = k, !.asked = (k = "good"), !.owed = FALSE] \in RowType
           /\ [r EXCEPT !.key = "bad"] \in RowType
<1>1. ASSUME NEW k \in {"none", "good"}, NEW b \in BOOLEAN
      PROVE  [r EXCEPT !.key = k, !.asked = b, !.owed = FALSE] \in RowType
  BY DEF RowType
<1>2. \A k \in {"none", "good"} : (k = "good") \in BOOLEAN
  OBVIOUS
<1>3. \A k \in {"none", "good"} :
        [r EXCEPT !.key = k, !.asked = (k = "good"), !.owed = FALSE] \in RowType
  BY <1>1, <1>2, Zenon
<1>4. /\ [r EXCEPT !.key = "good", !.owed = FALSE] \in RowType
      /\ \A b \in BOOLEAN : [r EXCEPT !.enabled = b] \in RowType
      /\ [r EXCEPT !.state = "deleted", !.enabled = FALSE, !.key = "none",
                   !.asked = FALSE, !.owed = FALSE] \in RowType
      /\ [r EXCEPT !.key = "bad"] \in RowType
  BY DEF RowType
<1> QED BY <1>3, <1>4

\* A change of a row keeps the types.
LEMMA ChangeTyped ==
    ASSUME RegistryAssumption, TypeOK, NEW i \in Ids, NEW row \in RowType, Change(i, row)
    PROVE  /\ rows' \in [Ids -> RowType]
           /\ version' \in 0..MaxChanges
           /\ version' = version + 1
           /\ \A j \in Ids : rows'[j] = IF j = i THEN row ELSE rows[j]
BY DEF Change, TypeOK, RegistryAssumption

(***************************************************************************)
(* Types                                                                   *)
(***************************************************************************)

LEMMA TypeInit ==
    ASSUME RegistryAssumption, Init
    PROVE  TypeOK
<1>1. PICK seed \in Offers :
        rows = [i \in Ids |->
                  [state |-> IF i = 1 THEN "live" ELSE "unused", name |-> seed.name,
                   adapter |-> seed.adapter, enabled |-> TRUE, key |-> "none",
                   asked |-> FALSE, owed |-> FALSE]]
  BY DEF Init
<1>2. seed.name \in Names /\ seed.adapter \in Adapters
  BY DEF RegistryAssumption
<1>3. rows \in [Ids -> RowType]
  BY <1>1, <1>2 DEF RowType
<1>4. router \in Routers
  BY <1>3, RouterTyped DEF Init, Built
<1>5. op \in [Admins -> OpType]
  BY OpShapes DEF Init
<1>6. chat \in [Chats -> ChatType]
  BY DEF Init, Fresh, ChatType
<1>7. /\ history \in SUBSET Ids /\ creds \in SUBSET (Chats \X Ids)
      /\ calls \in [Chats -> SUBSET CallType]
      /\ lost \in BOOLEAN /\ overtaken \in BOOLEAN
  BY DEF Init
<1>8. /\ version \in 0..MaxChanges /\ installed \in 0..MaxChanges
      /\ faults \in 0..MaxFaults /\ restarts \in 0..MaxRestarts
  BY DEF Init, RegistryAssumption
<1> QED BY <1>3, <1>4, <1>5, <1>6, <1>7, <1>8 DEF TypeOK

LEMMA AdminTypes ==
    ASSUME RegistryAssumption, TypeOK, NEW a \in Admins, AdminStep(a)
    PROVE  TypeOK'
<1> USE OpShapes
<1>1. ASSUME NEW i \in Ids, NEW offer \in Offers, CreateModel(a, i, offer) PROVE TypeOK'
  <2> DEFINE row == [state |-> "live", name |-> offer.name, adapter |-> offer.adapter,
                     enabled |-> TRUE, key |-> "none", asked |-> offer.key, owed |-> offer.key]
  <2>1. row \in RowType
    BY DEF RegistryAssumption, RowType
  <2>2. Change(i, row)
    BY <1>1 DEF CreateModel
  <2>3. rows' \in [Ids -> RowType] /\ version' \in 0..MaxChanges
    BY <2>1, <2>2, ChangeTyped
  <2>4. op' \in [Admins -> OpType]
    BY <1>1 DEF CreateModel, Become, TypeOK
  <2> QED BY <1>1, <2>3, <2>4 DEF CreateModel, TypeOK
<1>2. CASE CreateModelKey(a)
  <2>1. op[a].id \in Ids
    BY <1>2, OpTyped DEF CreateModelKey, TypeOK
  <2>2. CASE op[a].id \in Live
    <3> DEFINE row == [rows[op[a].id] EXCEPT !.key = "good", !.owed = FALSE]
    <3>1. row \in RowType
      BY <2>1, RowUpdates DEF TypeOK
    <3>2. Change(op[a].id, row) /\ Become(a, Reload) /\ UNCHANGED lost
      BY <1>2, <2>2 DEF CreateModelKey
    <3>3. rows' \in [Ids -> RowType] /\ version' \in 0..MaxChanges
      BY <2>1, <3>1, <3>2, ChangeTyped
    <3>4. op' \in [Admins -> OpType]
      BY <3>2 DEF Become, TypeOK
    <3> QED BY <1>2, <3>2, <3>3, <3>4 DEF CreateModelKey, TypeOK
  <2>3. CASE op[a].id \notin Live
    BY <1>2, <2>3 DEF CreateModelKey, GiveUp, Become, TypeOK
  <2> QED BY <2>2, <2>3
<1>3. CASE CreateModelKeyError(a)
  BY <1>3 DEF CreateModelKeyError, Fault, GiveUp, Become, TypeOK, RegistryAssumption
<1>4. ASSUME NEW i \in Ids, NEW enabled \in BOOLEAN, NEW model \in BOOLEAN,
             SetEnabled(a, i, enabled, model)
      PROVE  TypeOK'
  <2>1. [rows[i] EXCEPT !.enabled = enabled] \in RowType
    BY RowUpdates DEF TypeOK
  <2>2. rows' \in [Ids -> RowType] /\ version' \in 0..MaxChanges
    BY <1>4, <2>1, ChangeTyped DEF SetEnabled
  <2>3. op' \in [Admins -> OpType]
    BY <1>4 DEF SetEnabled, Become, TypeOK
  <2> QED BY <1>4, <2>2, <2>3 DEF SetEnabled, TypeOK
<1>5. CASE SetDefaultModel(a)
  BY <1>5 DEF SetDefaultModel, GiveUp, Become, TypeOK
<1>6. CASE SetDefaultModelError(a)
  BY <1>6 DEF SetDefaultModelError, Fault, GiveUp, Become, TypeOK, RegistryAssumption
<1>7. ASSUME NEW i \in Ids, DeleteModel(a, i) PROVE TypeOK'
  <2>1. [rows[i] EXCEPT !.state = "deleted", !.enabled = FALSE, !.key = "none",
                        !.asked = FALSE, !.owed = FALSE] \in RowType
    BY RowUpdates DEF TypeOK
  <2>2. rows' \in [Ids -> RowType] /\ version' \in 0..MaxChanges
    BY <1>7, <2>1, ChangeTyped DEF DeleteModel
  <2>3. op' \in [Admins -> OpType] /\ creds' \in SUBSET (Chats \X Ids)
    BY <1>7 DEF DeleteModel, Become, TypeOK
  <2> QED BY <1>7, <2>2, <2>3 DEF DeleteModel, TypeOK
<1>8. ASSUME NEW i \in Ids, NEW key \in {"none", "good"}, UpdateAPIKey(a, i, key) PROVE TypeOK'
  <2>1. [rows[i] EXCEPT !.key = key, !.asked = (key = "good"), !.owed = FALSE] \in RowType
    BY RowUpdates DEF TypeOK
  <2>2. rows' \in [Ids -> RowType] /\ version' \in 0..MaxChanges
    BY <1>8, <2>1, ChangeTyped DEF UpdateAPIKey
  <2>3. op' \in [Admins -> OpType]
    BY <1>8 DEF UpdateAPIKey, Become, TypeOK
  <2> QED BY <1>8, <2>2, <2>3 DEF UpdateAPIKey, TypeOK
<1>9. CASE ReloadRead(a)
  <2>1. Built \in Routers
    BY RouterTyped DEF Built, TypeOK
  <2>2. op' \in [Admins -> OpType]
    BY <1>9, <2>1 DEF ReloadRead, Become, TypeOK
  <2> QED BY <1>9, <2>2 DEF ReloadRead, TypeOK
<1>10. CASE ReloadError(a)
  BY <1>10 DEF ReloadError, Fault, GiveUp, Become, TypeOK, RegistryAssumption
<1>11. CASE ReloadReplace(a)
  <2>1. op[a].built \in Routers /\ op[a].read \in 0..MaxChanges
    BY <1>11, OpTyped DEF ReloadReplace, TypeOK
  <2>2. lost' \in BOOLEAN /\ overtaken' \in BOOLEAN
    BY <1>11 DEF ReloadReplace, TypeOK
  <2>3. op' \in [Admins -> OpType]
    BY <1>11 DEF ReloadReplace, Become, TypeOK
  <2> QED BY <1>11, <2>1, <2>2, <2>3 DEF ReloadReplace, TypeOK
<1> QED BY <1>1, <1>2, <1>3, <1>4, <1>5, <1>6, <1>7, <1>8, <1>9, <1>10, <1>11 DEF AdminStep

LEMMA CallTyped ==
    ASSUME RegistryAssumption, TypeOK, NEW c \in Chats, NEW role \in {"primary", "revision", "reviewer"},
           NEW i \in Ids, NEW personal \in BOOLEAN, router[NameOf(i)] # None,
           Call(c, role, i, personal)
    PROVE  calls' \in [Chats -> SUBSET CallType]
<1> DEFINE to == router[NameOf(i)]
           k == [role |-> role, asked |-> i, reached |-> to.id,
                 key |-> IF personal /\ to.key # "none" THEN "personal" ELSE to.key,
                 behind |-> installed # version,
                 promised |-> rows[i].asked /\ ~rows[i].owed]
<1>1. NameOf(i) \in Names
  BY DEF NameOf, TypeOK, RowType
<1>2. to \in Adapter
  BY <1>1 DEF TypeOK, Routers
<1>3. to.id \in Ids /\ to.key \in {"own", "env", "none"}
  BY <1>2 DEF Adapter
<1>4. (IF personal /\ to.key # "none" THEN "personal" ELSE to.key) \in {"own", "env", "none", "personal"}
  BY <1>3
<1>5. (installed # version) \in BOOLEAN /\ (rows[i].asked /\ ~rows[i].owed) \in BOOLEAN
  OBVIOUS
<1> HIDE DEF to
<1>6. k \in CallType
  BY <1>3, <1>4, <1>5, Zenon DEF CallType
<1>7. calls' = [calls EXCEPT ![c] = calls[c] \cup {k}]
  BY DEF Call, to
<1> HIDE DEF k
<1> QED BY <1>6, <1>7 DEF TypeOK

LEMMA UserTypes ==
    ASSUME RegistryAssumption, TypeOK, NEW c \in Chats, Chosen(c), UserStep(c)
    PROVE  TypeOK'
<1>0. chat[c] \in ChatType
  BY DEF TypeOK
<1>1. ASSUME NEW i \in Ids, SetCredential(c, i) \/ DeleteCredential(c, i) PROVE TypeOK'
  BY <1>1 DEF SetCredential, DeleteCredential, adminVars, TypeOK
<1> DEFINE Rest == /\ history' \in SUBSET Ids
                   /\ chat' \in [Chats -> ChatType]
                   /\ calls' \in [Chats -> SUBSET CallType]
                   /\ UNCHANGED <<requestOnly, faults>>
<1>2. ASSUME Rest PROVE TypeOK'
  BY <1>2 DEF requestOnly, adminVars, TypeOK
<1>3. ASSUME NEW pc \in {"review", "key", "call", "reviewers", "revise"}, Turn(c, pc)
      PROVE  chat' \in [Chats -> ChatType]
  BY <1>0, <1>3 DEF Turn, ChatType, TypeOK
<1>4. ASSUME End(c)
      PROVE  chat' \in [Chats -> ChatType]
  BY <1>4 DEF End, Fresh, ChatType, TypeOK
<1>5. ASSUME NEW i \in Ids, ResolveProvider(c, i) \/ ResolveReviewer(c, i) PROVE Rest
  BY <1>0, <1>5 DEF ResolveProvider, ResolveReviewer, ChatType, TypeOK
<1>6. CASE HasProvider(c) \/ HasReviewer(c)
  BY <1>2, <1>3, <1>4, <1>6 DEF HasProvider, HasReviewer, TypeOK
<1>7. CASE ResolveUserKey(c)
  <2>1. PICK found \in BOOLEAN :
          chat' = [chat EXCEPT ![c].pc = "record", ![c].personal = found]
    BY <1>7 DEF ResolveUserKey
  <2>2. chat' \in [Chats -> ChatType]
    BY <1>0, <2>1 DEF ChatType, TypeOK
  <2> QED BY <1>2, <1>7, <2>2 DEF ResolveUserKey, TypeOK
<1>8. CASE RecordRequest(c)
  <2>1. history' \in SUBSET Ids
    BY <1>8 DEF RecordRequest, Live, TypeOK
  <2> QED BY <1>2, <1>3, <1>4, <1>8, <2>1 DEF RecordRequest, TypeOK
<1>9. CASE Complete(c) \/ CompleteReviewer(c) \/ CompleteRevision(c)
  <2>0. /\ chat[c].id \in Ids /\ chat[c].personal \in BOOLEAN
        /\ chat[c].pc = "reviewers" => chat[c].reviewer \in Ids
    BY <1>0, <1>9 DEF Complete, CompleteReviewer, CompleteRevision, Chosen, ChatType
  <2>1. calls' \in [Chats -> SUBSET CallType]
    <3>1. calls \in [Chats -> SUBSET CallType]
      BY DEF TypeOK
    <3>2. CASE Complete(c)
      BY <2>0, <3>1, <3>2, CallTyped DEF Complete
    <3>3. CASE CompleteReviewer(c)
      BY <2>0, <3>1, <3>3, CallTyped DEF CompleteReviewer
    <3>4. CASE CompleteRevision(c)
      BY <2>0, <3>1, <3>4, CallTyped DEF CompleteRevision
    <3> QED BY <1>9, <3>2, <3>3, <3>4
  <2>2. chat' \in [Chats -> ChatType]
    BY <1>3, <1>4, <1>9 DEF Complete, CompleteReviewer, CompleteRevision
  <2> QED BY <1>2, <1>9, <2>1, <2>2 DEF Complete, CompleteReviewer, CompleteRevision, TypeOK
<1> QED BY <1>1, <1>2, <1>5, <1>6, <1>7, <1>8, <1>9 DEF UserStep

LEMMA RestartTypes ==
    ASSUME RegistryAssumption, TypeOK, NEW rekeyed \in BOOLEAN, Restart(rekeyed)
    PROVE  TypeOK'
<1>1. rows' \in [Ids -> RowType]
  BY RowUpdates DEF Restart, TypeOK
<1>2. router' \in Routers
  BY <1>1, RouterTyped DEF Restart, Built
<1>3. op' \in [Admins -> OpType]
  BY OpShapes DEF Restart
<1>4. [Fresh EXCEPT !.pc = "done"] \in ChatType
  BY DEF Fresh, ChatType
<1>5. chat' \in [Chats -> ChatType]
  BY <1>4 DEF Restart, TypeOK
<1>6. creds' \in SUBSET (Chats \X Ids)
  BY DEF Restart, TypeOK
<1>7. restarts' \in 0..MaxRestarts
  BY DEF Restart, TypeOK, RegistryAssumption
<1> QED BY <1>1, <1>2, <1>3, <1>5, <1>6, <1>7 DEF Restart, TypeOK

(***************************************************************************)
(* The table                                                               *)
(***************************************************************************)

Table == UniqueNames /\ Stored

\* A row that keeps its name and, if live, was live, leaves names unique.
LEMMA UpdatedTable ==
    ASSUME RegistryAssumption, TypeOK, Table, NEW i \in Ids, NEW row \in RowType, Change(i, row),
           row.name = rows[i].name,
           row.state = "live" => i \in Live,
           row.asked /\ ~row.owed => row.state = "live" /\ row.key # "none"
    PROVE  Table'
<1>1. \A j \in Ids : rows'[j] = IF j = i THEN row ELSE rows[j]
  BY ChangeTyped
<1>2. Live' \subseteq Live /\ \A j \in Live' : rows'[j].name = rows[j].name
  BY <1>1 DEF Live
<1> QED BY <1>1, <1>2 DEF Table, UniqueNames, Stored

LEMMA TableStep ==
    ASSUME RegistryAssumption, TypeOK, Table, [Next]_vars
    PROVE  Table'
<1>0. ASSUME UNCHANGED rows PROVE Table'
  BY <1>0 DEF Table, UniqueNames, Stored, Live
<1>1. ASSUME NEW a \in Admins, AdminStep(a) PROVE Table'
  <2>1. ASSUME NEW i \in Ids, NEW offer \in Offers, CreateModel(a, i, offer) PROVE Table'
    <3> DEFINE row == [state |-> "live", name |-> offer.name, adapter |-> offer.adapter,
                       enabled |-> TRUE, key |-> "none", asked |-> offer.key, owed |-> offer.key]
    <3>1. row \in RowType /\ row.name = offer.name /\ row.asked = offer.key /\ row.owed = offer.key
      BY DEF RegistryAssumption, RowType
    <3>2. Change(i, row) /\ \A j \in Live : rows[j].name # offer.name
      BY <2>1 DEF CreateModel
    <3> HIDE DEF row
    <3>3. \A j \in Ids : rows'[j] = IF j = i THEN row ELSE rows[j]
      BY <3>1, <3>2, ChangeTyped
    <3>4. Live' \subseteq Live \cup {i} /\ \A j \in Live' : j # i => rows'[j].name # row.name
      BY <3>1, <3>2, <3>3 DEF Live
    <3> QED BY <3>1, <3>3, <3>4 DEF Table, UniqueNames, Stored, Live
  <2>2. CASE CreateModelKey(a)
    <3>1. CASE op[a].id \in Live
      <4> DEFINE i == op[a].id
                 row == [rows[i] EXCEPT !.key = "good", !.owed = FALSE]
      <4>1. i \in Ids /\ rows[i] \in RowType /\ Change(i, row)
        BY <2>2, <3>1 DEF CreateModelKey, Live, TypeOK
      <4>2. row \in RowType
        BY <4>1, RowUpdates
      <4>3. row.name = rows[i].name /\ row.key = "good" /\ row.state = rows[i].state
        BY <4>1 DEF RowType
      <4> HIDE DEF row
      <4> QED BY <3>1, <4>1, <4>2, <4>3, UpdatedTable DEF Live
    <3>2. CASE op[a].id \notin Live
      BY <1>0, <2>2, <3>2 DEF CreateModelKey
    <3> QED BY <3>1, <3>2
  <2>3. ASSUME NEW i \in Ids, NEW enabled \in BOOLEAN, NEW model \in BOOLEAN,
               SetEnabled(a, i, enabled, model)
        PROVE  Table'
    <3> DEFINE row == [rows[i] EXCEPT !.enabled = enabled]
    <3>1. rows[i] \in RowType /\ i \in Live /\ Change(i, row)
      BY <2>3 DEF SetEnabled, TypeOK
    <3>2. row \in RowType
      BY <3>1, RowUpdates
    <3>3. /\ row.name = rows[i].name /\ row.key = rows[i].key
          /\ row.state = rows[i].state /\ row.asked = rows[i].asked /\ row.owed = rows[i].owed
      BY <3>1 DEF RowType
    <3> HIDE DEF row
    <3> QED BY <3>1, <3>2, <3>3, UpdatedTable DEF Table, Stored
  <2>4. ASSUME NEW i \in Ids, DeleteModel(a, i) PROVE Table'
    <3> DEFINE row == [rows[i] EXCEPT !.state = "deleted", !.enabled = FALSE, !.key = "none",
                                      !.asked = FALSE, !.owed = FALSE]
    <3>1. rows[i] \in RowType /\ Change(i, row)
      BY <2>4 DEF DeleteModel, TypeOK
    <3>2. row \in RowType
      BY <3>1, RowUpdates
    <3>3. row.name = rows[i].name /\ row.state = "deleted" /\ row.asked = FALSE
      BY <3>1 DEF RowType
    <3> HIDE DEF row
    <3> QED BY <3>1, <3>2, <3>3, UpdatedTable
  <2>5. ASSUME NEW i \in Ids, NEW key \in {"none", "good"}, UpdateAPIKey(a, i, key) PROVE Table'
    <3> DEFINE row == [rows[i] EXCEPT !.key = key, !.asked = (key = "good"), !.owed = FALSE]
    <3>1. rows[i] \in RowType /\ i \in Live /\ Change(i, row)
      BY <2>5 DEF UpdateAPIKey, TypeOK
    <3>2. row \in RowType
      BY <3>1, RowUpdates
    <3>3. row.name = rows[i].name /\ row.state = rows[i].state /\ row.key = key
      BY <3>1 DEF RowType
    <3>4. row.asked => key = "good"
      BY <3>1 DEF RowType
    <3> HIDE DEF row
    <3> QED BY <3>1, <3>2, <3>3, <3>4, UpdatedTable DEF Live
  <2>6. CASE \/ CreateModelKeyError(a) \/ SetDefaultModel(a) \/ SetDefaultModelError(a)
             \/ ReloadRead(a) \/ ReloadError(a) \/ ReloadReplace(a)
    BY <1>0, <2>6 DEF CreateModelKeyError, SetDefaultModel, SetDefaultModelError,
                      ReloadRead, ReloadError, ReloadReplace
  <2> QED BY <1>1, <2>1, <2>2, <2>3, <2>4, <2>5, <2>6 DEF AdminStep
<1>2. ASSUME NEW c \in Chats, UserStep(c) PROVE Table'
  BY <1>0, <1>2 DEF UserStep, SetCredential, DeleteCredential, ResolveProvider, ResolveReviewer,
       HasProvider, HasReviewer, ResolveUserKey, RecordRequest, Complete, CompleteReviewer,
       CompleteRevision, requestOnly
<1>3. ASSUME NEW rekeyed \in BOOLEAN, Restart(rekeyed) PROVE Table'
  <2>1. ASSUME NEW i \in Ids
        PROVE  /\ rows'[i].state = rows[i].state /\ rows'[i].name = rows[i].name
               /\ rows'[i].asked = rows[i].asked /\ rows'[i].owed = rows[i].owed
               /\ rows'[i].key # "none" <=> rows[i].key # "none"
    <3>1. rows[i] \in RowType
      BY DEF TypeOK
    <3>2. rows'[i] = IF rekeyed /\ rows[i].key = "good" THEN [rows[i] EXCEPT !.key = "bad"] ELSE rows[i]
      BY <1>3 DEF Restart
    <3> QED BY <3>1, <3>2 DEF RowType
  <2>2. Live' = Live
    BY <2>1 DEF Live
  <2> QED BY <2>1, <2>2 DEF Table, UniqueNames, Stored, Live
<1> QED BY <1>0, <1>1, <1>2, <1>3 DEF Next, vars

(***************************************************************************)
(* The router                                                              *)
(***************************************************************************)

RouterInv == Versions /\ Copies /\ Owed

LEMMA RouterStep ==
    ASSUME RegistryAssumption, TypeOK, RouterInv, [Next]_vars
    PROVE  RouterInv'
<1>0. /\ installed \in Nat /\ version \in Nat /\ lost \in BOOLEAN /\ overtaken \in BOOLEAN
      /\ \A a \in Admins : op[a].pc = "replace" => op[a].read \in Nat
  BY OpTyped DEF TypeOK, RegistryAssumption
<1>1. ASSUME UNCHANGED <<rows, router, op, version, installed, lost, overtaken>> PROVE RouterInv'
  BY <1>1 DEF RouterInv, Versions, Copies, Owed, OnTheWay, Built
\* A change: nothing is a copy of the new table, its administrator is on the way.
<1>2. ASSUME NEW a \in Admins, NEW o, Become(a, o), o.pc \in {"key", "model", "reload"},
             version' = version + 1, UNCHANGED <<router, installed, lost, overtaken>>
      PROVE  RouterInv'
  <2>1. op'[a] = o /\ \A b \in Admins : b # a => op'[b] = op[b]
    BY <1>2 DEF Become, TypeOK
  <2>2. Versions'
    BY <1>0, <1>2, <2>1 DEF RouterInv, Versions
  <2>3. installed' # version' /\ \A b \in Admins : op'[b].pc = "replace" => op'[b].read # version'
    BY <1>0, <1>2, <2>1 DEF RouterInv, Versions
  <2>4. OnTheWay(a)'
    BY <1>2, <2>1 DEF OnTheWay
  <2> QED BY <2>2, <2>3, <2>4 DEF RouterInv, Copies, Owed
<1> DEFINE Same == UNCHANGED <<rows, router, version, installed, overtaken>>
<1>3. ASSUME NEW a \in Admins, Become(a, Reload), Same, UNCHANGED lost
      PROVE  RouterInv'
  <2>1. op'[a] = Reload /\ \A b \in Admins : b # a => op'[b] = op[b]
    BY <1>3 DEF Become, TypeOK
  <2>2. op'[a].pc = "reload"
    BY <2>1 DEF Reload
  <2> QED BY <1>3, <2>1, <2>2 DEF RouterInv, Versions, Copies, Owed, OnTheWay, Built
<1>4. ASSUME NEW a \in Admins, GiveUp(a), Same
      PROVE  RouterInv'
  <2>1. op'[a] = Idle /\ \A b \in Admins : b # a => op'[b] = op[b]
    BY <1>4 DEF GiveUp, Become, TypeOK
  <2>2. op'[a].pc = "idle"
    BY <2>1 DEF Idle
  <2>3. Owed'
    BY <1>4 DEF GiveUp, Owed
  <2> QED BY <1>4, <2>1, <2>2, <2>3 DEF RouterInv, Versions, Copies, Built
<1>5. ASSUME NEW a \in Admins, AdminStep(a) PROVE RouterInv'
  <2>0. /\ Reload.pc = "reload"
        /\ \A i \in Ids : [pc |-> "key", id |-> i].pc = "key" /\ [pc |-> "model", id |-> i].pc = "model"
    BY DEF Reload
  <2>1. ASSUME NEW i \in Ids, NEW offer \in Offers, CreateModel(a, i, offer) PROVE RouterInv'
    BY <1>2, <2>0, <2>1 DEF CreateModel, Change
  <2>2. CASE CreateModelKey(a)
    BY <1>2, <1>4, <2>0, <2>2 DEF CreateModelKey, Change
  <2>3. CASE CreateModelKeyError(a) \/ SetDefaultModelError(a) \/ ReloadError(a)
    BY <1>4, <2>3 DEF CreateModelKeyError, SetDefaultModelError, ReloadError
  <2>4. ASSUME NEW i \in Ids, NEW enabled \in BOOLEAN, NEW model \in BOOLEAN,
               SetEnabled(a, i, enabled, model)
        PROVE  RouterInv'
    BY <1>2, <2>0, <2>4 DEF SetEnabled, Change
  <2>5. CASE SetDefaultModel(a)
    BY <1>3, <1>4, <2>5 DEF SetDefaultModel
  <2>6. ASSUME NEW i \in Ids, DeleteModel(a, i) PROVE RouterInv'
    BY <1>2, <2>0, <2>6 DEF DeleteModel, Change
  <2>7. ASSUME NEW i \in Ids, NEW key \in {"none", "good"}, UpdateAPIKey(a, i, key) PROVE RouterInv'
    BY <1>2, <2>0, <2>7 DEF UpdateAPIKey, Change
  <2>8. CASE ReloadRead(a)
    <3>1. /\ op'[a] = [pc |-> "replace", built |-> Built, read |-> version]
          /\ \A b \in Admins : b # a => op'[b] = op[b]
          /\ UNCHANGED <<rows, router, version, installed, lost, overtaken>>
      BY <2>8 DEF ReloadRead, Become, TypeOK
    <3>2. op'[a].pc = "replace" /\ op'[a].built = Built /\ op'[a].read = version
      BY <3>1
    <3>3. Built' = Built
      BY <3>1 DEF Built
    <3>4. OnTheWay(a)'
      BY <3>1, <3>2 DEF OnTheWay
    <3>5. Versions'
      BY <1>0, <3>1, <3>2 DEF RouterInv, Versions
    <3>6. Copies'
      BY <3>1, <3>2, <3>3 DEF RouterInv, Copies
    <3> QED BY <3>4, <3>5, <3>6 DEF RouterInv, Owed
  <2>9. CASE ReloadReplace(a)
    <3>1. /\ op[a].pc = "replace" /\ router' = op[a].built /\ installed' = op[a].read
          /\ op'[a] = Idle /\ \A b \in Admins : b # a => op'[b] = op[b]
          /\ UNCHANGED <<rows, version>>
      BY <2>9 DEF ReloadReplace, Become, TypeOK
    <3>2. op'[a].pc = "idle"
      BY <3>1 DEF Idle
    <3>3. Built' = Built
      BY <3>1 DEF Built
    <3>4. Versions'
      BY <3>1, <3>2 DEF RouterInv, Versions
    <3>5. Copies'
      BY <3>1, <3>2, <3>3 DEF RouterInv, Copies
    <3>6. Owed'
      <4>1. CASE op[a].read = version
        BY <3>1, <4>1 DEF Owed
      <4>2. CASE op[a].read # version
        <5>1. overtaken' = (overtaken \/ op[a].read < installed) /\ lost' = lost
          BY <2>9, <4>2 DEF ReloadReplace
        <5>2. CASE installed = version
          <6>1. op[a].read \in Nat /\ op[a].read <= version
            BY <1>0, <3>1 DEF RouterInv, Versions
          <6>2. op[a].read < installed
            BY <1>0, <4>2, <5>2, <6>1
          <6> QED BY <1>0, <5>1, <6>2 DEF Owed
        <5>3. CASE installed # version /\ (lost \/ overtaken)
          BY <5>1, <5>3 DEF Owed
        <5>4. ASSUME NEW b \in Admins, OnTheWay(b) PROVE Owed'
          <6>1. b # a
            BY <3>1, <4>2, <5>4 DEF OnTheWay
          <6>2. OnTheWay(b)'
            BY <3>1, <5>4, <6>1 DEF OnTheWay
          <6> QED BY <6>2 DEF Owed
        <5> QED BY <5>2, <5>3, <5>4 DEF RouterInv, Owed
      <4> QED BY <4>1, <4>2
    <3> QED BY <3>4, <3>5, <3>6 DEF RouterInv
  <2> QED BY <1>5, <2>1, <2>2, <2>3, <2>4, <2>5, <2>6, <2>7, <2>8, <2>9 DEF AdminStep
<1>6. ASSUME NEW c \in Chats, UserStep(c) PROVE RouterInv'
  BY <1>1, <1>6 DEF UserStep, SetCredential, DeleteCredential, ResolveProvider, ResolveReviewer,
       HasProvider, HasReviewer, ResolveUserKey, RecordRequest, Complete, CompleteReviewer,
       CompleteRevision, requestOnly, adminVars
<1>7. ASSUME NEW rekeyed \in BOOLEAN, Restart(rekeyed) PROVE RouterInv'
  <2>1. installed' = version' /\ router' = Built' /\ \A a \in Admins : op'[a].pc = "idle"
    BY <1>7 DEF Restart, Idle
  <2> QED BY <1>0, <1>7, <2>1 DEF Restart, RouterInv, Versions, Copies, Owed
<1> QED BY <1>1, <1>5, <1>6, <1>7 DEF Next, vars

(***************************************************************************)
(* Chat requests and what they call                                        *)
(***************************************************************************)

\* Rows come into being once, a deletion is final, and spares referenced rows.
LEMMA RowsSurvive ==
    ASSUME RegistryAssumption, TypeOK, history \subseteq Live, NEW i \in Ids, [Next]_vars
    PROVE  /\ rows[i].state # "unused" => rows'[i].state # "unused"
           /\ rows[i].state = "deleted" => rows'[i].state = "deleted"
           /\ i \in history => rows'[i].state = "live"
<1> DEFINE Survives == /\ rows[i].state # "unused" => rows'[i].state # "unused"
                       /\ rows[i].state = "deleted" => rows'[i].state = "deleted"
                       /\ i \in history => rows'[i].state = "live"
<1>0. i \in history => rows[i].state = "live"
  BY DEF Live
<1>1. ASSUME rows' = rows PROVE Survives
  BY <1>0, <1>1
<1>2. ASSUME NEW j \in Ids, NEW row, Change(j, row), row.state = "live", rows[j].state # "deleted"
      PROVE  Survives
  BY <1>0, <1>2 DEF Change, TypeOK
<1>3. rows[i] \in RowType
  BY DEF TypeOK
<1>4. ASSUME NEW a \in Admins, AdminStep(a) PROVE Survives
  <2>1. ASSUME NEW j \in Ids, NEW offer \in Offers, CreateModel(a, j, offer) PROVE Survives
    BY <1>2, <2>1 DEF CreateModel
  <2>2. CASE CreateModelKey(a)
    <3>1. CASE op[a].id \in Live
      <4> DEFINE j == op[a].id
      <4>1. j \in Ids /\ rows[j].state = "live" /\ rows[j] \in RowType
        BY <3>1 DEF Live, TypeOK
      <4>2. [rows[j] EXCEPT !.key = "good", !.owed = FALSE].state = "live"
        BY <4>1 DEF RowType
      <4> QED BY <1>2, <2>2, <3>1, <4>1, <4>2 DEF CreateModelKey
    <3>2. CASE op[a].id \notin Live
      BY <1>1, <2>2, <3>2 DEF CreateModelKey
    <3> QED BY <3>1, <3>2
  <2>3. ASSUME NEW j \in Ids, NEW enabled \in BOOLEAN, NEW model \in BOOLEAN,
               SetEnabled(a, j, enabled, model)
        PROVE  Survives
    <3>1. rows[j].state = "live" /\ rows[j] \in RowType
      BY <2>3 DEF SetEnabled, Live, TypeOK
    <3>2. [rows[j] EXCEPT !.enabled = enabled].state = "live"
      BY <3>1 DEF RowType
    <3> QED BY <1>2, <2>3, <3>1, <3>2 DEF SetEnabled
  <2>4. ASSUME NEW j \in Ids, DeleteModel(a, j) PROVE Survives
    <3> DEFINE row == [rows[j] EXCEPT !.state = "deleted", !.enabled = FALSE, !.key = "none",
                                      !.asked = FALSE, !.owed = FALSE]
    <3>1. rows' = [rows EXCEPT ![j] = row] /\ j \notin history /\ rows[j] \in RowType
      BY <2>4 DEF DeleteModel, Change, TypeOK
    <3>2. row.state = "deleted"
      BY <3>1 DEF RowType
    <3> HIDE DEF row
    <3> QED BY <1>0, <3>1, <3>2 DEF TypeOK
  <2>5. ASSUME NEW j \in Ids, NEW key \in {"none", "good"}, UpdateAPIKey(a, j, key) PROVE Survives
    <3>1. rows[j].state = "live" /\ rows[j] \in RowType
      BY <2>5 DEF UpdateAPIKey, Live, TypeOK
    <3>2. [rows[j] EXCEPT !.key = key, !.asked = (key = "good"), !.owed = FALSE].state = "live"
      BY <3>1 DEF RowType
    <3> QED BY <1>2, <2>5, <3>1, <3>2 DEF UpdateAPIKey
  <2>6. CASE \/ CreateModelKeyError(a) \/ SetDefaultModel(a) \/ SetDefaultModelError(a)
             \/ ReloadRead(a) \/ ReloadError(a) \/ ReloadReplace(a)
    BY <1>1, <2>6 DEF CreateModelKeyError, SetDefaultModel, SetDefaultModelError,
                      ReloadRead, ReloadError, ReloadReplace
  <2> QED BY <1>4, <2>1, <2>2, <2>3, <2>4, <2>5, <2>6 DEF AdminStep
<1>5. ASSUME NEW c \in Chats, UserStep(c) PROVE Survives
  BY <1>1, <1>5 DEF UserStep, SetCredential, DeleteCredential, ResolveProvider, ResolveReviewer,
       HasProvider, HasReviewer, ResolveUserKey, RecordRequest, Complete, CompleteReviewer,
       CompleteRevision, requestOnly
<1>6. ASSUME NEW rekeyed \in BOOLEAN, Restart(rekeyed) PROVE Survives
  <2>1. rows'[i] = IF rekeyed /\ rows[i].key = "good" THEN [rows[i] EXCEPT !.key = "bad"] ELSE rows[i]
    BY <1>6 DEF Restart
  <2>2. rows'[i].state = rows[i].state
    BY <1>3, <2>1 DEF RowType
  <2> QED BY <1>0, <2>2
<1> QED BY <1>1, <1>4, <1>5, <1>6 DEF Next, vars

\* What one more call adds.
Sound(k) ==
    /\ k.reached # k.asked => k.behind \/ rows[k.asked].state = "deleted"
    /\ k.key = "env" /\ k.promised => k.behind

LEMMA NewCall ==
    ASSUME RegistryAssumption, TypeOK, Table, RouterInv,
           NEW c \in Chats, NEW role, NEW i \in Ids, NEW personal \in BOOLEAN,
           rows[i].state # "unused", router[NameOf(i)] # None, Call(c, role, i, personal)
    PROVE  \E k : /\ calls' = [calls EXCEPT ![c] = calls[c] \cup {k}]
                  /\ k.role = role /\ k.asked = i
                  /\ Sound(k)
<1> DEFINE to == router[NameOf(i)]
           k == [role |-> role, asked |-> i, reached |-> to.id,
                 key |-> IF personal /\ to.key # "none" THEN "personal" ELSE to.key,
                 behind |-> installed # version,
                 promised |-> rows[i].asked /\ ~rows[i].owed]
<1>1. calls' = [calls EXCEPT ![c] = calls[c] \cup {k}]
  BY DEF Call
<1>2. /\ k.role = role /\ k.asked = i /\ k.reached = to.id
      /\ k.key = "env" => to.key = "env"
      /\ k.behind <=> installed # version
      /\ k.promised <=> rows[i].asked /\ ~rows[i].owed
  OBVIOUS
<1> HIDE DEF k
<1>3. CASE installed # version
  BY <1>1, <1>2, <1>3 DEF Sound
<1>4. CASE installed = version
  <2>1. rows \in [Ids -> RowType] /\ NameOf(i) = rows[i].name /\ NameOf(i) \in Names
    BY DEF NameOf, TypeOK, RowType
  <2>2. to = BuildRouter(rows)[NameOf(i)] /\ to # None
    BY <1>4 DEF RouterInv, Copies, Built
  <2>3. /\ to.id \in Ids /\ rows[to.id].state = "live" /\ rows[to.id].name = rows[i].name
        /\ to.key = "env" => rows[to.id].key = "none"
    BY <2>1, <2>2, Entries
  <2> HIDE DEF to
  <2>4. CASE rows[i].state = "live"
    <3>1. to.id = i
      BY <2>3, <2>4 DEF Table, UniqueNames, Live
    <3> QED BY <1>1, <1>2, <2>3, <3>1 DEF Sound, Table, Stored
  <2>5. CASE rows[i].state = "deleted"
    <3>1. ~(rows[i].asked /\ ~rows[i].owed)
      BY <2>5 DEF Table, Stored
    <3> QED BY <1>1, <1>2, <2>5, <3>1 DEF Sound
  <2>6. rows[i].state \in {"unused", "live", "deleted"}
    BY <2>1 DEF RowType
  <2> QED BY <2>4, <2>5, <2>6
<1> QED BY <1>3, <1>4

ChatsInv == Requests /\ Referenced /\ RightModel /\ EnvKeyNotMasking

\* The calls of all requests are sound, and those of the answering model are to
\* referenced rows.
LEMMA CallsAreSound ==
    Referenced /\ RightModel /\ EnvKeyNotMasking <=>
        /\ history \subseteq Live
        /\ \A c \in Chats : \A k \in calls[c] :
             Sound(k) /\ (k.role # "reviewer" => k.asked \in history /\ rows[k.asked].state = "live")
BY DEF Referenced, RightModel, EnvKeyNotMasking, Sound, Live

LEMMA ChatsStep ==
    ASSUME RegistryAssumption, TypeOK, Table, RouterInv, ChatsInv, [Next]_vars
    PROVE  ChatsInv'
<1>0. /\ history \subseteq Live
      /\ \A c \in Chats : \A k \in calls[c] :
           Sound(k) /\ (k.role # "reviewer" => k.asked \in history /\ rows[k.asked].state = "live")
  BY CallsAreSound DEF ChatsInv
<1>a. \A c \in Chats : Chosen(c)
  BY DEF ChatsInv, Requests
<1>b. /\ \A c \in Chats : chat[c] \in ChatType /\ calls[c] \subseteq CallType
      /\ history \subseteq Ids
  BY DEF TypeOK
<1>c. \A i \in Ids : /\ rows[i].state # "unused" => rows'[i].state # "unused"
                     /\ rows[i].state = "deleted" => rows'[i].state = "deleted"
                     /\ i \in history => rows'[i].state = "live"
  BY <1>0, RowsSurvive
<1>d. ASSUME \A c \in Chats : Chosen(c)',
             history' \subseteq Live',
             \A c \in Chats : \A k \in calls'[c] :
               /\ k.reached # k.asked => k.behind \/ rows'[k.asked].state = "deleted"
               /\ k.key = "env" /\ k.promised => k.behind
               /\ k.role # "reviewer" => k.asked \in history'
      PROVE  ChatsInv'
  BY <1>d DEF ChatsInv, Requests, Referenced, RightModel, EnvKeyNotMasking, Live
\* A step that makes no call and no reference, and ends requests at most.
<1>1. ASSUME UNCHANGED <<history, calls>>,
             \A c \in Chats : chat'[c] = chat[c] \/ chat'[c] = [Fresh EXCEPT !.pc = "done"]
      PROVE  ChatsInv'
  <2>1. ASSUME NEW c \in Chats PROVE Chosen(c)'
    <3>1. CASE chat'[c] = chat[c]
      BY <1>1, <1>a, <1>b, <1>c, <3>1 DEF Chosen, ChatType
    <3>2. CASE chat'[c] = [Fresh EXCEPT !.pc = "done"]
      BY <3>2 DEF Chosen, Fresh
    <3> QED BY <1>1, <3>1, <3>2
  <2>2. history' \subseteq Live'
    BY <1>1, <1>b, <1>c DEF Live
  <2>3. ASSUME NEW c \in Chats, NEW k \in calls'[c]
        PROVE  /\ k.reached # k.asked => k.behind \/ rows'[k.asked].state = "deleted"
               /\ k.key = "env" /\ k.promised => k.behind
               /\ k.role # "reviewer" => k.asked \in history'
    <3>1. k \in calls[c] /\ k.asked \in Ids
      BY <1>1, <1>b, <2>3 DEF CallType
    <3> QED BY <1>0, <1>1, <1>c, <3>1 DEF Sound
  <2> QED BY <1>d, <2>1, <2>2, <2>3
<1>2. ASSUME NEW a \in Admins, AdminStep(a) PROVE ChatsInv'
  BY <1>1, <1>2 DEF AdminStep, CreateModel, CreateModelKey, CreateModelKeyError, SetEnabled,
       SetDefaultModel, SetDefaultModelError, DeleteModel, UpdateAPIKey, ReloadRead, ReloadError,
       ReloadReplace
<1>3. ASSUME NEW rekeyed \in BOOLEAN, Restart(rekeyed) PROVE ChatsInv'
  <2>1. \A c \in Chats : chat'[c] = chat[c] \/ chat'[c] = [Fresh EXCEPT !.pc = "done"]
    BY <1>3 DEF Restart
  <2> QED BY <1>1, <1>3, <2>1 DEF Restart
\* A step of one request: the others keep what they hold.
<1>4. ASSUME NEW c \in Chats, NEW r \in ChatType, chat' = [chat EXCEPT ![c] = r],
             rows' = rows, history \subseteq history', history' \subseteq Live,
             /\ r.id # None => rows[r.id].state # "unused"
             /\ r.reviewer # None => rows[r.reviewer].state # "unused"
             /\ r.pc \notin {"idle", "done"} => r.id # None
             /\ r.pc \in {"has_review", "reviewers", "revise"} => r.reviewer # None
             /\ r.pc \in {"call", "reviewers", "revise"} => r.id \in history',
             \/ calls' = calls
             \/ \E k : /\ calls' = [calls EXCEPT ![c] = calls[c] \cup {k}]
                       /\ Sound(k)
                       /\ k.role # "reviewer" => k.asked \in history
      PROVE  ChatsInv'
  <2>1. ASSUME NEW d \in Chats PROVE Chosen(d)'
    <3>1. CASE d = c
      <4>1. chat'[c] = r
        BY <1>4 DEF TypeOK
      <4> QED BY <1>4, <3>1, <4>1 DEF Chosen
    <3>2. CASE d # c
      <4>1. chat'[d] = chat[d]
        BY <1>4, <3>2 DEF TypeOK
      <4> QED BY <1>4, <1>a, <4>1 DEF Chosen
    <3> QED BY <3>1, <3>2
  <2>2. ASSUME NEW d \in Chats, NEW k \in calls'[d]
        PROVE  Sound(k) /\ (k.role # "reviewer" => k.asked \in history)
    <3>1. CASE k \in calls[d]
      BY <1>0, <3>1
    <3>2. CASE k \notin calls[d]
      BY <1>4, <2>2, <3>2 DEF TypeOK
    <3> QED BY <3>1, <3>2
  <2>3. Live' = Live
    BY <1>4 DEF Live
  <2> QED BY <1>4, <1>d, <2>1, <2>2, <2>3 DEF Sound
<1>5. ASSUME NEW c \in Chats, UserStep(c) PROVE ChatsInv'
  <2> DEFINE over == [Fresh EXCEPT !.pc = "done"]
             turn(pc) == [chat[c] EXCEPT !.pc = pc]
  <2>a. /\ chat[c] \in ChatType /\ Chosen(c)
        /\ chat[c].personal \in BOOLEAN
        /\ chat[c].id \in Ids \cup {None} /\ chat[c].reviewer \in Ids \cup {None}
    BY <1>a, <1>b DEF ChatType
  <2>b. /\ over \in ChatType /\ over.id = None /\ over.reviewer = None /\ over.pc = "done"
        /\ End(c) => chat' = [chat EXCEPT ![c] = over]
    BY DEF Fresh, ChatType, End
  <2>c. ASSUME NEW pc \in {"review", "key", "call", "reviewers", "revise"}
        PROVE  /\ turn(pc) \in ChatType /\ turn(pc).pc = pc
               /\ turn(pc).id = chat[c].id /\ turn(pc).reviewer = chat[c].reviewer
               /\ Turn(c, pc) => chat' = [chat EXCEPT ![c] = turn(pc)]
    BY <2>a DEF ChatType, Turn
  <2> HIDE DEF over, turn
  <2>d. ASSUME End(c), rows' = rows, history' = history,
               \/ calls' = calls
               \/ \E k : /\ calls' = [calls EXCEPT ![c] = calls[c] \cup {k}]
                         /\ Sound(k)
                         /\ k.role # "reviewer" => k.asked \in history
        PROVE  ChatsInv'
    BY <1>0, <1>4, <2>b, <2>d
  <2>e. ASSUME NEW pc \in {"review", "key", "call", "reviewers", "revise"}, Turn(c, pc), rows' = rows,
               history \subseteq history', history' \subseteq Live,
               chat[c].pc \notin {"idle", "done"},
               pc \in {"reviewers", "revise"} => chat[c].reviewer # None,
               pc \in {"call", "reviewers", "revise"} => chat[c].id \in history',
               \/ calls' = calls
               \/ \E k : /\ calls' = [calls EXCEPT ![c] = calls[c] \cup {k}]
                         /\ Sound(k)
                         /\ k.role # "reviewer" => k.asked \in history
        PROVE  ChatsInv'
    BY <1>4, <2>a, <2>c, <2>e DEF Chosen
  <2>1. ASSUME NEW i \in Ids, SetCredential(c, i) \/ DeleteCredential(c, i) PROVE ChatsInv'
    BY <1>1, <2>1 DEF SetCredential, DeleteCredential
  <2>2. ASSUME NEW i \in Ids, ResolveProvider(c, i) PROVE ChatsInv'
    <3> DEFINE r == [chat[c] EXCEPT !.pc = "has", !.id = i]
    <3>1. /\ r \in ChatType /\ r.id = i /\ r.pc = "has" /\ r.reviewer = chat[c].reviewer
          /\ chat' = [chat EXCEPT ![c] = r]
      BY <2>2, <2>a DEF ChatType, ResolveProvider
    <3>2. i # None /\ rows[i].state = "live"
      BY <2>2 DEF ResolveProvider, Live, RegistryAssumption
    <3>3. rows' = rows /\ history' = history /\ calls' = calls
      BY <2>2 DEF ResolveProvider, requestOnly
    <3>4. chat[c].reviewer # None => rows[chat[c].reviewer].state # "unused"
      BY <2>a DEF Chosen
    <3> HIDE DEF r
    <3>5. /\ rows[r.id].state # "unused"
          /\ r.reviewer # None => rows[r.reviewer].state # "unused"
          /\ r.id # None /\ r.pc \notin {"has_review", "call", "reviewers", "revise"}
      BY <3>1, <3>2, <3>4
    <3> QED BY <1>0, <1>4, <3>1, <3>3, <3>5
  <2>3. ASSUME NEW i \in Ids, ResolveReviewer(c, i) PROVE ChatsInv'
    <3> DEFINE r == [chat[c] EXCEPT !.pc = "has_review", !.reviewer = i]
    <3>1. /\ r \in ChatType /\ r.id = chat[c].id /\ r.pc = "has_review" /\ r.reviewer = i
          /\ chat' = [chat EXCEPT ![c] = r]
      BY <2>3, <2>a DEF ChatType, ResolveReviewer
    <3>2. i # None /\ rows[i].state = "live"
      BY <2>3 DEF ResolveReviewer, Live, RegistryAssumption
    <3>3. rows' = rows /\ history' = history /\ calls' = calls
      BY <2>3 DEF ResolveReviewer, requestOnly
    <3>4. chat[c].id # None /\ rows[chat[c].id].state # "unused"
      BY <2>3, <2>a DEF Chosen, ResolveReviewer
    <3> HIDE DEF r
    <3>5. /\ rows[r.id].state # "unused" /\ rows[r.reviewer].state # "unused"
          /\ r.id # None /\ r.reviewer # None /\ r.pc \notin {"call", "reviewers", "revise"}
      BY <3>1, <3>2, <3>4
    <3> QED BY <1>0, <1>4, <3>1, <3>3, <3>5
  <2>4. CASE HasProvider(c) \/ HasReviewer(c)
    BY <1>0, <2>4, <2>d, <2>e DEF HasProvider, HasReviewer, requestOnly
  <2>5. CASE ResolveUserKey(c)
    <3>1. PICK found \in BOOLEAN : chat' = [chat EXCEPT ![c].pc = "record", ![c].personal = found]
      BY <2>5 DEF ResolveUserKey
    <3> DEFINE r == [chat[c] EXCEPT !.pc = "record", !.personal = found]
    <3>2. /\ r \in ChatType /\ r.id = chat[c].id /\ r.pc = "record" /\ r.reviewer = chat[c].reviewer
          /\ chat' = [chat EXCEPT ![c] = r]
      BY <2>a, <3>1 DEF ChatType
    <3> HIDE DEF r
    <3> QED BY <1>0, <1>4, <2>5, <2>a, <3>2 DEF ResolveUserKey, requestOnly, Chosen
  <2>6. CASE RecordRequest(c)
    <3>1. CASE chat[c].id \in Live
      BY <1>0, <2>6, <2>e, <3>1 DEF RecordRequest, requestOnly
    <3>2. CASE chat[c].id \notin Live
      BY <2>6, <2>d, <3>2 DEF RecordRequest, requestOnly
    <3> QED BY <3>1, <3>2
  <2>f. ASSUME NEW role, NEW i \in Ids, NEW personal \in BOOLEAN, rows[i].state # "unused",
               router[NameOf(i)] # None, Call(c, role, i, personal),
               role # "reviewer" => i \in history
        PROVE  \E k : /\ calls' = [calls EXCEPT ![c] = calls[c] \cup {k}]
                      /\ Sound(k)
                      /\ k.role # "reviewer" => k.asked \in history
    BY <2>f, NewCall
  <2>7. CASE Complete(c)
    <3>1. chat[c].id \in Ids /\ rows[chat[c].id].state # "unused" /\ chat[c].id \in history
      BY <2>7, <2>a DEF Complete, Chosen
    <3>2. CASE router[NameOf(chat[c].id)] = None
      BY <2>7, <2>d, <3>2 DEF Complete, requestOnly
    <3>3. CASE router[NameOf(chat[c].id)] # None
      BY <1>0, <2>7, <2>a, <2>d, <2>e, <2>f, <3>1, <3>3 DEF Complete, requestOnly
    <3> QED BY <3>2, <3>3
  <2>8. CASE CompleteReviewer(c)
    <3>1. /\ chat[c].reviewer \in Ids /\ rows[chat[c].reviewer].state # "unused"
          /\ chat[c].id \in history /\ chat[c].reviewer # None
      BY <2>8, <2>a DEF CompleteReviewer, Chosen
    <3>2. CASE router[NameOf(chat[c].reviewer)] = None
      BY <2>8, <2>d, <3>2 DEF CompleteReviewer, requestOnly
    <3>3. CASE router[NameOf(chat[c].reviewer)] # None
      BY <1>0, <2>8, <2>d, <2>e, <2>f, <3>1, <3>3 DEF CompleteReviewer, requestOnly
    <3> QED BY <3>2, <3>3
  <2>9. CASE CompleteRevision(c)
    <3>1. chat[c].id \in Ids /\ rows[chat[c].id].state # "unused" /\ chat[c].id \in history
      BY <2>9, <2>a DEF CompleteRevision, Chosen
    <3>2. CASE router[NameOf(chat[c].id)] = None
      BY <2>9, <2>d, <3>2 DEF CompleteRevision, requestOnly
    <3>3. CASE router[NameOf(chat[c].id)] # None
      BY <2>9, <2>d, <2>f, <3>1, <3>3 DEF CompleteRevision, requestOnly
    <3> QED BY <3>2, <3>3
  <2> QED BY <1>5, <2>1, <2>2, <2>3, <2>4, <2>5, <2>6, <2>7, <2>8, <2>9 DEF UserStep
<1> QED BY <1>1, <1>2, <1>3, <1>5 DEF Next, vars

(***************************************************************************)
(* The theorems                                                            *)
(***************************************************************************)

LEMMA IInvParts == IInv <=> TypeOK /\ Table /\ RouterInv /\ ChatsInv
BY DEF IInv, Table, RouterInv, ChatsInv

\* The inductive invariant: no router is newer than the table, one of the present
\* version is a copy of it, one that is behind has an administrator on the way to
\* it or was given up, and requests hold and call rows that are or were there.
THEOREM Invariance ==
    ASSUME RegistryAssumption
    PROVE  Spec => []IInv
<1>1. Init => IInv
  <2> SUFFICES ASSUME Init PROVE IInv
    OBVIOUS
  <2>1. TypeOK
    BY TypeInit
  <2>2. Table
    BY DEF Init, Table, UniqueNames, Stored, Live
  <2>3. RouterInv
    BY DEF Init, RouterInv, Versions, Copies, Owed, Idle
  <2>4. ChatsInv
    BY DEF Init, ChatsInv, Requests, Chosen, Fresh, Referenced, RightModel, EnvKeyNotMasking
  <2> QED BY <2>1, <2>2, <2>3, <2>4, IInvParts
<1>2. IInv /\ [Next]_vars => IInv'
  <2> SUFFICES ASSUME IInv, [Next]_vars PROVE IInv'
    OBVIOUS
  <2>1. TypeOK /\ Table /\ RouterInv /\ ChatsInv
    BY IInvParts
  <2>2. TypeOK'
    <3>1. CASE UNCHANGED vars
      BY <2>1, <3>1 DEF TypeOK, vars
    <3>2. ASSUME NEW c \in Chats, UserStep(c) PROVE TypeOK'
      BY <2>1, <3>2, UserTypes DEF ChatsInv, Requests
    <3> QED BY <2>1, <3>1, <3>2, AdminTypes, RestartTypes DEF Next
  <2>3. Table' /\ RouterInv' /\ ChatsInv'
    BY <2>1, TableStep, RouterStep, ChatsStep
  <2> QED BY <2>2, <2>3 DEF IInv, Table, RouterInv, ChatsInv
<1> QED BY <1>1, <1>2, PTL DEF Spec

\* Types of table, router, requests and calls, for all constants.
THEOREM TypeCorrect ==
    ASSUME RegistryAssumption
    PROVE  Spec => []TypeOK
<1>1. IInv => TypeOK
  BY DEF IInv
<1> QED BY <1>1, Invariance, PTL

\* tryReloadRouter after every change: when all handlers of /api/models are done, no
\* reload was lost and none overtaken, the router is the table.
THEOREM RouterBecomesCurrent ==
    ASSUME RegistryAssumption
    PROVE  Spec => []RouterIsCurrent
<1>1. IInv => RouterIsCurrent
  BY DEF IInv, Copies, Owed, OnTheWay, RouterIsCurrent, Idle
<1> QED BY <1>1, Invariance, PTL

\* A model is called by name, yet it is the one the request was decided for unless
\* the router was behind the table; and the row that answers is never deleted.
THEOREM ModelIsRight ==
    ASSUME RegistryAssumption
    PROVE  Spec => []RightModel
<1>1. IInv => RightModel
  BY DEF IInv
<1> QED BY <1>1, Invariance, PTL

\* resolveProviderKey: the environment's key never stands in for a stored one,
\* unless the router was behind the table.
THEOREM EnvKeyOnlyWithoutKey ==
    ASSUME RegistryAssumption
    PROVE  Spec => []EnvKeyNotMasking
<1>1. IInv => EnvKeyNotMasking
  BY DEF IInv
<1> QED BY <1>1, Invariance, PTL
=============================================================================
