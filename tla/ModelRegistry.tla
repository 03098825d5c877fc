---------------------------- MODULE ModelRegistry ----------------------------
(***************************************************************************)
(* Which credential serves which model, and for whom.  The answer lives in *)
(* three places that are brought up to date by three processes:            *)
(*   - the balancer's credential list (internal/balancer),                 *)
(*   - the model manager's tables (internal/models/manager.go),            *)
(*   - the limiter's model limits (internal/ratelimit);                    *)
(*   - the syncer reloads credentials and models from the LiteLLM database *)
(*     (cmd/server/main.go, internal/litellmdb/model_table),               *)
(*   - the updater reads /health of the proxies, the credentials that are  *)
(*     other routers (internal/modelupdate),                               *)
(*   - a reader of /v1/models fetches and fills the same tables.           *)
(* The database and the proxies change at any moment.                      *)
(***************************************************************************)
EXTENDS Scopes, SequencesExt

CONSTANTS
    Model,
    Yaml,           \* names of the credentials of config.yaml
    Proxies,        \* those of them that are other routers
    Fallbacks,      \* those of the proxies with is_fallback
    YamlScope,      \* [Yaml -> Expression]: their own scopes
    YamlLimits,     \* [Model -> Seq(Limit)]: the models of config.yaml
    DBNames,        \* names of the credentials that the database can hold
    DBScope,        \* [DBNames -> Expression]: their own scopes
    Inline,         \* [Model -> name]: the synthetic name "db-model-<id>"
    DBRows,         \* the rows [model, ref, rpm] that its model table can hold
    Healths,        \* what /health of a proxy can say
    Callers,        \* contexts that ask for the list of models
    MaxChanges,     \* bound on the changes of the database and of the proxies
    Global,         \* no credential: the row is about all of them
    InlineRef,      \* the row holds the key itself
    NoList          \* nothing cached

DefaultRPM == 0     \* stands for the default of the configuration
Limits == [cred : Yaml \cup DBNames \cup {Inline[m] : m \in Model} \cup {Global}, rpm : {1, 2}]

\* The scopes of config.yaml and of the database are two lists; what another router advertises is an
\* expression, which may be malformed.
ASSUME RegistryAssumption ==
    /\ IsFiniteSet(Yaml) /\ IsFiniteSet(DBNames) /\ IsFiniteSet(DBRows)
    /\ Proxies \subseteq Yaml /\ Fallbacks \subseteq Proxies
    /\ \A c \in Yaml : \E scopes, denied \in SUBSET Scope : YamlScope[c] = FromScopes(scopes, denied)
    /\ \A c \in DBNames : \E scopes, denied \in SUBSET Scope : DBScope[c] = FromScopes(scopes, denied)
    /\ \A m \in Model : Inline[m] \notin DBNames
    /\ YamlLimits \in [Model -> Seq(Limits)]
    /\ \A h \in Healths : \A r \in h.rows : r.model \in Model /\ r.scope \in Expression /\ r.own \in Expression
    /\ Callers \subseteq Context /\ NoList \notin Callers
    /\ MaxChanges \in Nat

VARIABLES
    db,             \* [up, creds, rows]: the database
    health,         \* [Proxies -> Healths]: what each proxy would answer now
    changes,        \* how often they have changed
    phase,          \* start of the server: "list", "sync", "update", then "serving"
    balancer,       \* credentials by name: [src, scope, known]
    creds,          \* Manager.credentials: sequence of [name, src, scope, known]
    limits,         \* Manager.modelLimits: [Model -> Seq(Limits)]
    credModels,     \* Manager.credentialModels
    served,         \* Manager.modelToCredentials, as a set of <<model, credential>>
    learned,        \* dynamicModelScopes and dynamicModelWeights of each proxy
    remote,         \* Manager.remoteModelsCache: a snapshot or NoList
    allModels,      \* Manager.allModels
    listed,         \* Manager.allModelsCache
    scoped,         \* Manager.scopedAllModelsCache, per caller
    pairs,          \* RPMLimiter.modelLimits: [<<credential, model>> -> rpm]
    sync,           \* the syncer: [pc, creds, rows, left]
    fetch,          \* calls of GetRemoteModelsWithError: [pc, snap, ok, scope, known],
                    \* and what the updater does with the result: [gone, new, model, rpm]
    lister          \* the reader: [pc, who, left]

world == <<db, health, changes>>
tables == <<creds, limits, credModels, served, learned>>
caches == <<remote, allModels, listed, scoped>>
vars == <<world, phase, balancer, tables, caches, pairs, sync, fetch, lister>>

Names == Yaml \cup DBNames \cup {Inline[m] : m \in Model}
Synthetic == {Inline[m] : m \in Model}
Updater(p) == <<"updater", p>>
Reader(p) == <<"reader", p>>
Fetchers == {Updater(p) : p \in Proxies} \cup {Reader(p) : p \in Proxies}
Anyone == {NoConstraint}

\* The function f, and g where f is not defined.
Over(f, g) == [x \in DOMAIN f \cup DOMAIN g |-> IF x \in DOMAIN f THEN f[x] ELSE g[x]]

-----------------------------------------------------------------------------
(* What a proxy says *)

\* A row of /health is a model of one of the credentials of that router; only a
\* fallback is given the rows of that router's own fallbacks.
Rows(p, h) == {r \in h.rows : r.fallback => p \in Fallbacks}
ModelsOf(p, h) == {r.model : r \in Rows(p, h)}
RowsOf(p, h, m) == {r \in Rows(p, h) : r.model = m}

\* The scopes of the model in that row, those of its credential if the row has
\* neither an expression nor lists; an expression that admits nobody is one.
RowScope(r) == NormalizeExpression(IF r.inherits THEN r.scope ELSE r.own)

\* fetchRemoteModelsFromHealth and the aggregation of scopes
Snapshot(p, h) ==
    [models  |-> ModelsOf(p, h),
     scope   |-> Or([r \in Rows(p, h) |-> r.scope]),
     scopes  |-> [m \in ModelsOf(p, h) |-> Or([r \in RowsOf(p, h, m) |-> RowScope(r)])],
     weights |-> [m \in ModelsOf(p, h) |->
                    MapThenSumSet(LAMBDA r : IF r.weight > 0 THEN r.weight ELSE 1, RowsOf(p, h, m))],
     known   |-> TRUE]

\* A router that has no /health: the names of /v1/models, for everyone.
LegacySnapshot(h) ==
    [models |-> {r.model : r \in h.rows}, scope |-> Anyone, scopes |-> <<>>, weights |-> <<>>, known |-> TRUE]

ClosedSnapshot ==
    [models |-> {}, scope |-> FalseExpression, scopes |-> <<>>, weights |-> <<>>, known |-> FALSE]

-----------------------------------------------------------------------------
(* Reading the tables *)

IsConfigured(lims, m, c) == \E i \in DOMAIN lims[m] : lims[m][i].cred \in {Global, c}

\* findLimit: the credential's own limit before the global one, the first of each.
RPMFor(lims, m, c) ==
    LET own == SelectSeq(lims[m], LAMBDA l : l.cred = c)
        global == SelectSeq(lims[m], LAMBDA l : l.cred = Global)
    IN  IF own # <<>> THEN own[1].rpm ELSE IF global # <<>> THEN global[1].rpm ELSE DefaultRPM

HasModel(c, m) ==
    LET registered == c \in DOMAIN credModels
    IN  \/ <<m, c>> \in served
        \/ /\ \A x \in Names : <<m, x>> \notin served
           /\ \/ registered /\ m \in credModels[c]
              \/ /\ ~registered \/ credModels[c] = {}
                 /\ ~registered \/ \A n \in Model : limits[n] = <<>>

Entries(c) == {i \in DOMAIN creds : creds[i].name = c}

\* A credential made of the key in a row of the model table has no scopes.
OwnScope(entry) ==
    CASE entry.src = "yaml" -> YamlScope[entry.name]
      [] entry.src = "db" /\ entry.name \in DBNames -> DBScope[entry.name]
      [] OTHER -> Anyone
ScopeOf(entry) == And(OwnScope(entry), entry.scope)
VisibleTo(entry, who) == AllowsExpression(who, ScopeOf(entry))
VisibleNames(who) == {creds[i].name : i \in {j \in DOMAIN creds : VisibleTo(creds[j], who)}}

ModelScopeAllows(m, c, who) ==
    c \in Proxies /\ m \in DOMAIN learned[c].scopes => AllowsExpression(who, learned[c].scopes[m])

ModelVisible(m, names, who) ==
    /\ names # {}
    /\ \/ \A c \in Names : <<m, c>> \notin served
       \/ \E c \in names : <<m, c>> \in served /\ ModelScopeAllows(m, c, who)

LimitedModels == {m \in Model : limits[m] # <<>>}

CurrentModels(names) ==
    LimitedModels \cup allModels
        \cup UNION {credModels[c] : c \in names \cap DOMAIN credModels}

-----------------------------------------------------------------------------
(* Init: New, LoadModelsFromConfig and SetCredentials on config.yaml *)

YamlEntry(c) == [name |-> c, src |-> "yaml", scope |-> Anyone, known |-> FALSE]
DBEntry(c) == [name |-> c, src |-> "db", scope |-> Anyone, known |-> FALSE]
YamlEntries == [i \in 1..Cardinality(Yaml) |-> YamlEntry(SetToSeq(Yaml)[i])]
EntriesOf(s) == [i \in DOMAIN s |-> DBEntry(s[i])]

\* The credentials that the limits give a model to: all is every credential
\* there is, targets those that a global row is about.
Mapped(lims, targets, all) ==
    {x \in Model \X all :
        \E i \in DOMAIN lims[x[1]] :
            LET cred == lims[x[1]][i].cred
            IN  IF cred = Global THEN x[2] \in targets ELSE x[2] = cred}

NoSync == [pc |-> "idle", creds |-> {}, rows |-> {}, left |-> {}]
NoScoped == [who \in Callers |-> NoList]
Idle == [pc |-> "idle", snap |-> ClosedSnapshot, ok |-> FALSE, scope |-> Anyone, known |-> FALSE,
         gone |-> {}, new |-> {}, model |-> NoList, rpm |-> DefaultRPM]

Init ==
    /\ db \in [up : {TRUE}, creds : {DBNames}, rows : {DBRows}]
    /\ health \in [Proxies -> Healths]
    /\ changes = 0
    /\ phase = "list"
    /\ balancer = [c \in Yaml |-> [src |-> "yaml", scope |-> Anyone, known |-> FALSE]]
    /\ creds = YamlEntries
    /\ limits = YamlLimits
    /\ served = Mapped(YamlLimits, Yaml, Yaml)
    /\ credModels = [c \in {x \in Yaml : x \notin Proxies \/ \E m \in Model : <<m, x>> \in served}
                        |-> {m \in Model : <<m, c>> \in served}]
    /\ learned = [p \in Proxies |-> [scopes |-> <<>>, weights |-> <<>>]]
    /\ remote = [p \in Proxies |-> NoList]
    /\ allModels = {} /\ listed = NoList /\ scoped = NoScoped
    /\ pairs = <<>>
    /\ sync = NoSync
    /\ fetch = [t \in Fetchers |-> Idle]
    /\ lister = [pc |-> "idle", who |-> NoList, left |-> <<>>]

-----------------------------------------------------------------------------
(* GetRemoteModelsWithError: one call per proxy of the updater or the reader *)

Replacement(p, models) == models \cup {m \in Model : IsConfigured(limits, m, p)}

\* The call belongs to the YAML entry of the name; another entry of the same
\* name, with another key or address, makes the snapshot that of a stranger.
Accepts(p) == Entries(p) # {} /\ \A i \in Entries(p) : creds[i].src = "yaml"

ApplySnapshot(p, s) ==
    /\ creds' = [i \in DOMAIN creds |->
                    IF i = Min(Entries(p)) THEN [creds[i] EXCEPT !.scope = s.scope, !.known = s.known]
                    ELSE creds[i]]
    /\ learned' = [learned EXCEPT ![p] = [scopes |-> s.scopes, weights |-> s.weights]]
    /\ credModels' = Over([x \in {p} |-> Replacement(p, s.models)], credModels)
    /\ served' = {x \in served : x[2] # p} \cup (Replacement(p, s.models) \X {p})
    /\ allModels' = {} /\ listed' = NoList /\ scoped' = NoScoped
    /\ UNCHANGED limits

\* The learned scope decides whether the list without scopes may be believed.
AllowsLegacy(p) ==
    LET entry == creds[Min(Entries(p))]
    IN  ~entry.known \/ \E a \in NormalizeExpression(entry.scope) : a = NoConstraint

Answer(t, p) ==
    LET h == health[p]
        step(pc, snap) == fetch' = [fetch EXCEPT ![t].pc = pc, ![t].snap = snap]
    IN  CASE remote[p] # NoList -> step("apply", remote[p])
          [] remote[p] = NoList /\ h.kind = "up" -> step("store", Snapshot(p, h))
          [] remote[p] = NoList /\ h.kind = "legacy" /\ AllowsLegacy(p) -> step("store", LegacySnapshot(h))
          [] OTHER -> step("failed", ClosedSnapshot)

Fetch(t, p) ==
    /\ fetch[t].pc = "start"
    /\ Answer(t, p)
    /\ UNCHANGED <<world, phase, balancer, tables, caches, pairs, sync, lister>>

\* Only the updater looks at the answer of its call; the reader reads the tables.
Finish(t, ok) ==
    fetch' = [fetch EXCEPT ![t].pc = "done", ![t].ok = ok,
                           ![t].snap = IF ok /\ t[1] = "updater" THEN @ ELSE ClosedSnapshot]

Apply(t, p) ==
    /\ fetch[t].pc \in {"apply", "store"}
    /\ IF Accepts(p)
       THEN /\ Finish(t, TRUE)
            /\ ApplySnapshot(p, fetch[t].snap)
            /\ remote' = IF fetch[t].pc = "store" THEN [remote EXCEPT ![p] = fetch[t].snap] ELSE remote
       ELSE Finish(t, FALSE) /\ UNCHANGED <<tables, caches>>
    /\ UNCHANGED <<world, phase, balancer, pairs, sync, lister>>

\* failClosedUnknownRemoteScope reads, and then closes in a section of its own.
LookUnknown(t, p) ==
    /\ fetch[t].pc = "failed"
    /\ IF creds[Min(Entries(p))].known THEN Finish(t, FALSE)
       ELSE fetch' = [fetch EXCEPT ![t].pc = "close"]
    /\ UNCHANGED <<world, phase, balancer, tables, caches, pairs, sync, lister>>

FailClosed(t, p) ==
    /\ fetch[t].pc = "close"
    /\ IF Accepts(p) THEN ApplySnapshot(p, ClosedSnapshot) ELSE UNCHANGED <<tables, allModels, listed, scoped>>
    /\ Finish(t, FALSE)
    /\ UNCHANGED <<world, phase, balancer, remote, pairs, sync, lister>>

-----------------------------------------------------------------------------
(* UpdateAllProxyCredentials *)

UpdaterIdle == \A p \in Proxies : fetch[Updater(p)].pc = "idle"

UpdaterTick ==
    /\ phase \in {"update", "serving"} /\ UpdaterIdle
    /\ fetch' = [t \in Fetchers |-> IF t[1] = "updater" THEN [Idle EXCEPT !.pc = "start"] ELSE fetch[t]]
    /\ phase' = IF phase = "update" THEN "updating" ELSE phase
    /\ UNCHANGED <<world, balancer, tables, caches, pairs, sync, lister>>

\* CopyProviderScopeMetadata, in the goroutine of the call
CopyScope(p) ==
    LET t == Updater(p)
        entry == creds[Min(Entries(p))]
    IN  /\ fetch[t].pc = "done"
        /\ fetch' = [fetch EXCEPT ![t].pc = "copied", ![t].scope = entry.scope, ![t].known = entry.known]
        /\ UNCHANGED <<world, phase, balancer, tables, caches, pairs, sync, lister>>

\* The loop over the results handles one after the other: the limits of one are
\* done, under updateMutex, before the scopes of the next are copied.
LimitSteps == {"limits", "pairs", "remove", "add"}
NextResult == \A q \in Proxies : fetch[Updater(q)].pc \notin LimitSteps

\* UpdateProviderScopes
UpdateProviderScopes_Once(p) == \* Mutation: scopes that are known already are not copied again.
    LET t == Updater(p) IN
    /\ fetch[t].pc = "copied" /\ NextResult
    /\ balancer' = [balancer EXCEPT ![p].scope = IF balancer[p].known THEN @ ELSE fetch[t].scope,
                                    ![p].known = fetch[t].known]
    /\ fetch' = [fetch EXCEPT ![t] = IF fetch[t].ok THEN [fetch[t] EXCEPT !.pc = "limits"] ELSE Idle]
    /\ UNCHANGED <<world, phase, tables, caches, pairs, sync, lister>>
UpdateProviderScopes(p) ==
    LET t == Updater(p) IN
    /\ fetch[t].pc = "copied" /\ NextResult
    /\ balancer' = [balancer EXCEPT ![p].scope = fetch[t].scope, ![p].known = fetch[t].known]
    /\ fetch' = [fetch EXCEPT ![t] = IF fetch[t].ok THEN [fetch[t] EXCEPT !.pc = "limits"] ELSE Idle]
    /\ UNCHANGED <<world, phase, tables, caches, pairs, sync, lister>>

\* The updater's step of one result: every call takes the lock of the limiter or
\* of the manager for itself, and the syncer and readers come in between.
LimitStep(p, x) ==
    /\ fetch' = [fetch EXCEPT ![Updater(p)] = x]
    /\ UNCHANGED <<world, phase, balancer, tables, caches, sync, lister>>

GetAllModelPairs(p) ==
    LET x == fetch[Updater(p)]
        limited == {m \in Model : <<p, m>> \in DOMAIN pairs}
    IN  /\ x.pc = "limits" /\ UNCHANGED pairs
        /\ LimitStep(p, [x EXCEPT !.pc = "pairs", !.gone = limited \ x.snap.models, !.new = x.snap.models])

\* A pair of the snapshot whose model the answer does not name goes, unless the
\* manager says that the credential has the model.
CheckPair(p) ==
    LET x == fetch[Updater(p)] IN
    /\ x.pc = "pairs" /\ UNCHANGED pairs
    /\ \E m \in x.gone :
          LimitStep(p, IF HasModel(p, m) THEN [x EXCEPT !.gone = @ \ {m}]
                       ELSE [x EXCEPT !.pc = "remove", !.model = m, !.gone = @ \ {m}])

RemoveModel(p) ==
    LET x == fetch[Updater(p)] IN
    /\ x.pc = "remove"
    /\ pairs' = [y \in DOMAIN pairs \ {<<p, x.model>>} |-> pairs[y]]
    /\ LimitStep(p, [x EXCEPT !.pc = "pairs", !.model = NoList])

\* The models of the answer, when all pairs have been looked at; each one's
\* requests are read before AddModel sets them.  (Its tokens, which another call
\* reads, are not part of this module.)
GetModelRPM(p) ==
    LET x == fetch[Updater(p)] IN
    /\ x.pc = "pairs" /\ x.gone = {} /\ UNCHANGED pairs
    /\ \E m \in x.new :
          LimitStep(p, [x EXCEPT !.pc = "add", !.model = m, !.rpm = RPMFor(limits, m, p), !.new = @ \ {m}])

AddModel(p) ==
    LET x == fetch[Updater(p)] IN
    /\ x.pc = "add"
    /\ pairs' = Over([y \in {<<p, x.model>>} |-> x.rpm], pairs)
    /\ LimitStep(p, [x EXCEPT !.pc = "pairs", !.model = NoList, !.rpm = DefaultRPM])

LimitsDone(p) ==
    /\ fetch[Updater(p)].pc = "pairs" /\ fetch[Updater(p)].gone = {} /\ fetch[Updater(p)].new = {}
    /\ UNCHANGED pairs /\ LimitStep(p, Idle)

UpdateLimits(p) ==
    GetAllModelPairs(p) \/ CheckPair(p) \/ RemoveModel(p) \/ GetModelRPM(p) \/ AddModel(p) \/ LimitsDone(p)

\* The first update is awaited before the server listens.
Serve ==
    /\ phase = "updating" /\ UpdaterIdle
    /\ phase' = "serving"
    /\ UNCHANGED <<world, balancer, tables, caches, pairs, sync, fetch, lister>>

-----------------------------------------------------------------------------
(* syncDBModelTable *)

SyncTo(pc) == sync' = [sync EXCEPT !.pc = pc]
SyncReset == sync' = NoSync

\* The first cycle is part of the start; without the database the start goes on.
FetchCredentials ==
    /\ sync.pc = "idle" /\ phase \in {"sync", "serving"}
    /\ IF db.up THEN sync' = [sync EXCEPT !.pc = "models", !.creds = db.creds] /\ UNCHANGED phase
       ELSE phase = "sync" /\ phase' = "update" /\ UNCHANGED sync
    /\ UNCHANGED <<world, balancer, tables, caches, pairs, fetch, lister>>

\* The limits that the rows set: a row without a credential is about those of
\* config.yaml, or, if there are none, about those of the database.
Upserts(creds0, rows0) ==
    LET targets(r) == IF r.cred # Global THEN {r.cred}
                      ELSE (IF Yaml # {} THEN Yaml ELSE creds0) \ Synthetic
    IN  UNION {{[cred |-> c, model |-> r.model, rpm |-> r.rpm] : c \in targets(r)} : r \in rows0}

\* A second query.  A row that names a credential the first one did not return
\* is skipped; a row with its own key brings a credential of its own.
FetchModels ==
    LET rows == {r \in db.rows : r.ref \in {Global, InlineRef} \cup sync.creds}
        cred(r) == IF r.ref = InlineRef THEN Inline[r.model] ELSE r.ref
        creds0 == sync.creds \cup {Inline[r.model] : r \in {x \in rows : x.ref = InlineRef}}
        rows0 == {[model |-> r.model, cred |-> cred(r), rpm |-> r.rpm] : r \in rows}
    IN  /\ sync.pc = "models"
        /\ IF db.up
           THEN /\ sync' = [pc |-> "balancer", creds |-> creds0, rows |-> rows0, left |-> Upserts(creds0, rows0)]
                /\ UNCHANGED phase
           ELSE SyncReset /\ phase' = IF phase = "sync" THEN "update" ELSE phase
        /\ UNCHANGED <<world, balancer, tables, caches, pairs, fetch, lister>>

UpdateDBCredentials_FreshStatic == \* Mutation: what was learnt about the proxies is not carried over.
    /\ sync.pc = "balancer"
    /\ SyncTo("tables")
    /\ balancer' = [c \in Yaml \cup sync.creds |->
                        [src |-> IF c \in Yaml THEN "yaml" ELSE "db", scope |-> Anyone, known |-> FALSE]]
    /\ UNCHANGED <<world, phase, tables, caches, pairs, fetch, lister>>
\* With no credential at all the old ones stay.  (The limits of the credentials
\* themselves, which it sets too, are not part of this module.)
UpdateDBCredentials ==
    /\ sync.pc = "balancer"
    /\ SyncTo("tables")
    /\ IF Yaml \cup sync.creds = {} THEN UNCHANGED balancer
       ELSE balancer' = [c \in Yaml \cup sync.creds |->
                            IF c \in Yaml THEN balancer[c]
                            ELSE [src |-> "db", scope |-> Anyone, known |-> FALSE]]
    /\ UNCHANGED <<world, phase, tables, caches, pairs, fetch, lister>>

RowsFor(m) == SetToSeq({[cred |-> r.cred, rpm |-> r.rpm] : r \in {x \in sync.rows : x.model = m}})

UpdateDBModels_DropProxies == \* Mutation: the proxies' models are rebuilt from the limits alone, the lists kept.
    LET all == Yaml \cup sync.creds
        newLimits == [m \in Model |-> YamlLimits[m] \o RowsFor(m)]
        mapped == Mapped(newLimits, IF Yaml # {} THEN Yaml ELSE sync.creds \ Synthetic, all)
        modelsOf(c) == {m \in Model : <<m, c>> \in mapped}
        kept == {p \in Proxies \cap DOMAIN credModels : credModels[p] # {}}
        registered == {c \in all : c \notin Proxies \/ modelsOf(c) # {}} \cup kept
    IN  /\ sync.pc = "tables"
        /\ SyncTo("credentials")
        /\ limits' = newLimits
        /\ credModels' = [c \in registered |-> IF c \in kept THEN credModels[c] ELSE modelsOf(c)]
        /\ served' = mapped
        /\ allModels' = {} /\ listed' = NoList /\ scoped' = NoScoped
        /\ UNCHANGED <<world, phase, balancer, creds, learned, remote, pairs, fetch, lister>>
UpdateDBModels ==
    LET all == Yaml \cup sync.creds
        newLimits == [m \in Model |-> YamlLimits[m] \o RowsFor(m)]
        mapped == Mapped(newLimits, IF Yaml # {} THEN Yaml ELSE sync.creds \ Synthetic, all)
        modelsOf(c) == {m \in Model : <<m, c>> \in mapped}
        kept == {p \in Proxies \cap DOMAIN credModels : credModels[p] # {}}
        registered == {c \in all : c \notin Proxies \/ modelsOf(c) # {}} \cup kept
    IN  /\ sync.pc = "tables"
        /\ SyncTo("credentials")
        /\ limits' = newLimits
        /\ credModels' = [c \in registered |-> IF c \in kept THEN credModels[c] ELSE modelsOf(c)]
        /\ served' = mapped \cup {x \in Model \X kept : x[1] \in credModels[x[2]]}
        /\ allModels' = {} /\ listed' = NoList /\ scoped' = NoScoped
        /\ UNCHANGED <<world, phase, balancer, creds, learned, remote, pairs, fetch, lister>>

\* What was learnt is carried over to the entry of the same name and identity;
\* of two entries of one name the later one is compared.
SetCredentials ==
    LET old(c) == creds[Max(Entries(c))]
        same(e) == Entries(e.name) # {} /\ old(e.name).src = e.src
        carried(e) == IF same(e) THEN old(e.name)
                      ELSE IF Entries(e.name) # {} /\ e.src = "yaml" /\ e.name \in Proxies
                           THEN [e EXCEPT !.scope = FalseExpression]
                           ELSE e
    IN  /\ sync.pc = "credentials"
        /\ SyncTo("limits")
        /\ \E next \in {YamlEntries \o EntriesOf(SetToSeq(sync.creds))} :
              /\ creds' = [i \in DOMAIN next |-> carried(next[i])]
              /\ remote' = [p \in Proxies |->
                              IF \E i \in DOMAIN next : next[i].name = p /\ ~same(next[i]) THEN NoList ELSE remote[p]]
        /\ allModels' = {} /\ listed' = NoList /\ scoped' = NoScoped
        /\ UNCHANGED <<world, phase, balancer, limits, credModels, served, learned, pairs, fetch, lister>>

\* One call of AddModelWithTPM after the other; of two for one pair the later stays.
SyncLimits ==
    /\ sync.pc = "limits"
    /\ IF sync.left = {}
       THEN SyncReset /\ phase' = (IF phase = "sync" THEN "update" ELSE phase) /\ UNCHANGED pairs
       ELSE \E u \in sync.left :
              /\ pairs' = Over([x \in {<<u.cred, u.model>>} |-> u.rpm], pairs)
              /\ sync' = [sync EXCEPT !.left = @ \ {u}]
              /\ UNCHANGED phase
    /\ UNCHANGED <<world, balancer, tables, caches, fetch, lister>>

-----------------------------------------------------------------------------
(* GetAllModels (who = NoList, at the start only) and GetAllModelsScoped *)

Cached(who) ==
    IF who = NoList THEN listed # NoList
    ELSE scoped[who] # NoList /\ scoped[who].names = VisibleNames(who)

\* A cached list may be older than its three seconds, so a call may always go on.
ListStart(who) ==
    LET asked == {i \in DOMAIN creds : /\ creds[i].src = "yaml" /\ creds[i].name \in Proxies
                                       /\ who = NoList \/ VisibleTo(creds[i], who)}
    IN  /\ lister.pc = "idle" /\ phase = (IF who = NoList THEN "list" ELSE "serving")
        /\ lister' = [pc |-> "reading", who |-> who, left |-> SetToSeq({creds[i].name : i \in asked})]
        /\ UNCHANGED <<world, phase, balancer, tables, caches, pairs, sync, fetch>>

ListAsk ==
    /\ lister.pc = "reading" /\ lister.left # <<>>
    /\ fetch[Reader(Head(lister.left))].pc = "idle"
    /\ fetch' = [fetch EXCEPT ![Reader(Head(lister.left))] = [Idle EXCEPT !.pc = "start"]]
    /\ UNCHANGED <<world, phase, balancer, tables, caches, pairs, sync, lister>>

ListCollect ==
    LET t == Reader(Head(lister.left)) IN
    /\ lister.pc = "reading" /\ lister.left # <<>> /\ fetch[t].pc = "done"
    /\ lister' = [lister EXCEPT !.left = Tail(@)]
    /\ fetch' = [fetch EXCEPT ![t] = Idle]
    /\ UNCHANGED <<world, phase, balancer, tables, caches, pairs, sync>>

\* Under the lock the answer is made again from the tables as they are now.
ListFinish ==
    LET who == lister.who
        all == CurrentModels({creds[i].name : i \in DOMAIN creds})
    IN  /\ lister.pc = "reading" /\ lister.left = <<>>
        /\ lister' = [pc |-> "idle", who |-> NoList, left |-> <<>>]
        /\ IF who = NoList
           THEN listed' = all /\ allModels' = all /\ scoped' = NoScoped
           ELSE /\ \E seen \in {VisibleNames(who)} :
                      scoped' = [scoped EXCEPT ![who] =
                          [names |-> seen, models |-> {m \in CurrentModels(seen) : ModelVisible(m, seen, who)}]]
                /\ UNCHANGED <<listed, allModels>>
        /\ pairs' = IF phase # "list" THEN pairs
                    ELSE [x \in {y \in Yaml \X all : HasModel(y[1], y[2])} |-> RPMFor(limits, x[2], x[1])]
        /\ phase' = IF phase = "list" THEN "sync" ELSE phase
        /\ UNCHANGED <<world, balancer, tables, remote, sync, fetch>>

-----------------------------------------------------------------------------
(* The database, the proxies and the clock *)

DBChange ==
    /\ changes < MaxChanges /\ changes' = changes + 1
    /\ \/ db' = [db EXCEPT !.up = ~@]
       \/ \E c \in DBNames : db' = [db EXCEPT !.creds = SymDiff(@, {c})]
       \/ \E r \in DBRows : db' = [db EXCEPT !.rows = SymDiff(@, {r})]
    /\ UNCHANGED <<health, phase, balancer, tables, caches, pairs, sync, fetch, lister>>

HealthChange(p) ==
    /\ changes < MaxChanges /\ changes' = changes + 1
    /\ \E h \in Healths : h # health[p] /\ health' = [health EXCEPT ![p] = h]
    /\ UNCHANGED <<db, phase, balancer, tables, caches, pairs, sync, fetch, lister>>

\* five minutes
ExpireRemote(p) ==
    /\ remote[p] # NoList
    /\ remote' = [remote EXCEPT ![p] = NoList]
    /\ UNCHANGED <<world, phase, balancer, tables, allModels, listed, scoped, pairs, sync, fetch, lister>>

FetchStep(t, p) == Fetch(t, p) \/ Apply(t, p) \/ LookUnknown(t, p) \/ FailClosed(t, p)
UpdaterStep(p) == FetchStep(Updater(p), p) \/ CopyScope(p) \/ UpdateProviderScopes(p) \/ UpdateLimits(p)
ModelUpdater == UpdaterTick \/ Serve \/ \E p \in Proxies : UpdaterStep(p)
Syncer == FetchCredentials \/ FetchModels \/ UpdateDBCredentials \/ UpdateDBModels \/ SetCredentials \/ SyncLimits
Lister == ListAsk \/ ListCollect \/ ListFinish \/ \E p \in Proxies : FetchStep(Reader(p), p)

Next ==
    \/ ModelUpdater
    \/ Syncer
    \/ Lister
    \/ \E who \in Callers \cup {NoList} : ListStart(who)
    \/ DBChange
    \/ \E p \in Proxies : HealthChange(p) \/ ExpireRemote(p)

\* The tickers fire, the loops do their work, an HTTP call ends (it has a
\* timeout), the cached snapshots expire.  Nothing makes a reader come, except
\* the one that is part of the start.
Fairness ==
    /\ WF_vars(ModelUpdater) /\ WF_vars(Syncer) /\ WF_vars(Lister)
    /\ WF_vars(ListStart(NoList))
    /\ \A p \in Proxies : WF_vars(ExpireRemote(p))

Spec == Init /\ [][Next]_vars /\ Fairness

-----------------------------------------------------------------------------
(* Properties *)

IsNormalized(e) == e \subseteq Alternative /\ NormalizeExpression(e) = e

\* Every variable has its type: the scopes that are kept are normalised expressions, the tables speak of
\* credentials and models that have a name, and each process is at one of its steps.
TypeOK ==
    /\ \A c \in DOMAIN balancer : IsNormalized(balancer[c].scope) /\ balancer[c].known \in BOOLEAN
    /\ Yaml \subseteq DOMAIN balancer /\ DOMAIN balancer \subseteq Names
    /\ \A i \in DOMAIN creds : creds[i].name \in Names /\ IsNormalized(creds[i].scope)
    /\ \A p \in Proxies, m \in Model : m \in DOMAIN learned[p].scopes => IsNormalized(learned[p].scopes[m])
    /\ limits \in [Model -> Seq(Limits)]
    /\ DOMAIN credModels \subseteq Names /\ \A c \in DOMAIN credModels : credModels[c] \subseteq Model
    /\ served \subseteq Model \X Names
    /\ DOMAIN pairs \subseteq Names \X Model
    /\ phase \in {"list", "sync", "update", "updating", "serving"}
    /\ sync.pc \in {"idle", "models", "balancer", "tables", "credentials", "limits"}
    /\ \A t \in Fetchers : fetch[t].pc \in LimitSteps \cup {"idle", "start", "apply", "store", "failed",
                                                           "close", "done", "copied"}

\* The two directions of the manager's map never contradict each other, however
\* the syncer, the updater and a reader interleave: a model that a credential
\* lists is found from the model too, the maps of a credential that is not a
\* proxy are each other's inverse, and what was learnt about a proxy's models
\* is about models it lists (addModelToMaps, replaceModelsForCredentialLocked
\* and the rebuild in UpdateDBModels, which keeps one list and merges the other).
MapsAgree ==
    /\ \A c \in DOMAIN credModels : \A m \in credModels[c] : <<m, c>> \in served
    /\ \A x \in served : x[2] \notin Proxies => x[2] \in DOMAIN credModels /\ x[1] \in credModels[x[2]]
    /\ \A p \in Proxies :
        LET models == DOMAIN learned[p].scopes \cup DOMAIN learned[p].weights
        IN  models # {} => p \in DOMAIN credModels /\ models \subseteq credModels[p]

\* A cached list of models shows nothing that has gone: every model of the full
\* list is configured or served now, and every model of a caller's list is
\* visible to that caller now, although the answer was collected over several
\* calls to other routers (GetAllModels, GetAllModelsScoped and the invalidations).
ListsAreCurrent ==
    /\ allModels \cup (IF listed = NoList THEN {} ELSE listed)
            \subseteq LimitedModels \cup UNION {credModels[c] : c \in DOMAIN credModels}
    /\ \A who \in Callers :
        Cached(who) =>
            /\ scoped[who].models \subseteq CurrentModels(VisibleNames(who))
            /\ \A m \in scoped[who].models : ModelVisible(m, VisibleNames(who), who)

\* While requests are served the balancer shows a proxy to nobody before its
\* scopes are known, and then only to callers whom both the proxy's own scopes
\* and those of config.yaml allow; a reload of the database never undoes that.
\* The lists that are published for older routers admit nobody else either
\* (UpdateDBCredentials, failClosedUnknownRemoteScope, And, LegacyProjection).
ScopesGuard ==
    phase = "serving" =>
    \A p \in Proxies :
        /\ balancer[p].known \/ balancer[p].scope = FalseExpression
        /\ \A who \in Callers :
            /\ AllowsExpression(who, And(YamlScope[p], balancer[p].scope))
                    <=> AllowsExpression(who, YamlScope[p]) /\ AllowsExpression(who, balancer[p].scope)
            /\ \A order \in SetToSeqs(NormalizeExpression(And(YamlScope[p], balancer[p].scope))) :
                LET legacy == LegacyProjection(order)
                IN  Allows(who, legacy.scopes, legacy.denied)
                        => AllowsExpression(who, And(YamlScope[p], balancer[p].scope))

\* A model that config.yaml gives to a credential of config.yaml is never left
\* without a limit while requests are served: the updater removes the limits of
\* models a proxy no longer has, but not of those the configuration gives it.
PairsCovered ==
    phase = "serving" =>
    \A c \in Yaml, m \in Model : IsConfigured(YamlLimits, m, c) => <<c, m>> \in DOMAIN pairs

\* The tables agree with each other and the lists with the tables while the
\* syncer, the updater and readers interleave (manager.go, updater.go).
RegistryAgrees == MapsAgree /\ ListsAreCurrent /\ PairsCovered

\* What the tables should say of the world as it is now.
Converged ==
    LET rows == {r \in db.rows : r.ref \in {Global, InlineRef} \cup db.creds}
        cred(r) == IF r.ref = InlineRef THEN Inline[r.model] ELSE r.ref
        named == Yaml \cup db.creds \cup {Inline[r.model] : r \in {x \in rows : x.ref = InlineRef}}
    IN  /\ phase = "serving"
        /\ db.up =>
            /\ named = {} \/ DOMAIN balancer = named
            /\ \A r \in rows : r.ref # Global => <<r.model, cred(r)>> \in served
                                                  /\ <<cred(r), r.model>> \in DOMAIN pairs
            /\ \A c \in named \ Proxies : credModels[c] = {m \in Model : IsConfigured(limits, m, c)
                                                                          /\ <<m, c>> \in served}
        /\ \A p \in Proxies : health[p].kind = "up" =>
            /\ credModels[p] = ModelsOf(p, health[p]) \cup {m \in Model : IsConfigured(limits, m, p)}
            /\ {m \in Model : <<m, p>> \in served} = credModels[p]
            /\ balancer[p].known /\ balancer[p].scope = Snapshot(p, health[p]).scope
            /\ {p} \X ModelsOf(p, health[p]) \subseteq DOMAIN pairs

\* When the database and the proxies have stopped changing, the balancer, the
\* manager and the limiter come to agree with them, and stay so: no interleaving
\* of the three processes leaves an old snapshot behind for good.
Converges == <>[]Converged
=============================================================================
