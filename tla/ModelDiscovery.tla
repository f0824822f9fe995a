---------------------------- MODULE ModelDiscovery ----------------------------
(* How a model gets into the configuration from the panel: the listing that the *)
(* provider answers with, page by page (platform/provider-models.ts), the       *)
(* catalogue of models.dev that requests share (models-dev.ts), the draft made  *)
(* of both (model-metadata.ts), what the operator selects and confirms of the   *)
(* drafts (apps/admin-next), and what is appended to the provider               *)
(* (ingress/admin/providers-admin.ts).  One provider, whose connection may be   *)
(* moved while all this goes on; several discoveries share the catalogue.       *)
EXTENDS Integers, Sequences, FiniteSets, SequencesExt

CONSTANTS Discoveries,   \* requests of the panel that may be in flight
          ModelNames,    \* model ids
          NormalOf,      \* [ModelNames -> what normalizeModelId leaves of them]
          Urls,          \* base URLs
          PlanOf,        \* [Urls -> how models are listed there, see planModelsEndpoint]
          Providers,     \* how many providers the catalogue has, in the order of their ids
          HintOf,        \* [Urls -> the catalogue provider of that host, or 0]
          Offers,        \* pages a provider may answer with
          Catalogues,    \* catalogues models.dev may answer with
          Sizes,         \* windows and limits that an operator may type
          Formats,       \* what an endpoint speaks: "openai", "anthropic", ...
          MaxPages, MaxModels, MaxBytes,  \* limits of one listing
          MaxCandidates, \* MAX_FUZZY_CANDIDATES
          CatalogueTicks,\* CATALOG_TTL_MS
          SecretBound, ClockBound, RevisionBound \* bounds of the exploration

ASSUME DiscoveryAssumption ==
    /\ {MaxPages, MaxModels, MaxBytes, MaxCandidates, CatalogueTicks} \subseteq Nat \ {0}
    /\ \A u \in Urls : PlanOf[u].format \in Formats /\ HintOf[u] \in 0..Providers
    /\ Sizes \subseteq Nat \ {0} /\ Providers \in Nat
    /\ \A page \in Offers : /\ DOMAIN page = 1..Len(page) /\ Len(page) \in Nat
                            /\ \A i \in DOMAIN page : page[i].id \in ModelNames

VARIABLES connection,  \* the provider's connection in the file, [url, key, header]
          running,     \* the one the process works with
          revision,    \* of the file
          models,      \* the models of the provider in the file, with the draft behind each
          discoveries, \* the requests
          catalogue,   \* cachedCatalog, with the time it was read
          pending,     \* pendingCatalog
          picker,      \* the dialog of the panel
          clock,
          chosen       \* history: <<url, secret>> that an operator entered or wrote together

discoveryVars ==
    <<connection, running, revision, models, discoveries, catalogue, pending, picker, clock, chosen>>

-------------------------------------------------------------------------------
(* Metadata: every field is a number, Missing when nobody knows it; reasoning   *)
(* is No or Yes.                                                                *)

Missing == 0
No == 1
Yes == 2
DraftFields ==
    {"name", "reasoning", "thinking_levels", "input", "context_window", "max_tokens", "cost"}
OptionalFields == {"name", "thinking_levels"}
AllMissing == [f \in DraftFields |-> Missing]

\* readExtension: what a listing of each format says of its models itself
ReadExtension(format, entry) ==
    LET silent == CASE format \in {"openrouter", "vercel"} -> {"thinking_levels"}
                    [] format = "gemini" -> {"thinking_levels", "input", "cost"}
                    [] OTHER -> DraftFields
    IN [f \in DraftFields |-> IF f \in silent THEN Missing ELSE entry[f]]

\* findModel; a catalogue is the providers by id, each the sequence of its models
Has(provider, id) == \E i \in DOMAIN provider : provider[i].id = id
FindModel(provider, id) == provider[CHOOSE i \in DOMAIN provider : provider[i].id = id].entry

\* matchModelsDev: what is found under a normalized id, provider after provider
Candidates(c, id) ==
    LET all == FlattenSeq([p \in DOMAIN c |->
                  LET alike == SelectSeq(c[p], LAMBDA m : NormalOf[m.id] = NormalOf[id])
                  IN [i \in DOMAIN alike |-> [provider |-> p, entry |-> alike[i].entry]]])
    IN SubSeq(all, 1, IF Len(all) < MaxCandidates THEN Len(all) ELSE MaxCandidates)

Preferred(candidates, hint) ==
    LET hinted == {i \in DOMAIN candidates : candidates[i].provider = hint}
    IN candidates[IF hinted = {} THEN 1 ELSE CHOOSE i \in hinted : \A j \in hinted : i <= j]

\* Faulty: the same id under another provider counts as the model itself.
MatchModelsDevAnywhere(c, hint, id) ==
    LET elsewhere == {p \in DOMAIN c : Has(c[p], id)}
    IN IF elsewhere = {} THEN [confidence |-> "missing", entry |-> AllMissing]
       ELSE [confidence |-> "exact",
             entry |-> FindModel(c[CHOOSE p \in elsewhere : \A r \in elsewhere : p <= r], id)]

\* matchModelsDev
MatchModelsDev(c, hint, id) ==
    LET elsewhere == {p \in 1..Providers : Has(c[p], id)}
        candidates == Candidates(c, id)
    IN IF hint \in elsewhere THEN [confidence |-> "exact", entry |-> FindModel(c[hint], id)]
       ELSE IF elsewhere # {}
       THEN [confidence |-> "cross-provider",
             entry |-> FindModel(c[CHOOSE p \in elsewhere : \A r \in elsewhere : p <= r], id)]
       ELSE IF candidates # <<>>
       THEN [confidence |-> "fuzzy", entry |-> Preferred(candidates, hint).entry]
       ELSE [confidence |-> "missing", entry |-> AllMissing]

\* isGuessedSource
GuessedMatches == {"cross-provider", "fuzzy"}

\* resolveModelDraft: the listing first, then the catalogue, never a default
ResolveModelDraft(id, own, match) ==
    LET filled == [f \in DraftFields |-> IF own[f] # Missing THEN own[f] ELSE match.entry[f]]
        values == [filled EXCEPT !["thinking_levels"] =
                       IF filled["reasoning"] = Yes THEN @ ELSE Missing]
        guessed == {f \in DraftFields : own[f] = Missing /\ match.confidence \in GuessedMatches}
        unsure == {f \in DraftFields : IF values[f] = Missing THEN f # "thinking_levels"
                                       ELSE f \in guessed \ {"name"}}
        inconsistent == /\ Missing \notin {values["max_tokens"], values["context_window"]}
                        /\ values["max_tokens"] > values["context_window"]
    IN [id |-> id, values |-> values,
        needs |-> unsure \cup IF inconsistent THEN {"max_tokens"} ELSE {}]

\* resolveModelDrafts
ResolveModelDrafts(listed, url, c) ==
    {ResolveModelDraft(m.id, ReadExtension(PlanOf[url].format, m.entry),
                       MatchModelsDev(c, HintOf[url], m.id)) : m \in listed}

-------------------------------------------------------------------------------
(* The listing *)

\* Each request of Discoveries is made once: it lists "pages", then is "listed",
\* waits for the "catalogue", is "drafted" and is "done" when it has been answered.
NoDiscovery == [stage |-> "idle", url |-> CHOOSE u \in Urls : TRUE, secrets |-> {}, page |-> 0,
                bytes |-> 0, listed |-> {}, asked |-> 0, drafts |-> {}, read |-> 0]
Answered == [NoDiscovery EXCEPT !.stage = "done"]

\* parsePage: which models of a page are listed
ParsePage(format, page) ==
    {i \in DOMAIN page : format \in {"gemini", "vercel"} => page[i].generates}

\* fetchProviderModels: the first model of an id is kept, of the pages before or of
\* this one; kept is what ParsePage leaves.
CollectModels(listed, page, kept) ==
    listed \cup {page[i] : i \in {j \in kept : /\ \A m \in listed : m.id # page[j].id
                                            /\ \A k \in kept : k < j => page[k].id # page[j].id}}

SetDiscovery(d, r) == discoveries' = [discoveries EXCEPT ![d] = r]

\* Secrets are told apart by the order in which they are typed.
NewSecret == 1 + Cardinality({c[2] : c \in chosen})

\* discover: with the running connection, if the file has no other; or with one
\* that the operator enters.
BeginDiscover(d) ==
    /\ discoveries[d].stage = "idle" /\ picker.waits = "nothing" /\ picker.open
    /\ \/ /\ running = connection
          /\ SetDiscovery(d, [NoDiscovery EXCEPT !.stage = "pages", !.url = running.url,
                                  !.secrets = {running.key, running.header} \ {0}])
          /\ UNCHANGED chosen
       \/ /\ NewSecret <= SecretBound
          /\ SetDiscovery(d, [NoDiscovery EXCEPT !.stage = "pages", !.url = connection.url,
                                  !.secrets = {NewSecret}])
          /\ chosen' = chosen \cup {<<connection.url, NewSecret>>}
    /\ picker' = [picker EXCEPT !.waits = d]
    /\ UNCHANGED <<connection, running, revision, models, catalogue, pending, clock>>

\* lookupMetadata: an id typed by hand, of which nothing is listed
BeginLookup(d, id) ==
    /\ discoveries[d].stage = "idle" /\ picker.waits = "nothing" /\ picker.open
    /\ SetDiscovery(d, [NoDiscovery EXCEPT !.stage = "listed", !.url = connection.url,
                            !.listed = {[id |-> id, entry |-> AllMissing, generates |-> TRUE]}])
    /\ picker' = [picker EXCEPT !.waits = d]
    /\ UNCHANGED <<connection, running, revision, models, catalogue, pending, clock, chosen>>

\* The request has failed; the dialog shows why.
FailDiscovery(d) ==
    /\ SetDiscovery(d, Answered)
    /\ picker' = IF picker.waits = d THEN [picker EXCEPT !.waits = "nothing"] ELSE picker

\* fetchProviderModels, one page: the next is asked for while there is one, up to
\* the limit; the budget of bytes is one for all pages.
PageArrives(d, page, size, more) ==
    LET r == discoveries[d]
        plan == PlanOf[r.url]
        listed == CollectModels(r.listed, page, ParsePage(plan.format, page))
        next == [r EXCEPT !.page = @ + 1, !.bytes = @ + size, !.listed = listed,
                          !.stage = IF more /\ plan.paginated /\ r.page + 1 < MaxPages
                                    THEN "pages" ELSE "listed"]
    IN /\ r.stage = "pages"
       /\ IF r.bytes + size > MaxBytes \/ Cardinality(listed) > MaxModels THEN FailDiscovery(d)
          ELSE SetDiscovery(d, next) /\ UNCHANGED picker
       /\ UNCHANGED <<connection, running, revision, models, catalogue, pending, clock, chosen>>

PageFails(d) ==
    /\ discoveries[d].stage = "pages"
    /\ FailDiscovery(d)
    /\ UNCHANGED <<connection, running, revision, models, catalogue, pending, clock, chosen>>

-------------------------------------------------------------------------------
(* The catalogue *)

NoCatalogue == [models |-> [p \in 1..Providers |-> <<>>], read |-> 0, until |-> 0]

\* discover, once its listing and its catalogue are there
Drafted(r, c, read) ==
    [r EXCEPT !.stage = "drafted", !.drafts = ResolveModelDrafts(r.listed, r.url, c), !.read = read]

\* loadModelsDevCatalog: from the cache, with the request that is under way, or
\* with one of its own
AskCatalogue(d) ==
    LET r == [discoveries[d] EXCEPT !.asked = clock] IN
    /\ r.stage = "listed"
    /\ IF catalogue.until > clock
       THEN SetDiscovery(d, Drafted(r, catalogue.models, catalogue.read)) /\ UNCHANGED pending
       ELSE SetDiscovery(d, [r EXCEPT !.stage = "catalogue"]) /\ pending' = TRUE
    /\ UNCHANGED <<connection, running, revision, models, catalogue, picker, clock, chosen>>

\* Faulty: only the request that asked first is answered.
WaitingFirst ==
    LET all == {d \in Discoveries : discoveries[d].stage = "catalogue"}
    IN IF all = {} THEN {} ELSE {CHOOSE d \in all : TRUE}

\* Those that share the pending request
Waiting == {d \in Discoveries : discoveries[d].stage = "catalogue"}

\* fetchModelsDevCatalog has answered
CatalogueArrives(c) ==
    /\ pending /\ pending' = FALSE
    /\ catalogue' = [models |-> c, read |-> clock, until |-> clock + CatalogueTicks]
    /\ discoveries' = [d \in Discoveries |->
           IF d \in Waiting THEN Drafted(discoveries[d], c, clock) ELSE discoveries[d]]
    /\ UNCHANGED <<connection, running, revision, models, picker, clock, chosen>>

\* It has failed: nothing is cached, and the drafts do without the catalogue.
CatalogueFails ==
    /\ pending /\ pending' = FALSE
    /\ discoveries' = [d \in Discoveries |->
           IF d \in Waiting THEN Drafted(discoveries[d], NoCatalogue.models, clock) ELSE discoveries[d]]
    /\ UNCHANGED <<connection, running, revision, models, catalogue, picker, clock, chosen>>

-------------------------------------------------------------------------------
(* The dialog *)

NoDraft == [id |-> CHOOSE m \in ModelNames : TRUE, values |-> AllMissing, needs |-> DraftFields]
Unresolved == AllMissing
Closed == [open |-> FALSE, waits |-> "nothing", seen |-> 0, url |-> CHOOSE u \in Urls : TRUE,
           drafts |-> {}, selected |-> {}, resolved |-> [m \in ModelNames |-> Unresolved],
           editing |-> NoDraft]

OpenPicker ==
    /\ ~picker.open
    /\ picker' = [Closed EXCEPT !.open = TRUE, !.seen = revision]
    /\ UNCHANGED <<connection, running, revision, models, discoveries, catalogue, pending, clock, chosen>>

\* The requests it has made go on.
ClosePicker ==
    /\ picker.open
    /\ picker' = Closed
    /\ UNCHANGED <<connection, running, revision, models, discoveries, catalogue, pending, clock, chosen>>

\* An answer: replaceDrafts forgets what was selected and confirmed, not the draft
\* that is being edited.  The answer to an id typed by hand is edited at once.  A
\* dialog that is gone drops it.
Deliver(d) ==
    LET r == discoveries[d]
        typed == r.secrets = {}
    IN /\ r.stage = "drafted"
       /\ SetDiscovery(d, Answered)
       /\ picker' = IF picker.waits # d THEN picker
                    ELSE [picker EXCEPT !.waits = "nothing", !.url = r.url, !.drafts = r.drafts,
                              !.selected = {}, !.resolved = [m \in ModelNames |-> Unresolved],
                              !.editing = IF typed THEN CHOOSE x \in r.drafts : TRUE ELSE @]
       /\ UNCHANGED <<connection, running, revision, models, catalogue, pending, clock, chosen>>

\* The operator touches the dialog.
Touch(p) ==
    /\ picker.open /\ picker.drafts # {}
    /\ picker' = p
    /\ UNCHANGED <<connection, running, revision, models, discoveries, catalogue, pending, clock, chosen>>

Toggle(id) ==
    /\ picker.editing = NoDraft
    /\ id \in {x.id : x \in picker.drafts}
    /\ Touch([picker EXCEPT !.selected = IF id \in @ THEN @ \ {id} ELSE @ \cup {id}])

Edit(x) ==
    /\ picker.editing = NoDraft /\ x \in picker.drafts
    /\ Touch([picker EXCEPT !.editing = x])

\* validateModelForm
ValidForm(values) ==
    /\ Missing \notin {values[f] : f \in DraftFields \ OptionalFields}
    /\ values["max_tokens"] <= values["context_window"]

\* The form starts from the draft; the operator fills what is empty, changes what
\* it likes of the limits, and submits it: modelFormToConfig, resolve.
ConfirmEdited(window, tokens, reasoning) ==
    LET x == picker.editing
        form == [f \in DraftFields |->
                   CASE f = "context_window" -> window
                     [] f = "max_tokens" -> tokens
                     [] f = "reasoning" -> reasoning
                     [] f = "thinking_levels" -> IF reasoning = Yes THEN x.values[f] ELSE Missing
                     [] f \in {"input", "cost"} /\ x.values[f] = Missing -> Yes
                     [] OTHER -> x.values[f]]
    IN /\ x # NoDraft /\ ValidForm(form)
       /\ Touch([picker EXCEPT !.editing = NoDraft, !.resolved[x.id] = form,
                               !.selected = @ \cup {x.id}])

\* modelFromDraft gives a model.
Convertible(x) == Missing \notin {x.values[f] : f \in DraftFields \ OptionalFields}

Picked == {x \in picker.drafts : x.id \in picker.selected}
Unsettled == {x \in Picked : picker.resolved[x.id] = Unresolved /\ x.needs # {}}

\* confirmSelected
ConfirmSelected ==
    LET taken == {x \in Unsettled : Convertible(x)} IN
    /\ picker.editing = NoDraft /\ taken # {}
    /\ Touch([picker EXCEPT !.resolved = [m \in ModelNames |->
                 IF \E x \in taken : x.id = m THEN (CHOOSE x \in taken : x.id = m).values ELSE @[m]]])

-------------------------------------------------------------------------------
(* What is written; a secret is a number, 0 where there is none.                *)

SecretsAt(c) == {<<c.url, s>> : s \in {c.key, c.header} \ {0}}
Removed == -1

\* assertModelConfig
ModelIsAllowed(values) ==
    /\ values["max_tokens"] <= values["context_window"]
    /\ values["reasoning"] # Yes => values["thinking_levels"] = Missing

Ids == {models[i].id : i \in DOMAIN models}

\* The models that the dialog submits
Built ==
    {[id |-> x.id, url |-> picker.url, confirmed |-> picker.resolved[x.id] # Unresolved,
      values |-> IF picker.resolved[x.id] # Unresolved THEN picker.resolved[x.id] ELSE x.values]
         : x \in Picked}

\* The button, appendModels and writeAndApply: a refusal changes nothing, and the
\* page is read again; so it is when the file is written and then not applied.
SubmitModels ==
    /\ picker.open /\ picker.editing = NoDraft
    /\ Picked # {} /\ Unsettled = {} /\ \A x \in Picked : picker.resolved[x.id] # Unresolved \/ Convertible(x)
    /\ IF \/ picker.seen # revision
          \/ \E m \in Built : m.id \in Ids \/ ~ModelIsAllowed(m.values)
       THEN /\ picker' = [picker EXCEPT !.seen = revision]
            /\ UNCHANGED <<models, revision>>
       ELSE /\ models' = models \o SetToSeq(Built)
            /\ revision' = revision + 1
            /\ picker' \in {Closed, [picker EXCEPT !.seen = revision']}
    /\ UNCHANGED <<connection, running, discoveries, catalogue, pending, clock, chosen>>

\* Faulty: what is not typed again is kept.
KeepsSecrets(url, key, header) == TRUE

\* updateProvider: a new address takes every secret with it.
MayMove(url, key, header) ==
    url # connection.url => key # 0 /\ (connection.header # 0 => header > 0)

\* updateProvider, from a page that shows the file as it is: 0 is a secret that is
\* not sent, and a header may be removed.  What is written is also adopted, unless it cannot be applied.
UpdateProvider(url, key, header) ==
    LET typed == {key, header} \ {0, Removed}
        new == [url |-> url, key |-> IF key # 0 THEN key ELSE connection.key,
                header |-> CASE header = Removed -> 0 [] header = 0 -> connection.header
                             [] OTHER -> header]
    IN /\ MayMove(url, key, header)
       /\ new # connection
       /\ connection' = new
       /\ revision' = revision + 1
       /\ running' \in {running, new}
       /\ chosen' = chosen \cup {<<url, s>> : s \in typed}
       /\ UNCHANGED <<models, discoveries, catalogue, pending, picker, clock>>

\* The operator edits the file itself, and knows which key goes where.
MoveByHand(url) ==
    /\ url # connection.url
    /\ connection' = [connection EXCEPT !.url = url]
    /\ revision' = revision + 1
    /\ chosen' = chosen \cup SecretsAt(connection')
    /\ UNCHANGED <<running, models, discoveries, catalogue, pending, picker, clock>>

\* deleteModel, of one that nothing uses
RemoveModel(i) ==
    /\ models' = RemoveAt(models, i)
    /\ revision' = revision + 1
    /\ UNCHANGED <<connection, running, discoveries, catalogue, pending, picker, clock, chosen>>

AdoptFile ==
    /\ running # connection
    /\ running' = connection
    /\ UNCHANGED <<connection, revision, models, discoveries, catalogue, pending, picker, clock, chosen>>

DiscoveryTick ==
    /\ clock < ClockBound
    /\ clock' = clock + 1
    /\ UNCHANGED <<connection, running, revision, models, discoveries, catalogue, pending, picker, chosen>>

-------------------------------------------------------------------------------

DiscoveryInit ==
    /\ connection \in {[url |-> u, key |-> 1, header |-> h] : u \in Urls, h \in {0, 2}}
    /\ running = connection /\ revision = 1 /\ models = <<>>
    /\ discoveries = [d \in Discoveries |-> NoDiscovery]
    /\ catalogue = NoCatalogue /\ pending = FALSE
    /\ picker = Closed /\ clock = 1
    /\ chosen = SecretsAt(connection)

DiscoveryNext ==
    \/ OpenPicker \/ ClosePicker \/ ConfirmSelected \/ SubmitModels
    \/ \E d \in Discoveries :
          \/ BeginDiscover(d) \/ PageFails(d) \/ AskCatalogue(d) \/ Deliver(d)
          \/ \E id \in ModelNames : BeginLookup(d, id)
          \/ \E page \in Offers, size \in 1..2, more \in BOOLEAN : PageArrives(d, page, size, more)
    \/ CatalogueFails \/ \E c \in Catalogues : CatalogueArrives(c)
    \/ \E id \in ModelNames : Toggle(id)
    \/ \E x \in picker.drafts : Edit(x)
    \/ \E w, t \in Sizes, r \in {No, Yes} : ConfirmEdited(w, t, r)
    \/ /\ revision < RevisionBound /\ NewSecret < SecretBound
       /\ \E u \in Urls, k \in {0, NewSecret} :
             \E h \in {0, Removed, IF k = 0 THEN NewSecret ELSE NewSecret + 1} : UpdateProvider(u, k, h)
    \/ /\ revision < RevisionBound
       /\ \/ \E u \in Urls : MoveByHand(u)
          \/ \E i \in DOMAIN models : RemoveModel(i)
    \/ AdoptFile \/ DiscoveryTick

DiscoverySpec == DiscoveryInit /\ [][DiscoveryNext]_discoveryVars

-------------------------------------------------------------------------------

\* What the provider may have said of a model itself, and the catalogue under the
\* provider's own name
SaidOf(m, f) ==
    {ReadExtension(PlanOf[m.url].format, e.entry)[f]
        : e \in {x \in UNION {ToSet(page) : page \in Offers} : x.id = m.id}}
    \cup {FindModel(c[HintOf[m.url]], m.id)[f]
        : c \in {x \in Catalogues : HintOf[m.url] # 0 /\ Has(x[HintOf[m.url]], m.id)}}

(* A model that nobody has looked at carries only what its own provider or the   *)
(* catalogue says of exactly that model: never a value guessed from a namesake,   *)
(* its display name apart; and no model is in the file twice, without a field     *)
(* that the configuration requires, or with limits that the next start refuses    *)
(* (resolveModelDraft, useDraftSelection, appendModels).                          *)
ModelsAreKnown ==
    /\ IsInjective([i \in DOMAIN models |-> models[i].id])
    /\ \A i \in DOMAIN models :
         LET m == models[i] IN
         /\ ValidForm(m.values) /\ ModelIsAllowed(m.values)
         /\ ~m.confirmed => \A f \in DraftFields \ {"name"} :
                              m.values[f] \in SaidOf(m, f) \cup {Missing}

(* A secret goes only to an address that an operator has written or typed it      *)
(* with, whatever was moved by the panel or by hand since (updateProvider,        *)
(* discoveryRequest).                                                             *)
KeysStayHome ==
    SecretsAt(running) \cup SecretsAt(connection)
        \cup UNION {{discoveries[d].url} \X discoveries[d].secrets : d \in Discoveries} \subseteq chosen

(* Requests that share the download of the catalogue all get it, none waits when  *)
(* no download is under way, and none is answered from one that had expired       *)
(* (loadModelsDevCatalog); and a listing stays within its limits                  *)
(* (fetchProviderModels).                                                         *)
RequestsAreServed ==
    \A d \in Discoveries :
        LET r == discoveries[d] IN
        /\ r.stage = "catalogue" => pending
        /\ r.stage = "drafted" => r.read + CatalogueTicks > r.asked
        /\ r.page <= MaxPages /\ r.bytes <= MaxBytes /\ Cardinality(r.listed) <= MaxModels
        /\ \A m, n \in r.listed : m.id = n.id => m = n

ModelsAreHonest == ModelsAreKnown /\ KeysStayHome /\ RequestsAreServed
===============================================================================
