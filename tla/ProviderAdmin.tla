----------------------------- MODULE ProviderAdmin -----------------------------
(* The providers and models of a configuration, and what the panel does with    *)
(* them: a request is checked against the file and against the running          *)
(* configuration before it waits for the reloader's lock; under the lock it is  *)
(* written if the file has not moved, and the file is then adopted as far as it *)
(* can be (ingress/admin/providers-admin.ts, #providerWrite of server.ts,       *)
(* platform/config-reload.ts, config-diff.ts, providers.ts).  The file and the  *)
(* key jar are written in one step here: ConfigLifecycle has their crashes, and  *)
(* the names that leave the jar once nothing refers to them.                     *)
EXTENDS Integers, FiniteSets

CONSTANTS Aliases,      \* aliases of providers
          Endpoints,    \* base URLs
          HeaderNames,
          Rooms,        \* ids of chats
          ModelEntries, \* [model id -> the entries it may have in the file]
          FirstFiles,   \* the files a process starts with, and their key jar
          FirstJar,     \* ... [name -> credential]
          VisionLimit,  \* vision.max_output_tokens
          Asks,         \* requests of the panel that may be waiting
          AskBound, HandBound, ReloadBound \* bounds of the exploration

ModelIds == DOMAIN ModelEntries

VARIABLES saved,     \* the configuration file
          minted,    \* [name -> the credential once stored under it in the key jar]
          live,      \* the running process: its configuration and its registry
          asks,      \* [Asks -> a request that was checked, or NoAsk]
          applying,  \* the write or reload that holds the lock, or NoApply
          outcome,   \* what became of the last write that was made
          asked, hands, reloads \* counters for the bounds

providerVars == <<saved, minted, live, asks, applying, outcome, asked, hands, reloads>>

-------------------------------------------------------------------------------
(* Configurations.  A provider names its credentials; a credential is what was   *)
(* typed, as a number, and the endpoint it was typed for.  Levels are numbers,   *)
(* the weakest is the smallest.                                                  *)

NoAsk == [what |-> "none"]
NoApply == [stage |-> "none"]
NoOutcome == [ask |-> NoAsk, ok |-> TRUE, undisturbed |-> FALSE, expected |-> FALSE]
Inherit == "inherit"
NoLevel == -1

Entries == UNION {ModelEntries[m] : m \in ModelIds}
Levels == {NoLevel} \cup UNION {e.levels : e \in Entries}
Fields == HeaderNames \cup {"key"}
KeyNames == (0..AskBound) \X Aliases \X Fields

\* What a file may hold: providers with their keys, headers and models, chats, and
\* the models of the agent and of vision.
IsPartial(f, S, T) == DOMAIN f \subseteq S /\ f \in [DOMAIN f -> T]
IsProvider(p) ==
    /\ p = [url |-> p.url, key |-> p.key, headers |-> p.headers, models |-> p.models]
    /\ p.url \in Endpoints /\ p.key \in KeyNames
    /\ IsPartial(p.headers, HeaderNames, KeyNames) /\ IsPartial(p.models, ModelIds, Entries)
IsConfiguration(c) ==
    /\ c = [providers |-> c.providers, chats |-> c.chats, agent |-> c.agent, vision |-> c.vision]
    /\ DOMAIN c.providers \subseteq Aliases
    /\ c.providers = [a \in DOMAIN c.providers |-> c.providers[a]]
    /\ \A a \in DOMAIN c.providers : IsProvider(c.providers[a])
    /\ IsPartial(c.chats, Rooms,
         [provider : Aliases \cup {Inherit}, model : ModelIds \cup {Inherit}, level : Levels])
    /\ c.agent \in [provider : Aliases, model : ModelIds, level : Levels]
    /\ c.vision \in [provider : Aliases, model : ModelIds]

\* resolveAgentSettings: a chat has a model of its own or the agent's, and then
\* perhaps a level of its own.
SettingsOf(c, chat) ==
    [provider |-> IF chat.provider = Inherit THEN c.agent.provider ELSE chat.provider,
     model    |-> IF chat.provider = Inherit THEN c.agent.model ELSE chat.model,
     level    |-> IF chat.level = NoLevel THEN c.agent.level ELSE chat.level]

\* Every model the agent may work with: the default and those of the chats.
AgentModels(c) == {c.agent} \cup {SettingsOf(c, c.chats[r]) : r \in DOMAIN c.chats}

\* validateModelReference
Refers(c, ref) ==
    ref.provider \in DOMAIN c.providers /\ ref.model \in DOMAIN c.providers[ref.provider].models
ModelEntryOf(c, ref) == c.providers[ref.provider].models[ref.model]

\* validateSemantics: agent, chats and vision name models that exist, that accept
\* the level, and that see pictures; how much vision may answer is not looked at.
NamesResolve(c) ==
    /\ \A s \in AgentModels(c) : Refers(c, s) /\ s.level \in ModelEntryOf(c, s).levels
    /\ Refers(c, c.vision) /\ ModelEntryOf(c, c.vision).image

\* The schema of the file wants a chat, and a model of every provider.
FileIsValid(c) ==
    /\ DOMAIN c.chats # {} /\ \A a \in DOMAIN c.providers : DOMAIN c.providers[a].models # {}
    /\ NamesResolve(c)

\* diffConfig: everything is hot but which chats there are.
CandidateOf(active, file) ==
    [file EXCEPT !.chats = [r \in DOMAIN active.chats |->
        IF r \in DOMAIN file.chats THEN file.chats[r] ELSE active.chats[r]]]

\* sameConnection: all of a provider but its models.
Connection(p) == [url |-> p.url, key |-> p.key, headers |-> p.headers]

\* The names that a file has in the key jar.
NamesOf(c) ==
    UNION {{c.providers[a].key} \cup {c.providers[a].headers[h] : h \in DOMAIN c.providers[a].headers} :
              a \in DOMAIN c.providers}

\* What a name of a provider leads to was typed for its endpoint.
AtHome(c, jar) ==
    \A a \in DOMAIN c.providers :
        LET p == c.providers[a]
        IN jar[p.key].url = p.url /\ \A h \in DOMAIN p.headers : jar[p.headers[h]].url = p.url

\* The connection with its credentials taken from the jar.
Resolved(p) ==
    [url |-> p.url, key |-> minted[p.key],
     headers |-> [h \in DOMAIN p.headers |-> minted[p.headers[h]]]]

\* buildModelRegistry: a connection that is described by the same fields as before
\* is kept as it was resolved then, any other is resolved now.
BuildRegistry(active, registry, c) ==
    [a \in DOMAIN c.providers |->
        IF a \in DOMAIN active.providers
           /\ Connection(active.providers[a]) = Connection(c.providers[a])
        THEN registry[a] ELSE Resolved(c.providers[a])]

\* ... and what vision may answer must fit its model.
VisionFits(c) == VisionLimit <= ModelEntryOf(c, c.vision).limit

\* A running configuration can adopt a file.
Adoptable(active, file) ==
    LET c == CandidateOf(active, file) IN FileIsValid(file) /\ FileIsValid(c) /\ VisionFits(c)

\* The file a process has started with is one it takes, and its names are in the jar.
ASSUME ProviderAssumption ==
    /\ VisionLimit \in Nat /\ AskBound \in Nat /\ "agent" \notin Rooms /\ Inherit \notin Aliases
    /\ "key" \notin HeaderNames
    /\ \A m \in ModelIds : \A e \in ModelEntries[m] :
           e.limit \in Nat /\ e.levels \subseteq Nat /\ e.levels # {}
    /\ \A n \in DOMAIN FirstJar :
           n \in {0} \X Aliases \X Fields /\ FirstJar[n] \in [number : {0}, url : Endpoints]
    /\ \A file \in FirstFiles :
           /\ IsConfiguration(file) /\ FileIsValid(file) /\ VisionFits(file)
           /\ NamesOf(file) \subseteq DOMAIN FirstJar /\ AtHome(file, FirstJar)

-------------------------------------------------------------------------------
(* Requests of the panel.                                                       *)

\* The running chats that left the file.
Departed ==
    [r \in DOMAIN live.config.chats \ DOMAIN saved.chats |-> live.config.chats[r]]

\* #providerWrite: the edits were built on the file as it was loaded, and wait for
\* the lock.  Only a request whose revision is that of this file can be written.
AskWrite(what, next, typed) ==
    /\ FileIsValid(saved) /\ asked < AskBound /\ asked' = asked + 1
    /\ \E q \in Asks :
        /\ asks[q] = NoAsk
        /\ asks' = [asks EXCEPT ![q] =
               [what |-> what, revision |-> saved, next |-> next, typed |-> typed,
                departed |-> Departed,
                adoptable |-> applying = NoApply /\ Adoptable(live.config, saved)]]
    /\ UNCHANGED <<saved, minted, live, applying, outcome, hands, reloads>>

Unkeyed == [n \in {} |-> 0]

\* newKeyJarName: every plaintext that is submitted gets a name of its own.
NameFor(alias, field) == <<asked + 1, alias, field>>

\* The jar entries of the fields typed for a provider at an endpoint.
Typed(alias, fields, url) ==
    [n \in {NameFor(alias, f) : f \in fields} |-> [number |-> asked + 1, url |-> url]]

\* createProvider
CreateProvider ==
    \E alias \in Aliases \ DOMAIN saved.providers, url \in Endpoints,
       fields \in SUBSET HeaderNames, m \in ModelIds : \E e \in ModelEntries[m] :
        LET p == [url |-> url, key |-> NameFor(alias, "key"),
                  headers |-> [h \in fields |-> NameFor(alias, h)], models |-> [i \in {m} |-> e]]
        IN AskWrite("create",
               [saved EXCEPT !.providers =
                   [a \in DOMAIN @ \cup {alias} |-> IF a = alias THEN p ELSE @[a]]],
               Typed(alias, fields \cup {"key"}, url))

\* A base URL changes only with the key and every header typed again.
EndpointMayMove(p, url, fields) == url # p.url => {"key"} \cup DOMAIN p.headers \subseteq fields

\* updateProvider: fields are typed, and headers are removed; something must change.
UpdateConnection ==
    \E alias \in DOMAIN saved.providers, url \in Endpoints,
       fields \in SUBSET (HeaderNames \cup {"key"}), removed \in SUBSET HeaderNames :
        LET p == saved.providers[alias]
            kept == (DOMAIN p.headers \ removed) \cup (fields \ {"key"})
            next == [p EXCEPT
                !.url = url,
                !.key = IF "key" \in fields THEN NameFor(alias, "key") ELSE @,
                !.headers = [h \in kept |-> IF h \in fields THEN NameFor(alias, h) ELSE @[h]]]
        IN /\ removed \cap fields = {} /\ EndpointMayMove(p, url, fields)
           /\ url # p.url \/ fields # {} \/ removed \cap DOMAIN p.headers # {}
           /\ AskWrite("update", [saved EXCEPT !.providers[alias] = next], Typed(alias, fields, url))

\* MUTANT of ReferencingChats: the chats of the file.
ChatsOfFile == {saved.chats[r] : r \in DOMAIN saved.chats}

\* referencingChats: the chats of the file, and the running ones that left it.
ReferencingChats ==
    {saved.chats[r] : r \in DOMAIN saved.chats} \cup {Departed[r] : r \in DOMAIN Departed}

References == {saved.agent, saved.vision} \cup ReferencingChats

\* deleteProvider
DeleteProvider ==
    \E alias \in DOMAIN saved.providers :
        /\ \A ref \in References : ref.provider # alias
        /\ AskWrite("delete",
               [saved EXCEPT !.providers = [a \in DOMAIN @ \ {alias} |-> @[a]]], Unkeyed)

WithModels(alias, models) == [saved EXCEPT !.providers[alias].models = models]

\* appendModels, replaceModel and deleteModel: an entry is found by its id in the
\* file that was loaded.  A new entry of a model in use is not compared with its uses.
EditModels ==
    \E alias \in DOMAIN saved.providers, m \in ModelIds :
        LET models == saved.providers[alias].models
        IN \/ \E e \in ModelEntries[m] :
                /\ m \notin DOMAIN models
                /\ AskWrite("append", WithModels(alias, [i \in DOMAIN models \cup {m} |->
                           IF i = m THEN e ELSE models[i]]), Unkeyed)
           \/ \E e \in ModelEntries[m] :
                /\ m \in DOMAIN models /\ e # models[m]
                /\ AskWrite("replace", WithModels(alias, [models EXCEPT ![m] = e]), Unkeyed)
           \/ /\ m \in DOMAIN models
              /\ \A ref \in References : ~(ref.provider = alias /\ ref.model = m)
              /\ AskWrite("delete", WithModels(alias, [i \in DOMAIN models \ {m} |-> models[i]]), Unkeyed)

\* visionEdits: what the file's own validation does not look at is checked here.
ChooseVision ==
    \E alias \in DOMAIN saved.providers : \E m \in DOMAIN saved.providers[alias].models :
        LET next == [saved EXCEPT !.vision = [provider |-> alias, model |-> m]]
        IN /\ next # saved /\ ModelEntryOf(next, next.vision).image /\ VisionFits(next)
           /\ AskWrite("vision", next, Unkeyed)

\* thinkingLevelEdits: a level the agent's model in the file accepts.
ChooseLevel ==
    /\ Refers(saved, saved.agent)
    /\ \E level \in ModelEntryOf(saved, saved.agent).levels \ {saved.agent.level} :
           AskWrite("level", [saved EXCEPT !.agent.level = level], Unkeyed)

\* AgentModelSwitcher.list: what the running process can be switched to, and what
\* clears the settings of a chat.
ModelReferences == [provider : Aliases, model : ModelIds]
Options == {ref \in ModelReferences : Refers(live.config, ref)}
Default == [provider |-> Inherit, model |-> Inherit]

\* managedSettings: a chat with a model of its own has a level of its own as well.
ChatMayBe(chat) == chat.provider # Inherit => chat.level # NoLevel

\* updateChat, from the page of the chats: whether there is such a model, and whether a
\* level fits it, is left to the validation of the file.
EditChat ==
    \E r \in DOMAIN saved.chats, ref \in ModelReferences \cup {Default}, level \in Levels :
        LET chat == [provider |-> ref.provider, model |-> ref.model, level |-> level]
        IN /\ ChatMayBe(chat) /\ chat # saved.chats[r]
           /\ AskWrite("chat", [saved EXCEPT !.chats[r] = chat], Unkeyed)

\* createChat
CreateChat ==
    \E r \in Rooms \ DOMAIN saved.chats, ref \in ModelReferences \cup {Default}, level \in Levels :
        LET chat == [provider |-> ref.provider, model |-> ref.model, level |-> level]
        IN /\ ChatMayBe(chat)
           /\ AskWrite("chat", [saved EXCEPT !.chats =
                  [s \in DOMAIN @ \cup {r} |-> IF s = r THEN chat ELSE @[s]]], Unkeyed)

\* deleteChat: at least one chat must remain.
DeleteChat ==
    \E r \in DOMAIN saved.chats :
        /\ DOMAIN saved.chats # {r}
        /\ AskWrite("unlist", [saved EXCEPT !.chats = [s \in DOMAIN @ \ {r} |-> @[s]]], Unkeyed)

-------------------------------------------------------------------------------
(* Under the lock.                                                              *)

\* The jar with the entries of a write.
Stored(typed) ==
    [n \in DOMAIN minted \cup DOMAIN typed |-> IF n \in DOMAIN typed THEN typed[n] ELSE minted[n]]

\* writeConfigEdits: the file is compared with the revision, and what it would
\* become is validated; then it is replaced, its new names being in the jar.
Write(ask, next, typed, expected) ==
    /\ saved' = next
    /\ minted' = Stored(typed)
    /\ applying' = [stage |-> "load", ask |-> ask, wrote |-> next, loaded |-> next,
                     expected |-> expected]

ServeAsk ==
    /\ applying = NoApply
    /\ \E q \in Asks :
        /\ asks[q].what \notin {"none", "switch"} /\ asks' = [asks EXCEPT ![q] = NoAsk]
        /\ IF saved = asks[q].revision /\ FileIsValid(asks[q].next)
           THEN Write(asks[q], asks[q].next, asks[q].typed,
                      asks[q].adoptable /\ asks[q].departed = Departed)
           ELSE UNCHANGED <<saved, minted, applying>>
    /\ UNCHANGED <<live, outcome, asked, hands, reloads>>

Weakest(levels) == CHOOSE l \in levels : \A k \in levels : l <= k

\* An option of the list is asked for, for a chat or for the agent, and waits for
\* the lock as well.
AskSwitch(target, ref) ==
    /\ asked < AskBound /\ asked' = asked + 1
    /\ \E q \in Asks :
        /\ asks[q] = NoAsk
        /\ asks' = [asks EXCEPT ![q] =
               [what |-> "switch", revision |-> saved, target |-> target, ref |-> ref]]
    /\ UNCHANGED <<saved, minted, live, applying, outcome, hands, reloads>>

\* #modelSwitch: /model in a chat.
PickModel ==
    \E r \in DOMAIN live.config.chats, ref \in Options \cup {Default} : AskSwitch(r, ref)

\* PUT /model, setAgentModel: the panel's switch of the agent's model.
PutModel == \E ref \in Options : AskSwitch("agent", ref)

\* A model goes with the weakest level that the running one accepts.
SwitchTo(ref) ==
    [provider |-> ref.provider, model |-> ref.model,
     level |-> IF ref = Default THEN NoLevel
               ELSE Weakest(ModelEntryOf(live.config, ref).levels)]

\* #setModel and #writeChatSettings: the option must still be one; the agent is
\* switched under the revision of the panel, a chat is found in the file by its id.
Switched(q) ==
    IF q.target = "agent" THEN [saved EXCEPT !.agent = SwitchTo(q.ref)]
    ELSE [saved EXCEPT !.chats[q.target] = SwitchTo(q.ref)]

ServeSwitch ==
    /\ applying = NoApply
    /\ \E q \in Asks :
        /\ asks[q].what = "switch" /\ asks' = [asks EXCEPT ![q] = NoAsk]
        /\ IF /\ asks[q].ref \in Options \cup {Default}
              /\ asks[q].target = "agent" => saved = asks[q].revision
              /\ asks[q].target # "agent" => asks[q].target \in DOMAIN saved.chats
              /\ FileIsValid(saved) /\ FileIsValid(Switched(asks[q]))
           THEN Write(asks[q], Switched(asks[q]), Unkeyed, FALSE)
           ELSE UNCHANGED <<saved, minted, applying>>
    /\ UNCHANGED <<live, outcome, asked, hands, reloads>>

\* reloadFromFile
ReloadProviders ==
    /\ applying = NoApply /\ reloads < ReloadBound /\ reloads' = reloads + 1
    /\ applying' = [stage |-> "load", ask |-> NoAsk, wrote |-> saved, loaded |-> saved,
                     expected |-> FALSE]
    /\ UNCHANGED <<saved, minted, live, asks, outcome, asked, hands>>

\* The end of an apply: whether it succeeded, whether the file that was loaded is the
\* one that was written, and whether the process is expected to adopt that one.
Done(loaded, ok) ==
    /\ applying' = NoApply
    /\ outcome' = [ask |-> applying.ask, ok |-> ok, undisturbed |-> loaded = applying.wrote,
                    expected |-> applying.expected]

\* #applyFile: the file is loaded as it is by now, and the candidate is validated.
LoadSaved ==
    /\ applying.stage = "load"
    /\ IF FileIsValid(saved) /\ FileIsValid(CandidateOf(live.config, saved))
       THEN /\ applying' = [applying EXCEPT !.stage = "build", !.loaded = saved]
            /\ UNCHANGED outcome
       ELSE Done(saved, FALSE)
    /\ UNCHANGED <<saved, minted, live, asks, asked, hands, reloads>>

\* #buildRegistry resolves what is new, and all is published together.
PublishProviders ==
    /\ applying.stage = "build"
    /\ LET c == CandidateOf(live.config, applying.loaded)
       IN /\ live' = IF VisionFits(c)
                THEN [config |-> c, registry |-> BuildRegistry(live.config, live.registry, c)]
                ELSE live
          /\ Done(applying.loaded, VisionFits(c))
    /\ UNCHANGED <<saved, minted, asks, asked, hands, reloads>>

-------------------------------------------------------------------------------
(* The whole.                                                                   *)

\* Somebody edits the file by hand: a chat leaves it, or the agent or a chat gets
\* another model or level.
EditByHand ==
    /\ hands < HandBound /\ hands' = hands + 1
    /\ \/ \E r \in DOMAIN saved.chats :
            saved' = [saved EXCEPT !.chats = [s \in DOMAIN @ \ {r} |-> @[s]]]
       \/ \E ref \in Options : saved' = [saved EXCEPT !.agent = SwitchTo(ref)]
       \/ \E ref \in Options \cup {Default}, r \in DOMAIN saved.chats :
            saved' = [saved EXCEPT !.chats[r] = SwitchTo(ref)]
    /\ saved' # saved
    /\ UNCHANGED <<minted, live, asks, applying, outcome, asked, reloads>>

ProviderInit ==
    /\ saved \in FirstFiles
    /\ minted = [n \in NamesOf(saved) |-> FirstJar[n]]
    /\ live = [config |-> saved,
               registry |-> [a \in DOMAIN saved.providers |-> Resolved(saved.providers[a])]]
    /\ asks = [q \in Asks |-> NoAsk] /\ applying = NoApply /\ outcome = NoOutcome
    /\ asked = 0 /\ hands = 0 /\ reloads = 0

ProviderNext ==
    \/ CreateProvider \/ UpdateConnection \/ DeleteProvider \/ EditModels
    \/ ChooseVision \/ ChooseLevel \/ EditChat \/ CreateChat \/ DeleteChat
    \/ PickModel \/ PutModel \/ ServeAsk \/ ServeSwitch \/ ReloadProviders \/ LoadSaved \/ PublishProviders
    \/ EditByHand

ProviderSpec == ProviderInit /\ [][ProviderNext]_providerVars

-------------------------------------------------------------------------------
(* Properties.                                                                  *)

\* Types: names lead to credentials, and what the process has registered are the
\* providers of its configuration.
ProviderTypeOK ==
    /\ NamesOf(saved) \subseteq DOMAIN minted
    /\ DOMAIN live.registry = DOMAIN live.config.providers

\* buildModelRegistry keeps a connection whose fields did not change: what the
\* process sends is nevertheless what the jar holds under the names of its
\* configuration, however often a secret was replaced.
RegistryFollows ==
    \A a \in DOMAIN live.config.providers :
        live.registry[a] = Resolved(live.config.providers[a])

\* updateProvider: no key and no header ever goes to an endpoint it was not typed for.
CredentialsStay ==
    \A a \in DOMAIN live.registry :
        LET p == live.registry[a]
        IN p.key.url = p.url /\ \A h \in DOMAIN p.headers : p.headers[h].url = p.url

\* Whatever is deleted, replaced, switched or edited while something else is being
\* adopted: every model that the running process may be asked to use is registered
\* and accepts its level, and vision sees pictures and may answer as much as it does.
RunningIsUsable == FileIsValid(live.config) /\ VisionFits(live.config)

\* referencingChats: a delete that was accepted is not written and only then refused
\* by the process, unless the process could not adopt the file before it either, another
\* apply was under way when it was checked, or the running chats that are not in the file
\* became others before it was written.
DeletesAreAdopted ==
    outcome.ask.what = "delete" /\ outcome.expected /\ outcome.undisturbed => outcome.ok

\* A switch that was answered with success is in force, although the option was
\* picked, checked again, written and adopted at four different moments.
SwitchesTakeEffect ==
    LET ask == outcome.ask
        settings == IF ask.target = "agent" THEN live.config.agent ELSE live.config.chats[ask.target]
    IN ask.what = "switch" /\ outcome.undisturbed /\ outcome.ok =>
           settings.provider = ask.ref.provider /\ settings.model = ask.ref.model

\* A request that was checked stands: it may meet a newer file, but it is not refused
\* because of something it never names.  That is what the checks of the pages are for,
\* and why a chat with a model of its own is given a level of its own: beside one that
\* was written without, the level of the agent may be refused for what it is there.
ChecksAreEnough ==
    \A q \in Asks :
        /\ asks[q].what \in {"delete", "vision", "level", "unlist"}
        /\ asks[q].what = "level" =>
              \A r \in DOMAIN asks[q].next.chats : ChatMayBe(asks[q].next.chats[r])
        => NamesResolve(asks[q].next)

\* The panel's providers, the file and the running process keep together.
ProvidersKeepFaith ==
    /\ ProviderTypeOK /\ RegistryFollows /\ CredentialsStay
    /\ RunningIsUsable /\ ChecksAreEnough /\ DeletesAreAdopted /\ SwitchesTakeEffect

\* visionEdits: a bad choice would stop the next startup.  No write of the panel
\* leaves a file that a start refuses although it took the one before.
WritesCanStart ==
    applying.stage = "load" /\ applying.ask.what \notin {"none", "switch"} => VisionFits(applying.wrote)

===============================================================================
