------------------------------ MODULE MCOperator ------------------------------
(* One instance for TLC of what a conversation keeps and what the operator      *)
(* configures, sees and does: the context of a conversation, the configuration, *)
(* the panel's accounts and its lists, how it finds a provider's models, and     *)
(* what it does with providers and models.                                      *)
(* `part' picks the one that moves.                                             *)
EXTENDS ConversationContext, ConfigLifecycle, AdminSessions, AdminRecords,
        ModelDiscovery, ProviderAdmin, TLC

CONSTANTS b1, b2, p1, p2, m1, m2, home, relay
VARIABLE part

\* Nothing chooses one of the prompts.
MCSymmetry == Permutations(Prompts)

MCClientOf == "q1" :> "k1" @@ "q2" :> "k1" @@ "q3" :> "k2"

\* A provider that describes its models and that the catalogue knows, and a relay
\* of which neither is true; m2 is m1 under a routing decoration.
MCNormalOf == m1 :> m1 @@ m2 :> m1
MCPlanOf == home :> [format |-> "gemini", paginated |-> TRUE]
            @@ relay :> [format |-> "openai", paginated |-> FALSE]
MCHintOf == home :> 1 @@ relay :> 0
Entry(reasoning, window, tokens) ==
    [f \in DraftFields |-> CASE f = "reasoning" -> reasoning
                             [] f = "context_window" -> window
                             [] f = "max_tokens" -> tokens
                             [] OTHER -> 1]
Listed(id, entry) == [id |-> id, entry |-> entry, generates |-> TRUE]
MCOffers ==
    {<<Listed(m1, Entry(Yes, 2, 1))>>,
     <<Listed(m1, Entry(No, 1, 2)), [Listed(m2, Entry(No, 0, 1)) EXCEPT !.generates = FALSE]>>,
     <<Listed(m2, Entry(No, 1, 0))>>}
MCCatalogues ==
    {<< <<Listed(m1, Entry(Yes, 2, 2))>>, <<Listed(m2, Entry(Yes, 2, 3))>> >>,
     << <<>>, <<Listed(m1, Entry(No, 3, 1))>> >>}


\* Two providers, one with a header and a blind model, and a chat that follows the
\* agent, perhaps with one beside it that works with the other provider; m1 may lose
\* a level and half its limit.  Other parts have the smallest file there can be.
FullEntry == [image |-> TRUE, levels |-> {0, 1}, limit |-> 2]
BlindEntry == [image |-> FALSE, levels |-> {0}, limit |-> 2]
MCModelEntries == "m1" :> {FullEntry, [image |-> TRUE, levels |-> {0}, limit |-> 1]} @@ "m2" :> {BlindEntry}
FirstProvider(alias, entries, headers) ==
    [url |-> "u1", key |-> <<0, alias, "key">>, models |-> entries,
     headers |-> [h \in headers |-> <<0, alias, h>>]]
FirstFile(providers, chats) ==
    [providers |-> providers, chats |-> chats, vision |-> [provider |-> "a1", model |-> "m1"],
     agent |-> [provider |-> "a1", model |-> "m1", level |-> 1]]
Follower == [provider |-> "inherit", model |-> "inherit", level |-> -1]
SmallFile == FirstFile("a1" :> FirstProvider("a1", "m1" :> FullEntry, {}), "r2" :> Follower)
MCFirstFiles ==
    {SmallFile} \cup
    {FirstFile("a1" :> FirstProvider("a1", "m1" :> FullEntry @@ "m2" :> BlindEntry, {"h1"})
                   @@ "a2" :> FirstProvider("a2", "m1" :> FullEntry, {}),
               chats) :
        chats \in {"r2" :> Follower,
                   "r1" :> [provider |-> "a2", model |-> "m1", level |-> 1] @@ "r2" :> Follower}}
MCFirstJar == [n \in {0} \X {"a1", "a2"} \X {"key", "h1"} |-> [number |-> 0, url |-> "u1"]]

-------------------------------------------------------------------------------

Parts == Lists \cup {"context", "commands", "panel", "accounts", "guesses", "sweep",
                      "drafts", "shared", "keys", "providers"}

MCInit ==
    /\ part \in Parts
    /\ Init /\ ConfigInit /\ SessionsInit /\ RecordsInit /\ DiscoveryInit /\ ProviderInit
    /\ part # "providers" <=> saved = SmallFile
    /\ part # "keys" => connection.header = 0
    /\ part \notin {"keys", "drafts"} => connection.url = home
    /\ part \notin {"commands", "panel"} =>
           file.agent = (CHOOSE m \in Models : TRUE) /\ ~file.image

Conversation == part = "context" /\ Next

\* With the operator's commands and hand edits of any part, or with the panel's
\* pages and a hand edit of what they show.
Configuration ==
    /\ \/ StartProcess \/ CrashConfig
       \/ part = "commands" /\ \/ \E kind \in HandEdits : HandEdit(kind)
                               \/ Reload \/ SwitchChatModel
       \/ part = "panel" /\ \/ edits = 0 /\ \E kind \in {"order", "models"} : HandEdit(kind)
                            \/ SwitchAgentModel \/ ServeRequest \/ OpenChats
                            \/ LoadProviders \/ StampProviders \/ WriteChats \/ WriteProvider
       \/ op # Idle /\ \/ PinRevision \/ LocateChat \/ ReadAndEdit \/ AddKeys \/ Rename
                       \/ ReleaseKeys \/ LoadFile \/ Publish
    /\ part \in {"commands", "panel"}
    /\ edits' + ops' <= IF part = "commands" THEN 4 ELSE 3

\* With two requests of any kind and little time, or with an account that exists
\* and three requests to sign in.
Accounts ==
    /\ part \in {"accounts", "guesses"}
    /\ SessionsNext
    /\ IF part = "accounts" THEN requests'["q3"] = Free /\ time' <= 1
       ELSE /\ issued' <= 2 /\ (sessions' = sessions \/ issued' > issued)
            /\ \A q \in Requests :
                  /\ requests'[q].kind # "change"
                  /\ requests'[q].kind = "setup" => q = "q1" /\ time' = 0
                  /\ requests'[q].kind = "login" => users # <<>>

\* With an operator who turns the pages of one list, or with the sweep.
Records ==
    /\ part \in Lists \cup {"sweep"}
    /\ RecordsNext
    /\ IF part = "sweep" THEN UNCHANGED <<audit, contexts, memories, walk, moment>>
       ELSE /\ UNCHANGED <<payloads, sweep, operators>>
            /\ walk'.list \in {"none", part}
            /\ IF part = "memories" THEN moment' <= 1 ELSE UNCHANGED memories
            /\ part # "contexts" => UNCHANGED contexts
            /\ part \in AuditLists => UNCHANGED moment
            /\ \A l \in AuditLists \ {part} : audit'[l] = audit[l]

\* With one request and what the operator makes of its answer, while the file moves
\* once; with two requests of which the answers are not looked at; or with requests
\* while the connection moves.
Discovery ==
    /\ part \in {"drafts", "shared", "keys"}
    /\ DiscoveryNext
    /\ IF part = "drafts"
       THEN /\ discoveries'["d2"].stage = "idle" /\ clock' = 1
            /\ discoveries'["d1"].bytes = discoveries'["d1"].page
            /\ NewSecret' = NewSecret
            /\ connection'.header = 0
            /\ revision' = revision \/ revision = 1 \/ Len(models') > Len(models)
       ELSE picker'.selected = {} /\ picker'.editing \in picker'.drafts \cup {NoDraft}
    /\ part = "shared" =>
           /\ connection' = connection /\ chosen' = chosen
           /\ \A d \in Discoveries : discoveries'[d].bytes <= 1
    /\ part = "keys" =>
           /\ clock' = 1
           /\ \A d \in Discoveries :
                 discoveries'[d].stage \in {"idle", "pages", "done"} /\ discoveries'[d].page = 0

\* With one request, a hand edit and a reload, or with two requests, of which only the
\* first is about a connection or the settings of a chat.  The chat that follows the
\* agent is left alone.
ProviderPages ==
    /\ part = "providers" /\ ProviderNext /\ asked' + reloads' <= 2
    /\ asked' = 2 => hands' = 0
    /\ asked' = 2 /\ asked = 1 => \A q \in Asks : asks'[q].what \notin {"update", "chat"}
    /\ "r2" \in DOMAIN saved'.chats /\ saved'.chats["r2"] = Follower
    /\ \A q \in Asks :
           CASE asks'[q] = NoAsk -> TRUE
             [] asks'[q].what = "switch" -> asks'[q].target # "r2"
             [] OTHER -> "r2" \in DOMAIN asks'[q].next.chats /\ asks'[q].next.chats["r2"] = Follower

operatorVars ==
    <<vars, configVars, sessionVars, recordVars, discoveryVars, providerVars>>

MCNext ==
    /\ UNCHANGED part
    /\ \/ Conversation  /\ UNCHANGED <<configVars, sessionVars, recordVars, discoveryVars, providerVars>>
       \/ Configuration /\ UNCHANGED <<vars, sessionVars, recordVars, discoveryVars, providerVars>>
       \/ Accounts      /\ UNCHANGED <<vars, configVars, recordVars, discoveryVars, providerVars>>
       \/ Records       /\ UNCHANGED <<vars, configVars, sessionVars, discoveryVars, providerVars>>
       \/ Discovery     /\ UNCHANGED <<vars, configVars, sessionVars, recordVars, providerVars>>
       \/ ProviderPages /\ UNCHANGED <<vars, configVars, sessionVars, recordVars, discoveryVars>>

MCSpec == MCInit /\ [][MCNext]_<<part, operatorVars>>

===============================================================================
