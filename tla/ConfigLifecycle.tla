---------------------------- MODULE ConfigLifecycle ----------------------------
(* The configuration file, the key jar beside it, and the running process that  *)
(* adopts what it can of the file: ConfigReloader (src/src/platform/            *)
(* config-reload.ts) with loadConfig, diffConfig, writeConfigEdits, the model   *)
(* registry, and the panel of the operators that edits the file under a         *)
(* revision.  A revision is the hash of the file's bytes: here, the content.    *)
(* A stage of an operation ends at an await, where a hand edit may come in; the *)
(* reloader's lock keeps two operations apart.                                  *)
EXTENDS Integers, Sequences, FiniteSets, SequencesExt

CONSTANTS Models, NoModel, \* models of the provider; no override
          ChatIds,         \* chats a configuration may name
          HandEdits,       \* parts of the file that are edited by hand
          EditBound,       \* bound on the hand edits
          OpBound          \* bound on the operations, starts of the process included

ASSUME ConfigAssumption ==
    NoModel \notin Models /\ IsFiniteSet(ChatIds) /\ {EditBound, OpBound} \subseteq Nat

VARIABLES file,      \* the configuration file
          jar,       \* names with an entry in the key jar
          names,     \* names given out so far
          process,   \* the running process, or Down
          op,        \* the operation that holds the reloader's lock, or Idle
          panel,     \* what a page of the panel shows, as [page, content, revision]
          request,   \* the write the panel asked for, waiting for the lock
          edits, ops \* counters for the bounds

configVars == <<file, jar, names, process, op, panel, request, edits, ops>>

------------------------------------------------------------------------------
(* Contents.  frozen stands for the restart-only fields and image for the hot   *)
(* ones that carry their own snapshot.                                          *)

ChatSettings == [id: ChatIds, model: Models \cup {NoModel}]
Content == [agent: Models, models: SUBSET Models, key: 1..OpBound + 1,
            frozen: BOOLEAN, image: BOOLEAN, chats: Seq(ChatSettings)]

IdsOf(c) == {c.chats[i].id : i \in DOMAIN c.chats}
IndexOf(c, id) == CHOOSE i \in DOMAIN c.chats : c.chats[i].id = id
ChatOf(c, id) == c.chats[IndexOf(c, id)]

\* The models that resolveAgentSettings can answer.
ModelsUsed(c) ==
    ({c.agent} \cup {c.chats[i].model : i \in DOMAIN c.chats}) \ {NoModel}

\* loadConfig and validateSemantics: the models named exist, chats are distinct.
Valid(c) ==
    /\ ModelsUsed(c) \subseteq c.models
    /\ Cardinality(IdsOf(c)) = Len(c.chats) /\ c.chats # <<>>

\* Equal up to the order of the chats, which no diff records.
SameSettings(c, d) ==
    /\ [c EXCEPT !.chats = <<>>] = [d EXCEPT !.chats = <<>>]
    /\ ToSet(c.chats) = ToSet(d.chats)

\* MUTANT of Candidate: the file's chats are adopted as they stand.
CandidateWithItsChats(active, new) == [new EXCEPT !.frozen = active.frozen]

\* diffConfig: the active configuration with every hot field from the file.  A
\* chat that left the file stays until the restart, and a new one waits for it.
Candidate(active, new) ==
    [new EXCEPT
        !.frozen = active.frozen,
        !.chats = [i \in DOMAIN active.chats |->
            IF active.chats[i].id \in IdsOf(new) THEN ChatOf(new, active.chats[i].id)
            ELSE active.chats[i]]]

\* The restart-only changes of the diff.
PendingRestart(active, new) ==
    {f \in {"frozen"} : active.frozen # new.frozen}
        \cup (IdsOf(active) \ IdsOf(new)) \cup (IdsOf(new) \ IdsOf(active))

\* One edit of the text: paths into a list go by index.
Edited(c, e) ==
    CASE e.what = "agent"  -> [c EXCEPT !.agent = e.model]
      [] e.what = "chat"   -> [c EXCEPT !.chats[e.index].model = e.model]
      [] e.what = "remove" -> [c EXCEPT !.chats = RemoveAt(@, e.index)]
      [] e.what = "add"    -> [c EXCEPT !.chats = Append(@, [id |-> e.id, model |-> NoModel])]
      [] e.what = "models" -> [c EXCEPT !.models = e.models]
      [] e.what = "key"    -> [c EXCEPT !.key = e.key]

------------------------------------------------------------------------------
(* The process.                                                                *)

Down == [up |-> FALSE]
Idle == [kind |-> "none"]
Nothing == [nothing |-> TRUE]
NoPanel == [page |-> "none", content |-> Nothing, revision |-> Nothing]

FileHash(c) == <<"file", c>>
RawHash(c)  == <<"raw", c>>

\* buildModelRegistry: the models of the file over a resolved connection.
Registry(c) == [models |-> c.models, key |-> c.key]

\* A connection that did not change keeps the provider object it has; any other
\* is resolved now, which needs its entry in the jar.
Resolves(active, c) == active.key = c.key \/ c.key \in jar

\* The process as started from a file; origin is what it started with.
Started(c) ==
    [up |-> TRUE, config |-> c, hash |-> FileHash(c), registry |-> Registry(c),
     image |-> c.image, imageSeen |-> FALSE, fileHash |-> FileHash(c),
     pending |-> {}, failed |-> FALSE, origin |-> c]

StartProcess ==
    /\ ~process.up /\ ops < OpBound
    /\ Valid(file) /\ file.key \in jar
    /\ process' = Started(file) /\ ops' = ops + 1
    /\ UNCHANGED <<file, jar, names, op, panel, request, edits>>

\* The process may stop at any await; its file and its jar stay as they are.
CrashConfig ==
    /\ process.up
    /\ process' = Down /\ op' = Idle /\ request' = Idle /\ panel' = NoPanel
    /\ UNCHANGED <<file, jar, names, edits, ops>>

\* Somebody edits the file by hand.  Keys are not exchanged that way.
HandEdit(kind) ==
    /\ edits < EditBound /\ edits' = edits + 1
    /\ \/ \E m \in Models : kind = "agent" /\ file' = [file EXCEPT !.agent = m]
       \/ \E i \in DOMAIN file.chats, m \in Models \cup {NoModel} :
            /\ kind = "chat"
            /\ file' = Edited(file, [what |-> "chat", index |-> i, model |-> m])
       \/ \E m \in Models : kind = "models" /\ file' = [file EXCEPT !.models = @ \ {m}]
       \/ kind = "frozen" /\ file' = [file EXCEPT !.frozen = ~@]
       \/ kind = "image" /\ file' = [file EXCEPT !.image = ~@]
       \/ kind = "order" /\ file' = [file EXCEPT !.chats = Reverse(@)]
       \/ \E i \in DOMAIN file.chats :
            /\ kind = "member"
            /\ file' = Edited(file, [what |-> "remove", index |-> i])
       \/ \E id \in ChatIds \ IdsOf(file) :
            kind = "member" /\ file' = Edited(file, [what |-> "add", id |-> id])
    /\ UNCHANGED <<jar, names, process, op, panel, request, ops>>

------------------------------------------------------------------------------
(* Taking the lock.                                                            *)

\* An operation: whom it is about, the revision it expects, its edit, and what
\* the write read (source) and is about to write (next).
Operation(kind, stage, id, model, revision, edit) ==
    [kind |-> kind, stage |-> stage, id |-> id, model |-> model, revision |-> revision,
     edit |-> edit, source |-> Nothing, next |-> Nothing, loaded |-> Nothing,
     seen |-> Nothing, since |-> edits]

NoEdit == [what |-> "none"]
AnyRevision == [any |-> TRUE]

Take(operation) ==
    /\ process.up /\ op = Idle /\ ops < OpBound
    /\ op' = operation /\ ops' = ops + 1
    /\ UNCHANGED <<file, jar, names, process, panel, edits>>

Reload ==
    /\ Take(Operation("write", "load", 0, NoModel, AnyRevision, NoEdit))
    /\ UNCHANGED request

\* /model in a chat: the model must be registered and the chat be running; a
\* reset names no model.
SwitchChatModel ==
    /\ process.up
    /\ \E id \in ChatIds, m \in process.registry.models \cup {NoModel} :
        /\ id \in IdsOf(process.config)
        /\ Take(Operation("chat", "revision", id, m, AnyRevision, NoEdit))
    /\ UNCHANGED request

\* PUT /model of the panel: the edit goes under the revision the panel shows.
SwitchAgentModel ==
    /\ process.up /\ panel.revision # Nothing
    /\ \E m \in process.registry.models :
        Take(Operation("agent", "write", 0, m, panel.revision, [what |-> "agent", model |-> m]))
    /\ UNCHANGED request

\* A write the panel asked for gets the lock.
ServeRequest ==
    /\ request # Idle /\ Take(request) /\ request' = Idle

------------------------------------------------------------------------------
(* The panel.                                                                  *)

\* #configFile: the file and its revision, read so that they belong together.
OpenChats ==
    /\ process.up /\ panel = NoPanel /\ request = Idle /\ Valid(file)
    /\ panel' = [page |-> "chats", content |-> file, revision |-> file]
    /\ UNCHANGED <<file, jar, names, process, op, request, edits, ops>>

\* #providersView: the file is loaded, and then its revision is read.
LoadProviders ==
    /\ process.up /\ panel = NoPanel /\ request = Idle /\ Valid(file)
    /\ panel' = [page |-> "providers", content |-> file, revision |-> Nothing]
    /\ UNCHANGED <<file, jar, names, process, op, request, edits, ops>>

StampProviders ==
    /\ panel.page = "providers" /\ panel.revision = Nothing
    /\ panel' = [panel EXCEPT !.revision = file]
    /\ UNCHANGED <<file, jar, names, process, op, request, edits, ops>>

Ask(operation) ==
    /\ process.up /\ panel.revision # Nothing /\ request = Idle
    /\ request' = [operation EXCEPT !.seen = panel.content]
    /\ panel' = NoPanel
    /\ UNCHANGED <<file, jar, process, op, edits, ops>>

\* #chats: the file has to be the one the panel shows before an edit is built.
Located(revision) == Valid(file) /\ file = revision

\* updateChat, deleteChat and createChat: the chat is found by its id, in the file.
WriteChats ==
    /\ panel.page = "chats" /\ Located(panel.revision)
    /\ \E id \in ChatIds, m \in Models \cup {NoModel} :
        \/ /\ id \in IdsOf(file) /\ ChatOf(file, id).model # m
           /\ Ask(Operation("panel", "write", id, m, panel.revision,
                    [what |-> "chat", index |-> IndexOf(file, id), model |-> m]))
        \/ /\ id \in IdsOf(file) /\ Len(file.chats) > 1 /\ m = NoModel
           /\ Ask(Operation("panel", "write", id, m, panel.revision,
                    [what |-> "remove", index |-> IndexOf(file, id)]))
        \/ /\ id \notin IdsOf(file) /\ m = NoModel
           /\ Ask(Operation("panel", "write", id, m, panel.revision,
                    [what |-> "add", id |-> id]))
    /\ UNCHANGED names

\* referencingChats: the chats of the file, and the running ones that left it.
ReferencedModels ==
    ModelsUsed(file) \cup {c.model : c \in
        {d \in ToSet(process.config.chats) : d.id \notin IdsOf(file)}}

\* #providerWrite: the file is read for the checks, whatever the panel showed; a
\* model in use cannot be deleted, and a new key gets a new name in the jar.
WriteProvider ==
    /\ panel.page = "providers" /\ Valid(file)
    /\ \/ \E m \in file.models \ ReferencedModels :
            /\ Ask(Operation("provider", "write", 0, m, panel.revision,
                    [what |-> "models", models |-> file.models \ {m}]))
            /\ UNCHANGED names
       \/ \E m \in Models \ file.models :
            /\ Ask(Operation("provider", "write", 0, m, panel.revision,
                    [what |-> "models", models |-> file.models \cup {m}]))
            /\ UNCHANGED names
       \/ /\ names < OpBound + 1 /\ names' = names + 1
          /\ Ask(Operation("provider", "write", 0, NoModel, panel.revision,
                    [what |-> "key", key |-> names + 1]))

------------------------------------------------------------------------------
(* #writeChatSettings and writeConfigEdits.                                    *)

Advance(operation) ==
    /\ op' = operation
    /\ UNCHANGED <<file, jar, names, process, panel, request, edits, ops>>

Refuse ==
    /\ op' = Idle
    /\ UNCHANGED <<file, jar, names, process, panel, request, edits, ops>>

\* The revision is pinned before the file is loaded.
PinRevision ==
    /\ op.stage = "revision"
    /\ Advance([op EXCEPT !.stage = "locate", !.revision = file, !.since = edits])

\* MUTANT of LocateChat: the revision is read together with the edit.
LocateChatUnpinned ==
    /\ op.stage = "locate"
    /\ IF ~Valid(file) \/ op.id \notin IdsOf(file) THEN Refuse
       ELSE IF ChatOf(file, op.id).model = op.model THEN Advance([op EXCEPT !.stage = "load"])
       ELSE Advance([op EXCEPT !.stage = "write", !.revision = AnyRevision,
                !.edit = [what |-> "chat", index |-> IndexOf(file, op.id), model |-> op.model]])

\* The chat's position is taken from the file that is loaded.
LocateChat ==
    /\ op.stage = "locate"
    /\ IF ~Valid(file) \/ op.id \notin IdsOf(file) THEN Refuse
       ELSE IF ChatOf(file, op.id).model = op.model THEN Advance([op EXCEPT !.stage = "load"])
       ELSE Advance([op EXCEPT !.stage = "write",
                !.edit = [what |-> "chat", index |-> IndexOf(file, op.id), model |-> op.model]])

\* The text is read, compared with the revision, edited and validated beside it, where
\* the disk lets it.
ReadAndEdit ==
    /\ op.stage = "write"
    /\ \/ Refuse
       \/ /\ op.revision \in {AnyRevision, file} /\ Valid(Edited(file, op.edit))
          /\ Advance([op EXCEPT !.stage = "keys", !.source = file,
                   !.next = Edited(file, op.edit), !.revision = AnyRevision])

AddedKeys == IF op.edit.what = "key" THEN {op.edit.key} ELSE {}

\* The keys are written, or the write ends where the jar cannot be written.
AddKeys ==
    /\ op.stage = "keys"
    /\ \/ /\ jar' = jar \cup AddedKeys /\ op' = [op EXCEPT !.stage = "rename"]
          /\ UNCHANGED <<file, names, process, panel, request, edits, ops>>
       \/ AddedKeys # {} /\ Refuse

\* A rename that fails takes its keys back, or leaves them where that fails as well.
Rename ==
    /\ op.stage = "rename"
    /\ \/ /\ file' = op.next
          /\ op' = [op EXCEPT !.stage = "release", !.seen = Nothing]
          /\ UNCHANGED jar
       \/ /\ op' = Idle /\ jar' \in {jar, jar \ AddedKeys}
          /\ UNCHANGED file
    /\ UNCHANGED <<names, process, panel, request, edits, ops>>

\* The names the old file had and the new one does not; a jar that cannot be written
\* keeps them.
ReleasedKeys == {op.source.key} \ {op.next.key}

ReleaseKeys ==
    /\ op.stage = "release"
    /\ jar' \in {jar, jar \ ReleasedKeys}
    /\ op' = Operation("write", "load", 0, NoModel, AnyRevision, NoEdit)
    /\ UNCHANGED <<file, names, process, panel, request, edits, ops>>

------------------------------------------------------------------------------
(* #applyFile.                                                                 *)

\* A failed apply keeps the configuration and records why.
FailApply ==
    /\ op' = Idle /\ process' = [process EXCEPT !.failed = TRUE]
    /\ UNCHANGED <<file, jar, names, panel, request, edits, ops>>

\* The file is loaded; the candidate must be valid as well.
LoadFile ==
    /\ op.stage = "load"
    /\ IF Valid(file) /\ Valid(Candidate(process.config, file))
       THEN Advance([op EXCEPT !.stage = "publish", !.kind = "write", !.loaded = file])
       ELSE FailApply

\* activeHash: the file's hash when nothing waits, one of its own when a part of
\* the file was adopted, and the one it has when nothing changed.
AdoptedHash(loaded, pending, changed) ==
    IF pending = {} THEN FileHash(loaded)
    ELSE IF changed THEN RawHash(Candidate(process.config, loaded))
    ELSE process.hash

\* The registry and the image snapshot are prepared, and everything is published
\* in one step; with nothing changed only the status moves.
Publish ==
    /\ op.stage = "publish"
    /\ LET c == Candidate(process.config, op.loaded)
           pending == PendingRestart(process.config, op.loaded)
           changed == \/ ~SameSettings(c, process.config)
                      \/ ~process.imageSeen \/ c.image # process.image
           hash == AdoptedHash(op.loaded, pending, changed)
           known == [process EXCEPT !.fileHash = FileHash(op.loaded), !.pending = pending,
                                    !.failed = FALSE]
       IN \/ /\ Resolves(process.config, c)
             /\ process' = IF ~changed /\ hash = process.hash THEN known
                 ELSE [known EXCEPT !.config = c, !.hash = hash, !.registry = Registry(c),
                                    !.image = c.image, !.imageSeen = TRUE]
             /\ op' = Idle
             /\ UNCHANGED <<file, jar, names, panel, request, edits, ops>>
          \/ FailApply \* a key without its entry, or an image section that is refused

------------------------------------------------------------------------------
(* The whole.                                                                  *)

ConfigInit ==
    /\ file \in [agent: Models, models: {Models}, key: {1}, frozen: {FALSE}, image: BOOLEAN,
                 chats: {[i \in DOMAIN s |-> [id |-> s[i], model |-> NoModel]] :
                            s \in {SetToSeq(ChatIds)}}]
    /\ jar = {1} /\ names = 1
    /\ process = Down /\ op = Idle /\ panel = NoPanel /\ request = Idle
    /\ edits = 0 /\ ops = 0

ConfigNext ==
    \/ StartProcess \/ CrashConfig \/ \E kind \in HandEdits : HandEdit(kind)
    \/ Reload \/ SwitchChatModel \/ SwitchAgentModel \/ ServeRequest
    \/ OpenChats \/ LoadProviders \/ StampProviders \/ WriteChats \/ WriteProvider
    \/ op # Idle /\ (PinRevision \/ LocateChat \/ ReadAndEdit \/ AddKeys \/ Rename
                      \/ ReleaseKeys \/ LoadFile \/ Publish)

ConfigSpec == ConfigInit /\ [][ConfigNext]_configVars

------------------------------------------------------------------------------
(* Properties.                                                                 *)

\* Types: contents are contents, the jar holds names given out, and an operation
\* and a request exist only in a running process.
ConfigTypeOK ==
    /\ file \in Content /\ jar \subseteq 1..names
    /\ process.up => process.config \in Content /\ process.failed \in BOOLEAN
    /\ op # Idle \/ request # Idle => process.up

\* Whatever is edited, switched or refused meanwhile, the running process holds
\* one valid configuration, its models, its key and its image snapshot belong to
\* that configuration, and the restart-only part is still the one it started with.
RunningIsCoherent ==
    process.up =>
        /\ Valid(process.config)
        /\ process.registry = Registry(process.config)
        /\ process.image = process.config.image
        /\ process.config.frozen = process.origin.frozen
        /\ IdsOf(process.config) = IdsOf(process.origin)

\* The hash the process reports can be compared with the file's: a file's hash
\* stands for a configuration equal to that file, and with nothing pending it is
\* the hash of the file that was loaded last.
HashNamesConfiguration ==
    process.up =>
        /\ process.hash[1] = "file" => SameSettings(process.config, process.hash[2])
        /\ process.pending = {} => process.hash = process.fileHash

\* The next content of a write that is about one chat: everything else is kept.
OnlyAbout(id, before, after) ==
    /\ [before EXCEPT !.chats = <<>>] = [after EXCEPT !.chats = <<>>]
    /\ {c \in ToSet(before.chats) : c.id # id} = {c \in ToSet(after.chats) : c.id # id}

\* A write that names a chat changes that chat and nothing else, although its
\* path into the file goes by position and hands may reorder the chats at any
\* await, as long as they do not change the file and change it back meanwhile; a
\* write from the page of the chats is made on the file the page showed.
WritesHitTheirChat ==
    op # Idle /\ op.stage \in {"keys", "rename"} =>
        /\ op.kind \in {"chat", "panel"} /\ edits - op.since < 2 =>
               OnlyAbout(op.id, op.source, op.next)
        /\ op.kind = "panel" => op.source = op.seen

\* No crash, refusal or failed rename leaves the file naming a key that the jar
\* does not hold: the next start would fail.
NoDanglingKey == file.key \in jar

\* The process, what it reports of itself and the file it came from agree.
RunningAgrees == ConfigTypeOK /\ RunningIsCoherent /\ HashNamesConfiguration

\* A write changes what it names and leaves a file that can be loaded.
WritesAreSafe == WritesHitTheirChat /\ NoDanglingKey

\* Whatever overlaps, the running configuration, its file and its keys stay one.
ConfigurationIsOne == RunningAgrees /\ WritesAreSafe

\* config: a revision must describe the very file used to build the view, never
\* a newer file read after an intervening write: a provider write is made on the
\* file its page showed.
ViewedBeforeWritten ==
    op # Idle /\ op.stage = "keys" /\ op.kind = "provider" => op.source = op.seen

==============================================================================
