---------------------------- MODULE ImageSettings ----------------------------
(* The image section of the configuration: the panel's page for it, the save    *)
(* (#applyImageConfig of src/src/ingress/admin/server.ts), the writing of file  *)
(* and key jar under the reloader's lock, and the snapshot that is published    *)
(* from what they hold.  A section whose structure is not valid is ignored when *)
(* the file is loaded, and stays in its text.                                   *)
EXTENDS Naturals, Sequences, FiniteSets, Functions

CONSTANTS
    Credentials,     \* names of image credentials, which are their names in the jar
    ProviderKeys,    \* the names a provider's key is given in the jar, in order
    Secrets,         \* plaintexts
    Endpoints,       \* [tag -> what the catalogue says of an endpoint]
    Off,             \* no section, and no snapshot
    SaveBound, HandBound, CrashBound

PartialFunctions(S, T) == UNION {[D -> T] : D \in SUBSET S}
Names == Credentials \cup Range(ProviderKeys)
Sections == [creds : PartialFunctions(Credentials, Names), models : PartialFunctions(DOMAIN Endpoints, Credentials),
             defect : {"none", "models", "beside"}]

ASSUME SettingsAssumption ==
    /\ ProviderKeys \in Seq(Range(ProviderKeys)) /\ ProviderKeys # <<>>
    /\ \A i, j \in DOMAIN ProviderKeys : ProviderKeys[i] = ProviderKeys[j] => i = j
    /\ \A tag \in DOMAIN Endpoints : Endpoints[tag] \in [inputs : Nat \X Nat, outputs : Nat \X Nat]
    /\ Off \notin Sections
    /\ {SaveBound, HandBound, CrashBound} \subseteq Nat

VARIABLES
    document,   \* the file: its image section and the name of the provider's key
    entries,    \* the key jar: name -> plaintext
    serving,    \* the published snapshot: models and resolved credentials
    form,       \* the panel's page: the document it was loaded from
    saving,     \* a PUT of /image/config, with the revision its page was loaded under
    writing,    \* what holds the reloader's lock
    stale,      \* the last apply failed, or the file was edited by hand since
    pruned,     \* history: dropped names that an ignored section refers to
    leftover,   \* history: names that should be out of the jar, and may still be in it
    failed,     \* history: reasons for which saves and applies failed
    moves       \* of each kind, for the bounds

settingsVars == <<document, entries, serving, form, saving, writing, stale, pruned, leftover, failed, moves>>

-----------------------------------------------------------------------------
(* The catalogue.                                                              *)

MaxInputs == 16
MaxOutputs == 10
Least(a, b) == IF a < b THEN a ELSE b

\* An endpoint says between which bounds it takes pictures and gives them; a bound
\* that it does not state is 0 pictures in, 1 picture out.
Capabilities(endpoint) ==
    [imageInput |-> Least(MaxInputs, endpoint.inputs[2]) > 0,
     maxInputImages |-> Least(MaxInputs, endpoint.inputs[2]),
     maxOutputs |-> IF endpoint.outputs[2] < 1 THEN 1 ELSE Least(MaxOutputs, endpoint.outputs[2])]
Unavailable(endpoint) ==
    endpoint.inputs[1] > 0 \/ endpoint.outputs[1] > 1 \/ endpoint.outputs[2] < 1

\* modelDefinitionSchema, of the image package.
Definable(caps) ==
    /\ ~caps.imageInput => caps.maxInputImages = 0
    /\ caps.maxInputImages \in 0..MaxInputs /\ caps.maxOutputs \in 1..MaxOutputs

Offered == {tag \in DOMAIN Endpoints : ~Unavailable(Endpoints[tag])}

-----------------------------------------------------------------------------
(* The file.  A section has credentials (name -> name in the jar), models (tag  *)
(* -> credential) and possibly a defect: in the models, or beside them.         *)

Section(creds, models, defect) == [creds |-> creds, models |-> models, defect |-> defect]
Loaded(d) == IF d.image # Off /\ d.image.defect # "none" THEN [d EXCEPT !.image = Off] ELSE d

\* referencedJarNames.
ReferencedJarNames(d) ==
    {d.key} \cup (IF d.image = Off THEN {} ELSE Range(d.image.creds))

NoCreds == [c \in {} |-> ""]
CredsOf(d) == IF d.image = Off THEN NoCreds ELSE d.image.creds
ModelsOf(d) == IF d.image = Off THEN NoCreds ELSE d.image.models

\* prepareConfig and createImageConfigSnapshot, of a loaded file.
Resolves(d) == Range(CredsOf(d)) \subseteq DOMAIN entries
Contracted(d) ==
    \A tag \in DOMAIN ModelsOf(d) :
        Definable(Capabilities(Endpoints[tag])) /\ ModelsOf(d)[tag] \in DOMAIN CredsOf(d)
Prepared(d) ==
    IF d.image = Off THEN Off
    ELSE [models |-> d.image.models,
          values |-> [c \in DOMAIN d.image.creds |-> entries[d.image.creds[c]]]]

Done == [what |-> "none"]
Unlocked == [stage |-> "idle"]

SettingsInit ==
    /\ document = [image |-> Off, key |-> ProviderKeys[1]]
    /\ \E s \in Secrets : entries = [k \in {document.key} |-> s]
    /\ serving = Off /\ form = Off /\ saving = Done /\ writing = Unlocked
    /\ stale = FALSE /\ pruned = {} /\ leftover = {} /\ failed = {}
    /\ moves = [save |-> 0, key |-> 1, hand |-> 0, crash |-> 0]

Moved(kind, bound) == moves[kind] < bound /\ moves' = [moves EXCEPT ![kind] = @ + 1]

-----------------------------------------------------------------------------
(* The page.                                                                   *)

\* The view: what is loaded, under the revision of the text.
OpenForm ==
    /\ form # document /\ form' = document
    /\ UNCHANGED <<document, entries, serving, saving, writing, stale, pruned, leftover, failed, moves>>

\* What the form lets through: every credential is saved, or has a new plaintext or
\* the provider's key; every model has one; an endpoint is added if it is offered.
FormBodies ==
    LET saved == DOMAIN CredsOf(Loaded(form)) IN
    {b \in [secrets : PartialFunctions(Credentials, Secrets),
            sources : SUBSET (Credentials \ saved),
            models : UNION {[S -> Credentials] : S \in (SUBSET DOMAIN Endpoints) \ {{}}}] :
        /\ DOMAIN b.secrets \cap b.sources = {}
        /\ Range(b.models) \subseteq saved \cup DOMAIN b.secrets \cup b.sources
        /\ DOMAIN b.models \subseteq Offered \cup DOMAIN ModelsOf(Loaded(form))}

Put ==
    /\ form # Off /\ saving = Done /\ Moved("save", SaveBound)
    /\ \E body \in FormBodies \cup {Off} :
          saving' = [what |-> "put", stage |-> "check", enabled |-> body # Off, body |-> body,
                     revision |-> form, creds |-> NoCreds]
    /\ UNCHANGED <<document, entries, serving, form, writing, stale, pruned, leftover, failed>>

Answer(code) == saving' = Done /\ failed' = failed \cup ({code} \ {"ok"})

-----------------------------------------------------------------------------
(* #applyImageConfig.                                                          *)

CheckRevision ==
    /\ saving.what = "put" /\ saving.stage = "check"
    /\ IF saving.revision # document THEN Answer("conflict")
       ELSE /\ saving' = [saving EXCEPT !.stage = IF saving.enabled THEN "load" ELSE "wait"]
            /\ failed' = failed
    /\ UNCHANGED <<document, entries, serving, form, writing, stale, pruned, leftover, moves>>

\* The saved references, the provider's where it is the source, and the names of new
\* plaintexts.
LoadSection ==
    /\ saving.what = "put" /\ saving.stage = "load"
    /\ LET file == Loaded(document)
           body == saving.body
           creds == [c \in DOMAIN CredsOf(file) \cup body.sources \cup DOMAIN body.secrets |->
                        IF c \in DOMAIN body.secrets THEN c
                        ELSE IF c \in body.sources THEN file.key ELSE CredsOf(file)[c]]
       IN IF ~(Range(body.models) \subseteq DOMAIN creds) THEN Answer("invalid")
          ELSE saving' = [saving EXCEPT !.stage = "wait", !.creds = creds] /\ failed' = failed
    /\ UNCHANGED <<document, entries, serving, form, writing, stale, pruned, leftover, moves>>

\* The lock is taken, for a save, ...
BeginSave ==
    /\ writing = Unlocked /\ saving.what = "put" /\ saving.stage = "wait"
    /\ saving' = [saving EXCEPT !.stage = "locked"]
    /\ writing' = [stage |-> "write", by |-> "image", revision |-> saving.revision]
    /\ UNCHANGED <<document, entries, serving, form, stale, pruned, leftover, failed, moves>>
\* ... for a new key of the provider, ...
BeginKey ==
    /\ writing = Unlocked /\ Moved("key", Len(ProviderKeys))
    /\ \E s \in Secrets :
          writing' = [stage |-> "write", by |-> "provider", revision |-> document,
                      key |-> ProviderKeys[moves.key + 1], secret |-> s]
    /\ UNCHANGED <<document, entries, serving, form, saving, stale, pruned, leftover, failed>>
\* ... or to apply the file.
BeginApply ==
    /\ writing = Unlocked /\ stale
    /\ writing' = [stage |-> "file", by |-> "apply"]
    /\ UNCHANGED <<document, entries, serving, form, saving, stale, pruned, leftover, failed, moves>>

Unlock(code) ==
    /\ writing' = Unlocked
    /\ IF writing.by = "image" THEN Answer(code)
       ELSE saving' = saving /\ failed' = failed \cup ({code} \ {"ok"})

-----------------------------------------------------------------------------
(* writeConfigEdits.                                                           *)

Edited(d) ==
    IF writing.by = "provider" THEN [d EXCEPT !.key = writing.key]
    ELSE IF ~saving.enabled THEN [d EXCEPT !.image = Off]
    ELSE [d EXCEPT !.image =
             Section(saving.creds, saving.body.models,
                     IF d.image # Off /\ d.image.defect = "beside" THEN "beside" ELSE "none")]
Added ==
    IF writing.by = "provider" THEN [k \in {writing.key} |-> writing.secret]
    ELSE IF saving.enabled THEN saving.body.secrets ELSE NoCreds

\* An edit that changes nothing is refused: there is no section to remove.  Reading the
\* file, and writing its successor beside it, may fail.
WriteText ==
    /\ writing.stage = "write"
    /\ \/ Unlock("disk")
       \/ IF document # writing.revision THEN Unlock("conflict")
          ELSE IF Edited(document) = document /\ ~(writing.by = "image" /\ saving.enabled)
          THEN Unlock("unchanged")
          ELSE /\ writing' = [stage |-> "keys", by |-> writing.by, source |-> document,
                              next |-> Edited(document), added |-> Added]
               /\ UNCHANGED <<saving, failed>>
    /\ UNCHANGED <<document, entries, serving, form, stale, pruned, leftover, moves>>

\* updateKeyJar: an added name must be new, or else none is added; nor is any where the
\* jar cannot be written.
AddKeys ==
    /\ writing.stage = "keys"
    /\ \/ /\ DOMAIN writing.added # {}
          /\ Unlock(IF DOMAIN writing.added \cap DOMAIN entries # {} THEN "taken" ELSE "disk")
          /\ entries' = entries
       \/ /\ DOMAIN writing.added \cap DOMAIN entries = {}
          /\ entries' = [n \in DOMAIN entries \cup DOMAIN writing.added |->
                            IF n \in DOMAIN entries THEN entries[n] ELSE writing.added[n]]
          /\ writing' = [writing EXCEPT !.stage = "rename"]
          /\ UNCHANGED <<saving, failed>>
    /\ UNCHANGED <<document, serving, form, stale, pruned, leftover, moves>>

\* updateKeyJar, for names to be removed: all of them, or where the jar cannot be written
\* none, which the caller ignores.
Removed(names) ==
    \/ entries' = Restrict(entries, DOMAIN entries \ names) /\ leftover' = leftover \ names
    \/ entries' = entries /\ leftover' = leftover \cup (names \cap DOMAIN entries)

\* A rename that fails takes the keys of the write back, if it can.
RenameText ==
    /\ writing.stage = "rename"
    /\ \/ /\ document' = writing.next /\ writing' = [writing EXCEPT !.stage = "release"]
          /\ UNCHANGED <<entries, leftover, saving, failed>>
       \/ /\ Removed(DOMAIN writing.added)
          /\ Unlock("disk") /\ document' = document
    /\ UNCHANGED <<serving, form, stale, pruned, moves>>

\* Faulty: whatever the file refers to that the image section does not.
ReleasedForgetting(old, new) == ReferencedJarNames(old) \ Range(CredsOf(Loaded(new)))
\* Dropped are the names of the old text that the loaded new file does not refer to.
ReleasedNames(old, new) == ReferencedJarNames(old) \ ReferencedJarNames(Loaded(new))

\* The write has succeeded, whether they can be dropped or not.
ReleaseNames ==
    /\ writing.stage = "release"
    /\ LET released == ReleasedNames(writing.source, writing.next)
       IN /\ Removed(released)
          /\ pruned' = pruned \cup ((released \ DOMAIN entries')
                  \cap (ReferencedJarNames(writing.next) \ ReferencedJarNames(Loaded(writing.next))))
    /\ writing' = [stage |-> "file", by |-> writing.by]
    /\ UNCHANGED <<document, serving, form, saving, stale, failed, moves>>

-----------------------------------------------------------------------------
(* #applyFile, as far as the image section goes.                               *)

LoadDocument ==
    /\ writing.stage = "file"
    /\ writing' = [stage |-> "prepare", by |-> writing.by, file |-> Loaded(document)]
    /\ stale' = FALSE
    /\ UNCHANGED <<document, entries, serving, form, saving, pruned, leftover, failed, moves>>

\* A file that cannot be prepared changes nothing.
PrepareAndPublish ==
    /\ writing.stage = "prepare"
    /\ IF ~Resolves(writing.file) THEN Unlock("unresolved") /\ stale' = TRUE /\ serving' = serving
       ELSE IF ~Contracted(writing.file) THEN Unlock("contract") /\ stale' = TRUE /\ serving' = serving
       ELSE Unlock("ok") /\ stale' = stale /\ serving' = Prepared(writing.file)
    /\ UNCHANGED <<document, entries, form, pruned, leftover, moves>>

-----------------------------------------------------------------------------

\* The operator spoils the section in an editor, or repairs it.
EditByHand ==
    /\ document.image # Off /\ Moved("hand", HandBound)
    /\ \E defect \in {"none", "models", "beside"} \ {document.image.defect} :
          document' = [document EXCEPT !.image.defect = defect]
    /\ stale' = TRUE
    /\ UNCHANGED <<entries, serving, form, saving, writing, pruned, leftover, failed>>

\* The names that a write would still have removed from where it is, or taken back.
Unfinished ==
    IF writing.stage = "rename" THEN DOMAIN writing.added
    ELSE IF writing.stage = "release" THEN ReleasedNames(writing.source, writing.next)
    ELSE {}

\* The process stops anywhere and starts again; a section it cannot prepare is off.
Restart ==
    /\ Moved("crash", CrashBound) /\ leftover' = leftover \cup (Unfinished \cap DOMAIN entries)
    /\ LET file == Loaded(document) IN
       serving' = IF Resolves(file) /\ Contracted(file) THEN Prepared(file) ELSE Off
    /\ stale' = ~(Resolves(Loaded(document)) /\ Contracted(Loaded(document)))
    /\ saving' = Done /\ writing' = Unlocked
    /\ UNCHANGED <<document, entries, form, pruned, failed>>

SettingsNext ==
    \/ OpenForm \/ Put \/ CheckRevision \/ LoadSection
    \/ BeginSave \/ BeginKey \/ BeginApply
    \/ WriteText \/ AddKeys \/ RenameText \/ ReleaseNames
    \/ LoadDocument \/ PrepareAndPublish \/ EditByHand \/ Restart

SettingsSpec == SettingsInit /\ [][SettingsNext]_settingsVars

-----------------------------------------------------------------------------

SettingsTypeOK ==
    /\ DOMAIN entries \subseteq Credentials \cup Range(ProviderKeys) /\ Range(entries) \subseteq Secrets
    /\ document.key \in Range(ProviderKeys) /\ stale \in BOOLEAN

\* key-jar.ts:113, "pruning can never drop an entry that a field added later still
\* points at": whatever the order of saves, new keys, failures and kills, the names in
\* the file are in the jar, save those that an ignored section lost.
ReferencesResolve == ReferencedJarNames(document) \subseteq DOMAIN entries \cup pruned

\* config-file.ts:148, "an entry left behind only keeps a secret nothing uses": between
\* writes the jar holds nothing that the file does not refer to, but for what a removal
\* that failed, or a kill before a removal, left there.
JarIsTidy ==
    writing = Unlocked => DOMAIN entries \subseteq ReferencedJarNames(document) \cup leftover

\* #applyFile: when no apply has failed since the file last changed, what is served is
\* what the file and the jar hold now, and a section the panel wrote is never refused.
ServingFollowsFile ==
    /\ writing = Unlocked /\ ~stale => serving = Prepared(Loaded(document))
    /\ "contract" \notin failed
    /\ moves.hand = 0 => "invalid" \notin failed
    /\ pruned = {} => "unresolved" \notin failed

SettingsHold == SettingsTypeOK /\ ReferencesResolve /\ JarIsTidy /\ ServingFollowsFile

\* The same, without exception: what the prune may not do to a section that is ignored.
PruningKeepsReferences == ReferencedJarNames(document) \subseteq DOMAIN entries

\* admin-panel.md:92: a credential that is saved takes a new plaintext.
SavedKeysAreReplaced == "taken" \notin failed
=============================================================================
