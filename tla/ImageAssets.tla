----------------------------- MODULE ImageAssets -----------------------------
(* What a generation is made of: the prompt and picture assets of the image      *)
(* service (packages/image-service/src), their files, the references of an       *)
(* authored prompt, the snapshot that is frozen when a request is accepted, and  *)
(* the request that is built from it later.  The panel (admin/image-admin.ts)    *)
(* edits and archives assets while a tool call of a conversation (image/bridge.ts)*)
(* copies its input pictures, one await at a time.                               *)
EXTENDS Naturals, Sequences, FiniteSets, SequencesExt

CONSTANTS
    Prompts,        \* ids of prompt assets
    Bodies,         \* [bodies -> whether they hold reference syntax]
    Media,          \* pictures of the chat
    Uploads,        \* [uploads -> "picture" or why the store refuses them]
    Authored,       \* prompts as a model writes them: sequences of pieces
    Forms,          \* what an operator asks for: [text, refs], refs the chosen prompts
    Offers,         \* configurations: [models -> how many input pictures they take]
    Conversations, PanelKeys,
    PictureBound, GenerationBound,
    EventBound      \* edits, publications and crashes

Panel == "panel"
Actors == Conversations \cup {Panel}
PictureIds == 1..PictureBound

\* The pieces of a text.
Words(w) == [is |-> "words", id |-> w]
PromptRef(p) == [is |-> "prompt", id |-> p]
ImageRef(i) == [is |-> "image", id |-> i]
Broken == [is |-> "broken", id |-> 0]

\* A text is a list of pieces; what it refers to as a prompt may be one.
IsAuthored(text) ==
    /\ Len(text) \in Nat /\ text = [k \in 1..Len(text) |-> text[k]]
    /\ \A k \in DOMAIN text : text[k].is = "prompt" => text[k].id \in Prompts

ASSUME AssetAssumption ==
    /\ PictureBound \in Nat /\ Panel \notin Conversations
    /\ \E b \in DOMAIN Bodies : ~Bodies[b]
    /\ \A text \in Authored : IsAuthored(text)
    /\ \A form \in Forms : IsAuthored(form.text) /\ form.refs \in Seq(Prompts)

VARIABLES
    prompts,    \* id -> [state, body]
    pictures,   \* rows: id -> "none", "active" or "archived"
    source,     \* id -> the generation that made the picture, or 0
    disk,       \* id -> what is in its file
    cache,      \* inputAssetCache: media -> id
    offer,      \* the published configuration
    asks,     \* image_generate of each conversation, and the panel's upload
    accepted,   \* the generations, oldest first, under their idempotency keys
    requests,       \* history: the requests that were sent for them, in their order
    unfair,     \* history: answers that a request with a known key should not get
    handed,     \* history: <<conversation, picture>> of what was sent to a chat
    events      \* edits, publications and crashes so far

assetVars == <<prompts, pictures, source, disk, cache, offer, asks, accepted, requests, unfair, handed, events>>

Counted == events < EventBound /\ events' = events + 1
Quiet == [stage |-> "idle"]

AssetInit ==
    /\ prompts = [p \in Prompts |-> [state |-> "none", body |-> CHOOSE b \in DOMAIN Bodies : ~Bodies[b]]]
    /\ pictures = [i \in PictureIds |-> "none"] /\ source = [i \in PictureIds |-> 0]
    /\ disk = [i \in PictureIds |-> "none"]
    /\ cache = [m \in {} |-> 0] /\ offer \in Offers
    /\ asks = [a \in Actors |-> Quiet]
    /\ accepted = <<>> /\ requests = <<>> /\ unfair = {} /\ handed = {}
    /\ events = 0

-----------------------------------------------------------------------------
(* The assets.                                                                 *)

CreatePrompt(p, body) ==
    /\ prompts[p].state = "none" /\ ~Bodies[body]
    /\ prompts' = [prompts EXCEPT ![p] = [state |-> "active", body |-> body]]
    /\ UNCHANGED <<pictures, source, disk, cache, offer, asks, accepted, requests, unfair, handed, events>>

\* An archived asset does not change any more, and stays readable.
UpdatePrompt(p, body) ==
    /\ prompts[p].state = "active" /\ body # prompts[p].body /\ ~Bodies[body]
    /\ Counted
    /\ prompts' = [prompts EXCEPT ![p].body = body]
    /\ UNCHANGED <<pictures, source, disk, cache, offer, asks, accepted, requests, unfair, handed>>

RemovePrompt(p) ==
    /\ prompts[p].state = "active" /\ Counted
    /\ prompts' = [prompts EXCEPT ![p].state = "archived"]
    /\ UNCHANGED <<pictures, source, disk, cache, offer, asks, accepted, requests, unfair, handed>>

RemoveImage(i) ==
    /\ pictures[i] = "active" /\ Counted
    /\ pictures' = [pictures EXCEPT ![i] = "archived"]
    /\ UNCHANGED <<prompts, source, disk, cache, offer, asks, accepted, requests, unfair, handed>>

-----------------------------------------------------------------------------
(* A copy into the store: the bytes are verified, written under a fresh id, and *)
(* then a row is inserted.                                                      *)

Unused(i) ==
    /\ pictures[i] = "none" /\ disk[i] = "none"
    /\ \A a \in Actors : asks[a].stage \in {"write", "row"} => asks[a].id # i
Fresh == {i \in PictureIds : Unused(i) /\ \A j \in PictureIds : Unused(j) => i <= j}

\* What follows a copy that failed: the upload, or the call, is over.
Abandon(a) == asks' = [asks EXCEPT ![a] = Quiet]

UploadImage ==
    /\ asks[Panel] = Quiet
    /\ \E u \in DOMAIN Uploads :
          asks' = [asks EXCEPT ![Panel] = [stage |-> "verify", bytes |-> Uploads[u], id |-> 0]]
    /\ UNCHANGED <<prompts, pictures, source, disk, cache, offer, accepted, requests, unfair, handed, events>>

VerifyBytes(a) ==
    /\ asks[a].stage = "verify"
    /\ IF asks[a].bytes # "picture" THEN Abandon(a)
       ELSE \E i \in Fresh :
               asks' = [asks EXCEPT ![a].stage = "write", ![a].id = i]
    /\ UNCHANGED <<prompts, pictures, source, disk, cache, offer, accepted, requests, unfair, handed, events>>

WriteFile(a) ==
    /\ asks[a].stage = "write"
    /\ \/ /\ disk' = [disk EXCEPT ![asks[a].id] = "whole"]
          /\ asks' = [asks EXCEPT ![a].stage = "row"]
       \/ /\ disk' = [disk EXCEPT ![asks[a].id] = "part"] /\ Abandon(a)
    /\ UNCHANGED <<prompts, pictures, source, cache, offer, accepted, requests, unfair, handed, events>>

Taken(call, i) == [call EXCEPT !.stage = "media", !.media = Tail(@), !.inputs = Append(@, i)]

\* persist, and for an input picture of a call the entry in the cache.
Persist(a) ==
    /\ asks[a].stage = "row"
    /\ LET i == asks[a].id IN
       /\ pictures' = [pictures EXCEPT ![i] = "active"]
       /\ IF a = Panel THEN cache' = cache /\ Abandon(a)
          ELSE /\ cache' = [m \in DOMAIN cache \cup {Head(asks[a].media)} |->
                             IF m = Head(asks[a].media) THEN i ELSE cache[m]]
               /\ asks' = [asks EXCEPT ![a] = Taken(asks[a], i)]
    /\ UNCHANGED <<prompts, source, disk, offer, accepted, requests, unfair, handed, events>>

-----------------------------------------------------------------------------
(* resolveSnapshot.                                                            *)

Places(text, kind) == {k \in DOMAIN text : text[k].is = kind}
Malformed(text) == Places(text, "broken") # {}

\* Places from the first to the last.
PlacesInOrder(places) ==
    [k \in 1..Cardinality(places) |->
        CHOOSE i \in places : Cardinality({j \in places : j <= i}) = k]

\* The ids, each at its first place.
FirstPlaces(ids) ==
    LET at == PlacesInOrder({k \in DOMAIN ids : \A j \in 1..k - 1 : ids[j] # ids[k]})
    IN [n \in DOMAIN at |-> ids[at[n]]]
InlineImages(text) ==
    LET at == PlacesInOrder(Places(text, "image"))
    IN [k \in DOMAIN at |-> text[at[k]].id]
ImagesOf(input) == FirstPlaces(InlineImages(input.text) \o input.images)

Usable(input) ==
    /\ \A k \in Places(input.text, "prompt") : prompts[input.text[k].id].state = "active"
    /\ \A i \in Range(ImagesOf(input)) : i \in PictureIds /\ pictures[i] = "active"

\* expandText: a prompt becomes its body, a picture nothing, what lies between is copied.
ExpandText(text) ==
    LET at == PlacesInOrder(DOMAIN text \ Places(text, "image"))
    IN [k \in DOMAIN at |-> IF text[at[k]].is = "prompt" THEN Words(prompts[text[at[k]].id].body)
                            ELSE text[at[k]]]

Snapshot(input) ==
    [text |-> ExpandText(input.text), images |-> ImagesOf(input), model |-> input.model, calls |-> 1]

\* Why a request is refused.
Refused(input) ==
    IF input.model \notin DOMAIN offer THEN {"unknown_model"}
    ELSE IF Malformed(input.text) THEN {"malformed_reference"}
    ELSE IF ~Usable(input) THEN {"missing_reference"}
    ELSE IF Len(ImagesOf(input)) > offer[input.model] THEN {"too_many_input_images"}
    ELSE IF ExpandText(input.text) = <<>> THEN {"empty_prompt"}
    ELSE {}

-----------------------------------------------------------------------------
(* generations.create: an idempotency key is looked up before anything else.    *)

FindIdempotent(a, key) == {g \in DOMAIN accepted : accepted[g].by = a /\ accepted[g].key = key}

\* What the caller is told; a key that is taken stands for one request.
Reply(a, key, input, result) ==
    LET due == IF FindIdempotent(a, key) = {} THEN {"accepted", "refused"}
               ELSE IF \E g \in FindIdempotent(a, key) : accepted[g].input = input THEN {"replayed"}
               ELSE {"conflict"}
    IN unfair' = unfair \cup ({result} \ due)
Accept(a, key, input) ==
    /\ Len(accepted) < GenerationBound
    /\ accepted' = Append(accepted, [by |-> a, key |-> key, input |-> input,
                                     snapshot |-> Snapshot(input),
                                     bodies |-> [p \in Prompts |-> prompts[p].body]])
    /\ Reply(a, key, input, "accepted")
Replayed(key, input, g) == IF accepted[g].input = input THEN "replayed" ELSE "conflict"

\* Faulty: a request is resolved again before its key is looked up.
CreateResolving(a, key, input) ==
    IF Refused(input) # {}
    THEN Reply(a, key, input, "refused") /\ accepted' = accepted
    ELSE IF FindIdempotent(a, key) = {} THEN Accept(a, key, input)
    ELSE \E g \in FindIdempotent(a, key) :
            Reply(a, key, input, Replayed(key, input, g)) /\ accepted' = accepted

Create(a, key, input) ==
    IF FindIdempotent(a, key) # {}
    THEN \E g \in FindIdempotent(a, key) :
            Reply(a, key, input, Replayed(key, input, g)) /\ accepted' = accepted
    ELSE IF Refused(input) # {}
    THEN Reply(a, key, input, "refused") /\ accepted' = accepted
    ELSE Accept(a, key, input)

\* parseGenerationBody puts the chosen prompts behind the text.
PanelBody(form) == form.text \o [k \in DOMAIN form.refs |-> PromptRef(form.refs[k])]

PanelCreate ==
    /\ \E key \in PanelKeys, form \in Forms, model \in UNION {DOMAIN o : o \in Offers},
          images \in SeqOf({i \in PictureIds : pictures[i] # "none"}, 1) :
          Create(Panel, key, [text |-> PanelBody(form), images |-> images, model |-> model])
    /\ UNCHANGED <<prompts, pictures, source, disk, cache, offer, asks, requests, handed, events>>

-----------------------------------------------------------------------------
(* A call of image_generate.  Calls of one conversation follow one another; the *)
(* id of the call is its key.                                                   *)

AskImage(c) ==
    /\ asks[c] = Quiet /\ offer # <<>> /\ Len(accepted) < GenerationBound
    /\ \E text \in Authored, media \in SeqOf(Media, 2), model \in DOMAIN offer :
          asks' = [asks EXCEPT ![c] = [stage |-> "media", text |-> text, media |-> media, inputs |-> <<>>,
                                           bytes |-> "", id |-> 0, model |-> model]]
    /\ UNCHANGED <<prompts, pictures, source, disk, cache, offer, accepted, requests, unfair, handed, events>>

\* inputAssetId: an archived copy is not used again; the download may fail.
InputAssetId(c) ==
    /\ asks[c].stage = "media" /\ asks[c].media # <<>>
    /\ LET call == asks[c]
           m == Head(call.media)
       IN IF m \in DOMAIN cache /\ pictures[cache[m]] = "active"
          THEN asks' = [asks EXCEPT ![c] = Taken(call, cache[m])] /\ cache' = cache
          ELSE /\ cache' = [x \in DOMAIN cache \ {m} |-> cache[x]]
               /\ \/ \E u \in DOMAIN Uploads :
                        asks' = [asks EXCEPT ![c].stage = "verify", ![c].bytes = Uploads[u]]
                  \/ Abandon(c)
    /\ UNCHANGED <<prompts, pictures, source, disk, offer, accepted, requests, unfair, handed, events>>

SubmitIntent(c) ==
    /\ asks[c].stage = "media" /\ asks[c].media = <<>>
    /\ LET call == asks[c] IN
       Create(c, <<c, Len(accepted)>>, [text |-> call.text, images |-> call.inputs, model |-> call.model])
    /\ Abandon(c)
    /\ UNCHANGED <<prompts, pictures, source, disk, cache, offer, requests, handed, events>>

-----------------------------------------------------------------------------
(* The worker and the send tool.                                               *)

\* buildImageRequestBody, of the snapshot and what the files hold now.
RequestBody(g) ==
    LET snapshot == accepted[g].snapshot
    IN [model |-> snapshot.model, prompt |-> snapshot.text, n |-> 1,
        input_references |-> [k \in DOMAIN snapshot.images |-> disk[snapshot.images[k]]]]

\* executeItem: the answer is stored as a picture of the generation.
ExecuteItem(g) ==
    /\ g = Len(requests) + 1
    /\ requests' = Append(requests, RequestBody(g))
    /\ \/ UNCHANGED <<pictures, disk, source>>
       \/ \E i \in Fresh :
             /\ pictures' = [pictures EXCEPT ![i] = "active"]
             /\ disk' = [disk EXCEPT ![i] = "whole"]
             /\ source' = [source EXCEPT ![i] = g]
    /\ UNCHANGED <<prompts, cache, offer, asks, accepted, unfair, handed, events>>

\* sendableOutputs and assetContent: of a generation that the conversation asked for.
SendableOutputs(c, g) ==
    IF accepted[g].by # c THEN {} ELSE {i \in PictureIds : source[i] = g}
SendOutputs(c, g) ==
    /\ handed' = handed \cup {<<c, i>> : i \in {i \in SendableOutputs(c, g) : disk[i] = "whole"}}
    /\ handed' # handed
    /\ UNCHANGED <<prompts, pictures, source, disk, cache, offer, asks, accepted, requests, unfair, events>>

PublishOffer ==
    /\ Counted
    /\ offer' \in Offers \ {offer}
    /\ UNCHANGED <<prompts, pictures, source, disk, cache, asks, accepted, requests, unfair, handed>>

\* The process stops: what was under way is gone, rows and files stay.
Interrupt ==
    /\ Counted
    /\ asks' = [a \in Actors |-> Quiet] /\ cache' = [m \in {} |-> 0]
    /\ UNCHANGED <<prompts, pictures, source, disk, offer, accepted, requests, unfair, handed>>

AssetNext ==
    \/ \E p \in Prompts : \/ RemovePrompt(p)
                          \/ \E b \in DOMAIN Bodies : CreatePrompt(p, b) \/ UpdatePrompt(p, b)
    \/ \E i \in PictureIds : RemoveImage(i)
    \/ UploadImage \/ PanelCreate \/ PublishOffer \/ Interrupt
    \/ \E a \in Actors : VerifyBytes(a) \/ WriteFile(a) \/ Persist(a)
    \/ \E c \in Conversations : AskImage(c) \/ InputAssetId(c) \/ SubmitIntent(c)
    \/ \E g \in DOMAIN accepted : ExecuteItem(g) \/ \E c \in Conversations : SendOutputs(c, g)

AssetSpec == AssetInit /\ [][AssetNext]_assetVars

-----------------------------------------------------------------------------

AssetTypeOK ==
    /\ prompts \in [Prompts -> [state : {"none", "active", "archived"}, body : DOMAIN Bodies]]
    /\ pictures \in [PictureIds -> {"none", "active", "archived"}]
    /\ disk \in [PictureIds -> {"none", "part", "whole"}]

\* store and persist: the file is written before its row and outlives it, so every row
\* has its bytes, whatever failed, crashed or was archived in between.
RowsHaveFiles == \A i \in PictureIds : pictures[i] # "none" => disk[i] = "whole"

\* resolveSnapshot, "the single input truth": what is sent upstream is the authored text
\* with the bodies its prompts had when it was accepted, in place and each time, and the
\* bytes of its pictures in the order of their first appearance.
Meant(prompt, a) ==
    \E at \in [DOMAIN prompt -> DOMAIN a.input.text] :
        /\ Range(at) = DOMAIN a.input.text \ Places(a.input.text, "image")
        /\ \A j, k \in DOMAIN at : j < k => at[j] < at[k]
        /\ \A k \in DOMAIN at :
              LET piece == a.input.text[at[k]]
              IN prompt[k] = IF piece.is = "prompt" THEN Words(a.bodies[piece.id]) ELSE piece
\* Where a picture is named: in the text, or behind it.
Named(i, input) ==
    {k \in Places(input.text, "image") : input.text[k].id = i}
        \cup {Len(input.text) + k : k \in {k \in DOMAIN input.images : input.images[k] = i}}
InOrderOfNames(images, input) ==
    /\ \A i \in PictureIds : i \in Range(images) <=> Named(i, input) # {}
    /\ \A j, k \in DOMAIN images : j < k =>
          \E x \in Named(images[j], input) : \A y \in Named(images[k], input) : x < y
RequestsAreMeant ==
    \A g \in DOMAIN requests :
        /\ Meant(requests[g].prompt, accepted[g]) /\ requests[g].n = 1
        /\ \A k \in DOMAIN requests[g].input_references : requests[g].input_references[k] = "whole"
        /\ DOMAIN requests[g].input_references = DOMAIN accepted[g].snapshot.images
        /\ InOrderOfNames(accepted[g].snapshot.images, accepted[g].input)

\* create, "replaying an accepted request must never fail because its references were
\* archived or its model was removed": one generation for each actor and key, and who
\* sends the same request again gets it.
KeysAreHonoured ==
    /\ \A g, h \in DOMAIN accepted :
          accepted[g].by = accepted[h].by /\ accepted[g].key = accepted[h].key => g = h
    /\ unfair = {}

\* sendableOutputs: a conversation is only sent what it asked for.
OutputsGoHome == \A h \in handed : source[h[2]] # 0 /\ accepted[source[h[2]]].by = h[1]

AssetsHold == AssetTypeOK /\ RowsHaveFiles /\ RequestsAreMeant /\ KeysAreHonoured /\ OutputsGoHome

\* bridge.ts:88, "a media row re-used as input within this process resolves to the same
\* asset": two calls that run at the same time both copy it.
MediaIsCopiedOnce ==
    \A c, d \in Conversations : c # d /\ asks[c].stage = "row" /\ asks[d].stage = "row" =>
        Head(asks[c].media) # Head(asks[d].media)
=============================================================================
