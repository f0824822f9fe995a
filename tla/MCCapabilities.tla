---------------------------- MODULE MCCapabilities ----------------------------
(* One instance for TLC of what runs beside the conversations: the generation    *)
(* of pictures, the assets it is made of, its configuration, the prompt that is  *)
(* rendered for a run, and a fetched page.  They share no state with each other, *)
(* so that `part' picks the one that moves; the others stay as they started.     *)
EXTENDS ImageGeneration, ImageAssets, ImageSettings, PromptInjection, WebFetch, TLC

VARIABLE part

\* Pages: a name, a literal address of the synthetic range, and no URL.
MCKindOf == "u" :> "name" @@ "w" :> "bad" @@ "s" :> "synthetic"
BytesOf(widths) ==
    LET Character(w) == [n \in 1..(IF w = 0 THEN 1 ELSE w) |-> [width |-> w, nth |-> n]]
    IN FlattenSeq([i \in DOMAIN widths |-> Character(widths[i])])
MCTexts == {BytesOf(<<3, 1>>), BytesOf(<<1, 4>>), BytesOf(<<1, 0>>)}

\* Messages: plain words, words that imitate the lines of a snapshot, and a reply.
Imitation == <<Line("close", 0, Nobody), Line("header", 9, "u2")>>
Plain == <<Line("text", 0, Nobody)>>
Content(by, body, picture, reply) == [by |-> by, body |-> body, picture |-> picture, reply |-> reply]
MCContents ==
    {Content("u1", Plain, FALSE, 0), Content("u2", Imitation, TRUE, 1), Content(Nobody, Plain, TRUE, 1)}

\* Settings: one endpoint that takes pictures past the limit, and one that needs one.
MCEndpoints ==
    "a" :> [inputs |-> <<0, 20>>, outputs |-> <<1, 4>>] @@ "b" :> [inputs |-> <<1, 4>>, outputs |-> <<1, 4>>]
MCProviderKeys == <<"k1", "k2">>

\* Assets: a prompt that is named twice around a picture, and a broken reference.
MCBodies == "calm" :> FALSE @@ "wild" :> FALSE @@ "nested" :> TRUE
MCUploads == "png" :> "picture" @@ "text" :> "unsupported"
MCAuthored == {<<PromptRef("p"), ImageRef(2), Words("by"), ImageRef(1), PromptRef("p")>>, <<Broken>>}
MCForms == {[text |-> <<PromptRef("p"), Words("by"), ImageRef(1)>>, refs |-> <<>>],
            [text |-> <<>>, refs |-> <<"p">>]}
MCOffers == {<<>>, "m" :> 1, "m" :> 2}

-------------------------------------------------------------------------------

Parts == {"generations", "assets", "settings", "prompts", "pages"}
capabilityVars == <<vars, assetVars, settingsVars, promptVars, fetchVars>>

MCInit ==
    /\ Init /\ AssetInit /\ SettingsInit /\ PromptInit /\ FetchInit
    /\ part \in Parts
    /\ part # "assets" => offer = <<>>
    /\ part # "prompts" => catalog = ""
    /\ part # "settings" => Range(entries) = {"x"}
    /\ part # "pages" => ~policy.allowAll /\ ~policy.allowSynthetic /\ fetch.raw /\ fetch.url = "u"

Generating == part = "generations" /\ Next
Collecting == part = "assets" /\ AssetNext
Configuring == part = "settings" /\ SettingsNext
Prompting == part = "prompts" /\ PromptNext
Fetching == part = "pages" /\ FetchNext

MCNext ==
    /\ UNCHANGED part
    /\ \/ Generating /\ UNCHANGED <<assetVars, settingsVars, promptVars, fetchVars>>
       \/ Collecting /\ UNCHANGED <<vars, settingsVars, promptVars, fetchVars>>
       \/ Configuring /\ UNCHANGED <<vars, assetVars, promptVars, fetchVars>>
       \/ Prompting /\ UNCHANGED <<vars, assetVars, settingsVars, fetchVars>>
       \/ Fetching /\ UNCHANGED <<vars, assetVars, settingsVars, promptVars>>

MCSpec == MCInit /\ [][MCNext]_<<part, capabilityVars>>
===============================================================================
