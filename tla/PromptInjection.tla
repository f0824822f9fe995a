--------------------------- MODULE PromptInjection ---------------------------
(* What an injection shows and what is read back from it                       *)
(* (src/src/context/context-builder.ts, src/src/store/invocation-snapshot.ts): *)
(* the rows that a run froze are selected under a budget and rendered as lines; *)
(* when the transcript was cut or rebuilt, the senders, the messages and the   *)
(* sticker catalog it carries are parsed from those lines again.  A text is    *)
(* the set of its lines, each of which knows its place; a reader sees their    *)
(* order and nothing else of the places.  A size is a number of lines.         *)
EXTENDS Naturals, Sequences, FiniteSets

CONSTANTS
    Senders,           \* Telegram users
    Nobody,            \* no user: the sender of a channel's post
    Contents,          \* what a message may hold: its body, its picture, its reply
    HistoryMessages,   \* agent.history_messages
    Window,            \* lines of the context window
    MinimumLines,      \* the floor of the budget (1024 characters)
    Catalogs,          \* the sticker catalogs there may be; "" is none
    MessageBound, TextBound

\* What a line says: what it is, the id in it, and the sender or the catalog.
Line(is, id, by) == [is |-> is, id |-> id, by |-> by]
Close == Line("close", 0, Nobody)

\* A body is words, which may imitate the lines that are read back.
ASSUME PromptAssumption ==
    /\ Nobody \notin Senders /\ {HistoryMessages, Window, MinimumLines} \subseteq Nat
    /\ \A content \in Contents :
          /\ content.by \in Senders \cup {Nobody} /\ content.picture \in BOOLEAN
          /\ content.reply \in Nat /\ Len(content.body) \in Nat
          /\ \A n \in 1..Len(content.body) : content.body[n].is \in {"text", "close", "header"}

VARIABLES
    messages,     \* the conversation's messages, by message id
    collecting,   \* ids of the batch that collects
    pending,      \* the batches that wait for their injection
    frozen,       \* invocation_messages of the run, by section, in the order of their ids
    transcript,   \* the injections whose texts the agent's messages carry
    live,         \* what the run knows of them: senders, caller, catalog
    catalog,      \* #stickerCatalog()
    running,      \* a run is open
    stable        \* the system prompt of the context speaks of a catalog

promptVars == <<messages, collecting, pending, frozen, transcript, live, catalog,
                running, stable>>

NobodyKnown == [visible |-> {}, caller |-> Nobody, carried |-> ""]
NothingFrozen == [history |-> {}, new |-> {}]

PromptInit ==
    /\ messages = <<>> /\ collecting = {} /\ pending = <<>> /\ frozen = NothingFrozen
    /\ transcript = <<>> /\ live = NobodyKnown
    /\ catalog \in Catalogs /\ stable = (catalog # "") /\ running = FALSE

-----------------------------------------------------------------------------
(* Lines.  Those that Telegram wrote are indented.  A memory, which stands in   *)
(* the runtime state, may imitate its end and a header; one that imitates a     *)
(* catalog would be read as one, and is left out.                              *)

\* The parts of a text: 1, the memories; 2, their end; 3, the catalog; and the messages.
OfHistory == 4
OfNew == 5

Placed(part, id, n, indent, line) ==
    [at |-> <<part, id, n>>, indent |-> indent, is |-> line.is, id |-> line.id, by |-> line.by]
Before(k, l) ==
    \/ k.at[1] < l.at[1]
    \/ k.at[1] = l.at[1] /\ k.at[2] < l.at[2]
    \/ k.at[1] = l.at[1] /\ k.at[2] = l.at[2] /\ k.at[3] < l.at[3]

HeaderOf(part, id) == Placed(part, id, 1, FALSE, Line("header", id, messages[id].by))

\* formatSnapshot: the header, the quote of a message that is not shown with it, the
\* text and the media; `figure' is the number that a picture is attached under.
FormatSnapshot(part, id, inline, figure) ==
    LET m == messages[id]
        Indented(n, line) == Placed(part, id, n, TRUE, line)
    IN {HeaderOf(part, id)}
       \cup (IF m.reply \in inline \cup {0} THEN {} ELSE {Indented(2, Line("quote", m.reply, Nobody))})
       \cup {Indented(n + 2, m.body[n]) : n \in 1..Len(m.body)}
       \cup (IF m.picture THEN {Indented(Len(m.body) + 3, Line("picture", figure, Nobody))} ELSE {})

Closes(text) == {l \in text : l.is = "close" /\ ~l.indent}
Headers(text) == {l \in text : l.is = "header" /\ ~l.indent}

\* Faulty: headers below the first end of a runtime state count.
ParseBelowFirst(text) ==
    {l \in Headers(text) : Closes(text) = {} \/ \E k \in Closes(text) : Before(k, l)}

\* parseSnapshotLines: the headers below the last end of a runtime state.
ParseSnapshotLines(text) == {l \in Headers(text) : \A k \in Closes(text) : Before(k, l)}

CollectInjectedMessageIds(texts) ==
    UNION {{l.id : l \in ParseSnapshotLines(texts[t])} : t \in DOMAIN texts}
CollectVisibleSenders(texts) ==
    (UNION {{l.by : l \in ParseSnapshotLines(texts[t])} : t \in DOMAIN texts}) \ {Nobody}

\* The last number of a set, the last of a text's lines.
LastId(ids) == CHOOSE i \in ids : \A j \in ids : j <= i
LastLine(lines) == CHOOSE l \in lines : \A k \in lines : ~Before(l, k)

\* lastStickerCatalog: of the newest text that carries one.
CatalogLines(text) == {l \in text : l.is = "catalog" /\ ~l.indent}
LastStickerCatalog(texts) ==
    LET with == {t \in DOMAIN texts : CatalogLines(texts[t]) # {}}
    IN IF with = {} THEN "" ELSE LastLine(CatalogLines(texts[LastId(with)])).by
LinesOf(texts) == UNION {{t} \X texts[t] : t \in DOMAIN texts}

-----------------------------------------------------------------------------
(* Freezing.                                                                   *)

From(ids, i) == {j \in ids : j >= i}
Newest(ids, n) == {i \in ids : Cardinality(From(ids, i)) <= n}

\* snapshotInvocation, of a batch that opens a run: the messages before it, up to a
\* number, and its own.
OpeningRows(batch) ==
    [history |-> Newest(DOMAIN messages \ batch, HistoryMessages), new |-> batch]

-----------------------------------------------------------------------------
(* Rendering.                                                                  *)

\* The lines that the budget counts: every reply with its quote.
SizedLines(part, ids) == UNION {FormatSnapshot(part, id, {}, 0) : id \in ids}

\* From the newest row back: those that fit, the first one whatever its size; and then
\* the rows of the history that fit with them.
FittingNew(current, budget) ==
    {i \in current : \/ From(current, i) = {i}
                     \/ Cardinality(SizedLines(OfNew, From(current, i))) <= budget}
UsedLines(older, shown) == Cardinality(SizedLines(OfHistory, older) \cup SizedLines(OfNew, shown))
FittingHistory(history, shown, budget) ==
    {i \in history : UsedLines(From(history, i), shown) <= budget}

Budget(texts) ==
    LET held == Cardinality(LinesOf(texts))
    IN IF Window > held + MinimumLines THEN Window - held ELSE MinimumLines

\* The pictures of some messages, and the number of each, from the first to the last.
Pictured(ids) == {i \in ids : messages[i].picture}
Attached(ids) ==
    [f \in 1..Cardinality(ids) |-> CHOOSE i \in ids : Cardinality({j \in ids : j <= i}) = f]
Figure(ids, id) == Cardinality({j \in Pictured(ids) : j <= id})

\* renderInjection, of a batch, while the agent's messages carry `texts' and the run
\* knows that `carried' is the newest catalog among them; `memories' are lines of the
\* runtime state.
RenderInjection(batch, texts, carried, memories) ==
    LET current == frozen.new \cap batch
        history == frozen.history \ CollectInjectedMessageIds(texts)
        shown == FittingNew(current, Budget(texts))
        older == FittingHistory(history, shown, Budget(texts))
        inline == older \cup shown
        named == {i \in shown : messages[i].by # Nobody}
    IN [text |-> memories \cup {Placed(2, 0, 0, FALSE, Close)}
                 \cup {Placed(3, 0, 0, FALSE, Line("catalog", 0, c)) : c \in {catalog} \ {"", carried}}
                 \cup (UNION {FormatSnapshot(OfHistory, id, inline, 0) : id \in older})
                 \cup (UNION {FormatSnapshot(OfNew, id, inline, Figure(shown, id)) : id \in shown}),
        batch |-> batch, current |-> current, history |-> history, shown |-> shown,
        older |-> older, budget |-> Budget(texts), used |-> UsedLines(older, shown),
        omitted |-> Cardinality(current) - Cardinality(shown), catalog |-> catalog,
        images |-> Attached(Pictured(shown)),
        senders |-> {messages[id].by : id \in inline} \ {Nobody},
        caller |-> IF named = {} THEN Nobody ELSE messages[LastId(named)].by]

\* applyInjection, of one after the other, and the catalog that the run now knows of.
ApplyInjections(injected) ==
    LET calling == {i \in DOMAIN injected : injected[i].caller # Nobody}
    IN [visible |-> live.visible \cup UNION {injected[i].senders : i \in DOMAIN injected},
        caller |-> IF calling = {} THEN live.caller ELSE injected[LastId(calling)].caller,
        carried |-> IF catalog = "" THEN live.carried ELSE catalog]

\* rebuildVisibleState, of the texts that are left: the caller is the sender whose
\* first message of the newest text with senders comes last, if there was a caller.
NamedHeaders(text) == {l \in ParseSnapshotLines(text) : l.by # Nobody}
FirstHeaders(text) ==
    {l \in NamedHeaders(text) : \A k \in NamedHeaders(text) : k.by = l.by => ~Before(k, l)}
CallerOf(texts) ==
    LET with == {t \in DOMAIN texts : NamedHeaders(texts[t]) # {}}
    IN IF with = {} THEN Nobody ELSE LastLine(FirstHeaders(texts[LastId(with)])).by
RebuildVisibleState(texts, caller) ==
    [visible |-> CollectVisibleSenders(texts),
     caller |-> IF caller = Nobody THEN Nobody ELSE CallerOf(texts),
     carried |-> LastStickerCatalog(texts)]

TextsOf(ts) == [t \in DOMAIN ts |-> ts[t].text]

-----------------------------------------------------------------------------

\* A message arrives, into the batch or past a gate that keeps it out of one.
Ingest(content, batched) ==
    /\ Len(messages) < MessageBound /\ content.reply <= Len(messages)
    /\ messages' = Append(messages, content)
    /\ collecting' = IF batched THEN collecting \cup {Len(messages) + 1} ELSE collecting
    /\ UNCHANGED <<pending, frozen, transcript, live, catalog, running, stable>>

\* The context starts anew when the prompt it was built with has changed.
OpenRun ==
    /\ ~running /\ collecting # {}
    /\ running' = TRUE /\ stable' = (catalog # "")
    /\ frozen' = OpeningRows(collecting)
    /\ pending' = <<collecting>> /\ collecting' = {}
    /\ transcript' = IF stable' = stable THEN transcript ELSE <<>>
    /\ live' = RebuildVisibleState(TextsOf(transcript'), Nobody)
    /\ UNCHANGED <<messages, catalog>>

AttachBatch ==
    /\ running /\ collecting # {} /\ Len(pending) < 2
    /\ frozen' = [frozen EXCEPT !.new = @ \cup collecting]
    /\ pending' = Append(pending, collecting) /\ collecting' = {}
    /\ UNCHANGED <<messages, transcript, live, catalog, running, stable>>

\* injectPending: every batch is rendered before the first is in the transcript, and
\* after the first the run knows that the catalog is carried.
InjectPending(memories) ==
    /\ running /\ pending # <<>> /\ Len(transcript) + Len(pending) <= TextBound
    /\ LET Carried(i) == IF i = 1 \/ catalog = "" THEN live.carried ELSE catalog
           injected == [i \in DOMAIN pending |->
                           RenderInjection(pending[i], TextsOf(transcript), Carried(i), memories)]
       IN transcript' = transcript \o injected /\ live' = ApplyInjections(injected)
    /\ pending' = <<>>
    /\ UNCHANGED <<messages, collecting, frozen, catalog, running, stable>>

\* The collection drops the oldest texts.
Collect ==
    /\ running /\ Len(transcript) > 1
    /\ \E first \in 2..Len(transcript) :
          /\ transcript' = SubSeq(transcript, first, Len(transcript))
          /\ live' = RebuildVisibleState(TextsOf(transcript'), live.caller)
    /\ UNCHANGED <<messages, collecting, pending, frozen, catalog, running, stable>>

EndRun ==
    /\ running
    /\ running' = FALSE /\ frozen' = NothingFrozen /\ live' = NobodyKnown
    /\ pending' = <<>> /\ collecting' = collecting \cup UNION {pending[i] : i \in DOMAIN pending}
    /\ UNCHANGED <<messages, transcript, catalog, stable>>

ChangeCatalog ==
    /\ \E c \in Catalogs \ {catalog} : catalog' = c
    /\ UNCHANGED <<messages, collecting, pending, frozen, transcript, live, running, stable>>

\* What the model noted of the end of a runtime state and of a message.
Memories ==
    {{}, {Placed(1, 0, 1, FALSE, Close), Placed(1, 0, 2, FALSE, Line("header", 1, Nobody))}}

PromptNext ==
    \/ \E content \in Contents, batched \in BOOLEAN : Ingest(content, batched)
    \/ OpenRun \/ AttachBatch \/ Collect \/ EndRun \/ ChangeCatalog
    \/ \E memories \in Memories : InjectPending(memories)

PromptSpec == PromptInit /\ [][PromptNext]_promptVars

-----------------------------------------------------------------------------

PromptTypeOK ==
    /\ messages \in Seq(Contents) /\ collecting \subseteq DOMAIN messages
    /\ live.visible \subseteq Senders /\ live.caller \in Senders \cup {Nobody}
    /\ catalog \in Catalogs /\ {running, stable} \subseteq BOOLEAN

\* collectVisibleSenders, lastStickerCatalog: what a run that goes on knows is what a
\* rebuilt one reads back from the texts, whatever messages and memories imitate.
RowsReadBack(x) ==
    ParseSnapshotLines(x.text)
        = {HeaderOf(OfHistory, id) : id \in x.older} \cup {HeaderOf(OfNew, id) : id \in x.shown}
ReadsBack ==
    /\ \A t \in DOMAIN transcript : RowsReadBack(transcript[t])
    /\ running =>
          /\ live.visible = CollectVisibleSenders(TextsOf(transcript))
          /\ live.carried = LastStickerCatalog(TextsOf(transcript))

\* renderInjection: of a batch the newest messages are shown, at least one, and the
\* rest is counted; of the history only the newest that still fits.
IsNewestOf(some, all) == some \subseteq all /\ \A i \in some, j \in all : j >= i => j \in some
NewestFit(x) ==
    /\ x.current = x.batch /\ x.shown # {}
    /\ x.omitted = Cardinality(x.current \ x.shown)
    /\ x.used <= x.budget \/ (Cardinality(x.shown) = 1 /\ x.older = {})
    /\ IsNewestOf(x.shown, x.current) /\ IsNewestOf(x.older, x.history)
NewestAreShown == \A t \in DOMAIN transcript : NewestFit(transcript[t])

\* "A reply to a message rendered in this same batch needs no quoted copy of it", and
\* any other reply has one.
RepliesResolve(x) ==
    \A id \in x.older \cup x.shown :
        \/ messages[id].reply \in {0} \cup x.older \cup x.shown
        \/ \E l \in x.text : l.is = "quote" /\ l.id = messages[id].reply /\ l.at[2] = id
QuotesResolve == \A t \in DOMAIN transcript : RepliesResolve(transcript[t])

\* The attachments are the numbered pictures of the new messages, in their order.
PicturesPair(x) ==
    LET figures == {l \in x.text : l.is = "picture" /\ l.id > 0}
    IN /\ {l.id : l \in figures} = DOMAIN x.images
       /\ \A l \in figures : x.images[l.id] = l.at[2]
       /\ \A f, g \in DOMAIN x.images : f < g => x.images[f] < x.images[g]
FiguresPair == \A t \in DOMAIN transcript : PicturesPair(transcript[t])

\* The catalog that the texts up to one carry is the one that was current then, or
\* none of them is left that carried it: a changed one was rendered again.
CatalogIsCurrent ==
    \A t \in DOMAIN transcript :
        transcript[t].catalog # "" =>
            LastStickerCatalog(TextsOf(SubSeq(transcript, 1, t))) \in {"", transcript[t].catalog}

\* Of everything a run injects and reads back.
InjectionsAreFaithful ==
    /\ PromptTypeOK
    /\ ReadsBack /\ NewestAreShown /\ QuotesResolve /\ FiguresPair /\ CatalogIsCurrent

\* agent-runtime.ts:454: the caller after a collection is who spoke last before it.
CallerSurvives ==
    running /\ live.caller # Nobody /\ transcript # <<>> =>
        LET heads == NamedHeaders(transcript[Len(transcript)].text)
        IN heads # {} => live.caller = LastLine(heads).by
=============================================================================
