----------------------------- MODULE StickerIndex -----------------------------
(* StickerService (src/src/capabilities/stickers.ts): the catalogue of approved *)
(* stickers, synchronised with Telegram at every start, the indexer that has     *)
(* each one analysed, and the search index the analyses are published to.       *)
(* An analysis itself is ModelCalls' business: here it succeeds or fails.       *)
EXTENDS Integers

CONSTANTS Sets,        \* sticker sets (aliases)
          Stickers,    \* stickers (file_unique_id)
          MaxFailures, \* bound on the failures counted for a sticker
          MaxStarts    \* bound on the process starts

ASSUME StickerAssumption ==
    "none" \notin Sets /\ "none" \notin Stickers /\ {MaxFailures, MaxStarts} \subseteq Nat

VARIABLES telegram,   \* [Stickers -> the set it is in at Telegram, or "none"]
          approved,   \* telegram.sticker_sets of the running configuration
          configured, \* sticker_sets.configured
          catalogue,  \* stickers: [Stickers -> row]
          search,     \* sticker_search: the stickers with a row
          todo,       \* the sets still to synchronise, while starting
          lifecycle,      \* "down", "sync", "up"
          indexer,     \* the sticker being analysed, or "none"
          starts,     \* process starts so far
          shown       \* history: [Sets -> stickers of its last good response]

stickerVars == <<telegram, approved, configured, catalogue, search, todo, lifecycle,
                 indexer, starts, shown>>

Row == [set: Sets \cup {"none"}, active: BOOLEAN, due: BOOLEAN,
        index: {"pending", "running", "success", "error"},
        failures: 0..MaxFailures]

StickersTypeOK ==
    /\ telegram \in [Stickers -> Sets \cup {"none"}]
    /\ approved \subseteq Sets /\ configured \subseteq Sets
    /\ catalogue \in [Stickers -> Row]
    /\ search \subseteq Stickers
    /\ todo \subseteq Sets
    /\ lifecycle \in {"down", "sync", "up"}
    /\ indexer \in Stickers \cup {"none"}

\* A sticker Telegram has never shown has no row; "none" stands for it.
StickersInit ==
    /\ telegram \in [Stickers -> Sets \cup {"none"}]
    /\ approved = {} /\ configured = {} /\ search = {} /\ todo = {}
    /\ catalogue = [s \in Stickers |->
           [set |-> "none", active |-> FALSE, index |-> "pending", failures |-> 0,
            due |-> TRUE]]
    /\ lifecycle = "down" /\ indexer = "none" /\ starts = 0
    /\ shown = [t \in Sets |-> {}]

OfSet(set) == {s \in Stickers : catalogue[s].set = set}

------------------------------------------------------------------------------
(* Synchronising at start.                                                     *)

\* The stickers of the sets that left the configuration are deactivated.
Unapprove(sets) ==
    [s \in Stickers |->
        IF catalogue[s].set \in Sets \ sets
        THEN [catalogue[s] EXCEPT !.active = FALSE] ELSE catalogue[s]]

\* sync, its first transaction, under the configuration of this start.
StartStickers ==
    \E sets \in SUBSET Sets :
        /\ lifecycle = "down" /\ starts < MaxStarts
        /\ starts' = starts + 1
        /\ lifecycle' = "sync"
        /\ approved' = sets
        /\ configured' = sets
        /\ catalogue' = Unapprove(sets)
        /\ search' = {s \in search : catalogue[s].set \in sets}
        /\ todo' = sets
        /\ UNCHANGED <<telegram, indexer, shown>>

\* MUTANT of SetResponse: what the set no longer holds stays active.
MergeResponse(set, held) ==
    [s \in Stickers |->
        IF s \in held THEN [catalogue[s] EXCEPT !.set = set, !.active = TRUE]
        ELSE catalogue[s]]

\* #applyStickerSet: the set's rows are deactivated, then those Telegram shows
\* are inserted or activated, their index state kept as it was.
SetResponse(set, held) ==
    [s \in Stickers |->
        IF s \in held THEN [catalogue[s] EXCEPT !.set = set, !.active = TRUE]
        ELSE IF catalogue[s].set = set THEN [catalogue[s] EXCEPT !.active = FALSE]
        ELSE catalogue[s]]

\* One set's response, of the sets in the order of the file: applied, its inactive
\* stickers dropped from the search; or an error, which leaves the set as it was.
SyncSet(set) ==
    /\ lifecycle = "sync" /\ set \in todo
    /\ todo' = todo \ {set}
    /\ \/ LET held == {s \in Stickers : telegram[s] = set} IN
          /\ catalogue' = SetResponse(set, held)
          /\ shown' = [shown EXCEPT ![set] = held]
          /\ search' = {s \in search : catalogue'[s].set = set => catalogue'[s].active}
       \/ UNCHANGED <<catalogue, search, shown>>
    /\ UNCHANGED <<telegram, approved, configured, lifecycle, indexer, starts>>

StartWorker ==
    /\ lifecycle = "sync" /\ todo = {}
    /\ lifecycle' = "up"
    /\ UNCHANGED <<telegram, approved, configured, catalogue, search, todo, indexer, starts, shown>>

------------------------------------------------------------------------------
(* The indexer.                                                                 *)

\* runOne takes pending and failed stickers, the latter once their retry is due.
Eligible(s) ==
    /\ catalogue[s].active
    /\ catalogue[s].set \in configured
    /\ catalogue[s].index \in {"pending", "error"}
    /\ catalogue[s].due

TakeSticker(s) ==
    /\ lifecycle = "up" /\ indexer = "none"
    /\ Eligible(s)
    /\ indexer' = s
    /\ catalogue' = [catalogue EXCEPT ![s].index = "running"]
    /\ UNCHANGED <<telegram, approved, configured, search, todo, lifecycle, starts, shown>>

\* #publishIndex: the search row and the index state in one transaction.
PublishIndex(s) ==
    /\ indexer = s
    /\ indexer' = "none"
    /\ search' = search \cup {s}
    /\ catalogue' = [catalogue EXCEPT ![s].index = "success", ![s].failures = 0,
                                      ![s].due = TRUE]
    /\ UNCHANGED <<telegram, approved, configured, todo, lifecycle, starts, shown>>

FailedRow(row) == [row EXCEPT !.index = "error", !.failures = @ + 1, !.due = FALSE]

\* The analysis failed: counted, and put off for a growing while.
FailIndex(s) ==
    /\ indexer = s /\ catalogue[s].failures < MaxFailures
    /\ indexer' = "none"
    /\ catalogue' = [catalogue EXCEPT ![s] = FailedRow(@)]
    /\ UNCHANGED <<telegram, approved, configured, search, todo, lifecycle, starts, shown>>

RetryDue(s) ==
    /\ ~catalogue[s].due
    /\ catalogue' = [catalogue EXCEPT ![s].due = TRUE]
    /\ UNCHANGED <<telegram, approved, configured, search, todo, lifecycle, indexer, starts, shown>>

\* stop: the indexer's analysis is aborted, which it records as a failure.
Stop ==
    /\ lifecycle = "up"
    /\ indexer # "none" => catalogue[indexer].failures < MaxFailures
    /\ lifecycle' = "down" /\ indexer' = "none" /\ approved' = {}
    /\ catalogue' = IF indexer = "none" THEN catalogue
                    ELSE [catalogue EXCEPT ![indexer] = FailedRow(@)]
    /\ UNCHANGED <<telegram, configured, search, todo, starts, shown>>

\* The process dies: only the database is left, as it is.
CrashIndexer ==
    /\ lifecycle # "down"
    /\ lifecycle' = "down" /\ indexer' = "none" /\ todo' = {} /\ approved' = {}
    /\ UNCHANGED <<telegram, configured, catalogue, search, starts, shown>>

\* Telegram's sets change hands between two starts.
EditSets ==
    /\ lifecycle = "down" /\ starts < MaxStarts
    /\ \E s \in Stickers, set \in Sets \cup {"none"} :
           telegram' = [telegram EXCEPT ![s] = set]
    /\ UNCHANGED <<approved, configured, catalogue, search, todo, lifecycle, indexer, starts, shown>>

StickersNext ==
    \/ StartStickers \/ StartWorker \/ Stop \/ CrashIndexer \/ EditSets
    \/ \E set \in Sets : SyncSet(set)
    \/ \E s \in Stickers : \/ TakeSticker(s) \/ PublishIndex(s) \/ FailIndex(s)
                           \/ RetryDue(s)

StickersSpec == StickersInit /\ [][StickersNext]_stickerVars

------------------------------------------------------------------------------
(* Properties.                                                                 *)

\* What search_stickers may return, by query.
Findable == {s \in search : catalogue[s].active /\ catalogue[s].set \in configured}

\* stickers.ts #applyStickerSet, #search: "only stickers the configuration still
\* approves and whose index succeeded": whatever sets came and went, were renamed
\* or failed to answer, a search finds only stickers of an approved set that were
\* in that set when Telegram last answered.
FindsOnlyApproved ==
    lifecycle = "up" => \A s \in Findable :
        /\ catalogue[s].set \in approved
        /\ catalogue[s].index = "success"
        /\ s \in shown[catalogue[s].set]

\* A search answers with what the operator approved and Telegram has.
SearchIsApproved == StickersTypeOK /\ FindsOnlyApproved

\* "the visual index is recoverable": once the process is up again, a sticker in
\* state running is the one the indexer has at hand.
IndexRecovers ==
    lifecycle = "up" => \A s \in Stickers : catalogue[s].index = "running" => indexer = s

\* "the agent can search the stickers that are approved and indexed": an approved
\* sticker whose index succeeded is found by a search.
IndexedIsFindable ==
    lifecycle = "up" => \A s \in Stickers :
        /\ catalogue[s].active
        /\ catalogue[s].set \in configured
        /\ catalogue[s].index = "success"
        => s \in search

=============================================================================
