------------------------ MODULE ConversationContext ------------------------
(***************************************************************************)
(* The continuous context of one conversation.  Its canonical history is   *)
(* in conversation_contexts, context_messages and context_refs; a run      *)
(* works on a Pi agent's transcript in memory, through a header it read    *)
(* when it opened.  The transcript may stay cached between runs.  GC drops *)
(* the head of both at a turn boundary, /cut_topic drops the history under *)
(* a run it has only just told to stop, a changed prompt rebuilds it, the  *)
(* cache evicts the agent, and the process may crash.                      *)
(*                                                                         *)
(* A message is its row: the transcript is a sequence of row numbers, with *)
(* 0 for a message that is not persisted.  Text, images and tokens are     *)
(* left out; a token estimate is any value it may have.                    *)
(***************************************************************************)
EXTENDS Naturals, Sequences, FiniteSets, SequencesExt, FiniteSetsExt

CONSTANTS
    Batches,           \* batches to inject, each with one sender
    Completions,       \* the batches that are completion receipts
    Prompts,           \* stable system prompts (their hashes)
    SendsTarget,       \* agent.context.retained_sends_target
    SendsMax,          \* agent.context.retained_sends_max
    TokenBudgets,      \* how many rows may fit the soft token budget
    MaxCalls,          \* bound: tool calls of one assistant message
    MaxSeq,            \* bound: rows
    None

ASSUME ContextAssumptions ==
    /\ Completions \subseteq Batches
    /\ {SendsTarget, SendsMax, MaxCalls, MaxSeq} \subseteq Nat
    /\ TokenBudgets \subseteq Nat
    /\ SendsTarget <= SendsMax
    /\ None \notin Batches \cup Prompts

VARIABLES
    row,               \* conversation_contexts
    rows,              \* context_messages
    refs,              \* context_refs: the source_seq of a ref, 0 if absent
    expired,           \* batches whose media refs are past their TTL
    injected,          \* batches whose row was written
    cached,            \* the runtime's cache holds the agent
    transcript,        \* transcriptSeqs, and so Agent.state.messages
    header,            \* the live ContextHeader of the run
    run                \* the run of this conversation

vars == <<row, rows, refs, expired, injected, cached, transcript, header, run>>

Seqs == 1..MaxSeq
Kinds == {"reply", "media", "sticker"}
Row == [role : {"none", "user", "assistant", "toolResult"},
        batch : Batches \cup {None}, calls : 0..MaxCalls, answers : 0..MaxSeq,
        checkpoint : BOOLEAN, send : BOOLEAN, evicted : BOOLEAN, late : BOOLEAN]
NoRow == [role |-> "none", batch |-> None, calls |-> 0, answers |-> 0,
          checkpoint |-> FALSE, send |-> FALSE, evicted |-> FALSE, late |-> FALSE]
Header == [head : 1..(MaxSeq + 1), next : 1..(MaxSeq + 1), sends : 0..MaxSeq]
Phases == {"idle", "loading", "model", "tools", "boundary", "next"}
NoRun == [phase |-> "idle", batch |-> None, open |-> 0, tools |-> FALSE,
          aborted |-> FALSE, cut |-> FALSE, visible |-> {}, caller |-> None]

TypeOK ==
    /\ row \in [head : 1..(MaxSeq + 1), next : 1..(MaxSeq + 1),
                sends : 0..MaxSeq, hash : Prompts \cup {None}]
    /\ rows \in [Seqs -> Row]
    /\ refs \in [Kinds -> [Batches -> 0..(MaxSeq + 1)]]
    /\ expired \subseteq Batches
    /\ injected \subseteq Batches
    /\ cached \in BOOLEAN
    /\ transcript \in Seq(0..MaxSeq)
    /\ header \in Header
    /\ run \in [phase : Phases, batch : Batches \cup {None}, open : 0..MaxCalls,
                tools : BOOLEAN, aborted : BOOLEAN, cut : BOOLEAN,
                visible : SUBSET Batches, caller : Batches \cup {None}]

Init ==
    /\ row = [head |-> 1, next |-> 1, sends |-> 0, hash |-> None]
    /\ rows = [s \in Seqs |-> NoRow]
    /\ refs = [k \in Kinds |-> [b \in Batches |-> 0]]
    /\ expired = {}
    /\ injected = {}
    /\ cached = FALSE
    /\ transcript = <<>>
    /\ header = [head |-> 1, next |-> 1, sends |-> 0]
    /\ run = NoRun

-----------------------------------------------------------------------------
(* The store and the codec.                                                *)

\* #retainedRange: the rows a header sees, in order
NoEvictedFilter(rs, h) == {s \in Seqs : s >= h.head /\ rs[s].role # "none"}
RetainedRange(rs, h) ==
    {s \in Seqs : s >= h.head /\ rs[s].role # "none" /\ ~rs[s].evicted}

Retained(rs, h) ==
    LET range == RetainedRange(rs, h)
    IN  [i \in 1..Cardinality(range) |->
            CHOOSE s \in range : Cardinality({t \in range : t < s}) = i - 1]

\* isRenderable: starts on a user turn, and every result has its call ahead
IsRenderable(rs, t) ==
    /\ t # <<>>
    /\ t[1] # 0
    /\ rs[t[1]].role = "user"
    /\ \A i \in DOMAIN t :
          (t[i] # 0 /\ rs[t[i]].role = "toolResult") =>
              \E j \in 1..(i - 1) : t[j] = rs[t[i]].answers

\* append
Append1(r, h, message) ==
    /\ h.next \in Seqs
    /\ rows' = [rows EXCEPT ![h.next] = message]
    /\ row' = [r EXCEPT !.next = h.next + 1,
                        !.sends = IF message.send THEN h.sends + 1 ELSE @]
    /\ header' = [h EXCEPT !.next = @ + 1,
                           !.sends = IF message.send THEN @ + 1 ELSE @]

\* evicted_at of the rows below a target, or from a head on
EvictBelow(rs, target) ==
    [s \in Seqs |-> IF s < target /\ rs[s].role # "none"
                    THEN [rs[s] EXCEPT !.evicted = TRUE] ELSE rs[s]]
EvictFrom(rs, head) ==
    [s \in Seqs |-> IF s >= head /\ rs[s].role # "none"
                    THEN [rs[s] EXCEPT !.evicted = TRUE] ELSE rs[s]]

\* advanceHead drops the refs whose source message goes; clear drops them all
RefsAbove(rf, target) ==
    [k \in Kinds |-> [b \in Batches |-> IF rf[k][b] < target THEN 0 ELSE rf[k][b]]]
NoRefs == [k \in Kinds |-> [b \in Batches |-> 0]]

\* mediaRef reuses an unexpired reference, replyRef moves its source
MediaRef(rf, b, seq) ==
    [rf EXCEPT !["media"][b] = IF @ # 0 /\ b \notin expired THEN @ ELSE seq]
ReplyRef(rf, b, seq) == [rf EXCEPT !["reply"][b] = seq]

\* renderInjection: every media of a snapshot and every new message gets its ref
PrepareSnapshot(rf, b, seq) == MediaRef(rf, b, seq)
RenderInjection(rf, b, seq) == ReplyRef(PrepareSnapshot(rf, b, seq), b, seq)

\* resolve: the authorization rule of a reference, before its TTL
Resolve(h, k, b) == refs[k][b] # 0 /\ refs[k][b] >= h.head

-----------------------------------------------------------------------------
(* Opening a run.                                                          *)

\* open: the row the run starts from, [row, rows, refs, rebuilt]
Open(hash) ==
    IF row.hash \in {None, hash}
    THEN [row |-> [row EXCEPT !.hash = hash], rows |-> rows, refs |-> refs,
          rebuilt |-> FALSE]
    ELSE [row |-> [head |-> 1, next |-> 1, sends |-> 0, hash |-> hash],
          rows |-> [s \in Seqs |-> NoRow], refs |-> NoRefs, rebuilt |-> TRUE]

\* #alignedRetained: the store after it, [head, rows, refs], and what to seed
UnalignedRetained(o) ==
    [head |-> o.row.head, rows |-> o.rows, refs |-> o.refs,
     seed |-> Retained(o.rows, o.row)]
AlignedRetained(o) ==
    LET kept == Retained(o.rows, o.row)
        users == {i \in DOMAIN kept : o.rows[kept[i]].role = "user"}
        boundary == IF users = {} THEN 0 ELSE kept[Min(users)]
        moved == EvictBelow(o.rows, boundary)
        realigned == Retained(moved, [o.row EXCEPT !.head = boundary])
    IN  IF kept = <<>> \/ IsRenderable(o.rows, kept)
        THEN [head |-> o.row.head, rows |-> o.rows, refs |-> o.refs, seed |-> kept]
        ELSE IF boundary > o.row.head /\ IsRenderable(moved, realigned)
        THEN [head |-> boundary, rows |-> moved,
              refs |-> RefsAbove(o.refs, boundary), seed |-> realigned]
        ELSE [head |-> o.row.next, rows |-> EvictFrom(o.rows, o.row.head),
              refs |-> NoRefs, seed |-> <<>>]

BatchesOf(rs, t) == {rs[t[i]].batch : i \in {j \in DOMAIN t : t[j] # 0}} \ {None}
SendersOf(rs, t) == BatchesOf(rs, t) \ Completions

\* applyInjection: senders accumulate, a completion has no caller
ApplyInjection(r, b) ==
    [r EXCEPT !.batch = b, !.phase = "loading",
              !.visible = @ \cup ({b} \ Completions),
              !.caller = IF b \in Completions THEN None ELSE b]

\* #createCachedAgent, or the cached agent as it is
SeededAgent(o) ==
    IF cached /\ ~o.rebuilt
    THEN [head |-> o.row.head, rows |-> o.rows, refs |-> o.refs, seed |-> transcript]
    ELSE AlignedRetained(o)

\* #runInvocation up to the first await: open the context, take the cached
\* agent or seed one, and render the opening batch
OpenRun(b, hash) ==
    LET o == Open(hash)
        a == SeededAgent(o)
    IN  /\ run.phase = "idle"
        /\ b \notin injected
        /\ row' = [o.row EXCEPT !.head = a.head]
        /\ rows' = a.rows
        /\ refs' = RenderInjection(a.refs, b, o.row.next)
        /\ transcript' = a.seed
        /\ header' = [head |-> a.head, next |-> o.row.next, sends |-> o.row.sends]
        /\ cached' = TRUE
        /\ run' = ApplyInjection([NoRun EXCEPT !.visible = SendersOf(a.rows, a.seed)], b)
        /\ expired' = expired \ {b}
        /\ UNCHANGED injected

-----------------------------------------------------------------------------
(* The loop.                                                               *)

Message(role) == [NoRow EXCEPT !.role = role, !.late = run.cut]

\* #persistMessage of a message that is encoded
Persist(message) ==
    /\ Append1(row, header, message)
    /\ transcript' = Append(transcript, header.next)

\* the batch's user message reaches the transcript: a checkpoint.  agent.abort()
\* before the prompt starts stops nothing, so an aborted run may get here
LoadImages ==
    /\ run.phase = "loading"
    /\ Persist([Message("user") EXCEPT !.batch = run.batch, !.checkpoint = TRUE])
    /\ injected' = injected \cup {run.batch}
    /\ run' = [run EXCEPT !.phase = "model"]
    /\ UNCHANGED <<refs, expired, cached>>

\* an assistant message; encodeContextMessage drops one without visible content
Respond(calls) ==
    /\ run.phase = "model"
    /\ ~run.aborted
    /\ Persist([Message("assistant") EXCEPT !.calls = calls])
    /\ run' = [run EXCEPT !.phase = IF calls > 0 THEN "tools" ELSE "boundary",
                          !.open = calls, !.tools = calls > 0]
    /\ UNCHANGED <<refs, expired, injected, cached>>

RespondNothing ==
    /\ run.phase = "model"
    /\ ~run.aborted
    /\ transcript' = Append(transcript, 0)
    /\ run' = [run EXCEPT !.phase = "boundary", !.tools = FALSE]
    /\ UNCHANGED <<row, rows, refs, expired, injected, cached, header>>

\* registerStickerRef: the newest row, as the header knows it
MintSticker ==
    /\ run.phase = "tools"
    /\ refs' = [refs EXCEPT !["sticker"][run.batch] =
                   IF header.next > header.head THEN header.next - 1 ELSE header.head]
    /\ UNCHANGED <<row, rows, expired, injected, cached, transcript, header, run>>

\* a tool result; a successful send is counted
LastCall == Max({s \in ToSet(transcript) : s # 0 /\ rows[s].role = "assistant"})
ToolResult(send) ==
    /\ run.phase = "tools"
    /\ Persist([Message("toolResult") EXCEPT !.answers = LastCall, !.send = send])
    /\ run' = [run EXCEPT !.open = @ - 1,
                          !.phase = IF run.open = 1 THEN "boundary" ELSE @]
    /\ UNCHANGED <<refs, expired, injected, cached>>

CountSends(window, seq) == Cardinality({s \in window : s >= seq /\ rows[s].send})

\* planContextGc: where the retained segment would start; 0 for no collection
PlanContextGc(pressure, budget) ==
    LET window == RetainedRange(rows, header)
        checkpoints == {s \in window : rows[s].checkpoint /\ s > header.head}
        fits(s) == Cardinality({t \in window : t >= s}) <= budget
        enough == {s \in checkpoints : /\ CountSends(window, s) >= SendsTarget
                                       /\ pressure => fits(s)}
        small == {s \in checkpoints : fits(s)}
        target == IF enough # {} THEN Max(enough)
                  ELSE IF small # {} THEN Max(small) ELSE 0
        index == {i \in DOMAIN transcript : transcript[i] = target}
    IN  IF \/ CountSends(window, header.head) <= SendsMax /\ ~pressure
           \/ target = 0
           \/ index = {}
           \/ index = {1}
           \/ ~IsRenderable(rows, SubSeq(transcript, Min(index), Len(transcript)))
        THEN 0 ELSE target

\* rebuildVisibleState after a collection
KeepVisible(r, rs, t) == r
RebuildVisible(r, rs, t) ==
    LET senders == SendersOf(rs, t)
        newest == {i \in DOMAIN t : t[i] # 0 /\ rs[t[i]].batch \in senders}
    IN  [r EXCEPT !.visible = senders,
                  !.caller = IF @ = None \/ r.batch \in Completions THEN @
                             ELSE IF newest = {} THEN None
                             ELSE rs[t[Max(newest)]].batch]

\* #maybeCollect: head_seq, the rows, the refs, the transcript and the visible
\* senders move together
Collect(pressure, budget) ==
    LET target == PlanContextGc(pressure, budget)
        index == CHOOSE i \in DOMAIN transcript : transcript[i] = target
        retained == SubSeq(transcript, index, Len(transcript))
    IN  /\ run.phase = "boundary"
        /\ IF target = 0
           THEN /\ run' = [run EXCEPT !.phase = "next"]
                /\ UNCHANGED <<row, rows, refs, transcript, header>>
           ELSE /\ row' = [row EXCEPT !.head = target]
                /\ rows' = EvictBelow(rows, target)
                /\ refs' = RefsAbove(refs, target)
                /\ transcript' = retained
                /\ header' = [header EXCEPT !.head = target]
                /\ run' = RebuildVisible([run EXCEPT !.phase = "next"], rows, retained)
        /\ UNCHANGED <<expired, injected, cached>>

\* shouldStopAfterTurn: the next turn after tools, a nudge, a new batch
Continue ==
    /\ run.phase = "next"
    /\ run.tools
    /\ run' = [run EXCEPT !.phase = "model"]
    /\ UNCHANGED <<row, rows, refs, expired, injected, cached, transcript, header>>

Nudge ==
    /\ run.phase = "next"
    /\ ~run.tools
    /\ Persist(Message("user"))
    /\ run' = [run EXCEPT !.phase = "model"]
    /\ UNCHANGED <<refs, expired, injected, cached>>

Inject(b) ==
    /\ run.phase = "next"
    /\ b \notin injected
    /\ refs' = RenderInjection(refs, b, header.next)
    /\ run' = ApplyInjection(run, b)
    /\ expired' = expired \ {b}
    /\ UNCHANGED <<row, rows, injected, cached, transcript, header>>

\* the finally of a run: a failed one leaves no agent behind
KeepAgent(failed) == cached
AgentKept(failed) == cached /\ ~failed
EndRun(failed) ==
    /\ run.phase # "idle"
    /\ ~failed => run.phase = "next"
    /\ cached' = AgentKept(failed)
    /\ transcript' = IF cached' THEN transcript ELSE <<>>
    /\ run' = NoRun
    /\ UNCHANGED <<row, rows, refs, expired, injected, header>>

\* a message_end whose append throws: the agent has a message the history lacks
PersistFails ==
    /\ run.phase \in {"loading", "model", "tools"}
    /\ header.next \in Seqs
    /\ cached' = AgentKept(TRUE)
    /\ transcript' = IF cached' THEN Append(transcript, header.next) ELSE <<>>
    /\ run' = NoRun
    /\ UNCHANGED <<row, rows, refs, expired, injected, header>>

-----------------------------------------------------------------------------
(* The others.                                                             *)

\* #cutTopic: tell the run to stop, clear through a fresh header, forget
CutTopic ==
    /\ row.hash # None
    /\ row' = [row EXCEPT !.head = row.next]
    /\ rows' = EvictFrom(rows, row.head)
    /\ refs' = NoRefs
    /\ cached' = FALSE
    /\ run' = IF run.phase = "idle" THEN run
              ELSE [run EXCEPT !.aborted = TRUE, !.cut = TRUE]
    /\ transcript' = IF run.phase = "idle" THEN <<>> ELSE transcript
    /\ UNCHANGED <<expired, injected, header>>

\* abortConversation, abortAll and the wall clock
AbortRun ==
    /\ run.phase # "idle"
    /\ ~run.aborted
    /\ run' = [run EXCEPT !.aborted = TRUE]
    /\ UNCHANGED <<row, rows, refs, expired, injected, cached, transcript, header>>

\* #evictOverflow: another conversation's agent took the place
EvictAgent ==
    /\ cached
    /\ cached' = FALSE
    /\ transcript' = IF run.phase = "idle" THEN <<>> ELSE transcript
    /\ UNCHANGED <<row, rows, refs, expired, injected, header, run>>

\* media references reach their TTL, and the next rendering mints new ones
Expire(b) ==
    /\ b \notin expired
    /\ refs["media"][b] # 0
    /\ expired' = expired \cup {b}
    /\ UNCHANGED <<row, rows, refs, injected, cached, transcript, header, run>>

Crash ==
    /\ cached' = FALSE
    /\ transcript' = <<>>
    /\ run' = NoRun
    /\ UNCHANGED <<row, rows, refs, expired, injected, header>>

Next ==
    \/ \E b \in Batches :
          \/ \E hash \in Prompts : OpenRun(b, hash)
          \/ Inject(b)
          \/ Expire(b)
    \/ LoadImages
    \/ \E calls \in 0..MaxCalls : Respond(calls)
    \/ RespondNothing
    \/ MintSticker
    \/ \E send \in BOOLEAN : ToolResult(send)
    \/ \E pressure \in BOOLEAN, budget \in TokenBudgets : Collect(pressure, budget)
    \/ Continue
    \/ Nudge
    \/ \E failed \in BOOLEAN : EndRun(failed)
    \/ PersistFails
    \/ CutTopic
    \/ AbortRun
    \/ EvictAgent
    \/ Crash

Spec == Init /\ [][Next]_vars
-----------------------------------------------------------------------------
(* Properties.                                                             *)

\* The persisted messages of a transcript are these rows, in order.
Shows(t, range) ==
    LET kept == {i \in DOMAIN t : t[i] # 0}
    IN  /\ {t[i] : i \in kept} = range
        /\ \A i, j \in kept : i < j => t[i] < t[j]

\* The in-memory transcript is the canonical history: while a run was not cut
\* under its feet, and between runs while the agent is cached, the persisted
\* messages of the agent are exactly the retained rows, in order.  Appends, GC,
\* realignment, cache reuse and failed persists must all keep the two together
\* (#persistMessage, #maybeCollect, the finally of #runInvocation).
CanonicalTranscript ==
    (IF run.phase = "idle" THEN cached ELSE ~run.cut) =>
        Shows(transcript, RetainedRange(rows, row))

\* What a run sends to the provider starts on a user turn and holds no tool
\* result without its call, also after a cut, a GC or a crash left the history
\* in the middle of a turn (isRenderable, #alignedRetained).
Replayable == run.phase = "model" => IsRenderable(rows, transcript)

\* A run is the only writer: its header names the row the table would write
\* next and the send it would count, and lags behind the head only after a cut.
HeaderAgrees ==
    run.phase # "idle" =>
        /\ header.next = row.next
        /\ header.sends = row.sends
        /\ header.head <= row.head
        /\ ~run.cut => header.head = row.head

\* A reference that the next run can resolve comes from a message it can see:
\* eviction revokes it (resolve, advanceHead, clear).
RefsBacked ==
    \A k \in Kinds, b \in Batches :
        (Resolve(row, k, b) /\ refs[k][b] < row.next) => ~rows[refs[k][b]].evicted

BatchRows == {s \in row.head..MaxSeq : /\ rows[s].checkpoint
                                       /\ ~rows[s].evicted
                                       /\ ~rows[s].late}

\* As long as a batch is in the retained history its messages can be replied to:
\* collections revoke reply references no earlier than the messages themselves.
RepliesResolve == \A s \in BatchRows : Resolve(row, "reply", rows[s].batch)

\* The tables, the header a run carries and its transcript tell one history, and
\* references reach as far as it does, and no further.
HistoryAgrees ==
    TypeOK /\ CanonicalTranscript /\ HeaderAgrees /\ RefsBacked /\ RepliesResolve

\* The senders a run may set alarms for are those of the batches it can see, and
\* the authority of a round is that of its own batch: a receipt has none, and a
\* collection does not give it the authority of an older speaker.
RoundAuthority ==
    run.phase \in {"model", "tools", "boundary", "next"} =>
        /\ run.visible = SendersOf(rows, transcript)
        /\ run.caller = IF run.batch \in Completions THEN None ELSE run.batch

\* Dropped history stays dropped: under one prompt the head only moves forward
\* and an evicted row is never retained again, whatever header writes.
HistoryOnlyShrinks ==
    [][row'.hash = row.hash =>
          /\ row'.head >= row.head
          /\ \A s \in Seqs : rows[s].evicted => s < row'.head \/ rows'[s].evicted]_vars
=============================================================================
