----------------------------- MODULE AdminRecords -----------------------------
(* What the panel reads, page by page, and cleans up, while the bot goes on     *)
(* writing it: the audit lists (src/src/ingress/admin/audit.ts), the memories   *)
(* that agents and the panel share (context/memory.ts, memory-admin.ts), the    *)
(* sweep of the recorded model payloads (developer-admin.ts) and the operators  *)
(* of the bot (store/admins.ts).  Each statement is synchronous; time passes    *)
(* and the bot writes between two requests and between two batches of a sweep.  *)
EXTENDS Integers, Sequences, FiniteSets, FiniteSetsExt

CONSTANTS Contexts,       \* conversations with a context, by id
          MemoryIds,      \* memory ids, handed out in no order
          MemoryRooms,    \* conversations that may have memories
          MemoryPage,     \* the limit parameter of a listing
          SweepBatch,     \* rows a sweep clears in one batch
          Operators, Seeds,  \* Telegram users; those of telegram.admins
          RecordBound, MomentBound  \* bounds of the exploration

ASSUME RecordsAssumption ==
    /\ IsFiniteSet(Contexts)
    /\ Contexts \subseteq Nat \ {0} /\ MemoryIds \subseteq Nat \ {0}
    /\ {MemoryPage, SweepBatch} \subseteq Nat \ {0}
    /\ {RecordBound, MomentBound} \subseteq Nat
    /\ Seeds \subseteq Operators

AuditLists == {"invocations", "messages", "stickers"}

VARIABLES audit,     \* [AuditLists -> for each row in order, whether it passes the filter]
          contexts,  \* [Contexts -> last_active_at]
          memories,  \* the memories stored, [id, room, expires]
          moment,    \* the clock
          walk,      \* an operator who turns the pages of a list
          payloads,  \* model_calls: whether a payload is recorded, and whether it may still be
          sweep,     \* the clear in progress, or Idle
          operators, \* bot_admins
          gone       \* history: how a memory ended, and the operators that were removed

recordVars == <<audit, contexts, memories, moment, walk, payloads, sweep, operators, gone>>

NoWalk == [list |-> "none", cursor |-> 0, steady |-> {}, listed |-> <<>>, ended |-> FALSE]
NoSweep == [upper |-> 0, cursor |-> 0, batches |-> 0, owed |-> {}, running |-> FALSE]

RecordsInit ==
    /\ audit = [l \in AuditLists |-> <<>>]
    /\ contexts = [c \in Contexts |-> 0]
    /\ memories = {} /\ moment = 0
    /\ walk = NoWalk /\ sweep = NoSweep
    /\ payloads = <<>>
    /\ operators = Seeds
    /\ gone = [memories |-> {}, operators |-> {}]

-------------------------------------------------------------------------------
(* Lists.  Each is read by key, the highest first, from below a cursor; the key *)
(* of a row is its id, or for a context when it was last active, then its id.   *)

\* The rows that pass the filter now
AuditKeys(l) == {i \in DOMAIN audit[l] : audit[l][i]}

\* listInvocations, by chat or state
InvocationKeys == AuditKeys("invocations")

\* listMessages, by chat or text
MessageKeys == AuditKeys("messages")

\* listStickers, by set, state or text
StickerKeys == AuditKeys("stickers")

\* listConversationContexts, encodeContextCursor
ContextKey(c) == contexts[c] * (Max(Contexts) + 1) + c
ContextKeys == {ContextKey(c) : c \in Contexts}

\* listMemories with state=active
MemoryKeys == {m.id : m \in {x \in memories : x.expires > moment}}

KeysOf(list) ==
    CASE list = "contexts"    -> ContextKeys
      [] list = "memories"    -> MemoryKeys
      [] list = "invocations" -> InvocationKeys
      [] list = "messages"    -> MessageKeys
      [] list = "stickers"    -> StickerKeys

\* The rows that these keys belong to
RowsOf(list, keys) == IF list = "contexts" THEN {c \in Contexts : ContextKey(c) \in keys} ELSE keys

\* appendCursor: no cursor asks for the first page.
Below(keys, cursor) == IF cursor = 0 THEN keys ELSE {k \in keys : k < cursor}

\* page: one row more than the limit is read, to know whether there is another page.
Visible(keys) == {k \in keys : Cardinality({j \in keys : j > k}) < MemoryPage}

\* Faulty: the cursor is the row that was read only to know of the next page.
NextCursorBeyond(keys) ==
    IF Cardinality(keys) > MemoryPage THEN Max(keys \ Visible(keys)) ELSE 0

NextCursor(keys) ==
    IF Cardinality(keys) > MemoryPage THEN Min(Visible(keys)) ELSE 0

Lists == AuditLists \cup {"contexts", "memories"}

\* The route of a list: the operator opens it, or asks for its next page.
TurnPage(list) ==
    /\ ~walk.ended /\ walk.list \in {"none", list}
    /\ LET keys == Below(KeysOf(list), walk.cursor)
           first == walk.list = "none"
       IN walk' = [list   |-> list,
                   cursor |-> NextCursor(keys),
                   steady |-> IF first THEN RowsOf(list, keys) ELSE walk.steady,
                   listed |-> Append(walk.listed, RowsOf(list, Visible(keys))),
                   ended  |-> NextCursor(keys) = 0]
    /\ UNCHANGED <<audit, contexts, memories, moment, payloads, sweep, operators, gone>>

\* A row that has left the list, or is at another place of it, is not steady.
StillSteady(rows) == walk' = [walk EXCEPT !.steady = @ \cap rows]

-------------------------------------------------------------------------------
(* What the bot writes meanwhile *)

\* A new invocation, message or sticker
NewRow(l, matches) ==
    /\ Len(audit[l]) < RecordBound
    /\ audit' = [audit EXCEPT ![l] = Append(@, matches)]
    /\ UNCHANGED <<contexts, memories, moment, walk, payloads, sweep, operators, gone>>

\* A run ends, a message is edited, a sticker is indexed: the filter may let it
\* through from now on, or no longer.
RowChanges(l, i) ==
    /\ audit' = [audit EXCEPT ![l][i] = ~@]
    /\ IF walk.list = l THEN StillSteady(AuditKeys(l) \ {i}) ELSE UNCHANGED walk
    /\ UNCHANGED <<contexts, memories, moment, payloads, sweep, operators, gone>>

\* A conversation is active now.
ContextActive(c) ==
    /\ contexts' = [contexts EXCEPT ![c] = moment]
    /\ IF walk.list = "contexts" /\ contexts[c] # moment
       THEN StillSteady(Contexts \ {c}) ELSE UNCHANGED walk
    /\ UNCHANGED <<audit, memories, moment, payloads, sweep, operators, gone>>

RecordsTick ==
    /\ moment < MomentBound
    /\ moment' = moment + 1
    /\ IF walk.list = "memories"
       THEN StillSteady({m.id : m \in {x \in memories : x.expires > moment + 1}}) ELSE UNCHANGED walk
    /\ UNCHANGED <<audit, contexts, memories, payloads, sweep, operators, gone>>

-------------------------------------------------------------------------------
(* Memories *)

Expired(rows) == {m \in rows : m.expires <= moment}

\* Store what is left of the memories, with what made the others go.
Keep(rows, ended) ==
    /\ memories' = rows
    /\ gone' = [gone EXCEPT !.memories = @ \cup ended]
    /\ IF walk.list = "memories" THEN StillSteady({m.id : m \in rows}) ELSE UNCHANGED walk
    /\ UNCHANGED <<audit, contexts, moment, payloads, sweep, operators>>

Lapsed(rows) == {[id |-> m.id, room |-> m.room, by |-> "time"] : m \in rows}

\* MemoryStore.add: what has expired goes, a new id comes.
AddMemory(room, ttl) ==
    \E id \in MemoryIds \ ({m.id : m \in memories} \cup {m.id : m \in gone.memories}) :
        Keep((memories \ Expired(memories)) \cup {[id |-> id, room |-> room, expires |-> moment + ttl]},
             Lapsed(Expired(memories)))

\* createMemory: the panel may name a conversation of a known chat that has none yet.
CreateMemory(room, ttl) == AddMemory(room, ttl)

\* Faulty: a run may delete any memory whose id it is told.
RemoveAnyMemory(room, id) ==
    LET left == memories \ Expired(memories)
    IN Keep({m \in left : m.id # id},
            Lapsed(Expired(memories)) \cup {[id |-> m.id, room |-> m.room, by |-> room] :
                                              m \in {x \in left : x.id = id}})

\* MemoryStore.remove: a run deletes of its own conversation; an id that is no
\* longer there, or never was, is no error.
RemoveMemory(room, id) ==
    LET left == memories \ Expired(memories)
        mine == {m \in left : m.id = id /\ m.room = room}
    IN Keep(left \ mine,
            Lapsed(Expired(memories)) \cup {[id |-> m.id, room |-> m.room, by |-> room] : m \in mine})

\* The tools add_memory and delete_memory act on the conversation of the run, whatever
\* the model writes.
AddMemoryTool(room, ttl) == AddMemory(room, ttl)
DeleteMemoryTool(room, id) == RemoveMemory(room, id)

\* updateMemory: the panel rewords a memory, or gives it a new time to live, also
\* one that has expired and is still stored.
UpdateMemory(id, ttl) ==
    \E m \in memories :
        /\ m.id = id
        /\ Keep((memories \ {m}) \cup {[m EXCEPT !.expires = moment + ttl]}, {})

\* deleteMemory
DeleteMemory(id) ==
    \E m \in memories :
        /\ m.id = id
        /\ Keep(memories \ {m}, {[id |-> m.id, room |-> m.room, by |-> "panel"]})

\* listActive: what the prompt of a run of the conversation holds
ActiveMemories(room) == {m \in memories : m.room = room /\ m.expires > moment}

-------------------------------------------------------------------------------
(* The sweep of the recorded payloads *)

\* A model call is recorded with its request; its response is added in the end.
StartModelCall(recorded) ==
    /\ Len(payloads) < RecordBound
    /\ payloads' = Append(payloads, [payload |-> recorded, open |-> TRUE])
    /\ UNCHANGED <<audit, contexts, memories, moment, walk, sweep, operators, gone>>

FinishModelCall(i, recorded) ==
    /\ payloads[i].open
    /\ payloads' = [payloads EXCEPT ![i] = [payload |-> @.payload \/ recorded, open |-> FALSE]]
    /\ UNCHANGED <<audit, contexts, memories, moment, walk, sweep, operators, gone>>

\* DELETE developer/model-payloads: refused while a clear is running.  The sweep
\* is bounded by the calls there are now.
StartSweep ==
    /\ ~sweep.running
    /\ sweep' = [upper   |-> Len(payloads), cursor |-> 0, batches |-> 0,
                 owed    |-> {i \in DOMAIN payloads : ~payloads[i].open},
                 running |-> payloads # <<>>]
    /\ UNCHANGED <<audit, contexts, memories, moment, walk, payloads, operators, gone>>

\* Faulty: each batch looks for the newest call again.
SweepLimitNow == Len(payloads)

SweepLimit == sweep.upper

\* clearModelPayloads, one batch; then the bot runs (setImmediate).
ClearBatch ==
    /\ sweep.running /\ sweep.cursor < SweepLimit
    /\ LET last == IF sweep.cursor + SweepBatch < SweepLimit THEN sweep.cursor + SweepBatch ELSE SweepLimit
       IN /\ payloads' = [i \in DOMAIN payloads |->
                             IF i \in sweep.cursor + 1..last THEN [payloads[i] EXCEPT !.payload = FALSE]
                             ELSE payloads[i]]
          /\ sweep' = [sweep EXCEPT !.cursor = last, !.batches = @ + 1]
    /\ UNCHANGED <<audit, contexts, memories, moment, walk, operators, gone>>

SweepEnds ==
    /\ sweep.running /\ sweep.cursor >= SweepLimit
    /\ sweep' = [sweep EXCEPT !.running = FALSE]
    /\ UNCHANGED <<audit, contexts, memories, moment, walk, payloads, operators, gone>>

-------------------------------------------------------------------------------
(* Operators of the bot *)

WithOperators(rows, removed) ==
    /\ operators' = rows
    /\ gone' = [gone EXCEPT !.operators = removed]
    /\ UNCHANGED <<audit, contexts, memories, moment, walk, payloads>>

\* addBotAdmin, removeBotAdmin
AddOperator(u) == WithOperators(operators \cup {u}, gone.operators \ {u}) /\ UNCHANGED sweep
RemoveOperator(u) == WithOperators(operators \ {u}, gone.operators \cup {u}) /\ UNCHANGED sweep

\* A start: seedConfigAdmins adds those of the file and removes none; a sweep
\* that was running is not resumed.
RestartBot ==
    /\ WithOperators(operators \cup Seeds, gone.operators \ Seeds)
    /\ sweep' = [sweep EXCEPT !.running = FALSE, !.owed = {}]

RecordsNext ==
    \/ \E l \in Lists : TurnPage(l)
    \/ \E l \in AuditLists :
          \/ \E matches \in BOOLEAN : NewRow(l, matches)
          \/ \E i \in DOMAIN audit[l] : RowChanges(l, i)
    \/ \E c \in Contexts : ContextActive(c)
    \/ \E room \in MemoryRooms : \/ \E ttl \in 1..2 : AddMemoryTool(room, ttl) \/ CreateMemory(room, ttl)
                                 \/ \E id \in MemoryIds : DeleteMemoryTool(room, id)
    \/ \E id \in MemoryIds : DeleteMemory(id) \/ \E ttl \in 1..2 : UpdateMemory(id, ttl)
    \/ \E recorded \in BOOLEAN : \/ StartModelCall(recorded)
                                 \/ \E i \in DOMAIN payloads : FinishModelCall(i, recorded)
    \/ StartSweep \/ ClearBatch \/ SweepEnds
    \/ \E u \in Operators : AddOperator(u) \/ RemoveOperator(u)
    \/ RestartBot \/ RecordsTick

RecordsSpec == RecordsInit /\ [][RecordsNext]_recordVars

-------------------------------------------------------------------------------
(* Properties *)

RecordsTypeOK ==
    /\ \A m \in memories : m.id \in MemoryIds /\ m.room \in MemoryRooms
    /\ Cardinality({m.id : m \in memories}) = Cardinality(memories)
    /\ sweep.cursor \in 0..RecordBound /\ operators \subseteq Operators

TimesListed(r) == Cardinality({n \in DOMAIN walk.listed : r \in walk.listed[n]})

\* audit.ts, "paging stays stable": whatever the bot writes while an operator turns
\* the pages, no row is shown twice, and none that kept its place is left out.
PagesAreStable ==
    /\ walk.ended => \A r \in walk.steady : TimesListed(r) = 1
    /\ \A n \in DOMAIN walk.listed : \A r \in walk.listed[n] : TimesListed(r) = 1

\* memory.ts: a memory that has not expired ends at the hand of a run of its own
\* conversation, or of the panel.
MemoriesStayHome == \A m \in gone.memories : m.by \in {"time", "panel", m.room}

\* developer-admin.ts: ongoing recording must not keep the sweep alive for ever; a
\* sweep that has run to its end has cleared every call that was over when it began.
SweepEndsClean ==
    /\ sweep.batches * SweepBatch < sweep.upper + SweepBatch
    /\ ~sweep.running => \A i \in sweep.owed : ~payloads[i].payload

\* admins.ts: only the panel takes the control of the bot from an operator of the file.
SeedsKeepControl == Seeds \subseteq operators \cup gone.operators

\* What the panel shows and clears is what there is, however the bot goes on.
RecordsAreFaithful ==
    /\ RecordsTypeOK /\ PagesAreStable /\ MemoriesStayHome /\ SweepEndsClean /\ SeedsKeepControl

===============================================================================
