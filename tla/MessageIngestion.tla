--------------------------- MODULE MessageIngestion ---------------------------
(* TelegramIngestion (src/src/ingress/telegram-ingestion.ts) with the          *)
(* participation gate of src/src/store/participation.ts: what one update does, *)
(* in one transaction, to the migrations, the stored messages, the attention   *)
(* windows and the buckets.                                                    *)
(*                                                                             *)
(* The text of a message is reduced to its `class': "talk" (a human's message  *)
(* that may open a bucket), "call" (one that mentions the bot or replies to    *)
(* it), "keyword" (one with a trigger keyword), "command" (a control command), *)
(* "bot" (another bot), "own", "ignored" (an ignored user) and "service" (a    *)
(* service message, or a sticker alone).                                       *)
EXTENDS ActiveWindows, Sequences

CONSTANTS Chats,            \* Telegram chat ids
          Threads,          \* message threads of a chat
          Configured,       \* the chats of the configuration
          TopicsOf,         \* [Configured -> set of allowed threads]
          Private,          \* the chats that are private
          Windows,          \* active windows of the participation rule
          AttentionTicks,   \* the rule's attention window
          Keywords,         \* trigger keywords of the configuration
          RecentMessages,  \* agent.history_messages
          ProcessBots,      \* telegram.process_bot_messages
          Inputs,           \* the kinds of message Telegram may send
          Targets,          \* [Chats -> chat it migrates to, or Unset]
          MaxUpdates,       \* bound on the updates Telegram sends
          MaxMessageId,     \* bound on message ids
          Instants          \* the instants the clock visits

MessageIds == 1..MaxMessageId
Topics == Chats \X Threads

Classes == {"talk", "call", "keyword", "command", "bot", "own", "ignored", "service"}

Update == [chat: Chats, thread: Threads, id: MessageIds, class: Classes,
           edited: BOOLEAN, migrate: {"no", "to", "from"}]

\* A stored message.  `awake' and `edit' are history: the chat was not paused,
\* and the message was first known by an edit.
Message == [thread: Threads, class: Classes, revisions: 1..MaxUpdates,
            at: Instants, awake: BOOLEAN, edit: BOOLEAN]

Bucket == [conversation: Topics, collecting: BOOLEAN, first: Instants,
           opener: Chats \X MessageIds, cut: 0..MaxMessageId,
           messages: Seq(Chats \X MessageIds)]

\* The participation section of the configuration.
GlobalSettings ==
    [windows |-> Windows, keywords |-> Keywords, attention |-> AttentionTicks]

ASSUME IngestionAssumption ==
    /\ Configured \subseteq Chats /\ Private \subseteq Chats
    /\ TopicsOf \in [Configured -> SUBSET Threads]
    /\ Targets \in [Chats -> Chats \cup {Unset}]
    /\ AttentionTicks \in Nat \ {0} /\ RecentMessages \in Nat
    /\ Windows \subseteq Window
    /\ ProcessBots \in BOOLEAN /\ Instants \subseteq Nat /\ Instants # {}
    /\ MaxUpdates \in Nat /\ MaxMessageId \in Nat
    /\ \A k \in Inputs :
           /\ k.chat \in Chats /\ k.thread \in Threads
           /\ k.class \in Classes /\ k.edited \in BOOLEAN
           /\ k.migrate \in {"no", "to", "from"}
           /\ k.migrate # "no" => k.class = "service" /\ ~k.edited
           /\ k.migrate = "to" => Targets[k.chat] # Unset
           /\ k.migrate = "from" => \E c \in Chats : Targets[c] = k.chat

\* What is absent is not a value.
ASSUME UnsetAssumption ==
    /\ Unset \notin Chats /\ Unset \notin Message
    /\ Unset # Windows /\ Unset # Keywords /\ Unset # AttentionTicks
    /\ Unset # GlobalSettings

VARIABLES minute,       \* the current instant
          log,         \* the updates Telegram has delivered at least once
          seen,        \* telegram_updates: the update ids recorded
          migrations,  \* chat_migrations: [old chat -> new chat]
          messages,    \* [chat, id -> stored message or Unset]
          attention,   \* conversation_attention: [conversation -> expiry]
          buckets,     \* the buckets, in order of creation
          cutoffs,     \* conversation_context_cutoffs
          paused       \* chat_pause

ingestVars == <<minute, log, seen, migrations, messages, attention, buckets,
                cutoffs, paused>>

IngestTypeOK ==
    /\ minute \in Instants
    /\ log \in Seq(Update)
    /\ seen \subseteq DOMAIN log
    /\ migrations \in [Chats -> Chats \cup {Unset}]
    /\ messages \in [Chats \X MessageIds -> Message \cup {Unset}]
    /\ attention \in [Topics -> Nat]
    /\ buckets \in Seq(Bucket)
    /\ cutoffs \in [Topics -> 0..MaxMessageId]
    /\ paused \subseteq Chats

IngestInit ==
    /\ minute = CHOOSE t \in Instants : \A u \in Instants : t <= u
    /\ log = <<>> /\ seen = {} /\ paused = {} /\ buckets = <<>>
    /\ migrations = [c \in Chats |-> Unset]
    /\ messages = [m \in Chats \X MessageIds |-> Unset]
    /\ attention = [v \in Topics |-> 0]
    /\ cutoffs = [v \in Topics |-> 0]

------------------------------------------------------------------------------
(* Authority: the allowlist and the migrations that hand an entry on.          *)

\* The configured chat a chat id stands for, one migration back at most.
ResolveChat(moved, chat) ==
    IF chat \in Configured THEN chat
    ELSE LET rows == {c \in Chats : moved[c] = chat}
         IN IF rows = {} THEN Unset
            ELSE LET old == CHOOSE c \in rows : TRUE
                 IN IF old \in Configured THEN old ELSE Unset

TopicsFor(moved, chat) ==
    LET origin == ResolveChat(moved, chat)
    IN IF origin = Unset THEN Unset ELSE TopicsOf[origin]

\* The pair a migration notice announces.
MigrationOf(u) ==
    CASE u.migrate = "to"   -> <<u.chat, Targets[u.chat]>>
      [] u.migrate = "from" -> <<CHOOSE c \in Chats : Targets[c] = u.chat, u.chat>>
      [] OTHER              -> Unset

\* Only a chat that is itself allowed can hand its entry on.
RecordMigration(u) ==
    LET pair == MigrationOf(u)
    IN IF pair = Unset \/ TopicsFor(migrations, pair[1]) = Unset
       THEN migrations
       ELSE [migrations EXCEPT ![pair[1]] = pair[2]]

------------------------------------------------------------------------------
(* Participation.                                                              *)

\* The rule of a chat, looked up under the configured id it stands for; private
\* chats have none.
RuleFor(moved, chat) ==
    IF chat \in Private \/ ResolveChat(moved, chat) = Unset THEN Unset
    ELSE CompileParticipation(GlobalSettings, Unset, 300)

EligibleHuman(class) == class \in {"talk", "call", "keyword", "command"}

\* What addresses the bot is a mention, a reply to it or a keyword of the rule.
MatchTriggerKind(class, rule) ==
    class = "call" \/ (class = "keyword" /\ rule.keywords # {})

AttentionOpen(v) == attention[v] > minute

\* Whether the message refreshes the attention window of its conversation.
Triggers(u, v, rule) ==
    /\ rule # Unset
    /\ u.chat \notin paused
    /\ ~IsWithinActiveWindows(rule.windows, minute)
    /\ EligibleHuman(u.class)
    /\ MatchTriggerKind(u.class, rule)

\* bucketCreationAllowed: no rule, a pause (rejected downstream), an active
\* window, a trigger, or an attention window still open.
EvaluateParticipation(u, v, rule) ==
    \/ rule = Unset
    \/ u.chat \in paused
    \/ IsWithinActiveWindows(rule.windows, minute)
    \/ Triggers(u, v, rule)
    \/ AttentionOpen(v)

------------------------------------------------------------------------------
(* Storing a message.                                                          *)

Stored(u) == messages[<<u.chat, u.id>>] # Unset

\* The bot's own messages, an unwanted bot's and a repeated delivery are dropped.
Storable(u) ==
    /\ u.class \notin {"own", "ignored"}
    /\ u.class = "bot" => ProcessBots
    /\ u.edited \/ ~Stored(u)

\* The row of a message, and where it goes.
MessageOf(u) ==
    [thread |-> u.thread, class |-> u.class, revisions |-> 1,
     at |-> minute, awake |-> u.chat \notin paused, edit |-> u.edited]
PlaceOf(u) == <<u.chat, u.id>>
Revised(row) == [row EXCEPT !.revisions = @ + 1]

StoreMessage(u) ==
    [messages EXCEPT ![PlaceOf(u)] =
        IF Stored(u) THEN Revised(messages[PlaceOf(u)]) ELSE MessageOf(u)]

\* A message keeps its author and its thread, ids of a chat are given out in
\* ascending order, and only an edit may come for a message never delivered.
\* (`class' keeps what the message was when it was stored.)
Consistent(u) ==
    LET given == {0} \cup {log[n].id : n \in {k \in DOMAIN log : log[k].chat = u.chat}}
                     \cup {cutoffs[v] : v \in {w \in Topics : w[1] = u.chat}}
        same  == {n \in DOMAIN log : log[n].chat = u.chat /\ log[n].id = u.id}
    IN /\ \A n \in same : log[n].thread = u.thread /\ log[n].class = u.class
       /\ u.id \notin {cutoffs[v] : v \in {w \in Topics : w[1] = u.chat}}
       /\ same = {} => \A i \in given : i < u.id /\ u.id - 1 \in given

------------------------------------------------------------------------------
(* Buckets.                                                                    *)

CollectingBucket(v) ==
    {b \in DOMAIN buckets : buckets[b].conversation = v /\ buckets[b].collecting}

InBucket(m) == \E b \in DOMAIN buckets :
                   \E i \in DOMAIN buckets[b].messages : buckets[b].messages[i] = m

LastOpened(v) ==
    LET own == {b \in DOMAIN buckets : buckets[b].conversation = v}
    IN IF own = {} THEN 0
       ELSE CHOOSE t \in {buckets[b].first : b \in own} :
                \A b \in own : buckets[b].first <= t

\* The newest `limit' elements of a set of message ids, in ascending order.
NewestOf(ids, limit) ==
    LET kept == {i \in ids : Cardinality({j \in ids : j > i}) < limit}
    IN [k \in 1..Cardinality(kept) |->
           CHOOSE i \in kept : Cardinality({j \in kept : j <= i}) = k]

\* MUTANT of PendingBotMessages: the cutoff of /cut_topic is not applied.
BotMessagesBelowCut(v, stored) ==
    {i \in MessageIds :
        /\ stored[<<v[1], i>>] # Unset
        /\ stored[<<v[1], i>>].thread = v[2]
        /\ stored[<<v[1], i>>].class = "bot"
        /\ ~InBucket(<<v[1], i>>)
        /\ stored[<<v[1], i>>].at >= LastOpened(v)}

\* Other bots' messages in no bucket yet, received since the last bucket opened
\* and above the cutoff: the bucket a human opens takes them in.
PendingBotMessages(v, stored) ==
    {i \in MessageIds :
        /\ stored[<<v[1], i>>] # Unset
        /\ stored[<<v[1], i>>].thread = v[2]
        /\ stored[<<v[1], i>>].class = "bot"
        /\ ~InBucket(<<v[1], i>>)
        /\ stored[<<v[1], i>>].at >= LastOpened(v)
        /\ i > cutoffs[v]}

AdoptPendingBotMessages(v, stored) ==
    LET ids == NewestOf(PendingBotMessages(v, stored), RecentMessages)
    IN [i \in DOMAIN ids |-> <<v[1], ids[i]>>]

NewBucket(u, v, stored) ==
    [conversation |-> v, collecting |-> TRUE, first |-> minute,
     opener |-> <<u.chat, u.id>>, cut |-> cutoffs[v],
     messages |-> Append(AdoptPendingBotMessages(v, stored), <<u.chat, u.id>>)]

\* Only an eligible human's message opens a bucket, and only when the gate lets it.
MayOpen(u, allowed) == EligibleHuman(u.class) /\ allowed

\* #appendToBucket: a paused chat collects nothing; otherwise the message joins
\* the collecting bucket or opens one.
AppendToBucket(u, v, stored, allowed) ==
    IF u.chat \in paused THEN buckets
    ELSE IF CollectingBucket(v) # {}
         THEN [b \in DOMAIN buckets |->
                  IF b \in CollectingBucket(v)
                  THEN [buckets[b] EXCEPT !.messages = Append(@, <<u.chat, u.id>>)]
                  ELSE buckets[b]]
    ELSE IF MayOpen(u, allowed) THEN Append(buckets, NewBucket(u, v, stored))
    ELSE buckets

------------------------------------------------------------------------------
(* One update, in one transaction.  `schedule' is FALSE during the startup     *)
(* catch-up, which stores and evaluates but batches on its own.                *)

InScope(moved, u) ==
    LET topics == TopicsFor(moved, u.chat)
    IN topics # Unset /\ u.thread \in topics

Accepted(u, schedule) ==
    /\ InScope(migrations', u)
    /\ ~(u.class = "command" /\ schedule /\ ~u.edited)
    /\ Storable(u)

\* An update whose id is recorded already, out of scope, from an ignored user,
\* a command, or a duplicate: at most the migration it announces is recorded.
IngestWithout(u, n, schedule) ==
    /\ n \in seen \/ ~Accepted(u, schedule)
    /\ UNCHANGED <<messages, attention, buckets>>

IngestMessage(u, n, schedule) ==
    LET v    == <<u.chat, u.thread>>
        rule == RuleFor(migrations', u.chat)
    IN
    /\ n \notin seen
    /\ Accepted(u, schedule)
    /\ messages' = StoreMessage(u)
    /\ attention' =
           IF ~u.edited /\ Triggers(u, v, rule)
           THEN [attention EXCEPT ![v] = minute + rule.attention]
           ELSE attention
    /\ buckets' =
           IF u.edited \/ ~schedule THEN buckets
           ELSE AppendToBucket(u, v, messages', EvaluateParticipation(u, v, rule))

IngestUpdate(u, n, schedule) ==
    /\ migrations' = RecordMigration(u)
    /\ \/ IngestWithout(u, n, schedule)
       \/ IngestMessage(u, n, schedule)
    /\ seen' = seen \cup {n}
    /\ UNCHANGED <<minute, cutoffs, paused>>

\* Telegram sends an update for the first time, or delivers one once more.
Deliver ==
    /\ Len(log) < MaxUpdates
    /\ \E kind \in Inputs, i \in MessageIds, schedule \in BOOLEAN :
           LET u == [chat |-> kind.chat, thread |-> kind.thread, id |-> i,
                     class |-> kind.class, edited |-> kind.edited,
                     migrate |-> kind.migrate]
           IN /\ Consistent(u)
              /\ log' = Append(log, u)
              /\ IngestUpdate(u, Len(log) + 1, schedule)

Redeliver ==
    \E n \in DOMAIN log, schedule \in BOOLEAN :
        /\ IngestUpdate(log[n], n, schedule)
        /\ UNCHANGED log

------------------------------------------------------------------------------
(* What happens around ingestion.                                              *)

\* The scheduler takes a bucket off collecting once its deadline passes.
CloseBucket ==
    \E b \in DOMAIN buckets :
        /\ buckets[b].collecting
        /\ buckets' = [buckets EXCEPT ![b].collecting = FALSE]
        /\ UNCHANGED <<minute, log, seen, migrations, messages, attention,
                       cutoffs, paused>>

\* /pause expires what the chat collects; /resume only lifts the pause.
Pause ==
    \E c \in Chats :
        /\ TopicsFor(migrations, c) # Unset
        /\ c \notin paused
        /\ paused' = paused \cup {c}
        /\ buckets' = [b \in DOMAIN buckets |->
               IF buckets[b].conversation[1] = c
               THEN [buckets[b] EXCEPT !.collecting = FALSE] ELSE buckets[b]]
        /\ UNCHANGED <<minute, log, seen, migrations, messages, attention, cutoffs>>

Resume ==
    \E c \in paused :
        /\ paused' = paused \ {c}
        /\ UNCHANGED <<minute, log, seen, migrations, messages, attention,
                       buckets, cutoffs>>

\* /cut_topic at a command message: the cutoff only moves forward.
CutTopic ==
    \E v \in Topics, at \in MessageIds :
        /\ \E m \in MessageIds :
               messages[<<v[1], m>>] # Unset /\ messages[<<v[1], m>>].thread = v[2]
        /\ messages[<<v[1], at>>] = Unset
        /\ cutoffs' = [cutoffs EXCEPT ![v] = IF at > @ THEN at ELSE @]
        /\ UNCHANGED <<minute, log, seen, migrations, messages, attention,
                       buckets, paused>>

MinutePasses ==
    \E t \in Instants :
        /\ t > minute
        /\ \A u \in Instants : u > minute => t <= u
        /\ minute' = t
        /\ UNCHANGED <<log, seen, migrations, messages, attention, buckets,
                       cutoffs, paused>>

IngestNext == Deliver \/ Redeliver \/ CloseBucket \/ Pause \/ Resume
              \/ CutTopic \/ MinutePasses

IngestSpec == IngestInit /\ [][IngestNext]_ingestVars

------------------------------------------------------------------------------
(* Properties.                                                                 *)

\* participation.ts: the code's window test agrees with the calendar on every
\* instant the clock visits, midnight crossings and the week's turn included.
WindowsFollowCalendar ==
    IsWithinActiveWindows(Windows, minute) = CoveredByCalendar(Windows, minute)

\* telegram-ingestion.ts #topicsFor, #recordMigration: whatever is stored was
\* said in a configured chat or in the chat it migrated to, in a thread the
\* configured entry allows.
StoredInScope ==
    \A c \in Chats, i \in MessageIds :
        messages[<<c, i>>] # Unset =>
            \E origin \in Configured :
                /\ origin = c \/ Targets[origin] = c
                /\ messages[<<c, i>>].thread \in TopicsOf[origin]

\* #appendToBucket, #adoptPendingBotMessages: no message reaches the model in
\* two batches, however updates are repeated and buckets open and close.
BatchedOnce ==
    \A a, b \in DOMAIN buckets :
        \A i \in DOMAIN buckets[a].messages, j \in DOMAIN buckets[b].messages :
            buckets[a].messages[i] = buckets[b].messages[j] => a = b /\ i = j

\* #adoptPendingBotMessages: a bucket's adopted messages come from other bots,
\* precede its opener in order, and lie above the cutoff in force.
AdoptedInOrder ==
    \A b \in DOMAIN buckets :
        LET ms == buckets[b].messages
            k  == CHOOSE i \in DOMAIN ms : ms[i] = buckets[b].opener
        IN \A i \in 1..(k - 1) :
               /\ messages[ms[i]].class = "bot"
               /\ ms[i][2] > buckets[b].cut
               /\ i > 1 => ms[i - 1][2] < ms[i][2]

\* "two bots cannot keep each other awake", and control commands "cannot trigger
\* or taint buckets": whatever a bucket collected, a human's message opened it.
HumansOpenBuckets ==
    \A b \in DOMAIN buckets :
        messages[buckets[b].opener].class \in {"talk", "call", "keyword"}

\* evaluateParticipation: outside the active windows a bucket opens only within
\* the attention window of a message that addressed the bot; a message said
\* during a pause or during an active window leaves no such window behind.
QuietNeedsTrigger ==
    \A b \in DOMAIN buckets :
        buckets[b].conversation[1] \in Private \/
        CoveredByCalendar(Windows, buckets[b].first) \/
        \E i \in MessageIds :
            LET c == buckets[b].conversation[1]
                m == messages[<<c, i>>]
            IN /\ m # Unset
               /\ m.thread = buckets[b].conversation[2]
               /\ m.class \in {"call", "keyword"}
               /\ ~m.edit /\ m.awake
               /\ ~CoveredByCalendar(Windows, m.at)
               /\ m.at <= buckets[b].first
               /\ buckets[b].first < m.at + AttentionTicks

\* What a bucket shows was said in scope, once, and in order; and it opens at a time
\* and for a message for which the rule lets it.
BatchesAreFaithful ==
    /\ IngestTypeOK
    /\ StoredInScope /\ BatchedOnce /\ AdoptedInOrder
    /\ WindowsFollowCalendar /\ HumansOpenBuckets /\ QuietNeedsTrigger

=============================================================================
