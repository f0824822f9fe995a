------------------------------ MODULE Retention ------------------------------
(* The rows that serve writes and the backup command that purges and copies     *)
(* them from a process of its own (src/src/store/database.ts).  A row knows the *)
(* rows it refers to, and what a DELETE makes of the rows that refer to what is *)
(* deleted is in the keys of the migrations.  Tables that nothing refers to and *)
(* that refer to nothing (updates, attention, memories, usage) are left out,    *)
(* and so are chats and conversations, which nothing deletes.  A day is the     *)
(* unit of time.                                                                *)
EXTENDS Integers, Sequences, FiniteSets, FiniteSetsExt, TLC

CONSTANTS Talks,        \* conversations
          OnlineDays,   \* retention.online_days
          BackupCopies, \* retention.backup_copies
          RefDays,      \* agent.context.capability_ttl_hours, in days
          MessageBound, RunBound, LastDay  \* bounds of the exploration

ASSUME RetentionAssumption ==
    /\ Talks \subseteq Nat \ {0}
    /\ {OnlineDays, BackupCopies, RefDays} \subseteq Nat \ {0}

VARIABLES db,       \* [name of a row -> its row], a name being <<table, i, j>>
          today,    \* the clock
          serving,  \* whether the serve process is up
          transcripts,   \* its cached agents: [Talks -> context id and rows of the transcript]
          backup,   \* the backup command: where it stands, and how its purge ended
          copies,   \* the backups directory, the oldest file first
          crashes   \* history: how often serve was killed

retentionVars == <<db, today, serving, transcripts, backup, copies, crashes>>

-------------------------------------------------------------------------------
(* Foreign keys.  A reference is <<column, name of the parent>>; the references *)
(* of a row that are NULL are absent.                                           *)

MessageCascades ==
    {"message_revisions.message_id", "media.revision_id", "bucket_messages.bucket_id",
     "bucket_messages.message_id"}
RunCascades == {"invocation_messages.invocation_id", "tool_calls.invocation_id"}
ContextCascades ==
    {"context_messages.context_id", "context_refs.context_id", "context_refs.media_id",
     "invocation_buckets.invocation_id", "invocation_buckets.bucket_id"}
TaskCascades == {"task_receipts.task_id"}
Cascades == MessageCascades \cup RunCascades \cup ContextCascades \cup TaskCascades

\* References without an action, and the one that schema.ts declares otherwise.
Restricting ==
    {"messages.current_revision_id", "message_revisions.sender_id", "invocations.bucket_id",
     "invocation_messages.message_id", "invocation_messages.revision_id",
     "telegram_sends.tool_call_id", "stickers.current_analysis_id"}
ContextRestricting == {"conversation_contexts.active_invocation_id"}
Restricts == Restricting \cup ContextRestricting

StoredRow(at, state, refs) == [at |-> at, state |-> state, refs |-> refs]

Parents(row, columns) == {r[2] : r \in {s \in row.refs : s[1] \in columns}}
RowsOf(d, table) == {n \in DOMAIN d : n[1] = table}
Refers(row, columns, names) == Parents(row, columns) \cap names # {}

\* What goes with the rows `gone': those that refer to them by a cascading key.
RECURSIVE Cascade(_, _)
Cascade(d, gone) ==
    LET more == {n \in DOMAIN d \ gone : Refers(d[n], Cascades, gone)}
    IN IF more = {} THEN gone ELSE Cascade(d, gone \cup more)

\* A DELETE inside a transaction: a reference that restricts fails the whole of it.
Delete(tx, names) ==
    LET gone == Cascade(tx.rows, names \cap DOMAIN tx.rows)
        kept == DOMAIN tx.rows \ gone
    IN IF tx.failed \/ \E n \in kept : Refers(tx.rows[n], Restricts, gone)
       THEN [tx EXCEPT !.failed = TRUE]
       ELSE [tx EXCEPT !.rows =
               [n \in kept |-> [tx.rows[n] EXCEPT !.refs = {r \in @ : r[2] \notin gone}]]]

Change(tx, names, Edit(_)) ==
    [tx EXCEPT !.rows = [n \in DOMAIN @ |-> IF n \in names THEN Edit(@[n]) ELSE @[n]]]

-------------------------------------------------------------------------------
(* purgeExpiredData: one transaction of these statements, in this order.        *)

Terminal == {"completed", "failed", "aborted", "expired"}

IsOld(row, now) == row.at < now - OnlineDays

Finished(d, table, now) ==
    {n \in RowsOf(d, table) : d[n].state \in Terminal /\ IsOld(d[n], now)}

\* The sends of finished invocations, which their tool calls cannot take along.
PurgeSends(tx, now) ==
    Delete(tx, {n \in RowsOf(tx.rows, "telegram_sends") :
        \E c \in Parents(tx.rows[n], {"telegram_sends.tool_call_id"}) :
            Refers(tx.rows[c], {"tool_calls.invocation_id"}, Finished(tx.rows, "invocations", now))})

PurgeInvocations(tx, now) == Delete(tx, Finished(tx.rows, "invocations", now))

PurgeBuckets(tx, now) ==
    Delete(tx, {n \in Finished(tx.rows, "buckets", now) :
        \A i \in RowsOf(tx.rows, "invocations") : ~Refers(tx.rows[i], {"invocations.bucket_id"}, {n})})

OldMessages(d, now) == {n \in RowsOf(d, "messages") : IsOld(d[n], now)}

PurgeMedia(tx, now) ==
    Delete(tx, {n \in RowsOf(tx.rows, "media") :
        \E r \in Parents(tx.rows[n], {"media.revision_id"}) :
            Refers(tx.rows[r], {"message_revisions.message_id"}, OldMessages(tx.rows, now))})

\* The old messages that no invocation and no bucket names.
Unnamed(d, now) ==
    {m \in OldMessages(d, now) :
        \A n \in RowsOf(d, "invocation_messages") \cup RowsOf(d, "bucket_messages") :
            ~Refers(d[n], {"invocation_messages.message_id", "bucket_messages.message_id"}, {m})}

\* They and their current revisions name each other.
PurgeMessages(tx, now) ==
    LET names == Unnamed(tx.rows, now)
    IN Delete(Change(tx, names, LAMBDA row : [row EXCEPT !.refs = {}]), names)

\* What must stay because something names it loses its text and its sender.
Scrub(tx, now) ==
    Change(tx, {n \in RowsOf(tx.rows, "message_revisions") :
                   Refers(tx.rows[n], {"message_revisions.message_id"}, OldMessages(tx.rows, now))},
           LAMBDA row : [row EXCEPT !.state = "scrubbed",
                            !.refs = {r \in @ : r[1] # "message_revisions.sender_id"}])

PurgeSenders(tx) ==
    Delete(tx, {s \in RowsOf(tx.rows, "senders") :
        \A r \in RowsOf(tx.rows, "message_revisions") :
            ~Refers(tx.rows[r], {"message_revisions.sender_id"}, {s})})

\* The analyses of stickers stay.
PurgeAnalyses(tx, now) ==
    Delete(tx, {n \in RowsOf(tx.rows, "media_analyses") :
        tx.rows[n].state = "image" /\ IsOld(tx.rows[n], now)})

PurgeTasksEnded(tx, now) == \* Faulty: by the task's own time and state
    Delete(tx, {n \in RowsOf(tx.rows, "long_tasks") :
        tx.rows[n].state = "completed" /\ IsOld(tx.rows[n], now)})

\* Tasks that have ended and whose receipt is settled, by the receipt's time.
PurgeTasks(tx, now) ==
    Delete(tx, {n \in RowsOf(tx.rows, "long_tasks") :
        /\ tx.rows[n].state = "completed"
        /\ \E r \in RowsOf(tx.rows, "task_receipts") :
              /\ Refers(tx.rows[r], {"task_receipts.task_id"}, {n})
              /\ tx.rows[r].state = "handled"
              /\ IsOld(tx.rows[r], now)})

PurgeContexts(tx, now) ==
    LET refs == Delete(tx, {n \in RowsOf(tx.rows, "context_refs") : tx.rows[n].at <= now})
        rows == Delete(refs, {n \in RowsOf(refs.rows, "context_messages") :
                                refs.rows[n].state = "evicted" /\ IsOld(refs.rows[n], now)})
    IN Delete(rows, {n \in RowsOf(rows.rows, "conversation_contexts") : IsOld(rows.rows[n], now)})

purgeExpiredData(d, now) ==
    LET runs == PurgeBuckets(PurgeInvocations(PurgeSends([rows |-> d, failed |-> FALSE], now), now), now)
        said == PurgeSenders(Scrub(PurgeMessages(PurgeMedia(runs, now), now), now))
    IN PurgeContexts(PurgeTasks(PurgeAnalyses(said, now), now), now)

-------------------------------------------------------------------------------
(* What serve writes.  Message m is in conversation TalkOf(m) by its bucket and *)
(* invocation; the id of a row is its rowid, which SQLite takes above the       *)
(* largest of the table.                                                        *)

Messages == 1..MessageBound
Name(table, i) == <<table, i, 0>>
NextId(d, table) == 1 + Max({n[2] : n \in RowsOf(d, table)} \cup {0})

Insert(d, rows) == [n \in DOMAIN d \cup DOMAIN rows |-> IF n \in DOMAIN rows THEN rows[n] ELSE d[n]]
Put(name, row) == [n \in {name} |-> row]

\* The conversation of a row is its third number.
Of(d, table, c, states) == {n \in RowsOf(d, table) : n[3] = c /\ d[n].state \in states}

\* A message, with its revision, its sender and perhaps a picture, joins the
\* collecting bucket of its conversation or opens one.
WriteMessage(c, photo) ==
    LET m == NextId(db, "messages")
        message == <<"messages", m, c>>
        revision == <<"message_revisions", m, c>>
        sender == Name("senders", c)
        open == Of(db, "buckets", c, {"collecting"})
        bucket == IF open # {} THEN CHOOSE b \in open : TRUE ELSE <<"buckets", NextId(db, "buckets"), c>>
    IN /\ serving /\ m \in Messages
       /\ bucket[2] <= RunBound
       /\ db' = Insert(db,
              [n \in {message, revision, sender, bucket, <<"bucket_messages", bucket[2], m>>}
                     \cup (IF photo THEN {<<"media", m, c>>} ELSE {}) |->
                  CASE n = message -> StoredRow(today, "stored", {<<"messages.current_revision_id", revision>>})
                    [] n = revision -> StoredRow(today, "text", {<<"message_revisions.message_id", message>>,
                                                           <<"message_revisions.sender_id", sender>>})
                    [] n[1] = "media" -> StoredRow(today, "stored", {<<"media.revision_id", revision>>})
                    [] n[1] = "bucket_messages" ->
                          StoredRow(today, "stored", {<<"bucket_messages.bucket_id", bucket>>,
                                                <<"bucket_messages.message_id", message>>})
                    [] n = bucket /\ open # {} -> db[bucket]
                    [] n = bucket -> StoredRow(today, "collecting", {})
                    [] OTHER -> StoredRow(today, "stored", {})])
       /\ UNCHANGED <<today, serving, transcripts, backup, copies, crashes>>

RunsOf(d, c) == Of(d, "invocations", c, {"running"})
BatchMessages(d, bucket) ==
    UNION {Parents(d[n], {"bucket_messages.message_id"}) :
              n \in {k \in RowsOf(d, "bucket_messages") : k[2] = bucket[2]}}
History(d, c) == {m \in RowsOf(d, "messages") : m[3] = c}
ContextOf(d, c) == {n \in RowsOf(d, "conversation_contexts") : n[3] = c}
TranscriptOf(d, context) ==
    {n[3] : n \in {k \in RowsOf(d, "context_messages") : k[2] = context[2] /\ d[k].state = "shown"}}

\* snapshotInvocation: a row for each message of the batch and of the history.
Shown(d, bucket) == BatchMessages(d, bucket) \cup History(d, bucket[3])
Frozen(d, run, bucket) ==
    [n \in {<<"invocation_messages", run[2], m[2]>> : m \in Shown(d, bucket)} |->
        StoredRow(today, "stored",
            {<<"invocation_messages.invocation_id", run>>,
             <<"invocation_messages.message_id", <<"messages", n[3], run[3]>> >>,
             <<"invocation_messages.revision_id", <<"message_revisions", n[3], run[3]>> >>})]

\* renderInjection: references to the pictures that are shown.
PictureRefs(d, context, bucket) ==
    LET pictures == {n \in RowsOf(d, "media") : \E m \in Shown(d, bucket) : m[2] = n[2]}
    IN [n \in {<<"context_refs", context[2], p[2]>> : p \in pictures} |->
           StoredRow(today + RefDays, "stored",
               {<<"context_refs.context_id", context>>,
                <<"context_refs.media_id", <<"media", n[3], context[3]>> >>})]

\* open(): the context of a conversation, or a new one.
OpenedContext(d, c) ==
    IF ContextOf(d, c) # {} THEN CHOOSE n \in ContextOf(d, c) : TRUE
    ELSE <<"conversation_contexts", NextId(d, "conversation_contexts"), c>>
NextSeq(d, context) ==
    1 + Max({n[3] : n \in {k \in RowsOf(d, "context_messages") : k[2] = context[2]}} \cup {0})

\* processDue and the launch: the bucket's invocation freezes its messages;
\* #runInvocation opens the context, reuses the cached agent of that context and
\* shows the batch.  What the run is cached with is its row of the context.
OpenRun(c) ==
    \E bucket \in Of(db, "buckets", c, {"collecting"}) :
        LET run == <<"invocations", NextId(db, "invocations"), c>>
            context == OpenedContext(db, c)
            seq == NextSeq(db, context)
            rows == Put(bucket, StoredRow(today, "running", {}))
                @@ Put(run, StoredRow(today, "running", {<<"invocations.bucket_id", bucket>>}))
                @@ Put(<<"invocation_buckets", run[2], bucket[2]>>,
                       StoredRow(today, "stored", {<<"invocation_buckets.invocation_id", run>>,
                                                   <<"invocation_buckets.bucket_id", bucket>>}))
                @@ Put(context, StoredRow(today, "stored",
                                          {<<"conversation_contexts.active_invocation_id", run>>}))
                @@ Put(<<"context_messages", context[2], seq>>,
                       StoredRow(today, "shown", {<<"context_messages.context_id", context>>,
                                                  <<"context_messages.invocation_id", run>>}))
        IN /\ serving /\ RunsOf(db, c) = {} /\ run[2] <= RunBound
           /\ db' = Insert(db, rows @@ Frozen(db, run, bucket) @@ PictureRefs(db, context, bucket))
           /\ transcripts' = [transcripts EXCEPT ![c] =
                  IF @.context = context[2] THEN [@ EXCEPT !.rows = @ \cup {seq}]
                  ELSE [context |-> context[2], rows |-> TranscriptOf(db, context) \cup {seq}]]
           /\ UNCHANGED <<today, serving, backup, copies, crashes>>

\* A tool call that sends.
WriteSend(c) ==
    \E run \in RunsOf(db, c) :
        LET call == <<"tool_calls", run[2], c>>
        IN /\ serving /\ call \notin DOMAIN db
           /\ db' = Insert(Insert(db, Put(call, StoredRow(today, "success", {<<"tool_calls.invocation_id", run>>}))),
                           Put(<<"telegram_sends", run[2], c>>,
                               StoredRow(today, "success", {<<"telegram_sends.tool_call_id", call>>})))
           /\ UNCHANGED <<today, serving, transcripts, backup, copies, crashes>>

\* A task of a run, one at a time.
WriteReminder(c) ==
    \E run \in RunsOf(db, c) :
        /\ serving /\ RowsOf(db, "long_tasks") = {}
        /\ db' = Insert(db, Put(<<"long_tasks", 1, c>>,
                     StoredRow(today, "waiting", {<<"long_tasks.created_by_invocation_id", run>>})))
        /\ UNCHANGED <<today, serving, transcripts, backup, copies, crashes>>

\* The timer completes it and owes a receipt; a run of the conversation claims
\* the receipt and settles it when it ends.
WriteFiring(c) ==
    \E task \in Of(db, "long_tasks", c, {"waiting"}) :
        /\ serving
        /\ db' = Insert(Insert(db, Put(task, [db[task] EXCEPT !.state = "completed", !.at = today])),
                        Put(<<"task_receipts", 1, c>>,
                            StoredRow(today, "pending", {<<"task_receipts.task_id", task>>})))
        /\ UNCHANGED <<today, serving, transcripts, backup, copies, crashes>>

WriteClaim(c) ==
    \E receipt \in Of(db, "task_receipts", c, {"pending"}), run \in RunsOf(db, c) :
        /\ serving
        /\ db' = Insert(db, Put(receipt,
                     [db[receipt] EXCEPT !.state = "claimed", !.at = today,
                                         !.refs = @ \cup {<<"task_receipts.invocation_id", run>>}]))
        /\ UNCHANGED <<today, serving, transcripts, backup, copies, crashes>>

\* #execute's terminal transaction, and clearActiveInvocation before it.
ClearActive(row) == [row EXCEPT !.refs = {}]

EndRun(c) ==
    \E run \in RunsOf(db, c) :
        /\ serving
        /\ db' = [n \in DOMAIN db |->
               CASE n = run -> [db[n] EXCEPT !.state = "completed", !.at = today]
                 [] n \in Of(db, "buckets", c, {"running"}) ->
                        [db[n] EXCEPT !.state = "completed", !.at = today]
                 [] n \in ContextOf(db, c) -> ClearActive(db[n])
                 [] n \in Of(db, "task_receipts", c, {"claimed"}) -> [db[n] EXCEPT !.state = "handled"]
                 [] OTHER -> db[n]]
        /\ UNCHANGED <<today, serving, transcripts, backup, copies, crashes>>

\* Collection, or /cut_topic: rows are marked, and their references go.
EvictRows(c) ==
    \E context \in ContextOf(db, c) :
        LET rows == {n \in RowsOf(db, "context_messages") : n[2] = context[2] /\ db[n].state = "shown"}
            refs == {n \in RowsOf(db, "context_refs") : n[2] = context[2]}
        IN /\ serving /\ rows # {}
           /\ db' = [n \in DOMAIN db \ refs |->
                        IF n \in rows THEN [db[n] EXCEPT !.state = "evicted", !.at = today] ELSE db[n]]
           /\ transcripts' = [transcripts EXCEPT ![c].rows = {}]
           /\ UNCHANGED <<today, serving, backup, copies, crashes>>

\* #analyzeImage of a stored picture, once; a sticker's analysis is one that stays.
AnalyseImage ==
    /\ serving /\ RowsOf(db, "media") # {} /\ Name("media_analyses", 2) \notin DOMAIN db
    /\ db' = Insert(db, Put(Name("media_analyses", 2), StoredRow(today, "image", {})))
    /\ UNCHANGED <<today, serving, transcripts, backup, copies, crashes>>

NoAgent == [context |-> 0, rows |-> {}]

\* A kill at any statement.  The process that starts again recovers: what was
\* running is aborted, claims are handled, and what waits is too old.
Kill ==
    /\ serving /\ crashes < 1
    /\ serving' = FALSE /\ crashes' = crashes + 1
    /\ transcripts' = [c \in Talks |-> NoAgent]
    /\ UNCHANGED <<db, today, backup, copies>>

Recovered(row, table) ==
    CASE table \in {"invocations", "buckets"} /\ row.state = "running" ->
             [row EXCEPT !.state = "aborted", !.at = today]
      [] table = "buckets" /\ row.state = "collecting" /\ row.at < today ->
             [row EXCEPT !.state = "expired", !.at = today]
      [] table = "task_receipts" /\ row.state = "claimed" -> [row EXCEPT !.state = "handled", !.at = today]
      [] OTHER -> row

StartAgain ==
    /\ ~serving /\ serving' = TRUE
    /\ db' = [n \in DOMAIN db |-> Recovered(db[n], n[1])]
    /\ UNCHANGED <<today, transcripts, backup, copies, crashes>>

\* A run and a collecting bucket last minutes.
Midnight ==
    /\ today < LastDay /\ today' = today + 1
    /\ serving => \A c \in Talks : RunsOf(db, c) = {} /\ Of(db, "buckets", c, {"collecting"}) = {}
    /\ backup.at = "idle"
    /\ UNCHANGED <<db, serving, transcripts, backup, copies, crashes>>

-------------------------------------------------------------------------------
(* The backup command, next to serve or without it.  `purge' is how its         *)
(* transaction ended, with the day; a copy is a file with what it holds.        *)

NoBackup == [at |-> "idle", purge |-> "none", day |-> 0]

\* One a day, which bounds the files.
StartBackup ==
    /\ backup.at = "idle" /\ (backup.purge = "none" \/ backup.day < today)
    /\ LET tx == purgeExpiredData(db, today) IN
       IF tx.failed
       THEN /\ backup' = [at |-> "idle", purge |-> "failed", day |-> today]
            /\ db' = db
       ELSE /\ backup' = [at |-> "copy", purge |-> "done", day |-> today]
            /\ db' = tx.rows
    /\ UNCHANGED <<today, serving, transcripts, copies, crashes>>

\* createBackupFile: VACUUM INTO a temporary file, then the rename.
Copied == [by |-> "backup", images |-> FALSE]

CopyDatabase ==
    /\ backup.at = "copy"
    /\ copies' = Append(copies, Copied)
    /\ backup' = [backup EXCEPT !.at = "images"]
    /\ UNCHANGED <<db, today, serving, transcripts, crashes>>

\* snapshotImageDirectory: the pictures are copied next to the newest file, or
\* there are none; a copy that fails ends the command.
SnapshotImages ==
    /\ backup.at = "images"
    /\ \/ \E images \in BOOLEAN :
             copies' = [copies EXCEPT ![Len(copies)].images = images]
          /\ backup' = [backup EXCEPT !.at = "rotate"]
       \/ backup' = [backup EXCEPT !.at = "idle"] /\ copies' = copies
    /\ UNCHANGED <<db, today, serving, transcripts, crashes>>

\* rotateBackups: all but the newest files go, each with its pictures.
Newest(files) == SubSeq(files, Max({1, Len(files) - BackupCopies + 1}), Len(files))

RotateBackups ==
    /\ backup.at = "rotate"
    /\ copies' = Newest(copies)
    /\ backup' = [backup EXCEPT !.at = "kept"]
    /\ UNCHANGED <<db, today, serving, transcripts, crashes>>

EndBackup ==
    /\ backup.at = "kept" /\ backup' = [backup EXCEPT !.at = "idle"]
    /\ UNCHANGED <<db, today, serving, transcripts, copies, crashes>>

\* A kill of the command between two of its steps.
KillBackup ==
    /\ backup.at \in {"copy", "images", "rotate"} /\ backup' = [backup EXCEPT !.at = "idle"]
    /\ UNCHANGED <<db, today, serving, transcripts, copies, crashes>>

\* SqliteStore.migrate: an upgrade is preceded by a copy of its own.
Upgrade ==
    /\ ~serving /\ backup.at = "idle" /\ \A i \in DOMAIN copies : copies[i].by # "upgrade"
    /\ copies' = Append(copies, [by |-> "upgrade", images |-> FALSE])
    /\ UNCHANGED <<db, today, serving, transcripts, backup, crashes>>

RetentionInit ==
    /\ db = Put(Name("media_analyses", 1), StoredRow(0, "sticker", {}))
            @@ Put(Name("stickers", 1), StoredRow(0, "stored", {<<"stickers.current_analysis_id",
                                                            Name("media_analyses", 1)>>}))
    /\ today = 0 /\ serving = TRUE /\ crashes = 0
    /\ transcripts = [c \in Talks |-> NoAgent]
    /\ backup = NoBackup /\ copies = <<>>

RetentionNext ==
    \/ \E c \in Talks :
          \/ \E photo \in BOOLEAN : WriteMessage(c, photo)
          \/ OpenRun(c) \/ EndRun(c) \/ EvictRows(c)
          \/ WriteSend(c) \/ WriteReminder(c) \/ WriteFiring(c) \/ WriteClaim(c)
    \/ AnalyseImage \/ Kill \/ StartAgain \/ Midnight
    \/ StartBackup \/ CopyDatabase \/ SnapshotImages \/ RotateBackups \/ EndBackup
    \/ KillBackup \/ Upgrade

RetentionSpec == RetentionInit /\ [][RetentionNext]_retentionVars

-------------------------------------------------------------------------------
(* Properties.                                                                  *)

RetentionTypeOK ==
    /\ \A n \in DOMAIN db : UNION {{r[2]} : r \in db[n].refs} \subseteq DOMAIN db
    /\ today \in 0..LastDay /\ serving \in BOOLEAN
    /\ transcripts \in [Talks -> [context : Nat, rows : SUBSET Nat]]
    /\ copies \in Seq([by : {"backup", "upgrade"}, images : BOOLEAN])

\* data-layer.md: only what has ended and nothing active refers to is deleted, by a
\* statement or along with a row that another statement deletes: a task that waits or
\* whose receipt is not settled, a run with its batch, a conversation that was active
\* within the retention, and the index of the stickers survive.
Expendable(n) ==
    LET row == db[n]
        context == {m \in RowsOf(db, "conversation_contexts") : m[2] = n[2]}
        old == IsOld(row, today)
    IN CASE n[1] \in {"invocations", "buckets"} -> row.state \in Terminal /\ old
         [] n[1] \in {"tool_calls", "telegram_sends", "invocation_messages", "invocation_buckets"} ->
                \A run \in RowsOf(db, "invocations") : run[2] = n[2] => db[run].state \in Terminal
         [] n[1] = "long_tasks" ->
                \E r \in RowsOf(db, "task_receipts") : db[r].state = "handled" /\ IsOld(db[r], today)
         [] n[1] = "task_receipts" -> row.state = "handled"
         [] n[1] = "bucket_messages" ->
                \E b \in RowsOf(db, "buckets") : b[2] = n[2] /\ db[b].state \in Terminal
         [] n[1] \in {"messages", "message_revisions", "media"} -> old
         [] n[1] = "conversation_contexts" -> old
         [] n[1] = "context_messages" ->
                row.state = "evicted" \/ \A k \in context : IsOld(db[k], today)
         [] n[1] = "media_analyses" -> row.state = "image" /\ old
         [] n[1] = "stickers" -> FALSE
         [] OTHER -> TRUE
OnlyTheExpendableGo == [][\A n \in DOMAIN db \ DOMAIN db' : Expendable(n)]_retentionVars

\* database.ts purgeExpiredData: after a purge no revision has text from before the
\* retention, and no sender is known who only said that, whether or not the message is
\* still named; the pictures, the rows of a context that were evicted and the runs of that
\* time are gone as well.  This is about these tables: what was said then is still in the
\* snapshots of runs that are younger (invocation_messages.snapshot_json) and in the rows of
\* a context that were not evicted (context_messages.payload_json), which the purge keeps.
OldIsForgotten ==
    backup.purge = "done" =>
        LET Old(n) == db[n].at < backup.day - OnlineDays IN
        /\ \A n \in RowsOf(db, "message_revisions") : Old(n) => db[n].state = "scrubbed"
        /\ \A n \in RowsOf(db, "senders") :
              \E r \in RowsOf(db, "message_revisions") : n \in Parents(db[r], {"message_revisions.sender_id"})
        /\ \A n \in RowsOf(db, "media") \cup RowsOf(db, "conversation_contexts") : ~Old(n)
        /\ \A n \in RowsOf(db, "context_messages") : db[n].state = "evicted" => ~Old(n)
        /\ \A n \in RowsOf(db, "invocations") : db[n].state \in Terminal => ~Old(n)

\* Apart from what a kill leaves behind, no key keeps the purge from being done.
FailsAfterKillsOnly == backup.purge = "failed" => crashes > 0

\* verification.md: after a backup its file is there, and there are no more than
\* backup_copies.
BackupsAreBounded ==
    backup.at = "kept" => Len(copies) <= BackupCopies /\ copies[Len(copies)].by = "backup"

\* The retention forgets what is old, keeps what is in use, and leaves a copy.
RetentionKeepsFaith ==
    /\ [](RetentionTypeOK /\ OldIsForgotten /\ FailsAfterKillsOnly /\ BackupsAreBounded)
    /\ OnlyTheExpendableGo

\* data-layer.md:155, schema.ts:715: a finished invocation is purged whatever refers
\* to it, as the reference of a context is set to null.
PurgeSucceeds == backup.purge # "failed"

\* conversation-runtime.ts:8: the context in SQLite is the only truth, and a run's
\* cached transcript shows its rows.
CachedIsCurrent ==
    \A c \in Talks : RunsOf(db, c) # {} =>
        \A n \in ContextOf(db, c) : transcripts[c] = [context |-> n[2], rows |-> TranscriptOf(db, n)]

===============================================================================
