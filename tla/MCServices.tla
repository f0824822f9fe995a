------------------------------ MODULE MCServices ------------------------------
(* One instance for TLC of the services around the scheduler.  They share no    *)
(* state with each other, so that `part' picks the one that moves, and for some *)
(* of them the situation it is looked at in; the others stay as they started.   *)
EXTENDS StartupCatchUp, MessageIngestion, LongTasks, ModelCalls, StickerIndex,
        ToolCalls, McpServer, Retention, ServeProcess, TLC

CONSTANTS c1, c2
VARIABLE part

MCUpdates == 1..3
MCConv == 1 :> c1 @@ 2 :> c2 @@ 3 :> c1

\* Ingestion: the group g may become the supergroup s.
MCTargets == "g" :> "s" @@ "s" :> Unset
MCTopics == "g" :> {0}
MCWindows == {[start |-> 1, end |-> 1, days |-> {7}]}
GateInputs ==
    {u \in [chat: {"g"}, thread: {0}, class: {"talk", "call", "bot"},
            edited: BOOLEAN, migrate: {"no"}] : u.edited => u.class = "call"}
MoveInputs ==
    [chat: {"g", "s"}, thread: {0, 1}, class: {"talk"}, edited: {FALSE}, migrate: {"no"}]
    \cup {[chat |-> "g", thread |-> 0, class |-> "service", edited |-> FALSE, migrate |-> "to"],
          [chat |-> "s", thread |-> 0, class |-> "service", edited |-> FALSE, migrate |-> "from"]}
MCInputs == GateInputs \cup MoveInputs

MCRoomOf == [r \in Runs |-> "v1"]

MCChatAt == [x \in Agents \cup Readers |-> IF x \in {"a3", "r3"} THEN "k2" ELSE "k1"]
MCMediaOf == [r \in Readers |-> IF r = "r1" THEN "m1" ELSE "m2"]

MCTopicOf == "s1" :> "t1" @@ "s2" :> "t2"

-------------------------------------------------------------------------------

Parts == {"catch-up", "gate", "moves", "walk", "race", "days", "images", "stickers",
          "sends", "mcp", "purge", "debts", "copies", "serve"}

MCInit ==
    /\ part \in Parts
    /\ Init /\ IngestInit /\ TasksInit /\ CallsInit /\ StickersInit
    /\ ToolsInit /\ McpInit /\ RetentionInit /\ ServeInit
    /\ part # "mcp" => server.required
    /\ part # "stickers" => \A s \in Stickers : telegram[s] = "none"

CatchUp == part = "catch-up" /\ Next

\* With one human and one bot in the group's open topic, or with two topics of
\* two chats and the migration.
Ingestion ==
    /\ part \in {"gate", "moves"}
    /\ IngestNext
    /\ part = "moves" => UNCHANGED <<minute, paused, cutoffs>>
    /\ log' # log => LET last == log'[Len(log')] IN
           IF part = "gate" THEN last.chat = "g" /\ last.thread = 0 /\ last.migrate = "no"
                            ELSE last.class \notin {"call", "bot"}

\* With an operator who turns pages over one user's alarms, or with two tasks.
Tasks ==
    /\ part \in {"walk", "race"}
    /\ TasksNext
    /\ IF part = "walk"
       THEN /\ claims' = claims /\ \A c \in cancelled' : c.by = "admin"
            /\ Len(tasks') > Len(tasks) =>
                   LET t == tasks'[Len(tasks')]
                   IN t.owner = "u1" /\ t.run = <<"r1", "r2", "r3">>[Len(tasks')]
       ELSE walk' = walk /\ Len(tasks') <= 2

\* Across days without images, or with images on one day.
Calls ==
    /\ part \in {"days", "images"}
    /\ CallsNext
    /\ IF part = "days" THEN UNCHANGED <<readers, worker, jobs>> ELSE UNCHANGED <<hour, sleep>>

StickerSearch == part = "stickers" /\ StickersNext

\* With batches for the first run, which goes before the receipt's, and with the
\* calls that send nothing ahead of the others.
Sends ==
    /\ part = "sends"
    /\ ToolsNext
    /\ fresh' # fresh => fresh' \subseteq {"t1"} /\ sender.run = "s1"
    /\ rows'["s2"].state # "queued" => rows'["s1"].state # "queued"
    /\ Len(calls') > Len(calls) =>
           LET last == calls'[Len(calls')]
           IN last.tool = "execute" \/ last.state = "error" => calls = <<>>

\* With a required server only until it has connected.
Mcp ==
    /\ part = "mcp"
    /\ McpNext
    /\ server.required => server'.state # "ready"
    /\ audit'["act"] # "none" => audit'["look"] # "none"

\* With two messages and two runs up to the purge of the second day, with the task
\* and the receipt of one run over three days, or with the copies alone.
Rows ==
    /\ part \in {"purge", "debts", "copies"}
    /\ RetentionNext
    /\ LET Some(table) == \E n \in DOMAIN db' : n[1] = table IN
           CASE part = "purge" -> /\ ~Some("long_tasks") /\ copies' = copies /\ today' <= 2
                                  /\ backup'.day = 2 \/ backup' = backup
             [] part = "debts" -> /\ ~Some("media") /\ ~Some("tool_calls") /\ copies' = copies
                                  /\ \A n \in DOMAIN db' : n[1] = "messages" => n[2] = 1
             [] part = "copies" -> db' = db

Serving == part = "serve" /\ ServeNext

serviceVars == <<vars, ingestVars, taskVars, callVars, stickerVars, toolVars, mcpVars,
                 retentionVars, serveVars>>

MCNext ==
    /\ UNCHANGED part
    /\ \/ CatchUp
          /\ UNCHANGED <<ingestVars, taskVars, callVars, stickerVars, toolVars, mcpVars, retentionVars, serveVars>>
       \/ Ingestion
          /\ UNCHANGED <<vars, taskVars, callVars, stickerVars, toolVars, mcpVars, retentionVars, serveVars>>
       \/ Tasks
          /\ UNCHANGED <<vars, ingestVars, callVars, stickerVars, toolVars, mcpVars, retentionVars, serveVars>>
       \/ Calls
          /\ UNCHANGED <<vars, ingestVars, taskVars, stickerVars, toolVars, mcpVars, retentionVars, serveVars>>
       \/ StickerSearch
          /\ UNCHANGED <<vars, ingestVars, taskVars, callVars, toolVars, mcpVars, retentionVars, serveVars>>
       \/ Sends
          /\ UNCHANGED <<vars, ingestVars, taskVars, callVars, stickerVars, mcpVars, retentionVars, serveVars>>
       \/ Mcp
          /\ UNCHANGED <<vars, ingestVars, taskVars, callVars, stickerVars, toolVars, retentionVars, serveVars>>
       \/ Rows
          /\ UNCHANGED <<vars, ingestVars, taskVars, callVars, stickerVars, toolVars, mcpVars, serveVars>>
       \/ Serving
          /\ UNCHANGED <<vars, ingestVars, taskVars, callVars, stickerVars, toolVars, mcpVars, retentionVars>>

MCSpec == MCInit /\ [][MCNext]_<<part, serviceVars>>

=============================================================================
