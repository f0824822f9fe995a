------------------------------ MODULE McpServer ------------------------------
(* One server of the MCP manager (src/src/capabilities/mcp.ts): its connections, *)
(* the reconnects, the refreshes of its tool list, and the calls of the runs,   *)
(* which a semaphore of one takes in turn.  A connection is named by the        *)
(* generation of the attempt that opened it; 0 is no connection.                *)
EXTENDS Integers, Sequences, FiniteSets, SequencesExt

CONSTANTS McpCalls, ReadOnly,   \* tool calls; those of tools with the read_only policy
          GenerationBound, CatalogueBound, LineBound  \* bounds of the exploration

ASSUME McpAssumption ==
    /\ ReadOnly \subseteq McpCalls
    /\ {"refresh", "reconnect"} \cap McpCalls = {}
    /\ {GenerationBound, CatalogueBound, LineBound} \subseteq Nat \ {0}

VARIABLES server,    \* ManagedServer, with what stop() is closing
          connects,  \* the connects in progress: of start() and of the timer
          line,      \* the semaphore: its holder, then the waiters in order
          holder,    \* what the holder is waiting for
          audit,     \* tool_calls
          remote     \* external: the server, its connections and what it has done

mcpVars == <<server, connects, line, holder, audit, remote>>

Generations == 0..GenerationBound

ManagedServer ==
    [state: {"starting", "ready", "degraded", "stopped"}, required: BOOLEAN,
     client: Generations, generation: Generations, closing: Generations,
     tools: 0..CatalogueBound, listedBy: Generations, timer: BOOLEAN,
     manager: {"new", "started", "stopping", "stopped"}]

Connect == [at: {"idle", "replacing", "opening", "listing", "discarding"},
            generation: Generations, old: Generations, failed: BOOLEAN]

NoConnect == [at |-> "idle", generation |-> 0, old |-> 0, failed |-> FALSE]

Remote == [open: SUBSET Generations, notices: SUBSET Generations, catalogue: 1..CatalogueBound,
           wire: SUBSET (McpCalls \X {1, 2}), executed: [McpCalls -> 0..2]]

Waiting == [at |-> "line", client |-> 0, try |-> 0]

McpTypeOK ==
    /\ server \in ManagedServer
    /\ connects \in [{"start", "timer"} -> Connect]
    /\ line \in Seq(McpCalls \cup {"refresh", "reconnect"})
    /\ holder \in [at: {"line", "connect", "list", "call", "pause"}, client: Generations, try: 0..2]
    /\ audit \in [McpCalls -> {"none", "pending", "refused", "success", "error", "unknown"}]
    /\ remote \in Remote

McpInit ==
    /\ \E required \in BOOLEAN :
           server = [state |-> "stopped", required |-> required, client |-> 0,
                     generation |-> 0, closing |-> 0, tools |-> 0, listedBy |-> 0,
                     timer |-> FALSE, manager |-> "new"]
    /\ connects = [p \in {"start", "timer"} |-> NoConnect]
    /\ line = <<>> /\ holder = Waiting
    /\ audit = [c \in McpCalls |-> "none"]
    /\ remote = [open |-> {}, notices |-> {}, catalogue |-> 1, wire |-> {},
                 executed |-> [c \in McpCalls |-> 0]]

------------------------------------------------------------------------------
(* What the handlers share.                                                    *)

Stopping == server.manager \in {"stopping", "stopped"}

\* setState degraded, and scheduleReconnect, which keeps a timer that is set.
DegradedAndScheduled(s) ==
    [s EXCEPT !.state = "degraded",
              !.timer = @ \/ s.manager \notin {"stopping", "stopped"}]

Degraded(s) == [s EXCEPT !.state = "degraded"]

ReleaseServer ==
    /\ line' = Tail(line)
    /\ holder' = Waiting

Holds(task) == line # <<>> /\ Head(line) = task

Disconnected(k) == [remote EXCEPT !.open = @ \ {k}, !.notices = @ \ {k}]

\* The synchronous part of stop().
BeginningToStop(s) ==
    [s EXCEPT !.manager = "stopping", !.timer = FALSE, !.generation = @ + 1,
              !.closing = s.client, !.client = 0]

\* What start() and the timer do when their connect has ended with an error.
ReportFailure(p, s) ==
    IF p = "start" /\ s.required THEN BeginningToStop(Degraded(s)) ELSE DegradedAndScheduled(s)

------------------------------------------------------------------------------
(* Connecting.                                                                 *)

MayConnect == server.generation + 2 <= GenerationBound

\* #connect up to its first await.
BeginConnect(p) ==
    /\ connects[p].at = "idle" /\ MayConnect /\ ~Stopping
    /\ connects' = [connects EXCEPT ![p] =
           [at |-> IF server.client = 0 THEN "opening" ELSE "replacing",
            generation |-> server.generation + 1, old |-> server.client, failed |-> FALSE]]
    /\ server' = [server EXCEPT !.state = "starting", !.client = 0, !.generation = @ + 1,
                                !.manager = "started"]

StartMcp ==
    /\ server.manager = "new"
    /\ BeginConnect("start")
    /\ UNCHANGED <<line, holder, audit, remote>>

FireTimer ==
    /\ server.timer /\ Len(line) < LineBound
    /\ server' = [server EXCEPT !.timer = FALSE]
    /\ line' = Append(line, "reconnect")
    /\ UNCHANGED <<connects, holder, audit, remote>>

\* The semaphore was not free for 30 seconds.
TimeOutInLine ==
    /\ \E i \in 2..Len(line) :
           line[i] = "reconnect" /\ line' = RemoveAt(line, i)
    /\ server' = DegradedAndScheduled(server)
    /\ UNCHANGED <<connects, holder, audit, remote>>

BeginReconnect ==
    /\ Holds("reconnect") /\ holder.at = "line"
    /\ IF Stopping THEN ReleaseServer /\ UNCHANGED <<server, connects>>
                   ELSE /\ BeginConnect("timer")
                        /\ holder' = [holder EXCEPT !.at = "connect"]
                        /\ UNCHANGED line
    /\ UNCHANGED <<audit, remote>>

\* The old client is closed.
CloseOld(p) ==
    /\ connects[p].at = "replacing"
    /\ connects' = [connects EXCEPT ![p].at = "opening", ![p].old = 0]
    /\ remote' = Disconnected(connects[p].old)
    /\ UNCHANGED <<server, line, holder, audit>>

OpenTransport(p) ==
    /\ connects[p].at = "opening"
    /\ connects' = [connects EXCEPT ![p].at = "listing"]
    /\ remote' = [remote EXCEPT !.open = @ \cup {connects[p].generation}]
    /\ UNCHANGED <<server, line, holder, audit>>

\* The end of #connect, for whoever awaits it.
EndConnect(p) ==
    /\ connects' = [connects EXCEPT ![p] = NoConnect]
    /\ IF p = "timer" THEN ReleaseServer ELSE UNCHANGED <<line, holder>>

Superseded(p) == Stopping \/ connects[p].generation # server.generation

\* MUTANT of PublishTools: the newer connect, or stop(), is not looked at.
PublishToolsAnyway(p) ==
    /\ connects[p].at = "listing" /\ connects[p].generation \in remote.open
    /\ server' = [server EXCEPT !.state = "ready", !.client = connects[p].generation,
                                !.tools = remote.catalogue,
                                !.listedBy = connects[p].generation]
    /\ EndConnect(p)
    /\ UNCHANGED <<audit, remote>>

PublishTools(p) ==
    /\ connects[p].at = "listing" /\ connects[p].generation \in remote.open
    /\ ~Superseded(p)
    /\ server' = [server EXCEPT !.state = "ready", !.client = connects[p].generation,
                                !.tools = remote.catalogue,
                                !.listedBy = connects[p].generation]
    /\ EndConnect(p)
    /\ UNCHANGED <<audit, remote>>

\* Nobody wants the connection any more; not a failure.
AbandonConnect(p) ==
    /\ connects[p].at = "listing" /\ connects[p].generation \in remote.open
    /\ Superseded(p)
    /\ connects' = [connects EXCEPT ![p].at = "discarding"]
    /\ UNCHANGED <<server, line, holder, audit, remote>>

\* A secret is missing, the transport, the handshake or the list fails, a tool is
\* missing or the registry invalid; the fetch itself reports its payload limit.
FailConnect(p) ==
    /\ connects[p].at \in {"opening", "listing"}
    /\ connects' = [connects EXCEPT ![p].at = "discarding", ![p].failed = TRUE]
    /\ \E limit \in BOOLEAN : server' = IF limit THEN Degraded(server) ELSE server
    /\ UNCHANGED <<line, holder, audit, remote>>

\* The client that was not published is closed, and the caller sees the error.
DiscardConnection(p) ==
    /\ connects[p].at = "discarding"
    /\ remote' = Disconnected(connects[p].generation)
    /\ server' = IF connects[p].failed THEN ReportFailure(p, server) ELSE server
    /\ EndConnect(p)
    /\ UNCHANGED audit

StopMcp ==
    /\ server.manager = "started" /\ connects["start"].at = "idle"
    /\ server' = BeginningToStop(server)
    /\ UNCHANGED <<connects, line, holder, audit, remote>>

FinishStop ==
    /\ server.manager = "stopping"
    /\ server' = [server EXCEPT !.manager = "stopped", !.state = "stopped", !.tools = 0,
                                !.listedBy = 0, !.closing = 0]
    /\ remote' = IF server.closing = 0 THEN remote ELSE Disconnected(server.closing)
    /\ UNCHANGED <<connects, line, holder, audit>>

------------------------------------------------------------------------------
(* Callbacks of the clients, and the tool list.                                *)

Belongs(k) == ~Stopping /\ k = server.generation

\* A discarded client has lost its callbacks.
Discarding(k) == \E p \in DOMAIN connects :
                     connects[p].at = "discarding" /\ connects[p].generation = k

OnClose(k) ==
    /\ k \in remote.open
    /\ remote' = Disconnected(k)
    /\ server' = IF Belongs(k) /\ ~Discarding(k)
                 THEN DegradedAndScheduled([server EXCEPT !.client = 0]) ELSE server
    /\ UNCHANGED <<connects, line, holder, audit>>

OnError(k) ==
    /\ k \in remote.open /\ Belongs(k) /\ ~Discarding(k)
    /\ server' = Degraded(server)
    /\ UNCHANGED <<connects, line, holder, audit, remote>>

\* External: the server changes its tools and tells whoever is connected.
ChangeTools ==
    /\ remote.catalogue < CatalogueBound
    /\ remote' = [remote EXCEPT !.catalogue = @ + 1, !.notices = remote.open]
    /\ UNCHANGED <<server, connects, line, holder, audit>>

OnChanged(k) ==
    /\ k \in remote.notices /\ Len(line) < LineBound
    /\ remote' = [remote EXCEPT !.notices = @ \ {k}]
    /\ line' = IF Belongs(k) THEN Append(line, "refresh") ELSE line
    /\ UNCHANGED <<server, connects, holder, audit>>

BeginRefresh ==
    /\ Holds("refresh") /\ holder.at = "line"
    /\ IF server.client = 0
       THEN ReleaseServer /\ server' = Degraded(server)
       ELSE /\ holder' = [holder EXCEPT !.at = "list", !.client = server.client]
            /\ UNCHANGED <<server, line>>
    /\ UNCHANGED <<connects, audit, remote>>

FinishRefresh ==
    /\ holder.at = "list" /\ holder.client \in remote.open
    /\ server' = IF Stopping \/ server.client # holder.client THEN server
                 ELSE [server EXCEPT !.state = "ready", !.tools = remote.catalogue,
                                     !.listedBy = holder.client]
    /\ ReleaseServer
    /\ UNCHANGED <<connects, audit, remote>>

\* No answer, or tools that do not fit.
FailRefresh ==
    /\ holder.at = "list"
    /\ server' = Degraded(server)
    /\ ReleaseServer
    /\ UNCHANGED <<connects, audit, remote>>

------------------------------------------------------------------------------
(* The calls.                                                                  *)

\* Deadline, arguments.
RefuseCall(c) ==
    /\ audit[c] = "none"
    /\ audit' = [audit EXCEPT ![c] = "refused"]
    /\ UNCHANGED <<server, connects, line, holder, remote>>

\* A tool the run was given; runs begin when start() has returned.
StartCall(c) ==
    /\ audit[c] = "none" /\ Len(line) < LineBound
    /\ server.manager # "new" /\ connects["start"].at = "idle"
    /\ audit' = [audit EXCEPT ![c] = "pending"]
    /\ line' = Append(line, c)
    /\ UNCHANGED <<server, connects, holder, remote>>

AbortInLine(c) ==
    /\ \E i \in 2..Len(line) : line[i] = c /\ line' = RemoveAt(line, i)
    /\ audit' = [audit EXCEPT ![c] = "refused"]
    /\ UNCHANGED <<server, connects, holder, remote>>

Finish(c, state) ==
    /\ audit' = [audit EXCEPT ![c] = state]
    /\ ReleaseServer

\* An error that does not say what became of the call.
LoseCall(c) ==
    /\ Finish(c, "unknown")
    /\ server' = DegradedAndScheduled(server)

\* #call, the first time or after the pause.
SendCall(c) ==
    /\ Holds(c) /\ holder.at \in {"line", "pause"}
    /\ IF server.client = 0 \/ server.state # "ready"
       THEN LoseCall(c) /\ UNCHANGED remote
       ELSE /\ holder' = [at |-> "call", client |-> server.client, try |-> holder.try + 1]
            /\ remote' = [remote EXCEPT !.wire = @ \cup {<<c, holder.try + 1>>}]
            /\ UNCHANGED <<server, line, audit>>
    /\ UNCHANGED connects

\* External: the server executes a call, perhaps one nobody waits for any more.
ExecuteCall(w) ==
    /\ w \in remote.wire
    /\ remote' = [remote EXCEPT !.wire = @ \ {w}, !.executed[w[1]] = @ + 1]
    /\ UNCHANGED <<server, connects, line, holder, audit>>

\* A result, which may be a tool error.
AnswerCall(c) ==
    /\ Holds(c) /\ holder.at = "call" /\ holder.client \in remote.open
    /\ <<c, holder.try>> \notin remote.wire
    /\ Finish(c, "success") \/ Finish(c, "error")
    /\ UNCHANGED <<server, connects, remote>>

\* An error of the protocol that is neither a timeout nor a closed connection.
RejectCall(c) ==
    /\ Holds(c) /\ holder.at = "call" /\ holder.client \in remote.open
    /\ Finish(c, "error")
    /\ UNCHANGED <<server, connects, remote>>

\* MUTANT of RetryCall: whatever the policy of the tool.
RetryAnyCall(c) ==
    /\ Holds(c) /\ holder.at = "call" /\ holder.try = 1
    /\ holder' = [holder EXCEPT !.at = "pause"]
    /\ UNCHANGED <<server, connects, line, audit, remote>>

\* A transient error of a tool that only reads.
RetryCall(c) ==
    /\ Holds(c) /\ holder.at = "call" /\ holder.try = 1 /\ c \in ReadOnly
    /\ holder' = [holder EXCEPT !.at = "pause"]
    /\ UNCHANGED <<server, connects, line, audit, remote>>

\* Any other error, a time limit or the signal of the run.
GiveUpCall(c) ==
    /\ Holds(c) /\ holder.at \in {"call", "pause"}
    /\ LoseCall(c)
    /\ UNCHANGED <<connects, remote>>

McpNext ==
    \/ StartMcp \/ FireTimer \/ TimeOutInLine \/ BeginReconnect \/ StopMcp \/ FinishStop
    \/ \E p \in {"start", "timer"} :
           CloseOld(p) \/ OpenTransport(p) \/ PublishTools(p) \/ AbandonConnect(p)
           \/ FailConnect(p) \/ DiscardConnection(p)
    \/ \E k \in 1..GenerationBound : OnClose(k) \/ OnError(k) \/ OnChanged(k)
    \/ ChangeTools \/ BeginRefresh \/ FinishRefresh \/ FailRefresh
    \/ \E c \in McpCalls :
           RefuseCall(c) \/ StartCall(c) \/ AbortInLine(c) \/ SendCall(c) \/ AnswerCall(c)
           \/ RejectCall(c) \/ RetryCall(c) \/ GiveUpCall(c)
    \/ \E w \in remote.wire : ExecuteCall(w)

McpSpec == McpInit /\ [][McpNext]_mcpVars

------------------------------------------------------------------------------
(* Properties.                                                                 *)

\* Every connection has somebody who will close it: the manager until it stops,
\* stop(), or the connect that opened or replaces it.
NoOrphans ==
    \A k \in remote.open :
        \/ k = server.client /\ ~Stopping
        \/ k = server.closing
        \/ \E p \in DOMAIN connects : k \in {connects[p].generation, connects[p].old}

\* Until stop(), a ready server has a client and offers what that client listed.
ReadyOffersItsOwn ==
    server.state = "ready" /\ server.manager = "started"
        => server.client # 0 /\ server.listedBy = server.client

\* The offer is the latest once every notice has been dealt with.
OfferIsCurrent ==
    server.state = "ready" /\ server.manager = "started"
    /\ remote.notices = {} /\ "refresh" \notin ToSet(line)
        => server.tools = remote.catalogue

\* A server without a client is on its way back, until the manager stops.
NeverForgotten ==
    server.manager = "started" /\ server.client = 0 =>
        \/ server.timer
        \/ "reconnect" \in ToSet(line)
        \/ connects["start"].at # "idle"

\* A call that may change something is executed once at most, whatever happens to
\* its connection; a success was executed, and a refusal never left.
CallsAreTruthful ==
    \A c \in McpCalls :
        /\ c \notin ReadOnly => remote.executed[c] <= 1
        /\ audit[c] = "success" => remote.executed[c] > 0
        /\ audit[c] = "refused" => remote.executed[c] = 0 /\ {<<c, 1>>, <<c, 2>>} \cap remote.wire = {}

\* The manager loses no connection, no server and no call.
ManagerLosesNothing ==
    /\ McpTypeOK /\ NoOrphans /\ ReadyOffersItsOwn /\ OfferIsCurrent
    /\ NeverForgotten /\ CallsAreTruthful

=============================================================================
