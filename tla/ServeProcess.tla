---------------------------- MODULE ServeProcess ----------------------------
(* The processes that serve one data directory (src/src/application.ts): the   *)
(* lock and the stop request, which are files (src/src/store/database.ts), the *)
(* parts that a process starts one after the other, and the cleanup of what it *)
(* has started, wherever it stopped.  Every process is started once, and its   *)
(* pid is its name.                                                            *)
EXTENDS Naturals, Sequences, FiniteSets

CONSTANTS Processes, Nothing

ASSUME NothingIsNoLock == Nothing \notin [by : Processes, pid : BOOLEAN]

VARIABLES lock,     \* serve.lock: who created it, and whether it holds the pid yet
          request,  \* serve.stop: the takeover that wrote it
          procs,    \* [Processes -> where it is and what it runs]
          foreign,  \* the pids that belong to other programs by now
          overlap   \* history: two processes were acquiring the lock at once

serveVars == <<lock, request, procs, foreign, overlap>>

\* `runs' are the parts that work, and `held' is the handle of the lock.
Unborn == [at |-> "new", takeover |-> FALSE, again |-> FALSE, stopping |-> FALSE,
               held |-> FALSE, runs |-> {}]

ServeInit ==
    /\ lock = Nothing /\ request = Nothing
    /\ procs = [p \in Processes |-> Unborn]
    /\ foreign = {} /\ overlap = FALSE

Running(p) == procs[p].at \notin {"new", "gone"}
isProcessAlive(p) == Running(p) \/ p \in foreign
Acquiring(p) == procs[p].at \in {"open", "write", "read", "unlink"}

\* What serve awaits between the watcher and the end, in its order: the parts that
\* use the store, Telegram, and the drain.
Stages == <<"store", "images", "telegram", "stickers", "bridge",
            "catch-up", "mcp", "scheduler", "admin", "polling">>
Services == {"store", "images", "stickers", "bridge", "mcp", "scheduler", "admin"}

\* The finally block: of what works, what serve stops, in its order, before the lock.
Cleanup == <<"watcher", "admin", "scheduler", "bridge", "images", "stickers", "mcp",
             "store">>

Go(p, at) == [procs[p] EXCEPT !.at = at]
Leave(p, runs) == [procs[p] EXCEPT !.at = "cleanup", !.runs = runs]

\* One step of process p, after which two processes may overlap.
Becomes(p, process) ==
    /\ procs' = [procs EXCEPT ![p] = process]
    /\ overlap' = (overlap \/ \E q \in Processes \ {p} :
                      Acquiring(q) /\ process.at \in {"open", "write", "read", "unlink"})

-----------------------------------------------------------------------------
(* From the command line to the lock.                                          *)

StartServe(p, takeover) ==
    /\ procs[p].at = "new"
    /\ Becomes(p, [procs[p] EXCEPT !.at = "secrets", !.takeover = takeover])
    /\ UNCHANGED <<lock, request, foreign>>

ResolveToken(p) ==
    /\ procs[p].at = "secrets"
    /\ \/ Becomes(p, Go(p, IF procs[p].takeover THEN "look" ELSE "open"))
       \/ Becomes(p, Leave(p, procs[p].runs))
    /\ UNCHANGED <<lock, request, foreign>>

Holder == IF lock # Nothing /\ lock.pid THEN {lock.by} ELSE {}

\* stopRunningInstance: reads the lock, writes the request, and waits for the lock
\* to go or for a minute.
LookForInstance(p) ==
    /\ procs[p].at = "look"
    /\ Becomes(p, Go(p, IF \E q \in Holder : isProcessAlive(q) THEN "ask" ELSE "open"))
    /\ UNCHANGED <<lock, request, foreign>>

AskToStop(p) ==
    /\ procs[p].at = "ask"
    /\ request' = p
    /\ Becomes(p, Go(p, "await"))
    /\ UNCHANGED <<lock, foreign>>

InstanceStopped(p) ==
    /\ procs[p].at = "await" /\ lock = Nothing
    /\ request' = Nothing
    /\ Becomes(p, Go(p, "open"))
    /\ UNCHANGED <<lock, foreign>>

GiveUpTakeover(p) ==
    /\ procs[p].at = "await" /\ lock # Nothing
    /\ request' = Nothing
    /\ Becomes(p, Leave(p, procs[p].runs))
    /\ UNCHANGED <<lock, foreign>>

\* ServeLock.acquire: creates the file, and writes the pid when it has it.
OpenLock(p) ==
    /\ procs[p].at = "open"
    /\ IF lock = Nothing
       THEN lock' = [by |-> p, pid |-> FALSE] /\ Becomes(p, Go(p, "write"))
       ELSE lock' = lock /\ Becomes(p, IF procs[p].again THEN Leave(p, procs[p].runs) ELSE Go(p, "read"))
    /\ UNCHANGED <<request, foreign>>

WriteLock(p) ==
    /\ procs[p].at = "write"
    /\ lock' = IF lock # Nothing /\ lock.by = p THEN [lock EXCEPT !.pid = TRUE] ELSE lock
    /\ Becomes(p, [Go(p, "watch") EXCEPT !.held = TRUE])
    /\ UNCHANGED <<request, foreign>>

\* It was there: its process lives, it has gone meanwhile, or it is stale.
MayUnlink(p) == lock # Nothing /\ \A q \in Holder : ~isProcessAlive(q)

ReadLock(p) ==
    /\ procs[p].at = "read"
    /\ Becomes(p, IF MayUnlink(p) THEN Go(p, "unlink") ELSE Leave(p, procs[p].runs))
    /\ UNCHANGED <<lock, request, foreign>>

UnlinkLock(p) ==
    /\ procs[p].at = "unlink"
    /\ lock' = Nothing
    /\ Becomes(p, IF lock = Nothing THEN Leave(p, procs[p].runs) ELSE [Go(p, "open") EXCEPT !.again = TRUE])
    /\ UNCHANGED <<request, foreign>>

-----------------------------------------------------------------------------
(* Startup and its end.                                                        *)

\* watchStopRequests drops a request that is there already.
WatchRequests(p) ==
    /\ procs[p].at = "watch"
    /\ request' = Nothing
    /\ Becomes(p, [Go(p, "store") EXCEPT !.runs = {"watcher"}])
    /\ UNCHANGED <<lock, foreign>>

\* A stage is done, and what it starts works; the panel may be disabled.
FinishStage(p) ==
    /\ \E i \in 1..Len(Stages) - 1, started \in SUBSET ({procs[p].at} \cap Services) :
          /\ procs[p].at = Stages[i]
          /\ started = {} => procs[p].at \notin Services \ {"admin"}
          /\ Becomes(p, [Go(p, Stages[i + 1]) EXCEPT !.runs = @ \cup started])
    /\ UNCHANGED <<lock, request, foreign>>

\* A stage throws, before or after what it starts began to work; polling ends so
\* when Telegram refuses the token or sees another process poll.
FailStage(p) ==
    /\ \E i \in DOMAIN Stages : procs[p].at = Stages[i]
    /\ \E started \in SUBSET ({procs[p].at} \cap (Services \ {"store"})) :
          Becomes(p, Leave(p, procs[p].runs \cup started))
    /\ UNCHANGED <<lock, request, foreign>>

\* shutdown(): aborts the drain and ends the polling; at any other stage it is only
\* noted.
Stopped(p) ==
    IF procs[p].at \in {"catch-up", "polling"} THEN [Leave(p, procs[p].runs) EXCEPT !.stopping = TRUE]
    ELSE [procs[p] EXCEPT !.stopping = TRUE]

Stoppable(p) == Running(p) /\ procs[p].at # "cleanup" /\ ~procs[p].stopping

NoticeRequest(p) ==
    /\ Stoppable(p) /\ "watcher" \in procs[p].runs /\ request # Nothing
    /\ Becomes(p, Stopped(p))
    /\ UNCHANGED <<lock, request, foreign>>

\* A signal, or the restart of the panel.
StopServe(p) ==
    /\ Stoppable(p)
    /\ Becomes(p, Stopped(p))
    /\ UNCHANGED <<lock, request, foreign>>

StopPart(p) ==
    /\ procs[p].at = "cleanup"
    /\ \E i \in DOMAIN Cleanup :
          /\ Cleanup[i] \in procs[p].runs
          /\ \A j \in 1..i - 1 : Cleanup[j] \notin procs[p].runs
          /\ Becomes(p, [procs[p] EXCEPT !.runs = @ \ {Cleanup[i]}])
    /\ UNCHANGED <<lock, request, foreign>>

\* Faulty: a process that was refused removes the lock, too.
ReleaseAnyway(p) ==
    /\ procs[p].at = "cleanup" /\ procs[p].runs = {}
    /\ lock' = Nothing
    /\ Becomes(p, [procs[p] EXCEPT !.at = "gone", !.held = FALSE])
    /\ UNCHANGED <<request, foreign>>

\* The lock comes last, and is removed by its path.
ReleaseLock(p) ==
    /\ procs[p].at = "cleanup" /\ procs[p].runs = {}
    /\ lock' = IF procs[p].held THEN Nothing ELSE lock
    /\ Becomes(p, [procs[p] EXCEPT !.at = "gone", !.held = FALSE])
    /\ UNCHANGED <<request, foreign>>

KillServe(p) ==
    /\ Running(p)
    /\ Becomes(p, [Unborn EXCEPT !.at = "gone"])
    /\ UNCHANGED <<lock, request, foreign>>

\* The pid of a process that was killed with the lock goes to another program.
ReusePid(p) ==
    /\ procs[p].at = "gone" /\ lock # Nothing /\ lock.by = p /\ p \notin foreign
    /\ foreign' = foreign \cup {p}
    /\ UNCHANGED <<lock, request, procs, overlap>>

ServeNext ==
    \E p \in Processes :
        \/ \E takeover \in BOOLEAN : StartServe(p, takeover)
        \/ ResolveToken(p) \/ LookForInstance(p) \/ AskToStop(p) \/ InstanceStopped(p)
        \/ GiveUpTakeover(p) \/ OpenLock(p) \/ WriteLock(p) \/ ReadLock(p) \/ UnlinkLock(p)
        \/ WatchRequests(p) \/ FinishStage(p) \/ FailStage(p) \/ NoticeRequest(p)
        \/ StopServe(p) \/ StopPart(p) \/ ReleaseLock(p) \/ KillServe(p) \/ ReusePid(p)

ServeSpec == ServeInit /\ [][ServeNext]_serveVars

-----------------------------------------------------------------------------

Places == {"new", "secrets", "look", "ask", "await", "open", "write", "read", "unlink",
           "watch", "cleanup", "gone"} \cup {Stages[i] : i \in DOMAIN Stages}

ServeTypeOK ==
    /\ lock \in [by : Processes, pid : BOOLEAN] \cup {Nothing}
    /\ request \in Processes \cup {Nothing}
    /\ procs \in [Processes ->
          [at : Places, takeover : BOOLEAN, again : BOOLEAN, stopping : BOOLEAN,
           held : BOOLEAN, runs : SUBSET ({"watcher"} \cup Services)]]
    /\ foreign \subseteq Processes
    /\ overlap \in BOOLEAN

\* operations.md:70: one process serves a data directory.  As long as no two starts are
\* inside acquire() at once, at most one process has the store open, whatever
\* takeovers, kills, stale locks and failed starts come in between; and a takeover
\* that saw the lock go finds the store closed.
OneServes ==
    ~overlap => \A p, q \in Processes :
        "store" \in procs[p].runs /\ "store" \in procs[q].runs => p = q

\* application.ts: whatever stage fails or is stopped at, what uses the store is
\* stopped before the store is closed, and a process that left leaves nothing running.
StoreClosesLast ==
    \A p \in Processes :
        /\ procs[p].runs \subseteq {"watcher"} \/ "store" \in procs[p].runs
        /\ procs[p].at = "gone" => procs[p].runs = {}

\* A start that is refused does not take the lock of the one that serves.
RefusedLeavesLock ==
    ~overlap => \A p \in Processes :
        procs[p].held => lock # Nothing /\ lock.by = p

\* Of the processes of one data directory, under every overlap of their starts and
\* their ends.
ServeIsSingle == ServeTypeOK /\ OneServes /\ StoreClosesLast /\ RefusedLeavesLock
=============================================================================
