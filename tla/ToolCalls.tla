------------------------------ MODULE ToolCalls ------------------------------
(* What a run does outside, and the rows that say so: the send tool             *)
(* (src/src/capabilities/send-tool.ts) with its limit per chat, its barrier and *)
(* its retries after a 429, and the execute tool (execute-tool.ts) for all the  *)
(* other capabilities.  One chat with several topics, whose runs follow each    *)
(* other as the scheduler has it; the tools of a run are sequential.            *)
EXTENDS Integers, Sequences, FiniteSets

CONSTANTS SendRuns, NoSender, \* invocations of the chat; no run
          TopicOf,            \* [SendRuns -> topics]
          ReceiptRuns,        \* those whose batch is a completion receipt
          SendsPerWindow,     \* agent.rate_limits.sends_per_window
          SendWindow,         \* window_seconds, in ticks
          WallClock,          \* max_wall_clock_seconds, in ticks
          CallBound, LastTick \* bounds on the calls and on the clock

ASSUME ToolsAssumption ==
    /\ NoSender \notin SendRuns /\ ReceiptRuns \subseteq SendRuns
    /\ {SendsPerWindow, SendWindow, WallClock, CallBound, LastTick} \subseteq Nat \ {0}

VARIABLES calls,   \* tool_calls, with the telegram_sends row of a send
          sender,  \* the run of the chat and the tool it executes
          rows,    \* [run -> state and side_effect_started of its invocation]
          fresh,   \* the topics with a collecting batch
          posts,   \* external: what Telegram has posted
          tick

toolVars == <<calls, sender, rows, fresh, posts, tick>>

SendTopics == {TopicOf[r] : r \in SendRuns}

\* reserved is telegram_sends.created_at, 0 without such a row; kept says whether
\* the message is in the history; told is what the model reads.
ToolCall == [run: SendRuns, tool: {"send", "execute"},
             state: {"pending", "success", "error", "outcome_unknown"},
             told: {"nothing", "done", "failed", "unknown"},
             reserved: 0..LastTick, kept: BOOLEAN]

Answers == {"accepted", "limited", "refused", "lost"}

Sender == [run: SendRuns \cup {NoSender},
           at: {"turn", "asking", "answered", "waiting", "working"},
           answer: Answers \cup {"none"}, until: 0..LastTick, deadline: 0..LastTick + WallClock,
           aborted: BOOLEAN, spent: BOOLEAN, queued: BOOLEAN, closing: BOOLEAN,
           unread: BOOLEAN] \* history: the last request left past an unread batch

NobodySends == [run |-> NoSender, at |-> "turn", answer |-> "none", until |-> 0,
                deadline |-> 0, aborted |-> FALSE, spent |-> FALSE, queued |-> FALSE,
                closing |-> FALSE, unread |-> FALSE]

ToolsTypeOK ==
    /\ calls \in Seq(ToolCall) /\ Len(calls) <= CallBound
    /\ sender \in Sender
    /\ rows \in [SendRuns -> [state: {"queued", "running", "ended", "restarted", "outcome_unknown"},
                              marked: BOOLEAN]]
    /\ fresh \subseteq SendTopics /\ tick \in 1..LastTick

ToolsInit ==
    /\ calls = <<>> /\ sender = NobodySends /\ fresh = {} /\ posts = {} /\ tick = 1
    /\ rows = [r \in SendRuns |-> [state |-> "queued", marked |-> FALSE]]

------------------------------------------------------------------------------
(* The run around its tools.                                                   *)

BeginRun(r) ==
    /\ sender.run = NoSender /\ rows[r].state = "queued"
    /\ rows' = [rows EXCEPT ![r].state = "running"]
    /\ sender' = [NobodySends EXCEPT !.run = r, !.deadline = tick + WallClock]
    /\ UNCHANGED <<calls, fresh, posts, tick>>

\* Between two tools: the model is at work, or a turn boundary is.
Turning == sender.run # NoSender /\ sender.at = "turn"

Topic == TopicOf[sender.run]

\* A message opens a batch of the topic.
OpenBatch(c) ==
    /\ c \notin fresh
    /\ fresh' = fresh \cup {c}
    /\ UNCHANGED <<calls, sender, rows, posts, tick>>

\* processDue: the batch is due, and joins the run of its topic.
AttachDueBatch ==
    /\ sender.run # NoSender /\ ~sender.closing
    /\ Topic \in fresh
    /\ fresh' = fresh \ {Topic}
    /\ sender' = [sender EXCEPT !.queued = TRUE]
    /\ UNCHANGED <<calls, rows, posts, tick>>

\* injectPending at a turn boundary; a receipt's own round comes first.
ReadBatches ==
    /\ Turning /\ sender.queued /\ sender.run \notin ReceiptRuns
    /\ sender' = [sender EXCEPT !.queued = FALSE]
    /\ UNCHANGED <<calls, rows, fresh, posts, tick>>

\* freeAgent, stop: the round ends, and with it the run closes or waits for more.
EndOfRound ==
    /\ Turning /\ ~sender.queued
    /\ \E closing \in BOOLEAN :
           sender' = [sender EXCEPT !.spent = FALSE, !.closing = @ \/ closing]
    /\ sender' # sender
    /\ UNCHANGED <<calls, rows, fresh, posts, tick>>

\* /pause, /cut_topic or a shutdown: the signal of the run.
AbortSender ==
    /\ sender.run # NoSender /\ ~sender.aborted
    /\ sender' = [sender EXCEPT !.aborted = TRUE]
    /\ UNCHANGED <<calls, rows, fresh, posts, tick>>

FinishSender ==
    /\ Turning
    /\ rows' = [rows EXCEPT ![sender.run].state = "ended"]
    /\ sender' = NobodySends
    /\ UNCHANGED <<calls, fresh, posts, tick>>

TickPasses ==
    /\ tick < LastTick
    /\ tick' = tick + 1
    /\ UNCHANGED <<calls, sender, rows, fresh, posts>>

------------------------------------------------------------------------------
(* Rows of tool_calls.                                                         *)

CallRow(tool, state, told, reserved) ==
    [run |-> sender.run, tool |-> tool, state |-> state, told |-> told,
     reserved |-> reserved, kept |-> FALSE]

Current == Len(calls)

\* rejectToolCall: the row of a call that never started.
RejectToolCall(tool) ==
    /\ Turning /\ Current < CallBound
    /\ calls' = Append(calls, CallRow(tool, "error", "failed", 0))

\* startToolCall
StartToolCall(tool, reserved) ==
    /\ Turning /\ Current < CallBound
    /\ calls' = Append(calls, CallRow(tool, "pending", "nothing", reserved))

\* finishToolCall and its counterpart in the send tool; the model goes on.
FinishToolCall(state, told, kept) ==
    /\ calls' = [calls EXCEPT ![Current].state = state, ![Current].told = told,
                              ![Current].kept = kept]
    /\ sender' = [sender EXCEPT !.at = "turn", !.answer = "none", !.until = 0]

------------------------------------------------------------------------------
(* The send tool.                                                              *)

TooLate == sender.aborted \/ tick >= sender.deadline

\* holdForNewMessages is off for a closing run and for a receipt's round.
Unbarred == sender.closing \/ sender.run \in ReceiptRuns

MustHold == ~Unbarred /\ (sender.queued \/ (Topic \in fresh /\ ~sender.spent))

\* recentSendCount: every attempt in the chat, whatever became of it.
RecentSendCount ==
    Cardinality({i \in DOMAIN calls : /\ calls[i].reserved # 0
                                      /\ calls[i].reserved >= tick - SendWindow})

\* Input or reference invalid, or the run is aborted or out of time.
RefuseSend ==
    /\ RejectToolCall("send")
    /\ UNCHANGED <<sender, rows, fresh, posts, tick>>

HoldSendBack ==
    /\ ~TooLate /\ MustHold
    /\ RejectToolCall("send")
    /\ sender' = [sender EXCEPT !.spent = @ \/ ~sender.queued, !.queued = TRUE]
    /\ fresh' = IF sender.queued THEN fresh ELSE fresh \ {Topic}
    /\ UNCHANGED <<rows, posts, tick>>

\* The row of the call exists before the limit is looked at.
LimitSend ==
    /\ ~TooLate /\ ~MustHold
    /\ RecentSendCount >= SendsPerWindow
    /\ RejectToolCall("send")
    /\ UNCHANGED <<sender, rows, fresh, posts, tick>>

\* One transaction: the call, the mark on the invocation, the reservation.
ReserveSend ==
    /\ ~TooLate /\ ~MustHold
    /\ RecentSendCount < SendsPerWindow
    /\ StartToolCall("send", tick)
    /\ rows' = [rows EXCEPT ![sender.run].marked = TRUE]
    /\ sender' = [sender EXCEPT !.at = "asking", !.unread = MustHold]
    /\ UNCHANGED <<fresh, posts, tick>>

\* External: Telegram posts the message, puts it off with a 429, refuses it, or the
\* answer is lost (a network error, a 5xx), and the message may have been posted.
TelegramAnswers(answer) ==
    /\ sender.run # NoSender /\ sender.at = "asking"
    /\ \E posted \in BOOLEAN :
           /\ answer = "accepted" => posted
           /\ answer \in {"limited", "refused"} => ~posted
           /\ posts' = IF posted
                       THEN posts \cup {[call |-> Current, at |-> tick]}
                       ELSE posts
    /\ sender' = [sender EXCEPT !.at = "answered", !.answer = answer]
    /\ UNCHANGED <<calls, rows, fresh, tick>>

Answered(answers) == sender.at = "answered" /\ sender.answer \in answers

\* A 429 whose retry_after still fits into the run.
WaitForRetry ==
    /\ Answered({"limited"})
    /\ \E until \in tick + 1..LastTick :
           /\ until < sender.deadline
           /\ sender' = [sender EXCEPT !.at = "waiting", !.until = until]
    /\ UNCHANGED <<calls, rows, fresh, posts, tick>>

\* MUTANT of RetrySend: the batches that came meanwhile are not looked at.
RetrySendAnyway ==
    /\ sender.at = "waiting" /\ tick >= sender.until /\ ~sender.aborted
    /\ sender' = [sender EXCEPT !.at = "asking", !.answer = "none", !.until = 0,
                                !.unread = MustHold]
    /\ UNCHANGED <<calls, rows, fresh, posts, tick>>

\* The wait is over, and the barrier is asked again.
RetrySend ==
    /\ sender.at = "waiting" /\ tick >= sender.until /\ ~sender.aborted
    /\ ~MustHold
    /\ sender' = [sender EXCEPT !.at = "asking", !.answer = "none", !.until = 0,
                                !.unread = MustHold]
    /\ UNCHANGED <<calls, rows, fresh, posts, tick>>

\* SendHeldBack
HoldRetry ==
    /\ sender.at = "waiting" /\ tick >= sender.until /\ ~sender.aborted
    /\ MustHold
    /\ calls' = [calls EXCEPT ![Current].state = "error", ![Current].told = "failed"]
    /\ sender' = [sender EXCEPT !.at = "turn", !.answer = "none", !.until = 0,
                                !.spent = @ \/ ~sender.queued, !.queued = TRUE]
    /\ fresh' = IF sender.queued THEN fresh ELSE fresh \ {Topic}
    /\ UNCHANGED <<rows, posts, tick>>

\* The signal ends the wait.
AbortRetry ==
    /\ sender.at = "waiting" /\ sender.aborted
    /\ FinishToolCall("error", "failed", FALSE)
    /\ UNCHANGED <<rows, fresh, posts, tick>>

\* A 429 that is not waited for, and any other error.
FailSend ==
    /\ \/ Answered({"limited", "refused"}) /\ FinishToolCall("error", "failed", FALSE)
       \/ Answered({"lost"}) /\ FinishToolCall("outcome_unknown", "unknown", FALSE)
    /\ UNCHANGED <<rows, fresh, posts, tick>>

\* The outcome and the message in one transaction; if that fails, the outcome
\* alone; and if that fails too, the model is told all the same.
RecordSend ==
    /\ Answered({"accepted"})
    /\ \/ FinishToolCall("success", "done", TRUE)
       \/ FinishToolCall("success", "done", FALSE)
       \/ FinishToolCall("pending", "done", FALSE)
    /\ UNCHANGED <<rows, fresh, posts, tick>>

------------------------------------------------------------------------------
(* The execute tool.                                                           *)

\* Unknown capability, a runtime primitive, or input that does not fit.
RefuseExecute ==
    /\ RejectToolCall("execute")
    /\ UNCHANGED <<sender, rows, fresh, posts, tick>>

\* The actions search and help are answered from the registry.
AnswerExecute ==
    /\ Turning /\ Current < CallBound
    /\ calls' = Append(calls, CallRow("execute", "success", "done", 0))
    /\ UNCHANGED <<sender, rows, fresh, posts, tick>>

\* throwIfAborted comes before the capability.
AbortExecute ==
    /\ sender.aborted
    /\ RejectToolCall("execute")
    /\ UNCHANGED <<sender, rows, fresh, posts, tick>>

StartExecute ==
    /\ ~sender.aborted
    /\ StartToolCall("execute", 0)
    /\ sender' = [sender EXCEPT !.at = "working"]
    /\ UNCHANGED <<rows, fresh, posts, tick>>

\* The capability returns or throws, whether it honours the signal or not.
FinishExecute ==
    /\ sender.run # NoSender /\ sender.at = "working"
    /\ \/ FinishToolCall("success", "done", FALSE)
       \/ FinishToolCall("error", "failed", FALSE)
    /\ UNCHANGED <<rows, fresh, posts, tick>>

------------------------------------------------------------------------------
(* Restart.                                                                    *)

\* recover: what was marked may have been sent; nothing of it is replayed.
CrashSender ==
    /\ sender.run # NoSender
    /\ rows' = [rows EXCEPT ![sender.run].state =
                    IF rows[sender.run].marked THEN "outcome_unknown" ELSE "restarted"]
    /\ sender' = NobodySends
    /\ UNCHANGED <<calls, fresh, posts, tick>>

ToolsNext ==
    \/ \E r \in SendRuns : BeginRun(r)
    \/ \E c \in SendTopics : OpenBatch(c)
    \/ AttachDueBatch \/ ReadBatches \/ EndOfRound \/ AbortSender \/ FinishSender
    \/ TickPasses
    \/ RefuseSend \/ HoldSendBack \/ LimitSend \/ ReserveSend
    \/ \E answer \in Answers : TelegramAnswers(answer)
    \/ WaitForRetry \/ RetrySend \/ HoldRetry \/ AbortRetry \/ FailSend \/ RecordSend
    \/ RefuseExecute \/ AnswerExecute \/ AbortExecute \/ StartExecute \/ FinishExecute
    \/ CrashSender

ToolsSpec == ToolsInit /\ [][ToolsNext]_toolVars

------------------------------------------------------------------------------
(* Properties.                                                                 *)

PostsOf(i) == {p \in posts : p.call = i}

\* What the rows and the model say of a send is what happened: a call that is
\* retried is posted once at most, a failure has posted nothing, and a run that
\* a restart closes as merely aborted has posted nothing at all.
OutcomesAreTrue ==
    /\ \A i \in DOMAIN calls : calls[i].tool = "send" =>
           /\ Cardinality(PostsOf(i)) <= 1
           /\ calls[i].told = "done" \/ calls[i].state = "success" \/ calls[i].kept
                  => PostsOf(i) # {}
           /\ calls[i].told = "failed" \/ calls[i].state = "error" => PostsOf(i) = {}
    /\ \A p \in posts : rows[calls[p.call].run].state # "restarted"

\* The limit holds across the topics of a chat.  A 429 may carry one reservation
\* into a later window, and one only, as the sends of a chat follow each other.
FloodIsBounded ==
    \A t \in 1..LastTick :
        Cardinality({p \in posts : p.at \in t - SendWindow..t}) <= SendsPerWindow + 1

\* No request leaves, the repeated ones included, while a batch of its topic that
\* the barrier may still wait for has not been read.
NothingStaleLeaves == ~sender.unread

\* The send tool does what it says and says what it does.
SendsKeepFaith == ToolsTypeOK /\ OutcomesAreTrue /\ FloodIsBounded /\ NothingStaleLeaves

=============================================================================
