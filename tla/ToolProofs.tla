------------------------------ MODULE ToolProofs ------------------------------
(***************************************************************************)
(* What the tools of a run do outside, and what is said of it: the sends   *)
(* of a chat (ToolCalls), the calls and the connections of one MCP server  *)
(* (McpServer), the tasks that outlive the run (LongTasks) and the search  *)
(* for stickers (StickerIndex).  The parts share nothing but this module.  *)
(***************************************************************************)
EXTENDS ToolCalls, McpServer, LongTasks, StickerIndex,
        FiniteSetTheorems, SequenceTheorems, WellFoundedInduction, TLAPS

-----------------------------------------------------------------------------
(* The inductive invariant of the send and execute tools.                  *)

Post == [call: 1..CallBound, at: 1..LastTick]

\* A post belongs to a send that had reserved its place by then.
PostSound(p) ==
    /\ p.call \in DOMAIN calls /\ p.at <= tick
    /\ calls[p.call].tool = "send"
    /\ calls[p.call].reserved \in 1..p.at

\* The sends of the chat follow each other.
PostsInOrder ==
    \A p \in posts, i \in DOMAIN calls :
        p.call < i /\ calls[i].reserved # 0 => p.at <= calls[i].reserved

OnePostEach == \A p, q \in posts : p.call = q.call => p = q

\* What is told of a send.
CallTruth(i) ==
    calls[i].tool = "send" =>
        /\ calls[i].told = "done" \/ calls[i].state = "success" \/ calls[i].kept
               => \E p \in posts : p.call = i
        /\ calls[i].told = "failed" \/ calls[i].state = "error"
               => \A p \in posts : p.call # i

Ledger ==
    /\ posts \subseteq Post
    /\ \A p \in posts : PostSound(p)
    /\ PostsInOrder /\ OnePostEach
    /\ \A i \in DOMAIN calls : CallTruth(i)

\* Only a run that is marked has posted anything, and recover() sees the mark.
PostMarked(p) ==
    /\ rows[calls[p.call].run].marked
    /\ rows[calls[p.call].run].state # "restarted"

Marks ==
    /\ \A p \in posts : PostMarked(p)
    /\ sender.run # NoSender => rows[sender.run].state = "running"

\* The reservations counted for call i.
Before(i) ==
    {j \in 1..i - 1 : calls[j].reserved # 0
                      /\ calls[j].reserved >= calls[i].reserved - SendWindow}

Sending == sender.at \in {"asking", "answered", "waiting"}

\* The call that the sender is at.
AtWork ==
    /\ sender.at # "turn" =>
           /\ sender.run # NoSender /\ Current # 0
           /\ calls[Current].run = sender.run
           /\ calls[Current].state = "pending" /\ calls[Current].told = "nothing"
           /\ ~calls[Current].kept
    /\ sender.at = "working" => calls[Current].tool = "execute"
    /\ Sending =>
           /\ calls[Current].tool = "send"
           /\ calls[Current].reserved \in 1..tick
           /\ rows[sender.run].marked
           /\ Cardinality(Before(Current)) < SendsPerWindow
    /\ \/ sender.at \in {"asking", "waiting"}
       \/ sender.at = "answered" /\ sender.answer \in {"limited", "refused"}
       => \A p \in posts : p.call # Current
    /\ sender.at = "answered" =>
           /\ sender.answer \in Answers
           /\ sender.answer = "accepted" => \E p \in posts : p.call = Current

ToolsInv ==
    /\ ToolsTypeOK /\ Ledger /\ Marks /\ AtWork
    /\ FloodIsBounded /\ NothingStaleLeaves

-----------------------------------------------------------------------------
(* Cardinalities.                                                          *)

\* A set whose elements are all equal has one at most.
LEMMA AtMostOne ==
    ASSUME NEW S, \A x, y \in S : x = y
    PROVE  IsFiniteSet(S) /\ Cardinality(S) <= 1
<1>1. CASE S = {}  BY <1>1, FS_EmptySet
<1>2. CASE S # {}
 <2>1. PICK x \in S : TRUE  BY <1>2
 <2>2. S = {x}  BY <2>1
 <2>3. IsFiniteSet({x}) /\ Cardinality({x}) = 1  BY FS_Singleton
 <2> QED BY <2>2, <2>3
<1> QED BY <1>1, <1>2

\* What is numbered one to one has no more elements than the numbers.
LEMMA Numbering ==
    ASSUME NEW S, NEW T, IsFiniteSet(T), NEW f \in [S -> T],
           \A x, y \in S : f[x] = f[y] => x = y
    PROVE  IsFiniteSet(S) /\ Cardinality(S) <= Cardinality(T)
<1> QED BY FS_Injection DEF Injection, IsInjective

\* The constants.
LEMMA ToolConstants ==
    /\ SendsPerWindow \in Nat /\ SendWindow \in Nat /\ WallClock \in Nat
    /\ CallBound \in Nat /\ LastTick \in Nat /\ SendsPerWindow >= 1
    /\ NoSender \notin SendRuns /\ LastTick >= 1
BY ToolsAssumption

-----------------------------------------------------------------------------
(* How the rows of the calls change.                                       *)

\* A call is added at the end.
LEMMA Appended ==
    ASSUME NEW row \in ToolCall, calls \in Seq(ToolCall), Len(calls) <= CallBound,
           Current < CallBound, calls' = Append(calls, row)
    PROVE  /\ calls' \in Seq(ToolCall) /\ Len(calls') <= CallBound
           /\ Current' = Current + 1 /\ Current \in Nat
           /\ DOMAIN calls = 1..Current /\ DOMAIN calls' = 1..Current'
           /\ calls'[Current'] = row
           /\ \A i \in DOMAIN calls : i \in DOMAIN calls' /\ calls'[i] = calls[i]
BY ToolConstants DEF Current

\* The last call is written again.
LEMMA Rewritten ==
    ASSUME NEW row \in ToolCall, calls \in Seq(ToolCall), Len(calls) <= CallBound,
           Current # 0, calls' = [calls EXCEPT ![Current] = row]
    PROVE  /\ calls' \in Seq(ToolCall) /\ Len(calls') <= CallBound
           /\ Current' = Current /\ Current \in Nat
           /\ DOMAIN calls = 1..Current /\ DOMAIN calls' = DOMAIN calls
           /\ calls'[Current] = row
           /\ \A i \in DOMAIN calls \ {Current} : calls'[i] = calls[i]
BY DEF Current

\* What the type of the sender says of its fields.
LEMMA ToolTypes ==
    ASSUME ToolsTypeOK
    PROVE  /\ calls \in Seq(ToolCall) /\ Len(calls) <= CallBound
           /\ Current \in Nat /\ DOMAIN calls = 1..Current
           /\ \A i \in DOMAIN calls : calls[i] \in ToolCall
           /\ sender \in Sender /\ tick \in 1..LastTick /\ fresh \subseteq SendTopics
           /\ rows \in [SendRuns -> [state: {"queued", "running", "ended", "restarted",
                                              "outcome_unknown"}, marked: BOOLEAN]]
BY DEF ToolsTypeOK, Current

\* Where the run is at a tool, the call is there.
LEMMA CurrentCall ==
    ASSUME ToolsInv, sender.at # "turn"
    PROVE  /\ sender.run \in SendRuns /\ Current # 0
           /\ Current \in DOMAIN calls /\ calls[Current] \in ToolCall
           /\ calls[Current].run = sender.run
           /\ calls[Current].state = "pending" /\ calls[Current].told = "nothing"
           /\ ~calls[Current].kept
<1>1. ToolsTypeOK /\ AtWork  BY DEF ToolsInv
<1>2. sender.run # NoSender /\ Current # 0  BY <1>1 DEF AtWork
<1> QED BY <1>1, <1>2, ToolTypes DEF AtWork, Sender

-----------------------------------------------------------------------------
(* The ledger.                                                             *)

\* It stays while calls and posts do; the clock goes on.
LEMMA LedgerStays ==
    ASSUME ToolsInv, UNCHANGED <<calls, posts>>, tick' \in Nat, tick' >= tick
    PROVE  Ledger' /\ FloodIsBounded'
<1>1. Ledger /\ FloodIsBounded /\ tick \in Nat  BY ToolTypes, ToolConstants DEF ToolsInv
<1>2. \A p \in posts : PostSound(p)'
 <2> SUFFICES ASSUME NEW p \in posts PROVE PostSound(p)'  OBVIOUS
 <2> QED BY <1>1, ToolConstants DEF PostSound, Post, Ledger
<1> QED BY <1>1, <1>2 DEF FloodIsBounded, Ledger, PostsInOrder, OnePostEach, CallTruth

\* A call that is added has sent nothing, and reserves its place now or not at all.
LEMMA LedgerAppends ==
    ASSUME ToolsInv, NEW row \in ToolCall, Current < CallBound,
           calls' = Append(calls, row), UNCHANGED <<posts, tick>>,
           row.reserved \in {0, tick},
           row.tool = "send" => /\ row.told \in {"nothing", "failed"} /\ ~row.kept
                                /\ row.state \in {"pending", "error"}
    PROVE  Ledger' /\ FloodIsBounded'
<1>1. Ledger /\ FloodIsBounded /\ ToolsTypeOK  BY DEF ToolsInv
<1>2. /\ Current' = Current + 1 /\ Current \in Nat /\ tick \in Nat
      /\ DOMAIN calls = 1..Current /\ DOMAIN calls' = 1..Current'
      /\ calls'[Current'] = row
      /\ \A i \in DOMAIN calls : i \in DOMAIN calls' /\ calls'[i] = calls[i]
  BY <1>1, Appended, ToolTypes, ToolConstants
<1>3. ASSUME NEW p \in posts PROVE p.call \in DOMAIN calls /\ p.at \in Nat /\ p.at <= tick
  BY <1>1, ToolConstants DEF Ledger, PostSound, Post
<1>5. PostsInOrder'
 <2> SUFFICES ASSUME NEW p \in posts, NEW i \in DOMAIN calls', p.call < i,
                     calls'[i].reserved # 0
              PROVE  p.at <= calls'[i].reserved
   BY DEF PostsInOrder
 <2>1. CASE i \in DOMAIN calls  BY <2>1, <1>1, <1>2 DEF Ledger, PostsInOrder
 <2>2. CASE i = Current'  BY <2>2, <1>2, <1>3
 <2> QED BY <2>1, <2>2, <1>2
<1>6. ASSUME NEW i \in DOMAIN calls' PROVE CallTruth(i)'
 <2>1. CASE i \in DOMAIN calls  BY <2>1, <1>1, <1>2 DEF Ledger, CallTruth
 <2>2. CASE i = Current'
  <3> QED BY <2>2, <1>2, <1>3 DEF CallTruth
 <2> QED BY <2>1, <2>2, <1>2
<1> QED BY <1>1, <1>5, <1>6, <1>2, <1>3 DEF FloodIsBounded, Ledger, OnePostEach, PostSound

\* The outcome of the last call is what its posts say.
LEMMA LedgerRewrites ==
    ASSUME ToolsInv, NEW row \in ToolCall, sender.at # "turn",
           calls' = [calls EXCEPT ![Current] = row], UNCHANGED <<posts, tick>>,
           row.tool = calls[Current].tool, row.reserved = calls[Current].reserved,
           row.tool = "send" =>
               /\ row.told = "done" \/ row.state = "success" \/ row.kept
                      => \E p \in posts : p.call = Current
               /\ row.told = "failed" \/ row.state = "error"
                      => \A p \in posts : p.call # Current
    PROVE  Ledger' /\ FloodIsBounded'
<1>1. Ledger /\ FloodIsBounded /\ ToolsTypeOK /\ Current # 0  BY CurrentCall DEF ToolsInv
<1>2. /\ Current' = Current /\ DOMAIN calls' = DOMAIN calls
      /\ calls'[Current] = row
      /\ \A i \in DOMAIN calls \ {Current} : calls'[i] = calls[i]
  BY <1>1, Rewritten, ToolTypes
<1>3. \A i \in DOMAIN calls : /\ calls'[i].tool = calls[i].tool
                              /\ calls'[i].reserved = calls[i].reserved
  BY <1>2
<1>6. ASSUME NEW i \in DOMAIN calls' PROVE CallTruth(i)'
 <2>1. CASE i # Current  BY <2>1, <1>1, <1>2 DEF Ledger, CallTruth
 <2>2. CASE i = Current  BY <2>2, <1>2 DEF CallTruth
 <2> QED BY <2>1, <2>2
<1>7. Ledger'  BY <1>1, <1>6, <1>2, <1>3 DEF Ledger, OnePostEach, PostSound, PostsInOrder
<1> QED BY <1>7, <1>1 DEF FloodIsBounded

-----------------------------------------------------------------------------
(* The limit of the chat.                                                  *)

\* A post at this instant is one too many at most: the posts of the window that had
\* reserved within the window were counted when its call reserved, and of those that
\* had reserved before the window only the last can have been posted in it.
LEMMA FloodStaysBounded ==
    ASSUME ToolsInv, sender.at = "asking",
           posts' = posts \cup {[call |-> Current, at |-> tick]}
    PROVE  FloodIsBounded'
<1>1. /\ Ledger /\ FloodIsBounded /\ ToolsTypeOK /\ AtWork
      /\ Current \in Nat /\ tick \in 1..LastTick /\ tick \in Nat
      /\ SendWindow \in Nat /\ SendsPerWindow \in Nat /\ SendsPerWindow >= 1
  BY ToolTypes, ToolConstants DEF ToolsInv
<1>2. /\ calls[Current].reserved \in 1..tick
      /\ Cardinality(Before(Current)) < SendsPerWindow
      /\ \A p \in posts : p.call # Current
  BY <1>1 DEF AtWork, Sending
<1>3. Current \in DOMAIN calls /\ DOMAIN calls = 1..Current  BY <1>1, CurrentCall, ToolTypes
<1> DEFINE new == [call |-> Current, at |-> tick]
           Window(t) == {p \in posts : p.at \in t - SendWindow..t}
<1> SUFFICES ASSUME NEW t \in 1..LastTick
             PROVE  Cardinality({p \in posts' : p.at \in t - SendWindow..t}) <= SendsPerWindow + 1
  BY DEF FloodIsBounded
<1>4. t \in Int /\ t - SendWindow \in Int  BY <1>1, ToolConstants
<1>5. CASE tick \notin t - SendWindow..t
 <2> QED BY <1>1, <1>5 DEF FloodIsBounded
<1>6. CASE tick \in t - SendWindow..t
 <2> DEFINE counted == {p \in Window(t) : calls[p.call].reserved >= t - SendWindow}
            late == Window(t) \ counted
 <2>1. ASSUME NEW p \in posts
       PROVE  /\ p.call \in 1..Current - 1 /\ p.at \in Nat /\ p.at <= tick
              /\ calls[p.call].reserved \in 1..p.at
  <3>1. PostSound(p) /\ p \in Post  BY <1>1 DEF Ledger
  <3> QED BY <3>1, <1>1, <1>2, <1>3, ToolConstants DEF PostSound, Post
 <2>2. IsFiniteSet(counted) /\ Cardinality(counted) <= SendsPerWindow - 1
  <3> DEFINE f == [p \in counted |-> p.call]
  <3>1. IsFiniteSet(Before(Current))
   <4>3. IsFiniteSet(1..Current - 1)  BY FS_Interval, <1>1
   <4> QED BY <4>3, FS_Subset DEF Before
  <3>2. ASSUME NEW p \in counted PROVE p.call \in Before(Current)
   <4>1. p \in posts /\ calls[p.call].reserved >= t - SendWindow  OBVIOUS
   <4>3. p.call \in 1..Current - 1 /\ calls[p.call].reserved \in Nat
         /\ calls[p.call].reserved # 0
     BY <4>1, <2>1
   <4> QED BY <4>3, <4>1, <1>1, <1>2, <1>4, <1>6 DEF Before
  <3>3. f \in [counted -> Before(Current)]  BY <3>2
  <3>4. ASSUME NEW p \in counted, NEW q \in counted, f[p] = f[q] PROVE p = q
    BY <3>4, <1>1 DEF Ledger, OnePostEach
  <3> HIDE DEF f, counted
  <3> QED BY <1>1, <1>2, <3>1, FS_CardinalityType, <3>3, <3>4, Numbering
 <2>3. IsFiniteSet(late) /\ Cardinality(late) <= 1
  <3>1. ASSUME NEW p \in late, NEW q \in late PROVE ~(p.call < q.call)
   <4>1. p \in posts /\ q \in posts /\ p.at >= t - SendWindow  BY <1>4, <2>1
   <4>2. /\ q.call \in DOMAIN calls /\ calls[q.call].reserved # 0
         /\ calls[q.call].reserved \in Nat /\ p.at \in Nat
     BY <4>1, <2>1, <1>3, <1>1
   <4> QED BY <4>1, <4>2, <1>4, <1>1 DEF Ledger, PostsInOrder
  <3>2. ASSUME NEW p \in late, NEW q \in late PROVE p = q
   <4> QED BY <1>1, <3>1, <2>1 DEF Ledger, OnePostEach
  <3> HIDE DEF late
  <3> QED BY <3>2, AtMostOne
 <2>4. Window(t) = counted \cup late /\ counted \cap late = {}  OBVIOUS
 <2>5. IsFiniteSet(Window(t)) /\ Cardinality(Window(t)) <= SendsPerWindow
  <3> HIDE DEF counted, late
  <3>1. counted \cap late = {} /\ Cardinality(counted \cap late) = 0  BY <2>4, FS_EmptySet
  <3>3. Cardinality(counted \cup late) =
            Cardinality(counted) + Cardinality(late) - Cardinality(counted \cap late)
    BY <2>2, <2>3, FS_Union
  <3>4. Cardinality(counted) \in Nat /\ Cardinality(late) \in Nat
    BY <2>2, <2>3, FS_CardinalityType
  <3>5. Cardinality(counted \cup late) <= SendsPerWindow  BY <2>2, <2>3, <3>1, <3>3, <3>4, <1>1
  <3> HIDE DEF Window
  <3> QED BY <2>4, <3>5, <2>2, <2>3, FS_Union
 <2>6. {p \in posts' : p.at \in t - SendWindow..t} = Window(t) \cup {new}  BY <1>6
 <2> HIDE DEF Window, new
 <2>7. /\ Cardinality(Window(t)) \in Nat
       /\ Cardinality(Window(t) \cup {new}) <= Cardinality(Window(t)) + 1
  <3> QED BY <2>5, FS_CardinalityType, FS_AddElement
 <2>8. Cardinality(Window(t) \cup {new}) <= SendsPerWindow + 1
  <3> DEFINE most == Cardinality(Window(t))
             all == Cardinality(Window(t) \cup {new})
  <3>1. most \in Nat /\ all <= most + 1 /\ most <= SendsPerWindow /\ all \in Nat
    BY <2>5, <2>7, FS_AddElement, FS_CardinalityType
  <3> HIDE DEF most, all
  <3> QED BY <3>1, <1>1 DEF all
 <2> QED BY <2>6, <2>8, Zenon
<1> QED BY <1>5, <1>6

-----------------------------------------------------------------------------
(* Marks, and where the sender is.                                         *)

\* A run of the tables.
LEMMA RunOfPost ==
    ASSUME ToolsInv, NEW p \in posts
    PROVE  /\ p.call \in DOMAIN calls /\ calls[p.call].run \in SendRuns
           /\ PostMarked(p)
BY ToolTypes DEF ToolsInv, Ledger, Marks, PostSound, ToolCall

\* The marks stay as long as no row loses its mark, and none is restarted anew.
LEMMA MarksStay ==
    ASSUME ToolsInv, posts' = posts,
           \A i \in DOMAIN calls : i \in DOMAIN calls' /\ calls'[i].run = calls[i].run,
           \A r \in SendRuns : rows[r].marked =>
               /\ rows'[r].marked
               /\ rows'[r].state = "restarted" => rows[r].state = "restarted",
           sender'.run # NoSender => rows'[sender'.run].state = "running"
    PROVE  Marks'
<1>1. ASSUME NEW p \in posts PROVE PostMarked(p)'  BY RunOfPost DEF PostMarked
<1> QED BY <1>1 DEF Marks

\* Between two tools nothing is said.
LEMMA AtTurn == sender'.at = "turn" => AtWork'
BY DEF AtWork, Sending

\* A run goes on with the call it is at.
LEMMA AtWorkStays ==
    ASSUME ToolsInv, UNCHANGED <<calls, posts>>, sender.at # "turn",
           sender'.run = sender.run, tick' \in Nat, tick' >= tick,
           rows[sender.run].marked => rows'[sender.run].marked,
           \/ sender'.at = "turn"
           \/ sender'.at = sender.at /\ sender'.answer = sender.answer
           \/ /\ Sending /\ sender'.at \in {"waiting", "asking"}
              /\ \A p \in posts : p.call # Current
    PROVE  AtWork'
<1>1. AtWork /\ ToolsTypeOK /\ tick \in Nat  BY ToolTypes, ToolConstants DEF ToolsInv
<1>3. CASE sender'.at = "turn"  BY <1>3, AtTurn
<1>4. CASE sender'.at # "turn"
 <2>1. Sending' => Sending  BY <1>4 DEF Sending
 <2>3. Sending => /\ calls[Current].tool = "send" /\ calls[Current].reserved \in 1..tick
                  /\ rows[sender.run].marked /\ Cardinality(Before(Current)) < SendsPerWindow
   BY <1>1 DEF AtWork
 <2>5. sender.run # NoSender /\ Current # 0 /\ calls[Current].run = sender.run
       /\ calls[Current].state = "pending" /\ calls[Current].told = "nothing"
       /\ ~calls[Current].kept
   BY CurrentCall, ToolConstants
 <2>6. \/ sender'.at \in {"asking", "waiting"}
       \/ sender'.at = "answered" /\ sender'.answer \in {"limited", "refused"}
       => \A p \in posts : p.call # Current
   BY <1>1, <1>4 DEF AtWork
 <2>7. sender'.at = "answered" =>
           /\ sender'.answer \in Answers
           /\ sender'.answer = "accepted" => \E p \in posts : p.call = Current
   BY <1>1, <1>4 DEF AtWork
 <2> HIDE DEF Answers
 <2>8. sender'.at = "working" => calls[Current].tool = "execute"  BY <1>1 DEF AtWork
 <2>9. Sending' => /\ calls[Current].tool = "send"
                   /\ rows'[sender.run].marked /\ Cardinality(Before(Current)) < SendsPerWindow
   BY <2>1, <2>3
 <2> QED BY <2>5, <2>6, <2>7, <2>8, <2>9, <2>1, <2>3, <1>1 DEF AtWork, Current, Before
<1> QED BY <1>3, <1>4

\* A step that changes the sender alone, or the collecting batches with it.
LEMMA SenderMoves ==
    ASSUME ToolsInv, UNCHANGED <<calls, rows, posts, tick>>,
           sender' \in Sender, fresh' \subseteq SendTopics, ~sender'.unread,
           sender'.run = sender.run,
           \/ sender'.at = "turn"
           \/ sender'.at = sender.at /\ sender'.answer = sender.answer
           \/ /\ Sending /\ sender'.at \in {"waiting", "asking"}
              /\ \A p \in posts : p.call # Current
    PROVE  ToolsInv'
<1>3. Marks'
 <2> QED BY MarksStay DEF ToolsInv, Marks
<1>4. AtWork'
 <2>1. CASE sender.at = "turn" /\ sender'.at # "turn"  BY <2>1 DEF Sending, ToolsInv, AtWork
 <2>2. CASE sender.at # "turn"  BY <2>2, AtWorkStays, ToolTypes, ToolConstants DEF ToolsInv
 <2>3. CASE sender'.at = "turn"  BY <2>3, AtTurn
 <2> QED BY <2>1, <2>2, <2>3
<1> QED
  BY <1>3, <1>4, LedgerStays, ToolTypes, ToolConstants DEF ToolsInv,
    NothingStaleLeaves, ToolsTypeOK

-----------------------------------------------------------------------------
(* The run around its tools.                                               *)

\* No request has left past a batch that its run had not read.
LEMMA UnreadIs == ToolsInv => ~sender.unread
BY DEF ToolsInv, NothingStaleLeaves

\* Without a run nothing is at work.
LEMMA NobodyIsSender ==
    NobodySends \in Sender /\ NobodySends.at = "turn" /\ NobodySends.run = NoSender
    /\ ~NobodySends.unread
BY ToolConstants DEF NobodySends, Sender

\* A run begins with nothing done.
LEMMA BeginRunKeeps ==
    ASSUME ToolsInv, NEW r \in SendRuns, BeginRun(r)
    PROVE  ToolsInv'
<1>1. ToolsTypeOK /\ tick \in Nat /\ WallClock \in Nat /\ tick <= LastTick /\ LastTick \in Nat
  BY ToolTypes, ToolConstants DEF ToolsInv
<1>3. /\ sender' \in Sender /\ sender'.at = "turn" /\ sender'.run = r /\ ~sender'.unread
 <2> DEFINE deadline == tick + WallClock
 <2>1. deadline \in 0..LastTick + WallClock  BY <1>1, ToolTypes, ToolConstants
 <2> HIDE DEF deadline
 <2> QED BY <2>1, NobodyIsSender DEF NobodySends, Sender, deadline, BeginRun
<1>4. /\ rows' \in [SendRuns -> [state: {"queued", "running", "ended", "restarted",
                                          "outcome_unknown"}, marked: BOOLEAN]]
      /\ rows'[r].state = "running"
      /\ \A q \in SendRuns : rows'[q].marked = rows[q].marked
      /\ \A q \in SendRuns : rows'[q].state = "restarted" => rows[q].state = "restarted"
  BY <1>1, ToolTypes DEF BeginRun
<1>7. Marks'
 <2> QED BY <1>3, <1>4, MarksStay DEF BeginRun
<1> QED
  BY <1>3, <1>7, AtTurn, <1>1, <1>4, LedgerStays DEF ToolsInv,
    NothingStaleLeaves, ToolsTypeOK, BeginRun

\* What changes the sender between its tools, or while it waits for one.
LEMMA RoundsKeep ==
    ASSUME ToolsInv, \/ \E c \in SendTopics : OpenBatch(c)
                     \/ AttachDueBatch \/ ReadBatches \/ EndOfRound \/ AbortSender
    PROVE  ToolsInv'
<1>1. ToolsTypeOK /\ sender \in Sender /\ fresh \subseteq SendTopics /\ ~sender.unread
  BY ToolTypes, UnreadIs DEF ToolsInv
<1>4. /\ sender' \in Sender /\ ~sender'.unread /\ sender'.run = sender.run
      /\ sender'.at = sender.at /\ sender'.answer = sender.answer
 <2>1. CASE \E c \in SendTopics : OpenBatch(c)  BY <2>1, <1>1 DEF OpenBatch
 <2>2. CASE AttachDueBatch  BY <2>2, <1>1 DEF AttachDueBatch, Sender
 <2>3. CASE ReadBatches  BY <2>3, <1>1 DEF ReadBatches, Sender
 <2>4. CASE EndOfRound
  <3>1. PICK closing \in BOOLEAN :
            sender' = [sender EXCEPT !.spent = FALSE, !.closing = @ \/ closing]
    BY <2>4 DEF EndOfRound
  <3> QED BY <3>1, <1>1 DEF Sender
 <2>5. CASE AbortSender  BY <2>5, <1>1 DEF AbortSender, Sender
 <2> QED BY <2>1, <2>2, <2>3, <2>4, <2>5
<1> QED
  BY <1>4, SenderMoves, <1>1 DEF OpenBatch, AttachDueBatch, ReadBatches,
    EndOfRound, AbortSender

\* A run ends, or the process does; recover() closes a run without its mark only.
LEMMA RunEndsKeeps ==
    ASSUME ToolsInv, FinishSender \/ CrashSender
    PROVE  ToolsInv'
<1>1. ToolsTypeOK /\ tick \in Nat /\ sender \in Sender  BY ToolTypes, ToolConstants DEF ToolsInv
<1>2. /\ sender.run \in SendRuns /\ sender' = NobodySends
      /\ UNCHANGED <<calls, fresh, posts, tick>>
  BY <1>1 DEF FinishSender, CrashSender, Turning, Sender
<1>3. /\ rows' \in [SendRuns -> [state: {"queued", "running", "ended", "restarted",
                                          "outcome_unknown"}, marked: BOOLEAN]]
      /\ \A q \in SendRuns : rows[q].marked =>
             rows'[q].marked /\ (rows'[q].state = "restarted" => rows[q].state = "restarted")
 <2>1. CASE FinishSender  BY <2>1, <1>1, <1>2, ToolTypes DEF FinishSender
 <2>2. CASE CrashSender
  <3> DEFINE state == IF rows[sender.run].marked THEN "outcome_unknown" ELSE "restarted"
  <3> HIDE DEF state
  <3> QED BY <1>1, <1>2, ToolTypes, <2>2 DEF CrashSender
 <2> QED BY <2>1, <2>2
<1>6. Marks'  BY <1>2, <1>3, NobodyIsSender, MarksStay
<1> QED
  BY <1>2, <1>6, AtTurn, NobodyIsSender, <1>1, <1>3, LedgerStays DEF ToolsInv,
    NothingStaleLeaves, ToolsTypeOK

\* Time passes.
LEMMA TickKeeps ==
    ASSUME ToolsInv, TickPasses
    PROVE  ToolsInv'
<1>1. /\ ToolsTypeOK /\ tick \in Nat /\ tick' \in 1..LastTick /\ tick' \in Nat /\ tick' >= tick
      /\ UNCHANGED <<calls, sender, rows, fresh, posts>>
  BY ToolTypes, ToolConstants DEF ToolsInv, TickPasses
<1>4. Marks'
 <2> QED BY <1>1, MarksStay DEF ToolsInv, Marks
<1>5. AtWork'  BY <1>1, AtTurn, AtWorkStays
<1> QED BY <1>1, <1>4, <1>5, UnreadIs, LedgerStays DEF ToolsInv, NothingStaleLeaves, ToolsTypeOK

-----------------------------------------------------------------------------
(* The rows of the calls.                                                  *)

\* The row of a call is one.
LEMMA CallRowIs ==
    ASSUME ToolsInv, Turning, NEW tool \in {"send", "execute"},
           NEW state \in {"pending", "success", "error", "outcome_unknown"},
           NEW told \in {"nothing", "done", "failed", "unknown"}, NEW reserved \in {0, tick}
    PROVE  LET row == CallRow(tool, state, told, reserved)
           IN  /\ row \in ToolCall
               /\ row.run = sender.run /\ row.tool = tool /\ row.state = state
               /\ row.told = told /\ row.reserved = reserved /\ ~row.kept
               /\ sender.run \in SendRuns
<1> QED BY ToolTypes, ToolConstants DEF CallRow, ToolCall, ToolsInv, Turning, Sender

\* A call is added, and its run goes on, or waits for the call.
LEMMA AppendKeeps ==
    ASSUME ToolsInv, NEW row \in ToolCall, Current < CallBound, Turning,
           calls' = Append(calls, row), UNCHANGED <<posts, tick>>,
           row.reserved \in {0, tick},
           row.tool = "send" => /\ row.told \in {"nothing", "failed"} /\ ~row.kept
                                /\ row.state \in {"pending", "error"},
           rows' \in [SendRuns -> [state: {"queued", "running", "ended", "restarted",
                                            "outcome_unknown"}, marked: BOOLEAN]],
           \A r \in SendRuns : rows'[r].state = rows[r].state
                               /\ (rows[r].marked => rows'[r].marked),
           fresh' \subseteq SendTopics,
           sender' \in Sender, sender'.run = sender.run, ~sender'.unread, AtWork'
    PROVE  ToolsInv'
<1>1. ToolsTypeOK  BY DEF ToolsInv
<1>2. /\ calls' \in Seq(ToolCall) /\ Len(calls') <= CallBound
      /\ \A i \in DOMAIN calls : i \in DOMAIN calls' /\ calls'[i] = calls[i]
  BY <1>1, Appended, ToolTypes
<1>5. Marks'
 <2> QED BY <1>2, MarksStay, <1>1, ToolTypes DEF Turning, Sender, ToolsInv, Marks
<1> QED BY <1>5, <1>1, <1>2, LedgerAppends DEF ToolsInv, NothingStaleLeaves, ToolsTypeOK

\* A call that never starts, with what the barrier takes in.
LEMMA RejectKeeps ==
    ASSUME ToolsInv, \/ RefuseSend \/ HoldSendBack \/ LimitSend
                     \/ RefuseExecute \/ AbortExecute \/ AnswerExecute
    PROVE  ToolsInv'
<1>1. /\ ToolsTypeOK /\ sender \in Sender /\ fresh \subseteq SendTopics /\ ~sender.unread
      /\ rows \in [SendRuns -> [state: {"queued", "running", "ended", "restarted",
                                         "outcome_unknown"}, marked: BOOLEAN]]
  BY ToolTypes, UnreadIs DEF ToolsInv
<1>2. Turning /\ Current < CallBound /\ UNCHANGED <<rows, posts, tick>>
  BY DEF RefuseSend, HoldSendBack, LimitSend, RefuseExecute, AbortExecute, AnswerExecute,
         RejectToolCall
<1>4. sender' \in Sender /\ sender'.run = sender.run /\ ~sender'.unread /\ sender'.at = "turn"
 <2>1. CASE HoldSendBack
  <3> QED BY <1>1, <1>2, <2>1 DEF Sender, Turning, HoldSendBack
 <2>2. CASE sender' = sender  BY <2>2, <1>1, <1>2 DEF Turning
 <2> QED BY <2>1, <2>2 DEF RefuseSend, LimitSend, RefuseExecute, AbortExecute, AnswerExecute
<1>5. PICK row \in ToolCall :
          /\ calls' = Append(calls, row) /\ row.reserved = 0
          /\ row.tool = "send" => row.told = "failed" /\ ~row.kept /\ row.state = "error"
 <2>1. CASE AnswerExecute
  <3> QED BY <1>2, CallRowIs, <2>1 DEF AnswerExecute
 <2>2. CASE RefuseExecute \/ AbortExecute
  <3> QED BY <1>2, CallRowIs, <2>2 DEF RefuseExecute, AbortExecute, RejectToolCall
 <2>3. CASE RefuseSend \/ HoldSendBack \/ LimitSend
  <3> QED BY <1>2, CallRowIs, <2>3 DEF RefuseSend, HoldSendBack, LimitSend, RejectToolCall
 <2> QED BY <2>1, <2>2, <2>3
<1> QED
  BY <1>1, <1>2, <1>4, <1>5, AtTurn, AppendKeeps DEF RefuseSend, HoldSendBack,
    LimitSend, RefuseExecute, AbortExecute, AnswerExecute

\* A capability starts.
LEMMA StartExecuteKeeps ==
    ASSUME ToolsInv, StartExecute
    PROVE  ToolsInv'
<1>1. /\ ToolsTypeOK /\ sender \in Sender /\ fresh \subseteq SendTopics /\ ~sender.unread
      /\ rows \in [SendRuns -> [state: {"queued", "running", "ended", "restarted",
                                         "outcome_unknown"}, marked: BOOLEAN]]
  BY ToolTypes, UnreadIs DEF ToolsInv
<1>2. /\ Turning /\ Current < CallBound /\ UNCHANGED <<rows, fresh, posts, tick>>
      /\ sender' = [sender EXCEPT !.at = "working"]
  BY DEF StartExecute, StartToolCall
<1> DEFINE row == CallRow("execute", "pending", "nothing", 0)
<1>3. calls' = Append(calls, row)  BY DEF StartExecute, StartToolCall
<1>4. /\ row \in ToolCall /\ row.run = sender.run /\ row.tool = "execute"
      /\ row.state = "pending" /\ row.told = "nothing" /\ row.reserved = 0 /\ ~row.kept
      /\ sender.run \in SendRuns
  BY <1>2, CallRowIs
<1> HIDE DEF row
<1>5. /\ sender' \in Sender /\ sender'.run = sender.run /\ ~sender'.unread
      /\ sender'.at = "working"
  BY <1>1, <1>2 DEF Sender
<1>7. AtWork'
  BY <1>4, <1>5, ToolConstants, <1>1, <1>2, <1>3, Appended, ToolTypes DEF
    AtWork, Sending
<1> QED BY <1>1, <1>2, <1>3, <1>4, <1>5, <1>7, AppendKeeps

\* A send reserves its place: the count it was compared with is the one before it.
LEMMA ReserveSendKeeps ==
    ASSUME ToolsInv, ReserveSend
    PROVE  ToolsInv'
<1>1. /\ ToolsTypeOK /\ sender \in Sender /\ fresh \subseteq SendTopics /\ ~sender.unread
      /\ tick \in 1..LastTick /\ tick \in Nat
      /\ rows \in [SendRuns -> [state: {"queued", "running", "ended", "restarted",
                                         "outcome_unknown"}, marked: BOOLEAN]]
  BY ToolTypes, UnreadIs, ToolConstants DEF ToolsInv
<1>2. /\ Turning /\ Current < CallBound /\ UNCHANGED <<fresh, posts, tick>>
      /\ ~MustHold /\ RecentSendCount < SendsPerWindow
      /\ sender' = [sender EXCEPT !.at = "asking", !.unread = MustHold]
      /\ rows' = [rows EXCEPT ![sender.run].marked = TRUE]
  BY DEF ReserveSend, StartToolCall
<1> DEFINE row == CallRow("send", "pending", "nothing", tick)
<1>3. calls' = Append(calls, row)  BY DEF ReserveSend, StartToolCall
<1>4. /\ row \in ToolCall /\ row.run = sender.run /\ row.tool = "send"
      /\ row.state = "pending" /\ row.told = "nothing" /\ row.reserved = tick /\ ~row.kept
      /\ sender.run \in SendRuns
  BY <1>2, CallRowIs
<1> HIDE DEF row
<1>5. /\ sender' \in Sender /\ sender'.run = sender.run /\ ~sender'.unread
      /\ sender'.at = "asking"
 <2> QED BY <1>1, <1>2 DEF Sender, MustHold
<1>6. /\ Current' = Current + 1 /\ Current \in Nat /\ calls'[Current'] = row
      /\ DOMAIN calls = 1..Current
      /\ \A i \in DOMAIN calls : calls'[i] = calls[i]
  BY <1>1, <1>2, <1>3, <1>4, Appended, ToolTypes
<1>7. Cardinality(Before(Current))' < SendsPerWindow
 <2> DEFINE counted == {i \in DOMAIN calls : calls[i].reserved # 0
                                            /\ calls[i].reserved >= tick - SendWindow}
 <2>1. Before(Current)' = counted
  <3> QED BY <1>4, <1>6 DEF Before
 <2>2. Cardinality(counted) < SendsPerWindow  BY <1>2 DEF RecentSendCount
 <2> HIDE DEF counted
 <2> QED BY <2>1, <2>2
<1>8. \A p \in posts : p.call # Current'
 <2> QED BY <1>6, RunOfPost
<1>9. /\ rows' \in [SendRuns -> [state: {"queued", "running", "ended", "restarted",
                                          "outcome_unknown"}, marked: BOOLEAN]]
      /\ rows'[sender.run].marked
      /\ \A r \in SendRuns : rows'[r].state = rows[r].state
                             /\ (rows[r].marked => rows'[r].marked)
  BY <1>1, <1>2, <1>4
<1>10. AtWork'
 <2> QED BY <1>2, <1>4, <1>5, <1>6, <1>7, <1>8, <1>1, <1>9, ToolConstants DEF AtWork, Sending
<1> QED BY <1>1, <1>2, <1>3, <1>4, <1>5, <1>9, <1>10, AppendKeeps

-----------------------------------------------------------------------------
(* Outcomes.                                                               *)

\* The call the run is at ends, and the run goes on.
LEMMA RewriteKeeps ==
    ASSUME ToolsInv, sender.at # "turn",
           NEW state \in {"pending", "success", "error", "outcome_unknown"},
           NEW told \in {"nothing", "done", "failed", "unknown"}, NEW kept \in BOOLEAN,
           calls' = [calls EXCEPT ![Current] =
                        [calls[Current] EXCEPT !.state = state, !.told = told, !.kept = kept]],
           UNCHANGED <<rows, posts, tick>>, fresh' \subseteq SendTopics,
           sender' \in Sender, sender'.run = sender.run, ~sender'.unread,
           sender'.at = "turn",
           calls[Current].tool = "send" =>
               /\ told = "done" \/ state = "success" \/ kept => \E p \in posts : p.call = Current
               /\ told = "failed" \/ state = "error" => \A p \in posts : p.call # Current
    PROVE  ToolsInv'
<1>1. ToolsTypeOK /\ Current # 0 /\ Current \in DOMAIN calls /\ calls[Current] \in ToolCall
  BY CurrentCall DEF ToolsInv
<1> DEFINE row == [calls[Current] EXCEPT !.state = state, !.told = told, !.kept = kept]
<1>2. /\ row \in ToolCall /\ row.run = calls[Current].run /\ row.tool = calls[Current].tool
      /\ row.reserved = calls[Current].reserved
      /\ row.state = state /\ row.told = told /\ row.kept = kept
  BY <1>1 DEF ToolCall
<1>3. calls' = [calls EXCEPT ![Current] = row]  OBVIOUS
<1> HIDE DEF row
<1>4. /\ calls' \in Seq(ToolCall) /\ Len(calls') <= CallBound
      /\ DOMAIN calls' = DOMAIN calls
      /\ \A i \in DOMAIN calls : calls'[i].run = calls[i].run
  BY <1>1, <1>2, <1>3, Rewritten, ToolTypes
<1>7. Marks'
 <2> QED BY <1>4, MarksStay DEF ToolsInv, Marks
<1> QED
  BY <1>7, AtTurn, <1>1, <1>4, <1>2, <1>3, LedgerRewrites DEF ToolsInv,
    NothingStaleLeaves, ToolsTypeOK

\* Field by field or at once.
LEMMA RowAtOnce ==
    ASSUME ToolsInv, sender.at # "turn", NEW state, NEW told, NEW kept
    PROVE  [calls EXCEPT ![Current].state = state, ![Current].told = told,
                         ![Current].kept = kept]
           = [calls EXCEPT ![Current] =
                 [calls[Current] EXCEPT !.state = state, !.told = told, !.kept = kept]]
<1> QED BY CurrentCall, ToolTypes DEF ToolCall, ToolsInv

\* The message of the call the run is at is not in the history yet.
LEMMA RowOfFailure ==
    ASSUME ToolsInv, sender.at # "turn"
    PROVE  [calls EXCEPT ![Current].state = "error", ![Current].told = "failed"]
           = [calls EXCEPT ![Current] =
                 [calls[Current] EXCEPT !.state = "error", !.told = "failed", !.kept = FALSE]]
<1> QED BY CurrentCall, ToolTypes DEF ToolCall, ToolsInv

\* The fields of the sender's record.
LEMMA SenderFields ==
    \E answers, ticks, deadlines :
        /\ "none" \in answers /\ 0 \in ticks
        /\ Sender = [run: SendRuns \cup {NoSender},
                     at: {"turn", "asking", "answered", "waiting", "working"},
                     answer: answers, until: ticks, deadline: deadlines,
                     aborted: BOOLEAN, spent: BOOLEAN, queued: BOOLEAN, closing: BOOLEAN,
                     unread: BOOLEAN]
<1>1. 0 \in 0..LastTick /\ "none" \in Answers \cup {"none"}  BY ToolConstants
<1> QED BY <1>1 DEF Sender

\* When its call ends, or is put off and asked again.
LEMMA SenderIs ==
    ASSUME NEW s \in Sender, NEW at \in {"turn", "asking", "waiting"}
    PROVE  LET back  == [s EXCEPT !.at = at, !.answer = "none", !.until = 0]
               again == [s EXCEPT !.at = at, !.answer = "none", !.until = 0,
                                  !.unread = FALSE]
           IN  /\ back \in Sender /\ back.run = s.run /\ back.at = at /\ back.unread = s.unread
               /\ again \in Sender /\ again.run = s.run /\ again.at = at /\ again.unread = FALSE
<1>1. PICK answers, ticks, deadlines :
        /\ "none" \in answers /\ 0 \in ticks
        /\ Sender = [run: SendRuns \cup {NoSender},
                     at: {"turn", "asking", "answered", "waiting", "working"},
                     answer: answers, until: ticks, deadline: deadlines,
                     aborted: BOOLEAN, spent: BOOLEAN, queued: BOOLEAN, closing: BOOLEAN,
                     unread: BOOLEAN]
  BY SenderFields, Zenon
<1> QED BY <1>1

\* When its call is held back.
LEMMA HeldSender ==
    ASSUME NEW s \in Sender, NEW spent \in BOOLEAN
    PROVE  LET held == [s EXCEPT !.at = "turn", !.answer = "none", !.until = 0,
                                 !.spent = spent, !.queued = TRUE]
           IN  held \in Sender /\ held.run = s.run /\ held.at = "turn" /\ held.unread = s.unread
<1>1. PICK answers, ticks, deadlines :
        /\ "none" \in answers /\ 0 \in ticks
        /\ Sender = [run: SendRuns \cup {NoSender},
                     at: {"turn", "asking", "answered", "waiting", "working"},
                     answer: answers, until: ticks, deadline: deadlines,
                     aborted: BOOLEAN, spent: BOOLEAN, queued: BOOLEAN, closing: BOOLEAN,
                     unread: BOOLEAN]
  BY SenderFields, Zenon
<1> QED BY <1>1

\* What is known of the call's posts when its run learns the outcome.
LEMMA PostsOfOutcome ==
    ASSUME ToolsInv
    PROVE  /\ \/ sender.at = "waiting"
              \/ sender.at = "answered" /\ sender.answer \in {"limited", "refused"}
              => \A p \in posts : p.call # Current
           /\ sender.at = "answered" /\ sender.answer = "accepted"
              => \E p \in posts : p.call = Current
           /\ sender.at = "working" => calls[Current].tool = "execute"
BY DEF ToolsInv, AtWork

\* Every way in which a call ends.
LEMMA OutcomeKeeps ==
    ASSUME ToolsInv, \/ HoldRetry \/ AbortRetry \/ FailSend \/ RecordSend \/ FinishExecute
    PROVE  ToolsInv'
<1>1. ToolsTypeOK /\ sender \in Sender /\ fresh \subseteq SendTopics /\ ~sender.unread
  BY ToolTypes, UnreadIs DEF ToolsInv
<1>2. sender.at \in {"answered", "waiting", "working"} /\ UNCHANGED <<rows, posts, tick>>
  BY DEF HoldRetry, AbortRetry, FailSend, RecordSend, FinishExecute, Answered
<1>3. sender.at # "turn"  BY <1>2
<1>4. ASSUME sender' = [sender EXCEPT !.at = "turn", !.answer = "none", !.until = 0]
      PROVE  sender' \in Sender /\ sender'.run = sender.run /\ ~sender'.unread
             /\ sender'.at = "turn"
  BY <1>1, <1>4, SenderIs
<1>5. CASE HoldRetry
 <2> DEFINE spent == sender.spent \/ ~sender.queued
 <2> spent \in BOOLEAN  OBVIOUS
 <2> HIDE DEF spent
 <2>4. calls' = [calls EXCEPT ![Current].state = "error", ![Current].told = "failed"]
   BY <1>5 DEF HoldRetry
 <2>5. calls' = [calls EXCEPT ![Current] =
           [calls[Current] EXCEPT !.state = "error", !.told = "failed", !.kept = FALSE]]
  <3>1. [calls EXCEPT ![Current].state = "error", ![Current].told = "failed"]
        = [calls EXCEPT ![Current] =
              [calls[Current] EXCEPT !.state = "error", !.told = "failed", !.kept = FALSE]]
    BY <1>3, RowOfFailure
  <3> QED BY <2>4, <3>1, Zenon
 <2>6. \A p \in posts : p.call # Current  BY <1>5, PostsOfOutcome DEF HoldRetry
 <2> QED BY <1>2, <1>3, <2>5, <2>6, RewriteKeeps, <1>1, <1>5, HeldSender DEF HoldRetry
<1>6. CASE AbortRetry \/ FailSend \/ RecordSend \/ FinishExecute
 <2>1. PICK state \in {"pending", "success", "error", "outcome_unknown"},
            told \in {"nothing", "done", "failed", "unknown"}, kept \in BOOLEAN :
           /\ FinishToolCall(state, told, kept)
           /\ calls[Current].tool = "send" =>
                /\ told = "done" \/ state = "success" \/ kept => \E p \in posts : p.call = Current
                /\ told = "failed" \/ state = "error" => \A p \in posts : p.call # Current
  <3>1. CASE AbortRetry
   <4> QED BY <3>1, PostsOfOutcome DEF AbortRetry
  <3>2. CASE Answered({"limited", "refused"}) /\ FinishToolCall("error", "failed", FALSE)
   <4> QED BY <3>2, PostsOfOutcome DEF Answered
  <3>3. CASE Answered({"lost"}) /\ FinishToolCall("outcome_unknown", "unknown", FALSE)  BY <3>3
  <3>4. CASE RecordSend
   <4> QED BY <3>4, PostsOfOutcome DEF RecordSend, Answered
  <3>5. CASE FinishExecute
   <4> QED BY <3>5, PostsOfOutcome DEF FinishExecute
  <3> QED BY <1>6, <3>1, <3>2, <3>3, <3>4, <3>5 DEF FailSend
 <2>3. calls' = [calls EXCEPT ![Current] =
           [calls[Current] EXCEPT !.state = state, !.told = told, !.kept = kept]]
   BY <1>3, <2>1, RowAtOnce DEF FinishToolCall
 <2>5. sender' \in Sender /\ sender'.run = sender.run /\ ~sender'.unread /\ sender'.at = "turn"
   BY <1>4, <2>1 DEF FinishToolCall
 <2> QED
   BY <1>2, <1>3, <2>1, <2>3, <2>5, RewriteKeeps, <1>1, <1>6 DEF AbortRetry,
     FailSend, RecordSend, FinishExecute
<1> QED BY <1>5, <1>6

\* A call that Telegram has put off waits, and asks again.
LEMMA RetryKeeps ==
    ASSUME ToolsInv, WaitForRetry \/ RetrySend
    PROVE  ToolsInv'
<1>1. /\ ToolsTypeOK /\ sender \in Sender /\ fresh \subseteq SendTopics /\ ~sender.unread
      /\ tick \in 1..LastTick
  BY ToolTypes, UnreadIs DEF ToolsInv
<1>3. sender' \in Sender /\ sender'.run = sender.run /\ ~sender'.unread
      /\ sender'.at \in {"waiting", "asking"}
 <2>1. CASE WaitForRetry
  <3>1. PICK until \in tick + 1..LastTick :
            sender' = [sender EXCEPT !.at = "waiting", !.until = until]
    BY <2>1 DEF WaitForRetry
  <3>2. until \in 0..LastTick  BY <1>1, <3>1, ToolConstants
  <3> QED BY <1>1, <3>1, <3>2 DEF Sender
 <2>2. CASE RetrySend
  <3>2. sender' = [sender EXCEPT !.at = "asking", !.answer = "none", !.until = 0,
                                 !.unread = FALSE]
    BY <2>2 DEF RetrySend, MustHold
  <3> QED BY <1>1, <3>2, SenderIs
 <2> QED BY <2>1, <2>2
<1> QED
  BY <1>1, <1>3, SenderMoves, PostsOfOutcome DEF WaitForRetry, RetrySend,
    Answered, Sending

\* Telegram answers, and may have posted.
LEMMA AnswerKeeps ==
    ASSUME ToolsInv, NEW answer \in Answers, TelegramAnswers(answer)
    PROVE  ToolsInv'
<1>1. /\ ToolsTypeOK /\ sender \in Sender /\ fresh \subseteq SendTopics /\ ~sender.unread
      /\ tick \in 1..LastTick /\ tick \in Nat /\ DOMAIN calls = 1..Current /\ Current \in Nat
      /\ Len(calls) <= CallBound
  BY ToolTypes, UnreadIs, ToolConstants DEF ToolsInv
<1>2. /\ sender.at = "asking" /\ UNCHANGED <<calls, rows, fresh, tick>>
      /\ sender' = [sender EXCEPT !.at = "answered", !.answer = answer]
  BY DEF TelegramAnswers
<1>3. /\ sender' \in Sender /\ sender'.run = sender.run /\ ~sender'.unread
      /\ sender'.at = "answered" /\ sender'.answer = answer
  BY <1>1, <1>2 DEF Sender
<1> DEFINE new == [call |-> Current, at |-> tick]
<1>4. PICK posted \in BOOLEAN :
          /\ answer = "accepted" => posted
          /\ answer \in {"limited", "refused"} => ~posted
          /\ posts' = IF posted THEN posts \cup {new} ELSE posts
  BY DEF TelegramAnswers
<1>5. ToolsTypeOK'  BY <1>1, <1>2, <1>3 DEF ToolsTypeOK
<1>6. /\ sender.run \in SendRuns /\ Current \in DOMAIN calls /\ calls[Current].run = sender.run
      /\ calls[Current].state = "pending" /\ calls[Current].told = "nothing"
      /\ ~calls[Current].kept
  BY <1>2, CurrentCall
<1>7. /\ calls[Current].tool = "send" /\ calls[Current].reserved \in 1..tick
      /\ rows[sender.run].marked /\ Cardinality(Before(Current)) < SendsPerWindow
      /\ \A p \in posts : p.call # Current
  BY <1>2 DEF ToolsInv, AtWork, Sending
<1>8. Ledger /\ Marks /\ FloodIsBounded  BY DEF ToolsInv
<1>9. new \in Post /\ new.call = Current /\ new.at = tick  BY <1>1, <1>6 DEF Post, Current
<1>10. CASE ~posted
 <2>1. posts' = posts  BY <1>4, <1>10
 <2>3. Marks'
  <3> QED BY <1>2, <2>1, MarksStay, <1>3, <1>8 DEF Marks
 <2>4. AtWork'
  <3> QED
    BY <1>2, <1>3, <1>6, <1>7, <2>1, ToolConstants, <1>1, <1>4, <1>10 DEF
      AtWork, Sending, Current, Before
 <2> QED
   BY <1>3, <1>5, <2>3, <2>4, <1>1, <1>2, <2>1, LedgerStays DEF ToolsInv,
     NothingStaleLeaves
<1>11. CASE posted
 <2>1. posts' = posts \cup {new}  BY <1>4, <1>11
 <2>2. FloodIsBounded'  BY <1>2, <2>1, FloodStaysBounded
 <2> HIDE DEF new
 <2>3. ASSUME NEW p \in posts' PROVE PostSound(p)'
  <3>1. CASE p \in posts  BY <3>1, <1>2, <1>8 DEF Ledger, PostSound
  <3>2. CASE p = new  BY <3>2, <1>1, <1>2, <1>6, <1>7, <1>9 DEF PostSound
  <3> QED BY <2>1, <3>1, <3>2
 <2>4. PostsInOrder'
  <3> SUFFICES ASSUME NEW p \in posts', NEW i \in DOMAIN calls, p.call < i,
                      calls[i].reserved # 0
               PROVE  p.at <= calls[i].reserved
    BY <1>2 DEF PostsInOrder
  <3>1. p # new  BY <1>1, <1>9
  <3> QED BY <3>1, <2>1, <1>8 DEF Ledger, PostsInOrder
 <2>5. OnePostEach'
  <3> QED BY <1>7, <1>8, <1>9, <2>1 DEF OnePostEach, Ledger
 <2>6. ASSUME NEW i \in DOMAIN calls PROVE CallTruth(i)'
  <3>1. CASE i = Current  BY <3>1, <1>2, <1>6 DEF CallTruth
  <3>2. CASE i # Current
   <4> QED BY <3>2, <1>2, <1>9, <2>1, <1>8 DEF CallTruth, Ledger
  <3> QED BY <3>1, <3>2
 <2>7. Ledger'
  <3> QED BY <1>2, <2>3, <2>4, <2>5, <2>6, <1>8, <1>9, <2>1 DEF Ledger
 <2>8. Marks'
  <3>1. ASSUME NEW p \in posts' PROVE PostMarked(p)'
   <4>1. CASE p \in posts  BY <4>1, <1>2, <1>8 DEF Marks, PostMarked
   <4>2. CASE p = new
    <5> QED BY <4>2, <1>2, <1>6, <1>7, <1>9, <1>8, ToolConstants DEF PostMarked, Marks
   <4> QED BY <2>1, <4>1, <4>2
  <3> QED BY <3>1, <1>2, <1>3, <1>8 DEF Marks
 <2>9. AtWork'
  <3>3. new \in posts' /\ new.call = Current  BY <1>9, <2>1
  <3> QED
    BY <1>1, <1>2, <1>3, <1>6, <1>7, <3>3, ToolConstants, <1>4, <1>11 DEF
      AtWork, Sending, Current, Before
 <2> QED BY <1>3, <1>5, <2>2, <2>7, <2>8, <2>9 DEF ToolsInv, NothingStaleLeaves
<1> QED BY <1>10, <1>11

-----------------------------------------------------------------------------
(* The theorem.                                                            *)

\* Nothing is sent at first.
LEMMA ToolsInvInit == ToolsInit => ToolsInv
<1> SUFFICES ASSUME ToolsInit PROVE ToolsInv  OBVIOUS
<1>1. /\ calls = <<>> /\ sender = NobodySends /\ fresh = {} /\ posts = {} /\ tick = 1
      /\ rows = [r \in SendRuns |-> [state |-> "queued", marked |-> FALSE]]
  BY DEF ToolsInit
<1>2. ToolsTypeOK
 <2> QED BY <1>1, NobodyIsSender, ToolConstants DEF ToolsTypeOK
<1>5. FloodIsBounded
 <2> SUFFICES ASSUME NEW t \in 1..LastTick
              PROVE  Cardinality({p \in posts : p.at \in t - SendWindow..t}) <= SendsPerWindow + 1
   BY DEF FloodIsBounded
 <2> QED BY <1>1, FS_EmptySet, ToolConstants
<1> QED
  BY <1>1, <1>2, <1>5, NobodyIsSender DEF ToolsInv, NothingStaleLeaves, Ledger,
    PostsInOrder, OnePostEach, CallTruth, Marks, AtWork, Sending

\* Every step keeps the invariant.
LEMMA ToolsInvNext == ToolsInv /\ [ToolsNext]_toolVars => ToolsInv'
<1> SUFFICES ASSUME ToolsInv, [ToolsNext]_toolVars PROVE ToolsInv'  OBVIOUS
<1>1. CASE UNCHANGED toolVars
 <2> QED BY SenderMoves, <1>1, ToolTypes, UnreadIs DEF toolVars, ToolsInv
<1>2. CASE \/ \E r \in SendRuns : BeginRun(r)
           \/ \E c \in SendTopics : OpenBatch(c)
           \/ AttachDueBatch \/ ReadBatches \/ EndOfRound \/ AbortSender \/ FinishSender
           \/ TickPasses \/ CrashSender
  BY <1>2, BeginRunKeeps, RoundsKeep, RunEndsKeeps, TickKeeps
<1>3. CASE \/ RefuseSend \/ HoldSendBack \/ LimitSend \/ ReserveSend
           \/ \E answer \in Answers : TelegramAnswers(answer)
           \/ WaitForRetry \/ RetrySend \/ HoldRetry \/ AbortRetry \/ FailSend \/ RecordSend
  BY <1>3, RejectKeeps, ReserveSendKeeps, AnswerKeeps, RetryKeeps, OutcomeKeeps
<1>4. CASE RefuseExecute \/ AnswerExecute \/ AbortExecute \/ StartExecute \/ FinishExecute
  BY <1>4, RejectKeeps, StartExecuteKeeps, OutcomeKeeps
<1> QED BY <1>1, <1>2, <1>3, <1>4 DEF ToolsNext

\* What the ledger says of the outcomes.
LEMMA ToolsInvIsFaith == ToolsInv => SendsKeepFaith
<1> SUFFICES ASSUME ToolsInv PROVE SendsKeepFaith  OBVIOUS
<1>1. ToolsTypeOK /\ Ledger /\ FloodIsBounded /\ NothingStaleLeaves  BY DEF ToolsInv
<1>2. ASSUME NEW i \in DOMAIN calls, calls[i].tool = "send"
      PROVE  /\ Cardinality(PostsOf(i)) <= 1
             /\ calls[i].told = "done" \/ calls[i].state = "success" \/ calls[i].kept
                    => PostsOf(i) # {}
             /\ calls[i].told = "failed" \/ calls[i].state = "error" => PostsOf(i) = {}
 <2> QED BY <1>2, <1>1, AtMostOne DEF CallTruth, PostsOf, Ledger, OnePostEach
<1> QED BY <1>1, <1>2, RunOfPost DEF SendsKeepFaith, OutcomesAreTrue, PostMarked

\* send-tool.ts, store recover(): for any number of runs, calls, limits and windows, and
\* wherever an answer is lost or the process dies, what a row or the model says of a send
\* is what Telegram has, a run that a restart calls aborted has posted nothing, the limit
\* of the chat holds up to one message that a 429 carried over, and no request leaves past
\* a batch that the barrier would wait for.
THEOREM OutcomesAreKept == ToolsSpec => []SendsKeepFaith
<1>1. ToolsInit => ToolsInv  BY ToolsInvInit
<1>2. ToolsInv /\ [ToolsNext]_toolVars => ToolsInv'  BY ToolsInvNext
<1>3. ToolsInv => SendsKeepFaith  BY ToolsInvIsFaith
<1> QED BY <1>1, <1>2, <1>3, PTL DEF ToolsSpec

-----------------------------------------------------------------------------
(* The inductive invariant of the MCP manager.                             *)

Connecting(p) == connects[p].at # "idle"

\* A connect in progress, and the generation of the server.
ConnectSound(p) ==
    /\ ~Connecting(p) => connects[p].generation = 0
    /\ connects[p].at # "replacing" => connects[p].old = 0
    /\ Connecting(p) =>
           /\ connects[p].generation \in 1..server.generation
           /\ connects[p].old < connects[p].generation
           /\ connects[p].generation = server.generation => server.client = 0
    /\ connects[p].at = "discarding" /\ ~connects[p].failed => Superseded(p)

\* What the manager has, from one phase to the next.
ManagerSound ==
    /\ server.manager = "new" =>
           /\ server.client = 0 /\ ~server.timer /\ line = <<>>
           /\ remote.open = {} /\ remote.notices = {}
           /\ \A p \in {"start", "timer"} : ~Connecting(p)
    /\ ~Stopping => server.closing = 0 /\ server.generation < GenerationBound
    /\ Stopping => server.client = 0
    /\ server.client # 0 => server.client = server.generation /\ server.client \in remote.open
    /\ Connecting("start") => server.manager = "started"
    /\ Connecting("timer") <=> holder.at = "connect"
    /\ Connecting("timer") /\ ~Stopping => connects["timer"].generation = server.generation
    /\ Connecting("start") /\ Connecting("timer") =>
           connects["start"].generation # connects["timer"].generation
    /\ 0 \notin remote.open

\* Whoever holds the semaphore is the head of the line.
HolderSound ==
    /\ holder.at # "line" => line # <<>>
    /\ holder.at = "line" => holder = Waiting
    /\ holder.at = "connect" => Holds("reconnect")
    /\ holder.at = "list" =>
           /\ Holds("refresh")
           /\ holder.client # 0 /\ server.client \in {0, holder.client}
           /\ \A p \in {"start", "timer"} :
                  Connecting(p) => connects[p].generation # server.generation
    /\ holder.at \in {"call", "pause"} =>
           /\ Head(line) \in McpCalls
           /\ holder.try \in {1, 2}
           /\ holder.try = 2 => Head(line) \in ReadOnly
    /\ holder.at = "pause" => holder.try = 1 /\ Head(line) \in ReadOnly

\* What a ready server offers is out of date only while somebody is to tell.
NewsArrive ==
    server.state = "ready" /\ server.manager = "started" /\ server.tools # remote.catalogue
        => server.client \in remote.notices \/ "refresh" \in ToSet(line)

\* The start counts only while it is the connect of the server.
OnItsWay ==
    server.manager = "started" /\ server.client = 0 =>
        \/ server.timer
        \/ "reconnect" \in ToSet(line)
        \/ Connecting("start") /\ connects["start"].generation = server.generation

\* The tries of a call that are on their way.
OnWire(c) ==
    (IF <<c, 1>> \in remote.wire THEN 1 ELSE 0) + (IF <<c, 2>> \in remote.wire THEN 1 ELSE 0)

\* How often a call was tried at most, once it is over.
MostTries(c) == IF c \in ReadOnly THEN 2 ELSE 1

CallSound(c) ==
    /\ audit[c] = "pending" <=> c \in ToSet(line)
    /\ Holds(c) =>
           /\ remote.executed[c] + OnWire(c) = holder.try
           /\ \A t \in {1, 2} : <<c, t>> \in remote.wire => t <= holder.try
    /\ (audit[c] = "pending" /\ ~Holds(c)) \/ audit[c] \in {"none", "refused"} =>
           remote.executed[c] = 0 /\ OnWire(c) = 0
    /\ audit[c] \in {"success", "error", "unknown"} =>
           remote.executed[c] + OnWire(c) <= MostTries(c)
    /\ audit[c] = "success" => remote.executed[c] > 0

\* A call waits in one place.
Once(waiting) ==
    \A i, j \in DOMAIN waiting : waiting[i] = waiting[j] /\ waiting[i] \in McpCalls => i = j

ConnectionsInv ==
    /\ \A p \in {"start", "timer"} : ConnectSound(p)
    /\ ManagerSound /\ NoOrphans /\ ReadyOffersItsOwn /\ NewsArrive /\ OnItsWay

CallsInv == Once(line) /\ \A c \in McpCalls : CallSound(c)

McpInv == McpTypeOK /\ ConnectionsInv /\ HolderSound /\ CallsInv

-----------------------------------------------------------------------------
(* The line of the semaphore.                                              *)

Task == McpCalls \cup {"refresh", "reconnect"}

\* At the end of the line.
LEMMA LineAppended ==
    ASSUME NEW s \in Seq(Task), NEW x \in Task
    PROVE  /\ Append(s, x) \in Seq(Task) /\ Append(s, x) # <<>>
           /\ ToSet(Append(s, x)) = ToSet(s) \cup {x}
           /\ s # <<>> => Head(Append(s, x)) = Head(s)
           /\ s = <<>> => Head(Append(s, x)) = x
           /\ Once(s) /\ (x \notin McpCalls \/ x \notin ToSet(s)) => Once(Append(s, x))
<1> DEFINE t == Append(s, x)
<1>1. /\ t \in Seq(Task) /\ Len(t) = Len(s) + 1 /\ t[Len(s) + 1] = x
      /\ DOMAIN s = 1..Len(s) /\ DOMAIN t = 1..Len(s) + 1 /\ Len(s) \in Nat
      /\ \A i \in 1..Len(s) : t[i] = s[i]
  OBVIOUS
<1> HIDE DEF t
<1>3. ToSet(t) = ToSet(s) \cup {x}
 <2> QED BY <1>1 DEF ToSet
<1>4. ASSUME Once(s), x \notin McpCalls \/ x \notin ToSet(s) PROVE Once(t)
 <2> SUFFICES ASSUME NEW i \in DOMAIN t, NEW j \in DOMAIN t, t[i] = t[j], t[i] \in McpCalls
              PROVE  i = j
   BY DEF Once
 <2>1. CASE i \in 1..Len(s) /\ j \in 1..Len(s)  BY <2>1, <1>1, <1>4 DEF Once
 <2>2. CASE i \in 1..Len(s) /\ j = Len(s) + 1  BY <2>2, <1>1, <1>4 DEF ToSet
 <2>3. CASE j \in 1..Len(s) /\ i = Len(s) + 1  BY <2>3, <1>1, <1>4 DEF ToSet
 <2> QED BY <1>1, <2>1, <2>2, <2>3
<1> QED BY <1>1, <1>3, <1>4 DEF t

\* From its front.
LEMMA LineReleased ==
    ASSUME NEW s \in Seq(Task), s # <<>>
    PROVE  /\ Tail(s) \in Seq(Task) /\ Head(s) \in Task
           /\ ToSet(s) = ToSet(Tail(s)) \cup {Head(s)}
           /\ Once(s) => Once(Tail(s)) /\ (Head(s) \in McpCalls => Head(s) \notin ToSet(Tail(s)))
           /\ Tail(s) # <<>> => Head(Tail(s)) \in ToSet(Tail(s))
<1> DEFINE t == Tail(s)
<1>1. /\ t \in Seq(Task) /\ Len(t) = Len(s) - 1 /\ Head(s) = s[1] /\ Head(s) \in Task
      /\ DOMAIN s = 1..Len(s) /\ DOMAIN t = 1..Len(s) - 1 /\ Len(s) \in Nat /\ Len(s) >= 1
      /\ \A i \in 1..Len(s) - 1 : t[i] = s[i + 1]
      /\ t # <<>> => 1 \in DOMAIN t /\ Head(t) = t[1]
  OBVIOUS
<1> HIDE DEF t
<1>2. ToSet(s) = ToSet(t) \cup {Head(s)}
 <2>1. ASSUME NEW i \in DOMAIN s PROVE s[i] \in ToSet(t) \cup {Head(s)}
  <3>1. CASE i = 1  BY <3>1, <1>1
  <3>2. CASE i # 1
   <4>1. i - 1 \in DOMAIN t /\ t[i - 1] = s[i]  BY <3>2, <1>1
   <4> QED BY <4>1 DEF ToSet
  <3> QED BY <3>1, <3>2
 <2>2. ASSUME NEW i \in DOMAIN t PROVE t[i] \in ToSet(s)
  <3> QED BY <1>1 DEF ToSet
 <2> QED BY <2>1, <2>2, <1>1 DEF ToSet
<1>3. ASSUME Once(s) PROVE Once(t) /\ (Head(s) \in McpCalls => Head(s) \notin ToSet(t))
 <2>1. Once(t)
  <3> SUFFICES ASSUME NEW i \in DOMAIN t, NEW j \in DOMAIN t, t[i] = t[j], t[i] \in McpCalls
               PROVE  i = j
    BY DEF Once
  <3>2. i + 1 = j + 1  BY <1>3, <1>1 DEF Once
  <3> QED BY <3>2, <1>1
 <2>2. ASSUME Head(s) \in McpCalls, NEW i \in DOMAIN t, t[i] = Head(s) PROVE FALSE
  <3> QED BY <1>1, <1>3, <2>2 DEF Once
 <2> QED BY <2>1, <2>2 DEF ToSet
<1> QED BY <1>1, <1>2, <1>3 DEF t, ToSet

\* From its middle: a task that has waited too long, or whose run is aborted.
LEMMA LineLeft ==
    ASSUME NEW s \in Seq(Task), NEW i \in 2..Len(s)
    PROVE  /\ RemoveAt(s, i) \in Seq(Task) /\ RemoveAt(s, i) # <<>> /\ s # <<>>
           /\ Head(RemoveAt(s, i)) = Head(s)
           /\ s[i] \in ToSet(s)
           /\ ToSet(RemoveAt(s, i)) \subseteq ToSet(s)
           /\ ToSet(s) \subseteq ToSet(RemoveAt(s, i)) \cup {s[i]}
           /\ Once(s) =>
                  /\ Once(RemoveAt(s, i))
                  /\ s[i] \in McpCalls => s[i] # Head(s) /\ s[i] \notin ToSet(RemoveAt(s, i))
<1> DEFINE t == RemoveAt(s, i)
<1>1. /\ t \in Seq(Task) /\ Len(t) = Len(s) - 1
      /\ DOMAIN s = 1..Len(s) /\ DOMAIN t = 1..Len(s) - 1 /\ Len(s) \in Nat /\ Len(s) >= 2
      /\ i \in Nat /\ i \in DOMAIN s
      /\ \A k \in 1..Len(s) - 1 : t[k] = IF k < i THEN s[k] ELSE s[k + 1]
 <2> DEFINE a == SubSeq(s, 1, i - 1)
            b == SubSeq(s, i + 1, Len(s))
 <2>1. /\ Len(s) \in Nat /\ i \in Nat /\ 2 <= i /\ i <= Len(s) /\ DOMAIN s = 1..Len(s)  OBVIOUS
 <2>2. /\ a \in Seq(Task) /\ Len(a) = i - 1 /\ \A k \in 1..i - 1 : a[k] = s[k]  BY <2>1
 <2>3. /\ b \in Seq(Task) /\ Len(b) = Len(s) - i /\ \A k \in 1..Len(s) - i : b[k] = s[i + k]
  <3>2. /\ b \in Seq(Task) /\ Len(b) = (IF i + 1 <= Len(s) THEN Len(s) - (i + 1) + 1 ELSE 0)
        /\ \A k \in 1..Len(s) - (i + 1) + 1 : b[k] = s[(i + 1) + k - 1]
    BY SubSeqProperties, <2>1
  <3> HIDE DEF b
  <3>3. Len(b) = Len(s) - i
   <4>1. ASSUME NEW n \in Nat, i <= n
         PROVE  (IF i + 1 <= n THEN n - (i + 1) + 1 ELSE 0) = n - i
     BY <2>1, <4>1
   <4>2. (IF i + 1 <= Len(s) THEN Len(s) - (i + 1) + 1 ELSE 0) = Len(s) - i  BY <2>1, <4>1
   <4> QED BY <3>2, <4>2, SMT
  <3>4. ASSUME NEW k \in 1..Len(s) - i PROVE b[k] = s[i + k]
   <4>1. k \in 1..Len(s) - (i + 1) + 1 /\ (i + 1) + k - 1 = i + k  BY <2>1
   <4> QED BY <3>2, <4>1
  <3> QED BY <3>2, <3>3, <3>4
 <2> HIDE DEF a, b
 <2>4. t = a \o b  BY DEF a, b, RemoveAt
 <2> HIDE DEF t
 <2>5. /\ t \in Seq(Task) /\ Len(t) = Len(s) - 1
       /\ \A k \in 1..Len(s) - 1 : t[k] = IF k <= i - 1 THEN a[k] ELSE b[k - (i - 1)]
  <3>1. /\ t \in Seq(Task) /\ Len(t) = Len(a) + Len(b)
        /\ \A k \in 1..Len(a) + Len(b) :
               t[k] = IF k <= Len(a) THEN a[k] ELSE b[k - Len(a)]
    BY <2>2, <2>3, <2>4, ConcatProperties
  <3> QED BY <3>1, <2>2, <2>1, <2>3
 <2>6. ASSUME NEW k \in 1..Len(s) - 1 PROVE t[k] = IF k < i THEN s[k] ELSE s[k + 1]
  <3>1. CASE k <= i - 1  BY <3>1, <2>1, <2>2, <2>5
  <3>2. CASE k > i - 1
   <4> QED BY <3>2, <2>1, <2>3, <2>5
  <3> QED BY <3>1, <3>2, <2>1
 <2> QED BY <2>1, <2>5, <2>6
<1> HIDE DEF t
<1>2. t # <<>> /\ s # <<>> /\ Head(t) = Head(s)
 <2> QED BY <1>1
<1>4. ToSet(t) \subseteq ToSet(s)
 <2>1. ASSUME NEW k \in DOMAIN t PROVE t[k] \in ToSet(s)
  <3> QED BY <1>1 DEF ToSet
 <2> QED BY <2>1 DEF ToSet
<1>5. ToSet(s) \subseteq ToSet(t) \cup {s[i]}
 <2>1. ASSUME NEW k \in DOMAIN s, k # i PROVE s[k] \in ToSet(t)
  <3>1. CASE k < i
   <4> QED BY <3>1, <1>1 DEF ToSet
  <3>2. CASE k > i
   <4>1. k - 1 \in DOMAIN t /\ t[k - 1] = s[k]  BY <3>2, <1>1
   <4> QED BY <4>1 DEF ToSet
  <3> QED BY <3>1, <3>2, <2>1, <1>1
 <2> QED BY <2>1 DEF ToSet
<1>6. ASSUME Once(s) PROVE Once(t)
 <2> SUFFICES ASSUME NEW j \in DOMAIN t, NEW k \in DOMAIN t, t[j] = t[k], t[j] \in McpCalls
              PROVE  j = k
   BY DEF Once
 <2> DEFINE at(n) == IF n < i THEN n ELSE n + 1
 <2>1. at(j) \in DOMAIN s /\ at(k) \in DOMAIN s /\ t[j] = s[at(j)] /\ t[k] = s[at(k)]  BY <1>1
 <2>2. at(j) = at(k)
  <3> HIDE DEF at
  <3> QED BY <2>1, <1>6 DEF Once
 <2> QED BY <2>2, <1>1
<1>7. ASSUME Once(s), s[i] \in McpCalls PROVE s[i] # Head(s) /\ s[i] \notin ToSet(t)
 <2>1. s[i] # Head(s)
  <3> QED BY <1>1, <1>7 DEF Once
 <2>2. ASSUME NEW k \in DOMAIN t, t[k] = s[i] PROVE FALSE
  <3> DEFINE n == IF k < i THEN k ELSE k + 1
  <3> HIDE DEF n
  <3> QED BY <1>1, <1>7, <2>2 DEF Once
 <2> QED BY <2>1, <2>2 DEF ToSet
<1> QED BY <1>1, <1>2, <1>4, <1>5, <1>6, <1>7 DEF t, ToSet

-----------------------------------------------------------------------------
(* Types.                                                                  *)

\* The bounds, and what no call is named.
LEMMA McpConstants ==
    /\ GenerationBound \in Nat /\ GenerationBound >= 1
    /\ CatalogueBound \in Nat /\ CatalogueBound >= 1
    /\ ReadOnly \subseteq McpCalls
    /\ "refresh" \notin McpCalls /\ "reconnect" \notin McpCalls
BY McpAssumption

\* What the types say of the parts.
LEMMA McpTypes ==
    ASSUME McpTypeOK
    PROVE  /\ server \in ManagedServer /\ connects \in [{"start", "timer"} -> Connect]
           /\ line \in Seq(Task) /\ remote \in Remote
           /\ holder.at \in {"line", "connect", "list", "call", "pause"}
           /\ holder.client \in Generations /\ holder.try \in 0..2
           /\ audit \in [McpCalls -> {"none", "pending", "refused", "success", "error", "unknown"}]
           /\ server.generation \in Nat /\ server.generation <= GenerationBound
           /\ server.client \in Nat /\ server.closing \in Nat
           /\ \A p \in {"start", "timer"} :
                  connects[p].generation \in Nat /\ connects[p].old \in Nat
           /\ \A c \in McpCalls : remote.executed[c] \in Nat
<1>1. /\ server \in ManagedServer /\ connects \in [{"start", "timer"} -> Connect]
      /\ line \in Seq(Task) /\ remote \in Remote
      /\ audit \in [McpCalls -> {"none", "pending", "refused", "success", "error", "unknown"}]
  BY DEF McpTypeOK, Task
<1>4. ASSUME NEW p \in {"start", "timer"}
      PROVE  connects[p].generation \in Nat /\ connects[p].old \in Nat
 <2> QED BY McpConstants, <1>1 DEF Connect, Generations
<1>5. ASSUME NEW c \in McpCalls PROVE remote.executed[c] \in Nat
 <2> QED BY <1>1 DEF Remote
<1> QED BY <1>1, <1>4, <1>5, McpConstants DEF McpTypeOK, ManagedServer, Generations

-----------------------------------------------------------------------------
(* Calls.                                                                  *)

\* How many tries are on the wire.
LEMMA OnWireIs ==
    ASSUME NEW c \in McpCalls
    PROVE  /\ OnWire(c) \in 0..2
           /\ OnWire(c) = 0 <=> <<c, 1>> \notin remote.wire /\ <<c, 2>> \notin remote.wire
BY DEF OnWire

\* Nothing of the calls changes.
LEMMA CallsStay ==
    ASSUME McpInv, audit' = audit,
           remote'.wire = remote.wire, remote'.executed = remote.executed,
           Once(line'),
           \A c \in McpCalls : c \in ToSet(line') <=> c \in ToSet(line),
           \A c \in McpCalls : (line' # <<>> /\ Head(line') = c) <=> Holds(c),
           \A c \in McpCalls : Holds(c) => holder'.try = holder.try
    PROVE  CallsInv'
<1>1. ASSUME NEW c \in McpCalls PROVE CallSound(c)'
 <2>3. OnWire(c)' = OnWire(c)  BY DEF OnWire
 <2> QED BY <2>3 DEF CallSound, McpInv, CallsInv, Holds
<1> QED BY <1>1 DEF CallsInv, Once

\* The head of the line is done with, and the next one has not begun.
LEMMA CallsRelease ==
    ASSUME McpInv, line # <<>>, line' = Tail(line), holder' = Waiting,
           remote'.wire = remote.wire, remote'.executed = remote.executed,
           \A c \in McpCalls \ {Head(line)} : audit'[c] = audit[c],
           Head(line) \in McpCalls =>
               /\ audit'[Head(line)] \in {"success", "error", "unknown"}
               /\ audit'[Head(line)] = "success" => remote.executed[Head(line)] > 0
               /\ holder.at \in {"call", "pause"} \/ holder = Waiting
    PROVE  CallsInv'
<1>1. /\ McpTypeOK /\ HolderSound /\ line \in Seq(Task) /\ Once(line)
      /\ \A c \in McpCalls : CallSound(c)
  BY McpTypes DEF McpInv, CallsInv
<1>2. /\ ToSet(line) = ToSet(line') \cup {Head(line)} /\ Once(line')
      /\ Head(line) \in McpCalls => Head(line) \notin ToSet(line')
      /\ line' # <<>> => Head(line') \in ToSet(line')
  BY <1>1, LineReleased
<1>3. ASSUME NEW c \in McpCalls PROVE CallSound(c)'
 <2>1. OnWire(c)' = OnWire(c) /\ OnWire(c) \in Nat /\ remote.executed[c] \in Nat
   BY <1>1, OnWireIs, McpTypes DEF OnWire
 <2>2. Holds(c)' => c \in ToSet(line')  BY <1>2 DEF Holds
 <2>3. CASE c = Head(line)
  <3>3. holder.try <= MostTries(c)
   <4>1. CASE holder = Waiting  BY <4>1 DEF Waiting, MostTries
   <4>2. CASE holder.at \in {"call", "pause"}  BY <1>1, <2>3, <4>2 DEF HolderSound, MostTries
   <4> QED BY <2>3, <4>1, <4>2
  <3> QED BY <1>2, <2>1, <2>3, <3>3, <1>1, <2>2 DEF CallSound, MostTries, Holds
 <2>4. CASE c # Head(line)
  <3>1. audit'[c] = audit[c] /\ (c \in ToSet(line') <=> c \in ToSet(line)) /\ ~Holds(c)
    BY <1>2, <2>4 DEF Holds
  <3>2. CallSound(c)  BY <1>1
  <3>3. Holds(c)' => /\ remote'.executed[c] + OnWire(c)' = holder'.try
                     /\ \A t \in {1, 2} : <<c, t>> \notin remote'.wire
   <4>3. OnWire(c) = 0 => \A t \in {1, 2} : <<c, t>> \notin remote.wire  BY OnWireIs
   <4> QED BY <2>1, <4>3, <2>2, <3>1, <3>2 DEF Waiting, CallSound
  <3> QED BY <2>1, <3>1, <3>2, <3>3 DEF CallSound, MostTries
 <2> QED BY <2>3, <2>4
<1> QED BY <1>3, <1>2 DEF CallsInv, Once

\* A step that leaves the line, its holder and the calls alone.
LEMMA CallsAside ==
    ASSUME McpInv, UNCHANGED <<audit, line, holder>>,
           remote'.wire = remote.wire, remote'.executed = remote.executed
    PROVE  CallsInv'
<1> QED BY CallsStay DEF Holds, McpInv, CallsInv

\* A task that is no call joins the line, or leaves it from the middle.
LEMMA CallsBeside ==
    ASSUME McpInv, UNCHANGED <<audit, holder>>,
           remote'.wire = remote.wire, remote'.executed = remote.executed,
           \/ \E x \in {"refresh", "reconnect"} : line' = Append(line, x)
           \/ \E i \in 2..Len(line) : line[i] \notin McpCalls /\ line' = RemoveAt(line, i)
    PROVE  CallsInv'
<1>1. line \in Seq(Task) /\ Once(line)  BY McpTypes DEF McpInv, CallsInv
<1>2. CASE \E x \in {"refresh", "reconnect"} : line' = Append(line, x)
 <2>1. PICK x \in {"refresh", "reconnect"} : line' = Append(line, x)  BY <1>2
 <2> QED BY CallsStay, <1>1, <2>1, LineAppended, McpConstants DEF Holds, Task
<1>3. CASE \E i \in 2..Len(line) : line[i] \notin McpCalls /\ line' = RemoveAt(line, i)
 <2>1. PICK i \in 2..Len(line) : line[i] \notin McpCalls /\ line' = RemoveAt(line, i)  BY <1>3
 <2> QED BY <2>1, CallsStay, <1>1, LineLeft DEF Holds
<1> QED BY <1>2, <1>3

\* Another task than a call has had its turn.
LEMMA CallsGoOn ==
    ASSUME McpInv, audit' = audit, line # <<>>, Head(line) \notin McpCalls, ReleaseServer,
           remote'.wire = remote.wire, remote'.executed = remote.executed
    PROVE  CallsInv'
BY CallsRelease DEF ReleaseServer

\* A call that no longer waits, and one that begins to.
LEMMA CallsRefused ==
    ASSUME McpInv, NEW c \in McpCalls, RefuseCall(c) \/ AbortInLine(c)
    PROVE  CallsInv'
<1>1. /\ line \in Seq(Task) /\ Once(line) /\ \A d \in McpCalls : CallSound(d)
      /\ audit \in [McpCalls -> {"none", "pending", "refused", "success", "error", "unknown"}]
  BY McpTypes DEF McpInv, CallsInv
<1>2. /\ UNCHANGED <<holder, remote>> /\ audit' = [audit EXCEPT ![c] = "refused"]
  BY DEF RefuseCall, AbortInLine
<1>3. /\ Once(line') /\ c \notin ToSet(line') /\ ~Holds(c)
      /\ audit[c] = "none" \/ audit[c] = "pending"
      /\ \A d \in McpCalls \ {c} : d \in ToSet(line') <=> d \in ToSet(line)
      /\ \A d \in McpCalls : Holds(d)' <=> Holds(d)
 <2>1. CASE RefuseCall(c)
  <3>1. audit[c] = "none" /\ line' = line  BY <2>1 DEF RefuseCall
  <3>2. c \notin ToSet(line)  BY <1>1, <3>1 DEF CallSound
  <3> QED BY <1>1, <3>1, <3>2, LineReleased DEF Holds
 <2>2. CASE AbortInLine(c)
  <3>1. PICK i \in 2..Len(line) : line[i] = c /\ line' = RemoveAt(line, i)
    BY <2>2 DEF AbortInLine
  <3> QED BY <1>1, <3>1, LineLeft DEF Holds, CallSound
 <2> QED BY <2>1, <2>2
<1>4. ASSUME NEW d \in McpCalls PROVE CallSound(d)'
 <2>1. CallSound(d) /\ OnWire(d)' = OnWire(d)  BY <1>1, <1>2 DEF OnWire
 <2>2. CASE d = c
  <3> QED BY <1>2, <1>3, <2>1, <2>2, <1>1 DEF CallSound
 <2>3. CASE d # c
  <3> QED BY <1>2, <1>3, <2>1, <2>3, <1>1 DEF CallSound
 <2> QED BY <2>2, <2>3
<1> QED BY <1>3, <1>4 DEF CallsInv, Once

\* A call joins the line.
LEMMA CallsStart ==
    ASSUME McpInv, NEW c \in McpCalls, StartCall(c)
    PROVE  CallsInv'
<1>1. /\ line \in Seq(Task) /\ Once(line) /\ \A d \in McpCalls : CallSound(d)
      /\ audit \in [McpCalls -> {"none", "pending", "refused", "success", "error", "unknown"}]
      /\ HolderSound /\ c \in Task
  BY McpTypes DEF McpInv, CallsInv, Task
<1>2. /\ UNCHANGED <<holder, remote>> /\ audit' = [audit EXCEPT ![c] = "pending"]
      /\ audit[c] = "none" /\ line' = Append(line, c)
  BY DEF StartCall
<1>3. c \notin ToSet(line)  BY <1>1, <1>2 DEF CallSound
<1>4. /\ line' # <<>> /\ ToSet(line') = ToSet(line) \cup {c} /\ Once(line')
      /\ line # <<>> => Head(line') = Head(line)
      /\ line = <<>> => Head(line') = c
  BY <1>1, <1>2, <1>3, LineAppended
<1>5. ASSUME NEW d \in McpCalls PROVE CallSound(d)'
 <2>1. CallSound(d) /\ OnWire(d)' = OnWire(d)  BY <1>1, <1>2 DEF OnWire
 <2>2. CASE d = c
  <3>3. Holds(d)' => holder'.try = 0
   <4>1. CASE line = <<>>  BY <1>1, <1>2, <4>1 DEF HolderSound, Waiting
   <4>2. CASE line # <<>>
    <5> QED BY <1>3, <1>4, <2>2, <4>2, <1>1, LineReleased DEF Holds
   <4> QED BY <4>1, <4>2
  <3> QED BY <1>2, <2>1, <3>3, <1>1, <1>4, <2>2, OnWireIs DEF CallSound
 <2>3. CASE d # c
  <3> QED BY <1>2, <2>1, <2>3, <1>1, <1>4 DEF CallSound, Holds
 <2> QED BY <2>2, <2>3
<1> QED BY <1>4, <1>5 DEF CallsInv, Once

\* A call is over, whatever is said of it.
LEMMA CallsFinish ==
    ASSUME McpInv, NEW c \in McpCalls, NEW state \in {"success", "error", "unknown"},
           Holds(c), Finish(c, state),
           holder.at \in {"line", "call", "pause"},
           state = "success" => remote.executed[c] > 0,
           remote'.wire = remote.wire, remote'.executed = remote.executed
    PROVE  CallsInv'
<1>3. holder.at \in {"call", "pause"} \/ holder = Waiting  BY DEF McpInv, HolderSound
<1> QED BY <1>3, CallsRelease, McpTypes DEF McpInv, Finish, ReleaseServer, Holds

\* A call goes out, for the first time or again.
LEMMA CallsGoOut ==
    ASSUME McpInv, NEW c \in McpCalls, Holds(c), holder.at \in {"line", "pause"},
           holder' = [at |-> "call", client |-> server.client, try |-> holder.try + 1],
           remote' = [remote EXCEPT !.wire = @ \cup {<<c, holder.try + 1>>}],
           UNCHANGED <<line, audit>>
    PROVE  /\ CallsInv' /\ holder'.try \in {1, 2}
           /\ holder'.try = 2 => c \in ReadOnly
<1>1. /\ Once(line) /\ \A d \in McpCalls : CallSound(d)
      /\ remote \in Remote /\ HolderSound /\ holder.try \in 0..2
  BY McpTypes DEF McpInv, CallsInv
<1> DEFINE n == holder.try
<1>2. n \in {0, 1} /\ (n = 1 => c \in ReadOnly)
 <2>1. CASE holder.at = "line"  BY <1>1, <2>1 DEF HolderSound, Waiting
 <2>2. CASE holder.at = "pause"  BY <1>1, <2>2 DEF HolderSound, Holds
 <2> QED BY <2>1, <2>2
<1>3. holder'.try = n + 1  OBVIOUS
<1>4. remote'.wire = remote.wire \cup {<<c, n + 1>>} /\ remote'.executed = remote.executed
  BY <1>1 DEF Remote
<1>5. /\ remote.executed[c] + OnWire(c) = n /\ \A t \in {1, 2} : <<c, t>> \in remote.wire => t <= n
      /\ audit[c] = "pending"
 <2>1. c \in ToSet(line)
  <3> QED BY LineReleased, McpTypes DEF McpInv, Holds
 <2> QED BY <1>1, <2>1 DEF CallSound
<1>6. /\ OnWire(c)' = OnWire(c) + 1
      /\ \A t \in {1, 2} : <<c, t>> \in remote'.wire => t <= n + 1
 <2>1. CASE n = 0
  <3> QED BY <2>1, <1>4, <1>5 DEF OnWire
 <2>2. CASE n = 1
  <3> QED BY <2>2, <1>5, <1>4 DEF OnWire
 <2> QED BY <1>2, <2>1, <2>2
<1>7. ASSUME NEW d \in McpCalls PROVE CallSound(d)'
 <2>1. CallSound(d) /\ (Holds(d)' <=> Holds(d))  BY <1>1 DEF Holds
 <2>2. CASE d = c
  <3>1. remote'.executed[d] + OnWire(d)' = holder'.try
   <4> QED BY <1>2, <1>3, <1>4, <1>5, <1>6, <2>2, OnWireIs, McpTypes DEF McpInv
  <3> QED BY <1>3, <1>4, <1>5, <1>6, <2>1, <2>2, <3>1 DEF CallSound
 <2>3. CASE d # c
  <3> QED BY <1>4, <2>1, <2>3 DEF CallSound, Holds, OnWire
 <2> QED BY <2>2, <2>3
<1> QED BY <1>2, <1>3, <1>7, <1>1 DEF CallsInv, Once

\* The server executes a call that has arrived.
LEMMA CallsExecute ==
    ASSUME McpInv, NEW w \in remote.wire, ExecuteCall(w)
    PROVE  /\ CallsInv' /\ remote' \in Remote
           /\ UNCHANGED <<remote.open, remote.notices, remote.catalogue>>
<1>1. /\ Once(line) /\ \A d \in McpCalls : CallSound(d) /\ remote \in Remote
      /\ UNCHANGED <<server, connects, line, holder, audit>>
      /\ remote' = [remote EXCEPT !.wire = @ \ {w}, !.executed[w[1]] = @ + 1]
      /\ HolderSound /\ \A d \in McpCalls : remote.executed[d] \in Nat
  BY McpTypes DEF McpInv, CallsInv, ExecuteCall
<1>2. PICK c \in McpCalls, n \in {1, 2} : w = <<c, n>>
 <2> QED BY McpTypes DEF Remote, McpInv
<1>3. w[1] = c  BY <1>2
<1>4. /\ remote'.wire = remote.wire \ {<<c, n>>}
      /\ remote'.executed = [remote.executed EXCEPT ![c] = @ + 1]
      /\ UNCHANGED <<remote.open, remote.notices, remote.catalogue>>
  BY <1>1, <1>2, <1>3 DEF Remote
<1>5. /\ remote'.executed[c] = remote.executed[c] + 1
      /\ \A d \in McpCalls \ {c} : remote'.executed[d] = remote.executed[d]
  BY <1>1, <1>4 DEF Remote
<1>6. OnWire(c) = OnWire(c)' + 1 /\ OnWire(c)' \in Nat /\ OnWire(c) # 0
 <2>1. \A t \in {1, 2} : <<c, t>> \in remote'.wire <=> <<c, t>> \in remote.wire /\ t # n
   BY <1>4
 <2>2. <<c, n>> \in remote.wire  BY <1>2
 <2>3. CASE n = 1  BY <2>1, <2>2, <2>3 DEF OnWire
 <2>4. CASE n = 2  BY <2>1, <2>2, <2>4 DEF OnWire
 <2> QED BY <2>3, <2>4
<1>7. ASSUME NEW d \in McpCalls PROVE CallSound(d)'
 <2>1. CallSound(d) /\ (Holds(d)' <=> Holds(d))  BY <1>1 DEF Holds
 <2>2. CASE d = c
  <3> QED BY <1>1, <2>1, <1>5, <1>6, <2>2, <1>4 DEF CallSound, MostTries
 <2>3. CASE d # c
  <3> QED BY <1>1, <1>5, <2>1, <2>3, <1>4 DEF CallSound, MostTries, OnWire
 <2> QED BY <2>2, <2>3
<1>8. remote' \in Remote
 <2>1. remote.executed[c] + 1 \in 0..2
  <3>1. remote.executed[c] + OnWire(c) <= 2
   <4>1. CallSound(c) /\ OnWire(c) \in 0..2 /\ remote.executed[c] \in Nat  BY <1>1, OnWireIs
   <4>2. holder.try \in 0..2  BY McpTypes DEF McpInv
   <4>3. audit[c] \in {"none", "pending", "refused", "success", "error", "unknown"}
     BY McpTypes DEF McpInv
   <4> QED BY <4>1, <4>2, <4>3 DEF CallSound, MostTries
  <3> QED BY <3>1, <1>1, <1>6, OnWireIs
 <2> DEFINE wire == remote.wire \ {w}
            executed == [remote.executed EXCEPT ![c] = @ + 1]
 <2>2. wire \subseteq McpCalls \X {1, 2} /\ executed \in [McpCalls -> 0..2]
   BY <1>1, <2>1 DEF Remote
 <2>3. remote' = [remote EXCEPT !.wire = wire, !.executed = executed]  BY <1>1, <1>3 DEF Remote
 <2> HIDE DEF wire, executed
 <2> QED BY <1>1, <2>2, <2>3 DEF Remote
<1> QED BY <1>1, <1>4, <1>7, <1>8 DEF CallsInv, Once

-----------------------------------------------------------------------------
(* The server, changed by the helpers of the handlers.                     *)

\* What a failure leaves of a server.
Keeps(s, t) ==
    /\ t \in ManagedServer
    /\ t.client = s.client /\ t.generation = s.generation /\ t.closing = s.closing
    /\ t.tools = s.tools /\ t.listedBy = s.listedBy /\ t.manager = s.manager

\* Degrading keeps everything else; scheduling sets the timer unless the manager stops.
LEMMA ServerDegraded ==
    ASSUME NEW s \in ManagedServer
    PROVE  /\ Keeps(s, Degraded(s)) /\ Degraded(s).state = "degraded"
           /\ Degraded(s).timer = s.timer
           /\ Keeps(s, DegradedAndScheduled(s)) /\ DegradedAndScheduled(s).state = "degraded"
           /\ s.manager \notin {"stopping", "stopped"} => DegradedAndScheduled(s).timer
           /\ s.timer => DegradedAndScheduled(s).timer
<1>2. ASSUME NEW b \in BOOLEAN
      PROVE  LET t == [s EXCEPT !.state = "degraded", !.timer = b]
             IN  Keeps(s, t) /\ t.state = "degraded" /\ t.timer = b
  BY DEF Keeps, ManagedServer
<1> DEFINE b == s.timer \/ s.manager \notin {"stopping", "stopped"}
<1>3. DegradedAndScheduled(s) = [s EXCEPT !.state = "degraded", !.timer = b]
  BY DEF DegradedAndScheduled
<1>4. b \in BOOLEAN /\ (s.timer => b) /\ (s.manager \notin {"stopping", "stopped"} => b)
  OBVIOUS
<1> HIDE DEF b
<1> QED BY <1>4, <1>2, <1>3 DEF Keeps, Degraded, ManagedServer

\* What stop() does at once.
LEMMA ServerStopping ==
    ASSUME NEW s \in ManagedServer, s.generation < GenerationBound
    PROVE  LET t == BeginningToStop(s)
           IN  /\ t \in ManagedServer /\ t.manager = "stopping" /\ t.client = 0
               /\ t.closing = s.client /\ t.generation = s.generation + 1
<1> DEFINE g == s.generation + 1
<1>1. g \in Generations /\ s.client \in Generations /\ 0 \in Generations
  BY McpConstants DEF ManagedServer, Generations
<1>3. g = s.generation + 1  OBVIOUS
<1> HIDE DEF g
<1> QED BY <1>1, <1>3 DEF ManagedServer, BeginningToStop

\* A connection is gone, with what it had to tell.
LEMMA RemoteDisconnected ==
    ASSUME remote \in Remote, NEW k, remote' = Disconnected(k)
    PROVE  /\ remote' \in Remote
           /\ remote'.open = remote.open \ {k} /\ remote'.notices = remote.notices \ {k}
           /\ remote'.catalogue = remote.catalogue
           /\ remote'.wire = remote.wire /\ remote'.executed = remote.executed
BY DEF Disconnected, Remote

-----------------------------------------------------------------------------
(* The holder of the semaphore.                                            *)

\* The holder goes on holding.
LEMMA HolderKept ==
    ASSUME HolderSound, holder' = holder,
           holder.at # "line" => line' # <<>> /\ Head(line') = Head(line),
           holder.at = "list" =>
               /\ server'.client \in {0, server.client}
               /\ \A p \in {"start", "timer"} :
                      connects'[p].at # "idle" => connects'[p].generation # server'.generation
    PROVE  HolderSound'
<1> QED BY DEF HolderSound, Holds, Connecting

\* The next one has not begun.
LEMMA HolderFreed ==
    ASSUME holder' = Waiting
    PROVE  HolderSound'
BY DEF HolderSound, Waiting

-----------------------------------------------------------------------------
(* The connections.                                                        *)

\* A step that opens, publishes and closes nothing.
LEMMA ConnectionsQuiet ==
    ASSUME ConnectionsInv, McpTypeOK, connects' = connects, Keeps(server, server'),
           server'.state \in {server.state, "degraded"},
           UNCHANGED <<remote.open, remote.notices, remote.catalogue>>,
           holder'.at = "connect" <=> holder.at = "connect",
           server.manager = "new" => line' = <<>> /\ ~server'.timer,
           "refresh" \in ToSet(line) =>
               "refresh" \in ToSet(line') \/ server'.state = "degraded",
           server.manager = "started" =>
               (server.timer \/ "reconnect" \in ToSet(line)
                    => server'.timer \/ "reconnect" \in ToSet(line'))
    PROVE  ConnectionsInv'
<1>1. UNCHANGED <<server.client, server.generation, server.closing, server.tools,
                  server.listedBy, server.manager>>
  BY DEF Keeps
<1>2. ASSUME NEW p \in {"start", "timer"} PROVE ConnectSound(p)'
  BY <1>1 DEF ConnectionsInv, ConnectSound, Connecting, Superseded, Stopping
<1>5. ReadyOffersItsOwn'  BY <1>1 DEF ConnectionsInv, ReadyOffersItsOwn
<1>6. NewsArrive'  BY <1>1 DEF ConnectionsInv, NewsArrive
<1>7. OnItsWay'  BY <1>1 DEF ConnectionsInv, OnItsWay, Connecting
<1> QED
  BY <1>2, <1>5, <1>6, <1>7, <1>1 DEF ConnectionsInv, ManagerSound, Connecting,
    Stopping, NoOrphans

\* The holder goes on holding, and the server and its connects are what they were.
LEMMA HolderQuiet ==
    ASSUME HolderSound, holder' = holder, connects' = connects, Keeps(server, server'),
           holder.at # "line" => line' # <<>> /\ Head(line') = Head(line)
    PROVE  HolderSound'
<1> QED BY HolderKept DEF HolderSound, Connecting, Keeps

\* The turn of the head of the line ends, with nothing learned but a failure.
LEMMA TurnEnds ==
    ASSUME McpInv, line # <<>>, ReleaseServer, holder.at # "connect",
           UNCHANGED <<connects, remote>>, Keeps(server, server'),
           server'.state \in {server.state, "degraded"}, server.timer => server'.timer,
           Head(line) = "refresh" => server'.state = "degraded",
           Head(line) = "reconnect" => Stopping,
           audit' \in [McpCalls -> {"none", "pending", "refused", "success", "error", "unknown"}],
           CallsInv'
    PROVE  McpInv'
<1>1. McpTypeOK /\ ConnectionsInv /\ line \in Seq(Task) /\ ManagerSound
  BY McpTypes DEF McpInv, ConnectionsInv
<1>2. line' = Tail(line) /\ holder' = Waiting  BY DEF ReleaseServer
<1>3. line' \in Seq(Task) /\ ToSet(line) = ToSet(line') \cup {Head(line)}
  BY <1>1, <1>2, LineReleased
<1>5. ConnectionsInv'
 <2>2. server.manager = "started" =>
           (server.timer \/ "reconnect" \in ToSet(line)
                => server'.timer \/ "reconnect" \in ToSet(line'))
   BY <1>3 DEF Stopping
 <2>3. holder'.at = "connect" <=> holder.at = "connect"  BY <1>2 DEF Waiting
 <2> QED BY <1>1, <2>2, <2>3, ConnectionsQuiet, <1>3 DEF ManagerSound
<1>6. McpTypeOK'
  BY <1>1, <1>2, <1>3, McpConstants DEF McpTypeOK, Task, Keeps, Waiting, Generations
<1>7. HolderSound'  BY <1>2, HolderFreed
<1> QED BY <1>5, <1>6, <1>7 DEF McpInv

\* What every step starts from.
LEMMA McpParts ==
    ASSUME McpInv
    PROVE  /\ McpTypeOK /\ ConnectionsInv /\ HolderSound /\ CallsInv /\ ManagerSound
           /\ line \in Seq(Task) /\ server \in ManagedServer /\ remote \in Remote
           /\ connects \in [{"start", "timer"} -> Connect]
           /\ audit \in [McpCalls -> {"none", "pending", "refused", "success", "error", "unknown"}]
           /\ Keeps(server, server)
           /\ \A p \in {"start", "timer"} : ConnectSound(p)
BY McpTypes DEF McpInv, ConnectionsInv, Keeps

-----------------------------------------------------------------------------
(* Every step keeps the invariant.                                         *)

\* The timer of the reconnect.
LEMMA StepTimer ==
    ASSUME McpInv, FireTimer \/ TimeOutInLine
    PROVE  McpInv'
<1>1. CASE FireTimer
 <2>1. /\ Keeps(server, server') /\ server'.state = server.state /\ server'.timer = FALSE
       /\ server.timer
   BY <1>1, McpParts DEF FireTimer, Keeps, ManagedServer
 <2>2. line' = Append(line, "reconnect") /\ UNCHANGED <<connects, holder, audit, remote>>
   BY <1>1 DEF FireTimer
 <2>3. /\ line' \in Seq(Task) /\ ToSet(line') = ToSet(line) \cup {"reconnect"} /\ line' # <<>>
       /\ line # <<>> => Head(line') = Head(line)
   BY <2>2, McpParts, LineAppended DEF Task
 <2>6. HolderSound'
  <3> QED BY <2>1, <2>2, McpParts, HolderQuiet, <2>3 DEF HolderSound
 <2>7. CallsInv'  BY <2>2, CallsBeside
 <2> QED
   BY <2>6, <2>7, <2>1, <2>2, <2>3, McpParts, ConnectionsQuiet DEF McpInv,
     McpTypeOK, Task, Keeps, ManagerSound
<1>2. CASE TimeOutInLine
 <2>1. PICK i \in 2..Len(line) : line[i] = "reconnect" /\ line' = RemoveAt(line, i)
   BY <1>2 DEF TimeOutInLine
 <2>2. server' = DegradedAndScheduled(server) /\ UNCHANGED <<connects, holder, audit, remote>>
   BY <1>2 DEF TimeOutInLine
 <2>3. /\ line' \in Seq(Task) /\ line # <<>> /\ line' # <<>> /\ Head(line') = Head(line)
       /\ ToSet(line) \subseteq ToSet(line') \cup {"reconnect"}
   BY <2>1, McpParts, LineLeft
 <2>4. /\ Keeps(server, server') /\ server'.state = "degraded"
       /\ server.manager \notin {"stopping", "stopped"} => server'.timer
   BY <2>2, McpParts, ServerDegraded
 <2>7. HolderSound'  BY <2>2, <2>3, <2>4, McpParts, HolderQuiet
 <2>8. CallsInv'  BY <2>1, <2>2, McpConstants, CallsBeside
 <2> QED
   BY <2>7, <2>8, <2>2, <2>3, <2>4, McpParts, ConnectionsQuiet DEF McpInv,
     McpTypeOK, Task, Keeps, ManagerSound
<1> QED BY <1>1, <1>2

\* The calls that wait for nobody.
LEMMA StepRefused ==
    ASSUME McpInv, NEW c \in McpCalls, RefuseCall(c) \/ AbortInLine(c)
    PROVE  McpInv'
<1>1. UNCHANGED <<server, connects, holder, remote>>  BY DEF RefuseCall, AbortInLine
<1>2. CallsInv'  BY CallsRefused
<1>3. /\ line' \in Seq(Task) /\ ToSet(line) \subseteq ToSet(line') \cup {c}
      /\ line = <<>> => line' = <<>>
      /\ line # <<>> => line' # <<>> /\ Head(line') = Head(line)
 <2>1. CASE RefuseCall(c)  BY <2>1, McpParts DEF RefuseCall
 <2>2. CASE AbortInLine(c)
  <3>1. PICK i \in 2..Len(line) : line[i] = c /\ line' = RemoveAt(line, i)
    BY <2>2 DEF AbortInLine
  <3> QED BY <3>1, McpParts, LineLeft
 <2> QED BY <2>1, <2>2
<1>6. server.manager = "new" => line' = <<>> /\ ~server'.timer
  BY <1>1, <1>3, McpParts DEF ManagerSound
<1>7. Keeps(server, server')  BY <1>1, McpParts
<1>8. ConnectionsInv'  BY <1>1, <1>6, <1>7, McpParts, ConnectionsQuiet, <1>3, McpConstants
<1>9. HolderSound'
 <2> QED BY <1>1, <1>7, McpParts, HolderQuiet, <1>3 DEF HolderSound
<1>10. McpTypeOK'
 <2> QED BY <1>1, <1>3, McpParts DEF McpTypeOK, Task, RefuseCall, AbortInLine
<1> QED BY <1>2, <1>8, <1>9, <1>10 DEF McpInv

\* A call joins the line.
LEMMA StepStartCall ==
    ASSUME McpInv, NEW c \in McpCalls, StartCall(c)
    PROVE  McpInv'
<1>1. /\ UNCHANGED <<server, connects, holder, remote>> /\ line' = Append(line, c)
      /\ audit' = [audit EXCEPT ![c] = "pending"] /\ server.manager # "new"
  BY DEF StartCall
<1>2. /\ line' \in Seq(Task) /\ ToSet(line') = ToSet(line) \cup {c} /\ line' # <<>>
      /\ line # <<>> => Head(line') = Head(line)
  BY <1>1, McpParts, LineAppended DEF Task
<1>3. Keeps(server, server')  BY <1>1, McpParts
<1>5. HolderSound'
 <2> QED BY <1>1, <1>3, McpParts, HolderQuiet, <1>2 DEF HolderSound
<1> QED
  BY <1>5, CallsStart, <1>1, <1>2, <1>3, McpParts, ConnectionsQuiet DEF McpInv,
    McpTypeOK, Task

\* Whoever holds the semaphore for a call is at that call.
LEMMA CallHolds ==
    ASSUME McpInv, NEW c \in McpCalls, Holds(c)
    PROVE  /\ holder.at \in {"line", "call", "pause"} /\ line # <<>> /\ Head(line) = c
           /\ Head(line) # "refresh" /\ Head(line) # "reconnect"
BY McpTypes, McpConstants DEF McpInv, HolderSound, Holds

\* A call ends, and the server is what it was, or on its way back.
LEMMA StepFinish ==
    ASSUME McpInv, NEW c \in McpCalls, NEW state \in {"success", "error", "unknown"},
           Holds(c), Finish(c, state), UNCHANGED <<connects, remote>>,
           state = "success" => remote.executed[c] > 0,
           server' = server \/ server' = DegradedAndScheduled(server)
    PROVE  McpInv'
<1>2. ReleaseServer /\ audit' = [audit EXCEPT ![c] = state]  BY DEF Finish
<1>4. /\ Keeps(server, server') /\ server'.state \in {server.state, "degraded"}
      /\ server.timer => server'.timer
 <2> QED BY ServerDegraded, McpParts
<1> QED BY <1>2, <1>4, CallHolds, TurnEnds, CallsFinish, McpParts

\* The answers, the errors and the limits of a call.
LEMMA StepEndCall ==
    ASSUME McpInv, NEW c \in McpCalls, AnswerCall(c) \/ RejectCall(c) \/ GiveUpCall(c)
    PROVE  McpInv'
<1>1. Holds(c) /\ UNCHANGED <<connects, remote>>  BY DEF AnswerCall, RejectCall, GiveUpCall
<1>2. CASE AnswerCall(c)
 <2>1. /\ holder.at = "call" /\ <<c, holder.try>> \notin remote.wire /\ server' = server
       /\ Finish(c, "success") \/ Finish(c, "error")
   BY <1>2 DEF AnswerCall
 <2>2. remote.executed[c] > 0
  <3>1. CallSound(c) /\ holder.try \in {1, 2} /\ remote.executed[c] \in Nat
    BY <2>1, McpTypes DEF McpInv, CallsInv, HolderSound
  <3>2. /\ remote.executed[c] + OnWire(c) = holder.try
        /\ \A t \in {1, 2} : <<c, t>> \in remote.wire => t <= holder.try
    BY <1>1, <3>1 DEF CallSound
  <3>3. CASE holder.try = 1
   <4> QED BY <3>1, <3>2, <3>3, <2>1 DEF OnWire
  <3>4. CASE holder.try = 2
   <4> QED BY <3>1, <3>2, <3>4, <2>1 DEF OnWire
  <3> QED BY <3>1, <3>3, <3>4
 <2> QED BY <1>1, <2>1, <2>2, StepFinish
<1>3. CASE RejectCall(c)
 <2> QED BY <1>1, StepFinish, <1>3 DEF RejectCall
<1>4. CASE GiveUpCall(c)
 <2> QED BY <1>1, StepFinish, <1>4 DEF GiveUpCall, LoseCall
<1> QED BY <1>2, <1>3, <1>4

\* A call goes out, or finds no server to go to.
LEMMA StepSendCall ==
    ASSUME McpInv, NEW c \in McpCalls, SendCall(c)
    PROVE  McpInv'
<1>1. Holds(c) /\ holder.at \in {"line", "pause"} /\ connects' = connects  BY DEF SendCall
<1>2. CASE LoseCall(c) /\ UNCHANGED remote
 <2> QED BY <1>1, <1>2, StepFinish DEF LoseCall
<1>3. CASE /\ holder' = [at |-> "call", client |-> server.client, try |-> holder.try + 1]
           /\ remote' = [remote EXCEPT !.wire = @ \cup {<<c, holder.try + 1>>}]
           /\ UNCHANGED <<server, line, audit>>
 <2>1. CallsInv' /\ holder'.try \in {1, 2} /\ (holder'.try = 2 => c \in ReadOnly)
   BY <1>1, <1>3, CallsGoOut
 <2>2. /\ holder'.try = holder.try + 1 /\ holder'.at = "call" /\ holder'.client = server.client
       /\ holder' = [at |-> holder'.at, client |-> holder'.client, try |-> holder'.try]
   BY <1>3
 <2>4. /\ remote' \in Remote /\ remote'.open = remote.open /\ remote'.notices = remote.notices
       /\ remote'.catalogue = remote.catalogue
  <3> DEFINE w == <<c, holder.try + 1>>
  <3>1. w \in McpCalls \X {1, 2}  BY <2>1, <2>2
  <3>2. remote' = [remote EXCEPT !.wire = @ \cup {w}]  BY <1>3
  <3> HIDE DEF w
  <3> QED BY <3>1, <3>2, McpParts DEF Remote
 <2>5. /\ line # <<>> /\ Head(line) = c /\ c # "reconnect" /\ holder.at # "connect"
   BY <1>1, CallHolds
 <2>7. ConnectionsInv'
   BY <1>1, <1>3, <2>2, <2>4, <2>5, McpParts, ConnectionsQuiet DEF ManagerSound
 <2>9. McpTypeOK'
  <3>1. holder' \in [at: {"line", "connect", "list", "call", "pause"}, client: Generations,
                     try: 0..2]
   <4> QED BY <1>3, <2>1, <2>2, McpParts DEF ManagedServer
  <3> QED BY <1>1, <1>3, <2>4, <3>1, McpParts DEF McpTypeOK, Task
 <2> QED BY <2>1, <2>7, <2>9, <1>3, <2>2, <2>5 DEF McpInv, HolderSound, Holds
<1> QED BY <1>2, <1>3 DEF SendCall

\* A call of a tool that only reads waits to go out again.
LEMMA StepRetryCall ==
    ASSUME McpInv, NEW c \in McpCalls, RetryCall(c)
    PROVE  McpInv'
<1>1. /\ Holds(c) /\ holder.at = "call" /\ holder.try = 1 /\ c \in ReadOnly
      /\ UNCHANGED <<server, connects, line, audit, remote>>
      /\ holder' = [holder EXCEPT !.at = "pause"]
  BY DEF RetryCall
<1>2. /\ holder'.at = "pause" /\ holder'.try = 1
      /\ holder' \in [at: {"line", "connect", "list", "call", "pause"}, client: Generations,
                      try: 0..2]
  BY <1>1, McpParts DEF McpTypeOK
<1>4. line # <<>> /\ Head(line) = c  BY <1>1 DEF Holds
<1>6. ConnectionsInv'  BY <1>1, <1>2, McpParts, ConnectionsQuiet, <1>4 DEF ManagerSound
<1>9. McpTypeOK'  BY <1>1, <1>2, McpParts DEF McpTypeOK, Task
<1> QED
  BY <1>6, <1>9, <1>1, <1>2, <1>4, McpParts, CallsStay DEF McpInv, HolderSound,
    CallsInv, Holds

\* The server executes what has reached it.
LEMMA StepExecute ==
    ASSUME McpInv, NEW w \in remote.wire, ExecuteCall(w)
    PROVE  McpInv'
<1>1. UNCHANGED <<server, connects, line, holder, audit>>  BY DEF ExecuteCall
<1>2. /\ CallsInv' /\ remote' \in Remote
      /\ UNCHANGED <<remote.open, remote.notices, remote.catalogue>>
  BY CallsExecute
<1>3. Keeps(server, server')  BY <1>1, McpParts
<1>4. ConnectionsInv'
 <2> QED BY <1>1, <1>2, <1>3, McpParts, ConnectionsQuiet DEF ManagerSound
<1>5. HolderSound'
 <2> QED BY <1>1, <1>3, McpParts, HolderQuiet DEF HolderSound
<1> QED BY <1>2, <1>4, <1>5, <1>1, McpParts DEF McpInv, McpTypeOK, Task

\* The tool list is read again.
LEMMA StepBeginRefresh ==
    ASSUME McpInv, BeginRefresh \/ FailRefresh
    PROVE  McpInv'
<1>1. /\ line # <<>> /\ Head(line) = "refresh" /\ holder.at \in {"line", "list"}
      /\ UNCHANGED <<connects, audit, remote>>
  BY McpParts DEF BeginRefresh, FailRefresh, HolderSound, Holds
<1>2. CASE ReleaseServer /\ server' = Degraded(server)
 <2> QED BY <1>1, <1>2, McpParts, TurnEnds, McpConstants, CallsGoOn, ServerDegraded
<1>3. CASE /\ holder.at = "line" /\ server.client # 0
           /\ holder' = [holder EXCEPT !.at = "list", !.client = server.client]
           /\ UNCHANGED <<server, line>>
 <2>2. /\ holder'.at = "list" /\ holder'.client = server.client
       /\ holder' \in [at: {"line", "connect", "list", "call", "pause"}, client: Generations,
                       try: 0..2]
   BY <1>3, McpParts DEF McpTypeOK, ManagedServer
 <2>5. ConnectionsInv'  BY <1>1, <1>3, <2>2, McpParts, ConnectionsQuiet DEF ManagerSound
 <2>6. HolderSound'
  <3> QED BY <1>1, <1>3, <2>2, McpParts DEF HolderSound, Holds, Connecting, ConnectSound
 <2>7. CallsInv'
  <3> QED BY <1>1, <1>3, McpParts, CallsStay, McpConstants DEF CallsInv, Holds
 <2> QED BY <2>5, <2>6, <2>7, <1>1, <1>3, <2>2, McpParts DEF McpInv, McpTypeOK, Task
<1> QED BY <1>1, <1>2, <1>3 DEF BeginRefresh, FailRefresh

\* What the server answers is published, unless its client is gone.
LEMMA StepFinishRefresh ==
    ASSUME McpInv, FinishRefresh
    PROVE  McpInv'
<1>1. /\ holder.at = "list" /\ ReleaseServer /\ UNCHANGED <<connects, audit, remote>>
      /\ line' = Tail(line) /\ holder' = Waiting
  BY DEF FinishRefresh, ReleaseServer
<1>2. /\ line # <<>> /\ Head(line) = "refresh" /\ server.client \in {0, holder.client}
      /\ holder.client # 0
  BY <1>1, McpParts DEF HolderSound, Holds
<1>3. /\ line' \in Seq(Task) /\ ToSet(line) = ToSet(line') \cup {Head(line)}
  BY <1>1, <1>2, McpParts, LineReleased
<1>5. CallsInv'  BY <1>1, <1>2, McpConstants, CallsGoOn
<1>8. ~Stopping /\ server.client = holder.client =>
          server' = [server EXCEPT !.state = "ready", !.tools = remote.catalogue,
                                   !.listedBy = holder.client]
  BY DEF FinishRefresh
<1>9. holder.client \in Generations /\ remote.catalogue \in 0..CatalogueBound
  BY McpTypes, McpParts DEF Remote
<1>10. /\ server' \in ManagedServer
       /\ UNCHANGED <<server.client, server.generation, server.closing, server.manager,
                      server.timer>>
  BY <1>9, McpParts DEF ManagedServer, FinishRefresh
<1>11. McpTypeOK'
  BY <1>1, <1>3, <1>10, McpParts, McpConstants DEF McpTypeOK, Task, Waiting, Generations
<1>12. ASSUME NEW p \in {"start", "timer"} PROVE ConnectSound(p)'
  BY <1>1, <1>10, McpParts DEF ConnectSound, Connecting, Superseded, Stopping
<1>13. ManagerSound'
  BY <1>1, <1>10, McpParts, <1>2 DEF ManagerSound, Connecting, Stopping,
    Waiting
<1>15. ReadyOffersItsOwn' /\ NewsArrive'
 <2>3. CASE server' = server
   BY <1>1, <2>3, <1>2, <1>8, <1>9, McpParts DEF ReadyOffersItsOwn, NewsArrive,
     Stopping, ManagedServer, McpInv, ConnectionsInv
 <2>4. CASE server' # server
  <3> QED
    BY <1>1, <1>2, <1>8, <1>9, <1>10, McpParts, <2>4 DEF ReadyOffersItsOwn,
      NewsArrive, ManagedServer, FinishRefresh
 <2> QED BY <2>3, <2>4
<1>16. OnItsWay'
 <2>1. OnItsWay  BY DEF McpInv, ConnectionsInv
 <2> QED BY <1>1, <1>2, <1>3, <1>10, <2>1 DEF OnItsWay, Connecting
<1> QED
  BY <1>5, <1>11, <1>12, <1>13, <1>15, <1>16, <1>1, <1>10, HolderFreed DEF
    McpInv, ConnectionsInv, NoOrphans, Stopping

\* An error of a client.
LEMMA StepError ==
    ASSUME McpInv, NEW k, OnError(k)
    PROVE  McpInv'
<1>1. server' = Degraded(server) /\ UNCHANGED <<connects, line, holder, audit, remote>>
  BY DEF OnError
<1>2. Keeps(server, server') /\ server'.state = "degraded" /\ server'.timer = server.timer
  BY <1>1, McpParts, ServerDegraded
<1>3. ConnectionsInv'
 <2> QED BY <1>1, <1>2, McpParts, ConnectionsQuiet DEF ManagerSound
<1>4. HolderSound'
 <2> QED BY <1>1, <1>2, McpParts, HolderQuiet DEF HolderSound
<1>5. CallsInv'  BY <1>1, CallsAside
<1>6. McpTypeOK'  BY <1>1, <1>2, McpParts DEF McpTypeOK, Task, Keeps
<1> QED BY <1>3, <1>4, <1>5, <1>6 DEF McpInv

\* Which connects there are after a step that touches one.
LEMMA OtherConnect ==
    ASSUME McpTypeOK, NEW p \in {"start", "timer"}, NEW row \in Connect,
           connects' = [connects EXCEPT ![p] = row]
    PROVE  /\ connects' \in [{"start", "timer"} -> Connect] /\ connects'[p] = row
           /\ \A q \in {"start", "timer"} \ {p} : connects'[q] = connects[q]
           /\ DOMAIN connects' = {"start", "timer"} /\ DOMAIN connects = {"start", "timer"}
BY McpTypes

\* A connect begins: it supersedes the others, and takes over the old client.
LEMMA ConnectBegins ==
    ASSUME McpInv, NEW p \in {"start", "timer"}, BeginConnect(p),
           UNCHANGED <<line, audit, remote>>,
           p = "start" => holder' = holder /\ server.manager = "new",
           p = "timer" => /\ Holds("reconnect") /\ holder.at = "line"
                          /\ holder' = [holder EXCEPT !.at = "connect"]
    PROVE  McpInv'
<1> DEFINE row == [at |-> IF server.client = 0 THEN "opening" ELSE "replacing",
                   generation |-> server.generation + 1, old |-> server.client,
                   failed |-> FALSE]
<1>1. /\ connects[p].at = "idle" /\ server.generation + 2 <= GenerationBound /\ ~Stopping
      /\ connects' = [connects EXCEPT ![p] = row]
      /\ server' = [server EXCEPT !.state = "starting", !.client = 0, !.generation = @ + 1,
                                  !.manager = "started"]
  BY DEF BeginConnect, MayConnect
<1>2. /\ server.generation \in Nat /\ server.client \in Nat /\ server.generation + 1 \in Generations
      /\ server.client \in Generations /\ server.client <= server.generation
      /\ server.generation + 1 < GenerationBound
      /\ server.client # 0 => server.client \in remote.open
      /\ server.closing = 0 /\ 0 \notin remote.open
 <2>3. /\ server.client # 0 => server.client = server.generation
                              /\ server.client \in remote.open
       /\ server.closing = 0 /\ 0 \notin remote.open
   BY <1>1, McpParts DEF ManagerSound
 <2> QED BY <2>3, <1>1, McpTypes, McpParts, McpConstants DEF Generations, ManagedServer
<1>3. /\ row \in Connect /\ row.generation = server.generation + 1 /\ row.old = server.client
      /\ row.at \in {"opening", "replacing"} /\ row.failed = FALSE
      /\ row.at # "replacing" => server.client = 0
  BY <1>2 DEF Connect
<1> HIDE DEF row
<1>4. /\ connects' \in [{"start", "timer"} -> Connect] /\ connects'[p] = row
      /\ \A q \in {"start", "timer"} \ {p} : connects'[q] = connects[q]
      /\ DOMAIN connects' = {"start", "timer"} /\ DOMAIN connects = {"start", "timer"}
  BY <1>1, <1>3, McpParts, OtherConnect
<1>5. /\ server' \in ManagedServer /\ server'.state = "starting" /\ server'.client = 0
      /\ server'.generation = server.generation + 1 /\ server'.manager = "started"
      /\ server'.closing = server.closing
  BY <1>1, <1>2 , McpParts DEF ManagedServer, Generations
<1>6. server.manager \in {"new", "started"}  BY <1>1, McpParts DEF ManagedServer, Stopping
<1>7. ASSUME NEW q \in {"start", "timer"} PROVE ConnectSound(q)'
 <2>1. ~Stopping'  BY <1>5 DEF Stopping
 <2>2. CASE q = p  BY <1>2, <1>3, <1>4, <1>5, <2>2 DEF ConnectSound, Connecting
 <2>3. CASE q # p
  <3> QED BY <1>5, <1>2, <1>4, <2>3, McpParts DEF ConnectSound, Connecting, Superseded
 <2> QED BY <2>2, <2>3
<1>8. /\ Connecting("timer")' <=> holder'.at = "connect"
      /\ holder' \in [at: {"line", "connect", "list", "call", "pause"}, client: Generations,
                      try: 0..2]
      /\ Connecting("timer")' => connects'["timer"].generation = server'.generation
 <2>1. CASE p = "start"  BY <1>4, <2>1, McpParts DEF ManagerSound, Connecting, McpTypeOK
 <2>2. CASE p = "timer"
  <3> QED BY <1>3, <1>4, <1>5, <2>2, McpParts DEF Connecting, McpTypeOK
 <2> QED BY <2>1, <2>2
<1>9. ManagerSound'
 <2>1. Connecting("start")' /\ Connecting("timer")' =>
           connects'["start"].generation # connects'["timer"].generation
  <3> SUFFICES ASSUME NEW q \in {"start", "timer"} \ {p}, Connecting(q)'
               PROVE  connects'[q].generation # connects'[p].generation
    BY DEF Connecting
  <3> QED BY <1>2, <1>3, <1>4, McpParts DEF ConnectSound, Connecting
 <2> QED BY <1>2, <1>5, <1>8, <2>1 DEF ManagerSound, Stopping
<1>10. NoOrphans'
 <2> SUFFICES ASSUME NEW k \in remote.open
              PROVE  \E q \in {"start", "timer"} :
                         k \in {connects'[q].generation, connects'[q].old}
   BY <1>4 DEF NoOrphans
 <2>1. CASE k = server.client  BY <1>3, <1>4, <2>1
 <2>2. CASE k # server.client
  <3>1. PICK q \in {"start", "timer"} : k \in {connects[q].generation, connects[q].old}
    BY <1>2, <1>4, <2>2 DEF McpInv, ConnectionsInv, NoOrphans
  <3>2. q # p  BY <1>1, <1>2, <3>1, McpParts DEF ConnectSound, Connecting
  <3> QED BY <1>4, <3>1, <3>2
 <2> QED BY <2>1, <2>2
<1>12. OnItsWay'
 <2>1. CASE p = "start"  BY <1>3, <1>4, <1>5, <2>1 DEF OnItsWay, Connecting
 <2>2. CASE p = "timer"
  <3> QED BY <2>2, McpParts, LineReleased DEF OnItsWay, Holds
 <2> QED BY <2>1, <2>2
<1>13. HolderSound'
 <2>1. CASE p = "start"
  <3> QED BY McpParts, <2>1 DEF HolderSound, ManagerSound
 <2>2. CASE p = "timer"  BY <2>2, McpParts DEF HolderSound, Holds, McpTypeOK
 <2> QED BY <2>1, <2>2
<1>14. CallsInv'
 <2>1. \A c \in McpCalls : Holds(c) => holder'.try = holder.try
  <3>1. CASE p = "start"  BY <3>1
  <3>2. CASE p = "timer"  BY <3>2, McpConstants DEF Holds
  <3> QED BY <3>1, <3>2
 <2> QED BY <2>1, McpParts, CallsStay DEF CallsInv, Holds
<1>15. McpTypeOK'  BY <1>4, <1>5, <1>8, McpParts DEF McpTypeOK, Task
<1> QED
  BY <1>7, <1>9, <1>10, <1>12, <1>13, <1>14, <1>15, <1>5 DEF McpInv,
    ConnectionsInv, ReadyOffersItsOwn, NewsArrive

\* start(), and the reconnect whose turn it is.
LEMMA StepConnect ==
    ASSUME McpInv, StartMcp \/ BeginReconnect
    PROVE  McpInv'
<1>1. CASE StartMcp  BY <1>1, ConnectBegins DEF StartMcp
<1>2. CASE BeginReconnect
 <2>1. Holds("reconnect") /\ holder.at = "line" /\ UNCHANGED <<audit, remote>>
   BY <1>2 DEF BeginReconnect
 <2>2. CASE Stopping
  <3>2. line # <<>> /\ Head(line) = "reconnect"  BY <2>1 DEF Holds
  <3> QED
    BY <2>1, <2>2, <3>2, McpParts, TurnEnds, McpConstants, CallsGoOn, <1>2 DEF
      BeginReconnect
 <2>3. CASE ~Stopping
  <3> QED BY <2>1, ConnectBegins, <1>2, <2>3 DEF BeginReconnect
 <2> QED BY <2>2, <2>3
<1> QED BY <1>1, <1>2

\* A step that leaves the line, its holder and the calls alone.
LEMMA StepAside ==
    ASSUME McpInv, UNCHANGED <<line, holder, audit>>,
           remote'.wire = remote.wire, remote'.executed = remote.executed,
           server' \in ManagedServer, remote' \in Remote,
           connects' \in [{"start", "timer"} -> Connect], ConnectionsInv',
           holder.at = "list" =>
               /\ server'.client \in {0, server.client}
               /\ \A p \in {"start", "timer"} :
                      connects'[p].at # "idle" => connects'[p].generation # server'.generation
    PROVE  McpInv'
<1>1. CallsInv'  BY CallsAside
<1>2. HolderSound'
 <2> QED BY McpParts, HolderKept DEF HolderSound
<1>3. McpTypeOK'  BY McpParts DEF McpTypeOK, Task
<1> QED BY <1>1, <1>2, <1>3 DEF McpInv

\* A connect goes on: it opens a transport, or fails, or is not wanted any more.
LEMMA ConnectGoesOn ==
    ASSUME McpInv, NEW p \in {"start", "timer"}, NEW row \in Connect,
           connects[p].at \in {"opening", "listing"},
           connects' = [connects EXCEPT ![p] = row], UNCHANGED <<line, holder, audit>>,
           row.at \in {"listing", "discarding"},
           row.generation = connects[p].generation, row.old = connects[p].old,
           row.at = "discarding" => row.failed \/ Superseded(p),
           remote' \in Remote, remote.open \subseteq remote'.open,
           remote'.open \subseteq remote.open \cup {connects[p].generation},
           UNCHANGED <<remote.notices, remote.catalogue, remote.wire, remote.executed>>,
           Keeps(server, server'), server'.timer = server.timer,
           server'.state \in {server.state, "degraded"}
    PROVE  McpInv'
<1>1. /\ connects' \in [{"start", "timer"} -> Connect] /\ connects'[p] = row
      /\ \A q \in {"start", "timer"} \ {p} : connects'[q] = connects[q]
      /\ DOMAIN connects' = {"start", "timer"} /\ DOMAIN connects = {"start", "timer"}
  BY McpParts, OtherConnect
<1>2. UNCHANGED <<server.client, server.generation, server.closing, server.tools,
                  server.listedBy, server.manager>> /\ server' \in ManagedServer
  BY DEF Keeps
<1>3. \A q \in {"start", "timer"} :
          /\ Connecting(q)' <=> Connecting(q)
          /\ connects'[q].generation = connects[q].generation
          /\ connects'[q].old = connects[q].old
  BY <1>1 DEF Connecting
<1>5. ASSUME NEW q \in {"start", "timer"} PROVE ConnectSound(q)'
 <2>1. ConnectSound(q) /\ (Superseded(q)' <=> Superseded(q))
   BY <1>2, <1>3, McpParts DEF Superseded, Stopping
 <2>2. CASE q = p  BY <1>1, <1>2, <1>3, <2>1, <2>2 DEF ConnectSound
 <2>3. CASE q # p
  <3> QED BY <1>2, <1>3, <2>1, <1>1, <2>3 DEF ConnectSound
 <2> QED BY <2>2, <2>3
<1>7. NoOrphans'
 <2> QED BY <1>1, <1>2, <1>3 DEF NoOrphans, Stopping, McpInv, ConnectionsInv
<1>9. ConnectionsInv'
  BY <1>5, <1>7, <1>2, <1>3, McpParts DEF ConnectionsInv, McpInv,
    ReadyOffersItsOwn, NewsArrive, OnItsWay, ManagerSound, Stopping,
    ConnectSound, Connecting
<1> QED BY <1>1, <1>2, <1>9, StepAside, <1>3, McpParts DEF HolderSound, Connecting

\* The steps of a connect up to its end.
LEMMA StepConnecting ==
    ASSUME McpInv, NEW p \in {"start", "timer"},
           OpenTransport(p) \/ AbandonConnect(p) \/ FailConnect(p)
    PROVE  McpInv'
<1>1. connects[p] \in Connect /\ connects[p].at \in {"opening", "listing"}
  BY McpParts DEF OpenTransport, AbandonConnect, FailConnect
<1>2. UNCHANGED <<line, holder, audit>>  BY DEF OpenTransport, AbandonConnect, FailConnect
<1>3. CASE OpenTransport(p)
 <2> DEFINE row == [connects[p] EXCEPT !.at = "listing"]
 <2>1. /\ row \in Connect /\ row.at = "listing" /\ row.generation = connects[p].generation
       /\ row.old = connects[p].old
   BY <1>1 DEF Connect
 <2>2. /\ connects' = [connects EXCEPT ![p] = row] /\ server' = server
       /\ remote' = [remote EXCEPT !.open = @ \cup {connects[p].generation}]
   BY <1>3 DEF OpenTransport
 <2> HIDE DEF row
 <2> QED BY <1>1, <1>2, <2>1, <2>2, McpParts, ConnectGoesOn DEF Remote, Connect
<1>4. CASE AbandonConnect(p)
 <2> DEFINE row == [connects[p] EXCEPT !.at = "discarding"]
 <2>1. /\ row \in Connect /\ row.at = "discarding" /\ row.generation = connects[p].generation
       /\ row.old = connects[p].old
   BY <1>1 DEF Connect
 <2>2. connects' = [connects EXCEPT ![p] = row] /\ UNCHANGED <<server, remote>> /\ Superseded(p)
   BY <1>4 DEF AbandonConnect
 <2> HIDE DEF row
 <2> QED BY <1>1, <1>2, <2>1, <2>2, McpParts, ConnectGoesOn
<1>5. CASE FailConnect(p)
 <2> DEFINE row == [connects[p] EXCEPT !.at = "discarding", !.failed = TRUE]
 <2>1. /\ row \in Connect /\ row.at = "discarding" /\ row.generation = connects[p].generation
       /\ row.old = connects[p].old /\ row.failed
   BY <1>1 DEF Connect
 <2>2. connects' = [connects EXCEPT ![p] = row] /\ UNCHANGED remote  BY <1>5 DEF FailConnect
 <2>4. /\ Keeps(server, server') /\ server'.timer = server.timer
       /\ server'.state \in {server.state, "degraded"}
   BY McpParts, ServerDegraded, <1>5 DEF FailConnect
 <2> HIDE DEF row
 <2> QED BY <1>1, <1>2, <2>1, <2>2, <2>4, McpParts, ConnectGoesOn
<1> QED BY <1>3, <1>4, <1>5

\* The old client of a connect is closed.
LEMMA StepCloseOld ==
    ASSUME McpInv, NEW p \in {"start", "timer"}, CloseOld(p)
    PROVE  McpInv'
<1> DEFINE row == [connects[p] EXCEPT !.at = "opening", !.old = 0]
           old == connects[p].old
<1>1. connects[p] \in Connect /\ connects[p].at = "replacing"  BY McpParts DEF CloseOld
<1>2. /\ row \in Connect /\ row.at = "opening" /\ row.generation = connects[p].generation
      /\ row.old = 0
 <2>1. 0 \in Generations  BY McpConstants DEF Generations
 <2> QED BY <1>1, <2>1 DEF Connect
<1>3. /\ connects' = [connects EXCEPT ![p] = row] /\ UNCHANGED <<server, line, holder, audit>>
      /\ remote' = Disconnected(old)
  BY DEF CloseOld
<1>4. old = connects[p].old  OBVIOUS
<1> HIDE DEF row, old
<1>5. /\ remote' \in Remote
      /\ remote'.open = remote.open \ {old} /\ remote'.notices = remote.notices \ {old}
      /\ remote'.catalogue = remote.catalogue
      /\ remote'.wire = remote.wire /\ remote'.executed = remote.executed
  BY <1>3, McpParts, RemoteDisconnected
<1>6. /\ connects' \in [{"start", "timer"} -> Connect] /\ connects'[p] = row
      /\ \A q \in {"start", "timer"} \ {p} : connects'[q] = connects[q]
      /\ DOMAIN connects' = {"start", "timer"} /\ DOMAIN connects = {"start", "timer"}
  BY <1>2, <1>3, McpParts, OtherConnect
<1>7. \A q \in {"start", "timer"} :
          /\ Connecting(q)' <=> Connecting(q)
          /\ connects'[q].generation = connects[q].generation
          /\ connects'[q].at = "discarding" => connects'[q] = connects[q]
  BY <1>1, <1>2, <1>6 DEF Connecting
<1>8. Connecting(p) /\ (server.client # 0 => server.client # old)
 <2> QED BY <1>4, <1>1, McpParts, McpTypes DEF ConnectSound, ManagerSound, Connecting
<1>9. ASSUME NEW q \in {"start", "timer"} PROVE ConnectSound(q)'
 <2>1. ConnectSound(q) /\ (Superseded(q)' <=> Superseded(q))
   BY <1>3, <1>7, McpParts DEF Superseded, Stopping
 <2>2. CASE q = p
  <3> QED
    BY <1>1, <1>2, <1>3, <1>6, <1>8, <2>1, <2>2, McpTypes, McpParts DEF
      ConnectSound, Connecting
 <2>3. CASE q # p
  <3> QED BY <1>3, <2>1, <1>6, <2>3 DEF ConnectSound, Connecting
 <2> QED BY <2>2, <2>3
<1>11. NoOrphans'
 <2> SUFFICES ASSUME NEW k \in remote.open \ {old}
              PROVE  \/ k = server.client /\ ~Stopping
                     \/ k = server.closing
                     \/ \E q \in {"start", "timer"} :
                            k \in {connects'[q].generation, connects'[q].old}
   BY <1>3, <1>5, <1>6 DEF NoOrphans, Stopping
 <2>2. ASSUME NEW q \in {"start", "timer"}, k \in {connects[q].generation, connects[q].old}
       PROVE  k \in {connects'[q].generation, connects'[q].old}
  <3>1. CASE q = p  BY <1>4, <1>7, <2>2, <3>1
  <3>2. CASE q # p  BY <1>6, <2>2, <3>2
  <3> QED BY <3>1, <3>2
 <2> QED BY <1>6, <2>2 DEF NoOrphans, McpInv, ConnectionsInv
<1>13. ConnectionsInv'
  BY <1>9, <1>11, <1>3, <1>5, <1>7, <1>8, McpParts DEF ConnectionsInv, McpInv,
    ReadyOffersItsOwn, NewsArrive, OnItsWay, ManagerSound, Stopping
<1> QED BY <1>3, <1>5, <1>6, <1>13, McpParts, StepAside, <1>7 DEF HolderSound, Connecting

\* A connect has ended: whoever awaited it goes on.
LEMMA ConnectEnds ==
    ASSUME McpInv, NEW p \in {"start", "timer"}, Connecting(p), EndConnect(p)
    PROVE  /\ connects' \in [{"start", "timer"} -> Connect] /\ connects'[p] = NoConnect
           /\ \A q \in {"start", "timer"} \ {p} : connects'[q] = connects[q]
           /\ DOMAIN connects' = {"start", "timer"} /\ DOMAIN connects = {"start", "timer"}
           /\ line' \in Seq(Task) /\ server.manager # "new"
           /\ "refresh" \in ToSet(line) => "refresh" \in ToSet(line')
           /\ p = "start" => line' = line /\ holder' = holder
           /\ p = "timer" => line' = Tail(line) /\ holder' = Waiting /\ holder.at = "connect"
                             /\ line # <<>> /\ Head(line) = "reconnect"
<1>1. NoConnect \in Connect  BY McpConstants DEF NoConnect, Connect, Generations
<1>2. connects' = [connects EXCEPT ![p] = NoConnect]  BY DEF EndConnect
<1>3. server.manager # "new"  BY McpParts DEF ManagerSound
<1>4. CASE p = "start"  BY <1>1, <1>2, <1>3, <1>4, McpParts, OtherConnect DEF EndConnect
<1>5. CASE p = "timer"
 <2>1. holder.at = "connect"  BY <1>5, McpParts DEF ManagerSound
 <2>2. line # <<>> /\ Head(line) = "reconnect"  BY <2>1, McpParts DEF HolderSound, Holds
 <2>3. line' = Tail(line) /\ holder' = Waiting  BY <1>5 DEF EndConnect, ReleaseServer
 <2>4. line' \in Seq(Task) /\ ToSet(line) = ToSet(line') \cup {"reconnect"}
   BY <2>2, <2>3, McpParts, LineReleased
 <2> QED BY <1>1, <1>2, <1>3, <1>5, <2>1, <2>2, <2>3, <2>4, McpParts, OtherConnect
<1> QED BY <1>4, <1>5

\* The rest of the invariant at the end of a connect.
LEMMA ConnectEnded ==
    ASSUME McpInv, NEW p \in {"start", "timer"}, Connecting(p), EndConnect(p), audit' = audit,
           remote'.wire = remote.wire, remote'.executed = remote.executed,
           server' \in ManagedServer, remote' \in Remote, ConnectionsInv',
           holder.at = "list" =>
               /\ server'.client \in {0, server.client}
               /\ \A q \in {"start", "timer"} :
                      connects'[q].at # "idle" => connects'[q].generation # server'.generation
    PROVE  McpInv'
<1>1. /\ connects' \in [{"start", "timer"} -> Connect]
      /\ line' \in Seq(Task)
      /\ p = "start" => line' = line /\ holder' = holder
      /\ p = "timer" => line' = Tail(line) /\ holder' = Waiting
                        /\ line # <<>> /\ Head(line) = "reconnect"
  BY ConnectEnds
<1>2. CASE p = "start"  BY <1>1, <1>2, StepAside
<1>3. CASE p = "timer"
 <2>2. CallsInv'  BY <1>1, <1>3, McpConstants, CallsGoOn DEF ReleaseServer
 <2>3. HolderSound'  BY <1>1, <1>3, HolderFreed
 <2>4. McpTypeOK'
   BY <1>1, <1>3, McpParts, McpConstants DEF McpTypeOK, Task, Waiting, Generations
 <2> QED BY <2>2, <2>3, <2>4 DEF McpInv
<1> QED BY <1>2, <1>3

\* The connection is the one of the server from now on.
LEMMA StepPublish ==
    ASSUME McpInv, NEW p \in {"start", "timer"}, PublishTools(p)
    PROVE  McpInv'
<1> DEFINE g == connects[p].generation
<1>1. /\ connects[p].at = "listing" /\ Connecting(p) /\ g \in remote.open /\ ~Stopping
      /\ g = server.generation /\ UNCHANGED <<audit, remote>> /\ EndConnect(p)
      /\ server' = [server EXCEPT !.state = "ready", !.client = g, !.tools = remote.catalogue,
                                  !.listedBy = g]
  BY DEF PublishTools, Superseded, Connecting
<1>2. /\ g \in Generations /\ remote.catalogue \in 0..CatalogueBound /\ g # 0
      /\ connects[p].old = 0 /\ server.client = 0
  BY <1>1, McpTypes, McpParts DEF Remote, Connect, ConnectSound
<1> HIDE DEF g
<1>3. /\ server' \in ManagedServer /\ server'.state = "ready" /\ server'.client = g
      /\ server'.tools = remote.catalogue /\ server'.listedBy = g
      /\ UNCHANGED <<server.generation, server.closing, server.manager, server.timer>>
  BY <1>1, <1>2, McpParts DEF ManagedServer
<1>4. /\ connects'[p] = NoConnect /\ DOMAIN connects' = {"start", "timer"}
      /\ DOMAIN connects = {"start", "timer"} /\ server.manager # "new"
      /\ \A q \in {"start", "timer"} \ {p} : connects'[q] = connects[q]
      /\ "refresh" \in ToSet(line) => "refresh" \in ToSet(line')
      /\ p = "start" => holder' = holder
      /\ p = "timer" => holder' = Waiting
  BY <1>1, ConnectEnds
<1>6. ASSUME NEW q \in {"start", "timer"} PROVE ConnectSound(q)'
 <2>1. CASE q = p  BY <1>4, <2>1 DEF ConnectSound, Connecting, NoConnect
 <2>2. CASE q # p
  <3> QED
    BY <1>3, <1>4, <2>2, McpParts, <1>1 DEF ConnectSound, Connecting,
      Superseded, Stopping, ManagerSound, g
 <2> QED BY <2>1, <2>2
<1>7. ManagerSound'
 <2>1. Connecting("timer")' <=> holder'.at = "connect"
  <3>1. CASE p = "start"  BY <1>4, <3>1, McpParts DEF ManagerSound, Connecting
  <3>2. CASE p = "timer"  BY <1>4, <3>2 DEF Connecting, NoConnect, Waiting
  <3> QED BY <3>1, <3>2
 <2> QED BY <1>1, <1>3, <1>4, <2>1, McpParts DEF ManagerSound, Stopping, Connecting, NoConnect
<1>8. NoOrphans'
 <2> SUFFICES ASSUME NEW k \in remote.open
              PROVE  k = g \/ k = server.closing
                     \/ \E q \in {"start", "timer"} :
                            k \in {connects'[q].generation, connects'[q].old}
   BY <1>1, <1>3, <1>4 DEF NoOrphans, Stopping
 <2>1. k # 0 /\ NoOrphans  BY McpParts DEF ManagerSound, McpInv, ConnectionsInv
 <2>3. ASSUME NEW q \in {"start", "timer"}, k \in {connects[q].generation, connects[q].old}
       PROVE  k = g \/ k \in {connects'[q].generation, connects'[q].old}
  <3>1. CASE q = p  BY <1>2, <2>1, <2>3, <3>1 DEF g
  <3>2. CASE q # p  BY <1>4, <2>3, <3>2
  <3> QED BY <3>1, <3>2
 <2> QED BY <2>3, <1>2, <1>4, <2>1 DEF NoOrphans
<1> QED
  BY <1>1, <1>3, McpParts, ConnectEnded, <1>6, <1>7, <1>8, <1>2 DEF
    HolderSound, g, ConnectionsInv, ReadyOffersItsOwn, NewsArrive, OnItsWay

\* stop() takes the client with it, and supersedes what is connecting.
LEMMA ConnectionsStop ==
    ASSUME McpInv, server.manager = "started",
           server'.manager = "stopping", server'.client = 0, server'.closing = server.client,
           server'.generation = server.generation + 1,
           remote'.open \subseteq remote.open, DOMAIN connects' = {"start", "timer"},
           \A q \in {"start", "timer"} :
               \/ connects'[q] = connects[q]
               \/ /\ connects'[q] = NoConnect
                  /\ connects[q].generation \notin remote'.open
                  /\ connects[q].old \notin remote'.open,
           ~Connecting("start")',
           Connecting("timer")' <=> holder'.at = "connect"
    PROVE  ConnectionsInv'
<1>1. Stopping' /\ ~Stopping  BY DEF Stopping
<1>2. server.generation \in Nat /\ server.closing = 0 /\ 0 \notin remote.open
      /\ DOMAIN connects = {"start", "timer"}
  BY <1>1, McpTypes, McpParts DEF ManagerSound
<1>3. ASSUME NEW q \in {"start", "timer"} PROVE ConnectSound(q)'
 <2>1. CASE connects'[q] = connects[q]
  <3> QED BY <1>1, <2>1, <1>2, McpParts DEF ConnectSound, Connecting, Superseded
 <2>2. CASE connects'[q] = NoConnect  BY <2>2 DEF ConnectSound, Connecting, NoConnect
 <2> QED BY <2>1, <2>2
<1>5. NoOrphans'
 <2> SUFFICES ASSUME NEW k \in remote'.open
              PROVE  k = server.client \/ \E q \in {"start", "timer"} :
                                              k \in {connects'[q].generation, connects'[q].old}
   BY DEF NoOrphans
 <2> QED BY <1>2 DEF NoOrphans, McpInv, ConnectionsInv
<1> QED
  BY <1>3, <1>5, <1>1, <1>2 DEF ConnectionsInv, ManagerSound,
    ReadyOffersItsOwn, NewsArrive, OnItsWay

\* A connection that was not published is closed, and the server goes on.
LEMMA ConnectionsDiscard ==
    ASSUME McpInv, NEW p \in {"start", "timer"}, connects[p].at = "discarding", EndConnect(p),
           remote' = Disconnected(connects[p].generation), Keeps(server, server'),
           server.timer => server'.timer, server'.state \in {server.state, "degraded"},
           connects[p].failed /\ ~Stopping => server'.timer
    PROVE  ConnectionsInv'
<1> DEFINE g == connects[p].generation
<1>1. UNCHANGED <<server.client, server.generation, server.closing, server.tools,
                  server.listedBy, server.manager>> /\ server' \in ManagedServer
  BY DEF Keeps
<1>2. /\ remote'.open = remote.open \ {g} /\ remote'.notices = remote.notices \ {g}
      /\ remote'.catalogue = remote.catalogue
  BY McpParts, RemoteDisconnected
<1>3. Connecting(p) /\ g # 0 /\ connects[p].old = 0
      /\ (server.client # 0 => server.client # g)
 <2> QED BY McpParts DEF ConnectSound, ManagerSound, Connecting
<1> HIDE DEF g
<1>4. /\ connects'[p] = NoConnect /\ DOMAIN connects' = {"start", "timer"}
      /\ DOMAIN connects = {"start", "timer"} /\ server.manager # "new"
      /\ \A q \in {"start", "timer"} \ {p} : connects'[q] = connects[q]
      /\ "refresh" \in ToSet(line) => "refresh" \in ToSet(line')
      /\ p = "start" => line' = line /\ holder' = holder
      /\ p = "timer" => holder' = Waiting
  BY <1>3, ConnectEnds
<1>5. ASSUME NEW q \in {"start", "timer"} PROVE ConnectSound(q)'
 <2>1. CASE q = p  BY <1>4, <2>1 DEF ConnectSound, Connecting, NoConnect
 <2>2. CASE q # p
  <3> QED BY <1>1, <1>4, <2>2, McpParts DEF ConnectSound, Connecting, Superseded, Stopping
 <2> QED BY <2>1, <2>2
<1>6. ManagerSound'
 <2>1. Connecting("timer")' <=> holder'.at = "connect"
  <3>1. CASE p = "start"  BY <1>4, <3>1, McpParts DEF ManagerSound, Connecting
  <3>2. CASE p = "timer"  BY <1>4, <3>2 DEF Connecting, NoConnect, Waiting
  <3> QED BY <3>1, <3>2
 <2> QED
   BY <1>1, <1>2, <1>3, <1>4, <2>1, McpParts DEF ManagerSound, Stopping,
     Connecting, NoConnect
<1>7. NoOrphans'
 <2> SUFFICES ASSUME NEW k \in remote.open \ {g}
              PROVE  \/ k = server.client /\ ~Stopping
                     \/ k = server.closing
                     \/ \E q \in {"start", "timer"} :
                            k \in {connects'[q].generation, connects'[q].old}
   BY <1>1, <1>2, <1>4 DEF NoOrphans, Stopping
 <2>1. k # 0 /\ NoOrphans  BY McpParts DEF ManagerSound, McpInv, ConnectionsInv
 <2>2. ASSUME NEW q \in {"start", "timer"}, k \in {connects[q].generation, connects[q].old}
       PROVE  k \in {connects'[q].generation, connects'[q].old}
   BY <1>3, <1>4, <2>1, <2>2 DEF g
 <2> QED BY <1>4, <2>1, <2>2 DEF NoOrphans
<1>8. ReadyOffersItsOwn' /\ NewsArrive'
 <2> QED BY <1>1, <1>2, <1>3, <1>4 DEF ReadyOffersItsOwn, NewsArrive, McpInv, ConnectionsInv
<1>9. OnItsWay'
 <2> SUFFICES ASSUME server.manager = "started", server.client = 0, ~server'.timer
              PROVE  \/ "reconnect" \in ToSet(line')
                     \/ Connecting("start")'
                        /\ connects'["start"].generation = server.generation
   BY <1>1 DEF OnItsWay
 <2>1. ~Stopping /\ ~connects[p].failed  BY DEF Stopping
 <2>5. OnItsWay  BY DEF McpInv, ConnectionsInv
 <2> QED
   BY <1>4, <2>5, <1>3, <2>1, McpParts DEF OnItsWay, g, ManagerSound,
     Superseded, ConnectSound
<1> QED BY <1>5, <1>6, <1>7, <1>8, <1>9 DEF ConnectionsInv

\* The end of a connect that published nothing.
LEMMA StepDiscard ==
    ASSUME McpInv, NEW p \in {"start", "timer"}, DiscardConnection(p)
    PROVE  McpInv'
<1>1. /\ connects[p].at = "discarding" /\ Connecting(p) /\ EndConnect(p) /\ audit' = audit
      /\ remote' = Disconnected(connects[p].generation)
      /\ server' = IF connects[p].failed THEN ReportFailure(p, server) ELSE server
  BY DEF DiscardConnection, Connecting
<1>2. /\ remote' \in Remote /\ remote'.open = remote.open \ {connects[p].generation}
      /\ remote'.wire = remote.wire /\ remote'.executed = remote.executed
  BY <1>1, McpParts, RemoteDisconnected
<1>3. /\ connects'[p] = NoConnect /\ DOMAIN connects' = {"start", "timer"}
      /\ \A q \in {"start", "timer"} \ {p} : connects'[q] = connects[q]
      /\ p = "start" => holder' = holder
  BY <1>1, ConnectEnds
<1>4. holder.at = "list" => \A q \in {"start", "timer"} :
                                connects'[q].at # "idle" =>
                                    /\ connects[q].generation # server.generation
                                    /\ connects'[q].generation = connects[q].generation
  BY <1>3, McpParts DEF HolderSound, Connecting, NoConnect
<1>5. CASE /\ p = "start" /\ connects[p].failed
           /\ server' = BeginningToStop(Degraded(server))
 <2>1. server.manager = "started" /\ server.generation < GenerationBound
   BY <1>1, <1>5, McpParts DEF ManagerSound, Stopping
 <2>2. /\ server' \in ManagedServer /\ server'.manager = "stopping" /\ server'.client = 0
       /\ server'.closing = server.client /\ server'.generation = server.generation + 1
  <3> DEFINE d == Degraded(server)
  <3>2. d \in ManagedServer /\ d.generation < GenerationBound
        /\ d.generation = server.generation /\ d.client = server.client
    BY <2>1, McpParts, ServerDegraded DEF Keeps
  <3>3. server' = BeginningToStop(d)  BY <1>5
  <3> HIDE DEF d
  <3> QED BY <3>2, <3>3, ServerStopping
 <2>3. ConnectionsInv'
  <3> QED
    BY <1>2, <1>3, <2>1, <2>2, ConnectionsStop, <1>5, McpParts, <1>1 DEF
      Connecting, NoConnect, ManagerSound, ConnectSound
 <2>4. holder.at = "list" => \A q \in {"start", "timer"} :
           connects'[q].at # "idle" => connects'[q].generation # server'.generation
  <3>3. \A q \in {"start", "timer"} : connects[q].generation \in Nat  BY McpTypes DEF McpInv
  <3> QED
    BY <1>3, <1>4, <2>2, <3>3, McpParts, McpTypes DEF Connecting, NoConnect,
      ConnectSound, McpInv
 <2> QED BY <1>1, <1>2, <2>2, <2>3, <2>4, ConnectEnded
<1>6. CASE /\ Keeps(server, server') /\ server'.state \in {server.state, "degraded"}
           /\ server.timer => server'.timer
           /\ connects[p].failed /\ ~Stopping => server'.timer
 <2> QED BY <1>1, <1>2, <1>4, ConnectEnded, <1>6, ConnectionsDiscard DEF Keeps
<1>7. CASE ~connects[p].failed
 <2> QED BY <1>6, <1>7, McpParts, <1>1
<1>8. CASE connects[p].failed
 <2>1. server' = ReportFailure(p, server)  BY <1>1, <1>8
 <2>2. CASE p = "start" /\ server.required  BY <1>5, <1>8, <2>1, <2>2 DEF ReportFailure
 <2>3. CASE ~(p = "start" /\ server.required)
  <3> QED BY <1>6, McpParts, ServerDegraded, <2>1, <2>3 DEF Stopping, ReportFailure
 <2> QED BY <2>2, <2>3
<1> QED BY <1>7, <1>8

\* stop() begins.
LEMMA StepStop ==
    ASSUME McpInv, StopMcp
    PROVE  McpInv'
<1>1. /\ server.manager = "started" /\ connects["start"].at = "idle"
      /\ server' = BeginningToStop(server) /\ UNCHANGED <<connects, line, holder, audit, remote>>
  BY DEF StopMcp
<1>3. /\ server' \in ManagedServer /\ server'.manager = "stopping" /\ server'.client = 0
      /\ server'.closing = server.client /\ server'.generation = server.generation + 1
  BY <1>1, McpParts, ServerStopping DEF ManagerSound, Stopping
<1>4. ConnectionsInv'
 <2> QED BY <1>1, <1>3, ConnectionsStop, McpParts DEF Connecting, ManagerSound
<1>5. \A q \in {"start", "timer"} :
          connects'[q].at # "idle" => connects'[q].generation # server'.generation
 <2> QED BY <1>1, <1>3, McpParts, McpTypes DEF Connecting, ConnectSound
<1> QED BY <1>1, <1>3, <1>4, <1>5, McpParts, StepAside

\* stop() has closed the client.
LEMMA StepStopped ==
    ASSUME McpInv, FinishStop
    PROVE  McpInv'
<1>1. /\ server.manager = "stopping" /\ UNCHANGED <<connects, line, holder, audit>>
      /\ server' = [server EXCEPT !.manager = "stopped", !.state = "stopped", !.tools = 0,
                                  !.listedBy = 0, !.closing = 0]
      /\ remote' = IF server.closing = 0 THEN remote ELSE Disconnected(server.closing)
  BY DEF FinishStop
<1>2. Stopping /\ server.client = 0 /\ 0 \notin remote.open
  BY <1>1, McpParts DEF Stopping, ManagerSound
<1>3. /\ server' \in ManagedServer /\ server'.manager = "stopped" /\ server'.client = 0
      /\ server'.generation = server.generation
 <2>1. 0 \in Generations /\ 0 \in 0..CatalogueBound  BY McpConstants DEF Generations
 <2> QED BY <1>1, <1>2, <2>1, McpParts DEF ManagedServer
<1>4. /\ remote' \in Remote /\ remote'.open = remote.open \ {server.closing}
      /\ remote'.wire = remote.wire /\ remote'.executed = remote.executed
 <2>1. CASE server.closing = 0  BY <1>1, <1>2, <2>1, McpParts
 <2>2. CASE server.closing # 0  BY <1>1, <2>2, McpParts, RemoteDisconnected
 <2> QED BY <2>1, <2>2
<1>5. Stopping'  BY <1>3 DEF Stopping
<1>6. ASSUME NEW q \in {"start", "timer"} PROVE ConnectSound(q)'
  BY <1>1, <1>3, <1>5, McpParts DEF ConnectSound, Connecting, Superseded
<1>9. ReadyOffersItsOwn' /\ NewsArrive' /\ OnItsWay'
  BY <1>3 DEF ReadyOffersItsOwn, NewsArrive, OnItsWay
<1>10. ConnectionsInv'
  BY <1>6, <1>9, <1>1, <1>2, <1>4, <1>3, <1>5, McpParts DEF ConnectionsInv,
    McpInv, NoOrphans, ManagerSound, Connecting
<1> QED BY <1>1, <1>3, <1>4, <1>10, McpParts, StepAside DEF HolderSound, Connecting

\* A connection is lost.
LEMMA StepClose ==
    ASSUME McpInv, NEW k, OnClose(k)
    PROVE  McpInv'
<1>1. /\ k \in remote.open /\ UNCHANGED <<connects, line, holder, audit>>
      /\ remote' = Disconnected(k)
  BY DEF OnClose
<1>2. /\ remote' \in Remote
      /\ remote'.open = remote.open \ {k} /\ remote'.notices = remote.notices \ {k}
      /\ remote'.catalogue = remote.catalogue
      /\ remote'.wire = remote.wire /\ remote'.executed = remote.executed
  BY <1>1, McpParts, RemoteDisconnected
<1>3. server.manager # "new" /\ DOMAIN connects = {"start", "timer"}
  BY <1>1, McpParts DEF ManagerSound
<1>4. /\ server' \in ManagedServer /\ server'.client \in {0, server.client}
      /\ server'.client # k
      /\ UNCHANGED <<server.generation, server.closing, server.tools, server.listedBy,
                     server.manager>>
      /\ server'.state \in {server.state, "degraded"} /\ (server.timer => server'.timer)
      /\ server'.client # server.client => server'.state = "degraded" /\ ~Stopping
      /\ server'.client # server.client \/ k = server.client => server'.timer /\ ~Stopping
 <2> DEFINE s == [server EXCEPT !.client = 0]
 <2>1. /\ s \in ManagedServer /\ s.client = 0
       /\ s.generation = server.generation /\ s.closing = server.closing
       /\ s.tools = server.tools /\ s.listedBy = server.listedBy
       /\ s.manager = server.manager /\ s.timer = server.timer
  <3> QED BY McpParts, McpConstants DEF ManagedServer, Generations
 <2>2. k # 0  BY <1>1, McpParts DEF ManagerSound
 <2>3. CASE Belongs(k) /\ ~Discarding(k)
  <3>1. server' = DegradedAndScheduled(s)  BY <2>3 DEF OnClose
  <3> HIDE DEF s
  <3> QED BY <2>1, <2>2, <2>3, <3>1, ServerDegraded DEF Keeps, Belongs, Stopping
 <2>4. CASE ~(Belongs(k) /\ ~Discarding(k))
  <3>2. server.client # k
   <4> SUFFICES ASSUME server.client = k PROVE FALSE  OBVIOUS
   <4>1. Belongs(k)  BY <2>2, McpParts DEF Belongs, ManagerSound
   <4>2. PICK p \in {"start", "timer"} :
             connects[p].at = "discarding" /\ connects[p].generation = k
     BY <1>3, <2>4, <4>1 DEF Discarding
   <4> QED BY <2>2, <4>1, <4>2, McpParts DEF ConnectSound, Connecting, Belongs
  <3> QED BY <3>2, McpParts, <2>4 DEF OnClose
 <2> QED BY <2>3, <2>4
<1>5. ASSUME NEW q \in {"start", "timer"} PROVE ConnectSound(q)'
  BY <1>1, <1>4, McpParts DEF ConnectSound, Connecting, Superseded, Stopping
<1>6. ManagerSound'  BY <1>1, <1>2, <1>3, <1>4, McpParts DEF ManagerSound, Connecting, Stopping
<1>7. NoOrphans'
 <2> SUFFICES ASSUME NEW n \in remote.open \ {k}
              PROVE  \/ n = server'.client /\ ~Stopping
                     \/ n = server.closing
                     \/ \E q \in {"start", "timer"} :
                            n \in {connects[q].generation, connects[q].old}
   BY <1>1, <1>2, <1>3, <1>4 DEF NoOrphans, Stopping
 <2>2. n = server.client /\ ~Stopping => n = server'.client
  <3> SUFFICES ASSUME n = server.client, ~Stopping, server'.client = 0, n # 0 PROVE FALSE
    BY <1>1, <1>4, McpParts DEF ManagerSound
  <3>3. n = k  BY McpParts DEF ManagerSound, Belongs, OnClose
  <3> QED BY <3>3
 <2> QED BY <1>3, <2>2 DEF NoOrphans, McpInv, ConnectionsInv
<1>8. ReadyOffersItsOwn' /\ NewsArrive'
 <2> QED BY <1>1, <1>2, <1>4 DEF ReadyOffersItsOwn, NewsArrive, McpInv, ConnectionsInv
<1>9. OnItsWay'
 <2>1. OnItsWay  BY DEF McpInv, ConnectionsInv
 <2> QED BY <1>1, <1>4, <2>1 DEF OnItsWay, Connecting
<1>10. ConnectionsInv'  BY <1>5, <1>6, <1>7, <1>8, <1>9 DEF ConnectionsInv
<1> QED BY <1>1, <1>2, <1>4, <1>10, McpParts, StepAside DEF HolderSound, Connecting

\* The server has other tools, and tells whoever is connected.
LEMMA StepChange ==
    ASSUME McpInv, ChangeTools
    PROVE  McpInv'
<1>1. /\ remote' = [remote EXCEPT !.catalogue = @ + 1, !.notices = remote.open]
      /\ remote.catalogue < CatalogueBound
      /\ UNCHANGED <<server, connects, line, holder, audit>>
  BY DEF ChangeTools
<1>2. /\ remote' \in Remote /\ remote'.open = remote.open /\ remote'.notices = remote.open
      /\ remote'.wire = remote.wire /\ remote'.executed = remote.executed
 <2>1. remote.catalogue + 1 \in 1..CatalogueBound  BY <1>1, McpParts, McpConstants DEF Remote
 <2> QED BY <1>1, <2>1, McpParts DEF Remote
<1>3. ASSUME NEW q \in {"start", "timer"} PROVE ConnectSound(q)'
  BY <1>1, McpParts DEF ConnectSound, Connecting, Superseded, Stopping
<1>6. NewsArrive'
  BY <1>1, <1>2, McpParts DEF ConnectionsInv, ReadyOffersItsOwn, NewsArrive, ManagerSound
<1>7. ConnectionsInv'
  BY <1>3, <1>6, <1>1, <1>2, McpParts DEF ConnectionsInv, McpInv, NoOrphans,
    Stopping, ReadyOffersItsOwn, OnItsWay, Connecting, ManagerSound
<1> QED BY <1>1, <1>2, <1>7, McpParts, StepAside DEF HolderSound, Connecting

\* The notice is heard.
LEMMA StepChanged ==
    ASSUME McpInv, NEW k, OnChanged(k)
    PROVE  McpInv'
<1>1. /\ k \in remote.notices /\ remote' = [remote EXCEPT !.notices = @ \ {k}]
      /\ line' = IF Belongs(k) THEN Append(line, "refresh") ELSE line
      /\ UNCHANGED <<server, connects, holder, audit>>
  BY DEF OnChanged
<1>2. /\ remote' \in Remote /\ remote'.open = remote.open
      /\ remote'.notices = remote.notices \ {k} /\ remote'.catalogue = remote.catalogue
      /\ remote'.wire = remote.wire /\ remote'.executed = remote.executed
  BY <1>1, McpParts DEF Remote
<1>3. /\ line' \in Seq(Task) /\ ToSet(line) \subseteq ToSet(line')
      /\ line # <<>> => line' # <<>> /\ Head(line') = Head(line)
      /\ Belongs(k) => "refresh" \in ToSet(line')
 <2>1. CASE Belongs(k)
  <3> QED BY McpParts, LineAppended, <1>1, <2>1 DEF Task
 <2>2. CASE ~Belongs(k)  BY <1>1, <2>2, McpParts
 <2> QED BY <2>1, <2>2
<1>5. ASSUME NEW q \in {"start", "timer"} PROVE ConnectSound(q)'
  BY <1>1, McpParts DEF ConnectSound, Connecting, Superseded, Stopping
<1>8. NewsArrive'
 <2> SUFFICES ASSUME server.state = "ready", server.manager = "started",
                     server.tools # remote.catalogue, "refresh" \notin ToSet(line')
              PROVE  server.client \in remote.notices /\ server.client # k
   BY <1>1, <1>2 DEF NewsArrive
 <2> QED
   BY <1>3, McpParts DEF Belongs, ManagerSound, Stopping, McpInv,
     ConnectionsInv, NewsArrive, ReadyOffersItsOwn
<1>9. ConnectionsInv'
  BY <1>5, <1>8, <1>1, <1>2, <1>3, McpParts DEF ConnectionsInv, McpInv,
    NoOrphans, Stopping, ReadyOffersItsOwn, OnItsWay, Connecting, ManagerSound
<1>10. HolderSound'
 <2> QED BY <1>1, McpParts, HolderQuiet, <1>3 DEF HolderSound
<1>11. CallsInv'
 <2>1. CASE line' = line  BY <1>1, <1>2, <2>1, CallsAside
 <2>2. CASE line' = Append(line, "refresh")  BY <1>1, <1>2, <2>2, CallsBeside
 <2> QED BY <1>1, <2>1, <2>2
<1> QED BY <1>9, <1>10, <1>11, <1>1, <1>2, <1>3, McpParts DEF McpInv, McpTypeOK, Task

-----------------------------------------------------------------------------
(* The manager loses nothing.                                              *)

\* Nothing is connected, and nothing has been called.
LEMMA McpStarts == McpInit => McpInv
<1> SUFFICES ASSUME McpInit PROVE McpInv  OBVIOUS
<1>1. 0 \in Generations /\ 0 \in 0..CatalogueBound /\ 1 \in 1..CatalogueBound
      /\ GenerationBound \in Nat /\ GenerationBound >= 1
  BY McpConstants DEF Generations
<1>2. PICK required \in BOOLEAN :
          server = [state |-> "stopped", required |-> required, client |-> 0,
                    generation |-> 0, closing |-> 0, tools |-> 0, listedBy |-> 0,
                    timer |-> FALSE, manager |-> "new"]
  BY DEF McpInit
<1>3. /\ connects = [p \in {"start", "timer"} |-> NoConnect]
      /\ line = <<>> /\ holder = Waiting
      /\ audit = [c \in McpCalls |-> "none"]
      /\ remote = [open |-> {}, notices |-> {}, catalogue |-> 1, wire |-> {},
                   executed |-> [c \in McpCalls |-> 0]]
  BY DEF McpInit
<1>4. McpTypeOK
 <2>3. remote \in Remote
  <3> QED BY <1>1, <1>3 DEF Remote
 <2> QED BY <1>1, <1>3, <2>3, <1>2 DEF McpTypeOK, Waiting, ManagedServer, NoConnect, Connect
<1>5. /\ \A p \in {"start", "timer"} : ~Connecting(p) /\ connects[p] = NoConnect
      /\ server.state = "stopped" /\ server.client = 0 /\ server.generation = 0
      /\ server.closing = 0 /\ server.timer = FALSE /\ server.manager = "new"
      /\ remote.open = {} /\ remote.notices = {}
  BY <1>2, <1>3 DEF Connecting, NoConnect
<1>6. ConnectionsInv
 <2>1. ASSUME NEW p \in {"start", "timer"} PROVE ConnectSound(p)
   BY <1>5 DEF ConnectSound, Connecting, NoConnect
 <2> QED
   BY <2>1, <1>1, <1>3, <1>5 DEF ConnectionsInv, ManagerSound, Stopping,
     Waiting, NoOrphans, ReadyOffersItsOwn, NewsArrive, OnItsWay
<1>8. CallsInv
 <2>1. ASSUME NEW c \in McpCalls PROVE CallSound(c)
  <3> QED BY <1>3 DEF CallSound, ToSet, Holds, OnWire
 <2> QED BY <2>1, <1>3 DEF CallsInv, Once
<1> QED BY <1>4, <1>6, <1>8, <1>3 DEF McpInv, HolderSound, Waiting

\* One step after another.
LEMMA McpStep == McpInv /\ [McpNext]_mcpVars => McpInv'
<1> SUFFICES ASSUME McpInv, [McpNext]_mcpVars PROVE McpInv'  OBVIOUS
<1>1. CASE StartMcp \/ BeginReconnect  BY <1>1, StepConnect
<1>2. CASE FireTimer \/ TimeOutInLine  BY <1>2, StepTimer
<1>3. CASE StopMcp  BY <1>3, StepStop
<1>4. CASE FinishStop  BY <1>4, StepStopped
<1>5. ASSUME NEW p \in {"start", "timer"},
             CloseOld(p) \/ OpenTransport(p) \/ PublishTools(p) \/ AbandonConnect(p)
             \/ FailConnect(p) \/ DiscardConnection(p)
      PROVE  McpInv'
  BY <1>5, StepCloseOld, StepConnecting, StepPublish, StepDiscard
<1>6. ASSUME NEW k \in 1..GenerationBound, OnClose(k) \/ OnError(k) \/ OnChanged(k)
      PROVE  McpInv'
  BY <1>6, StepClose, StepError, StepChanged
<1>7. CASE ChangeTools  BY <1>7, StepChange
<1>8. CASE BeginRefresh \/ FailRefresh  BY <1>8, StepBeginRefresh
<1>9. CASE FinishRefresh  BY <1>9, StepFinishRefresh
<1>10. ASSUME NEW c \in McpCalls,
              RefuseCall(c) \/ StartCall(c) \/ AbortInLine(c) \/ SendCall(c) \/ AnswerCall(c)
              \/ RejectCall(c) \/ RetryCall(c) \/ GiveUpCall(c)
       PROVE  McpInv'
  BY <1>10, StepRefused, StepStartCall, StepSendCall, StepEndCall, StepRetryCall
<1>11. ASSUME NEW w \in remote.wire, ExecuteCall(w) PROVE McpInv'  BY <1>11, StepExecute
<1>12. CASE UNCHANGED mcpVars
 <2>1. UNCHANGED <<server, connects, line, holder, audit, remote>>  BY <1>12 DEF mcpVars
 <2>2. ConnectionsInv'
  <3> QED BY <2>1, McpParts, ConnectionsQuiet DEF ManagerSound
 <2> QED BY <2>1, <2>2, McpParts, StepAside DEF HolderSound, Connecting
<1> QED BY <1>1, <1>2, <1>3, <1>4, <1>5, <1>6, <1>7, <1>8, <1>9, <1>10, <1>11, <1>12 DEF McpNext

\* How often a call was executed, at most.
LEMMA CallsAreHonest == McpInv => CallsAreTruthful
<1> SUFFICES ASSUME McpInv, NEW c \in McpCalls
             PROVE  /\ c \notin ReadOnly => remote.executed[c] <= 1
                    /\ audit[c] = "success" => remote.executed[c] > 0
                    /\ audit[c] = "refused" =>
                           remote.executed[c] = 0 /\ {<<c, 1>>, <<c, 2>>} \cap remote.wire = {}
  BY DEF CallsAreTruthful
<1>1. CallSound(c)  BY McpParts DEF CallsInv
<1>2. remote.executed[c] \in Nat /\ OnWire(c) \in 0..2  BY OnWireIs, McpTypes, McpParts
<1>4. c \notin ReadOnly => remote.executed[c] <= 1
 <2> SUFFICES ASSUME c \notin ReadOnly PROVE remote.executed[c] <= 1  OBVIOUS
 <2>1. CASE Holds(c)
  <3> QED BY <1>2, <1>1, <2>1, McpParts, CallHolds DEF CallSound, HolderSound, Waiting
 <2>2. CASE ~Holds(c)  BY <1>1, <1>2, <2>2, McpTypes, McpParts DEF CallSound, MostTries
 <2> QED BY <2>1, <2>2
<1>5. audit[c] = "refused" => remote.executed[c] = 0 /\ {<<c, 1>>, <<c, 2>>} \cap remote.wire = {}
 <2> QED BY OnWireIs, <1>1 DEF CallSound
<1> QED BY <1>1, <1>4, <1>5 DEF CallSound

\* However often connections break, tools change, calls are lost and stop() comes in
\* between: no connection is left without somebody to close it, a ready server offers
\* what its own client listed and, once the notices are dealt with, the latest; a
\* server without a client is on its way back; and no call that may change something
\* is executed twice (mcp.ts: #connect, stop(), #refreshTools, #callWithServer).
THEOREM ManagerKeepsAll == McpSpec => []ManagerLosesNothing
<1>1. McpInv => ManagerLosesNothing
 <2> SUFFICES ASSUME McpInv PROVE ManagerLosesNothing  OBVIOUS
 <2>1. McpTypeOK /\ NoOrphans /\ ReadyOffersItsOwn /\ NewsArrive /\ OnItsWay
   BY DEF McpInv, ConnectionsInv
 <2>2. OfferIsCurrent
  <3> SUFFICES ASSUME server.state = "ready", server.manager = "started",
                      remote.notices = {}, "refresh" \notin ToSet(line)
               PROVE  server.tools = remote.catalogue
    BY DEF OfferIsCurrent
  <3> QED BY <2>1 DEF NewsArrive
 <2>4. CallsAreTruthful  BY CallsAreHonest
 <2> QED BY <2>1, <2>2, <2>4 DEF ManagerLosesNothing, NeverForgotten, OnItsWay, Connecting
<1> QED BY <1>1, McpStarts, McpStep, PTL DEF McpSpec

-----------------------------------------------------------------------------
(* Long tasks: the inductive invariant.                                       *)

\* How far a task has come: what its receipt says of claims and times.
TaskSound(t) ==
    /\ tasks[t].state = "waiting" <=> tasks[t].receipt = "none"
    /\ tasks[t].receipt \in {"none", "pending"} => claims[t] = 0 /\ tasks[t].claimedAt = 0
    /\ tasks[t].receipt \in {"claimed", "handled"} => claims[t] = 1
    /\ claims[t] \in {0, 1}
    /\ tasks[t].receipt = "pending" => tasks[t].at <= now
    /\ claims[t] = 1 => tasks[t].at <= tasks[t].claimedAt
    /\ tasks[t].plugin = "image" => tasks[t].at = 0

\* What a cancel that answered true has left behind.
CancelSound(c) ==
    /\ c.task \in DOMAIN tasks
    /\ claims[c.task] = 0 /\ tasks[c.task].receipt = "suppressed"
    /\ c.by \in {"admin", tasks[c.task].owner}

Filters == {"all", "pending", "cancelled"}
Cursor == [segment: {"none", "p", "t"}, key: Int, id: Int]

SegmentOf(t) == IF AlarmState(t) = "pending" THEN "p" ELSE "t"

\* The pages up to the cursor have shown row t.
Passed(cursor, t) ==
    \/ cursor.segment = SegmentOf(t) /\ ~ Follows(cursor.segment, cursor.key, cursor.id, t)
    \/ cursor.segment = "t" /\ SegmentOf(t) = "p"

CursorSound(filter, cursor) ==
    /\ cursor \in Cursor
    /\ cursor.segment = "p" => filter \in {"all", "pending"}
    /\ cursor.segment = "t" => filter \in {"all", "cancelled"}

\* Rows that did not change are still wanted, and were shown once if the cursor
\* has passed them.
WalkSound ==
    \/ walk = NoWalk
    \/ /\ walk \in [filter: Filters, cursor: Cursor, rows: SUBSET TaskIds,
                    listed: [TaskIds -> Nat], ended: BOOLEAN]
       /\ CursorSound(walk.filter, walk.cursor)
       /\ walk.rows \subseteq Wanted(walk.filter)
       /\ \A t \in walk.rows :
              walk.listed[t] = IF walk.ended \/ Passed(walk.cursor, t) THEN 1 ELSE 0

RowsTyped == tasks \in Seq(LongTask) /\ Len(tasks) <= TaskBound /\ now \in 1..LastInstant

TasksInv ==
    /\ RowsTyped
    /\ claims \in [TaskIds -> Nat]
    /\ \A t \in TaskIds : t \notin DOMAIN tasks => claims[t] = 0
    /\ \A t \in DOMAIN tasks : TaskSound(t)
    /\ \A c \in cancelled : CancelSound(c)
    /\ AlarmQuotaHolds
    /\ WalkSound

-----------------------------------------------------------------------------
(* Long tasks: the order in which an operator reads the alarms.               *)

\* A set of numbers has a smallest one.
LEMMA SmallestOf ==
    ASSUME NEW T \in SUBSET Nat, T # {}
    PROVE  \E x \in T : \A y \in T : x <= y
<1> DEFINE F == {0..x : x \in T}
           R == StrictSubsetOrdering(Nat)
<1>1. IsWellFoundedOn(R, FiniteSubsetsOf(Nat))  BY FS_StrictSubsetOrderingWellFounded
<1>2. F \subseteq FiniteSubsetsOf(Nat) /\ F # {}
 <2>1. \A x \in T : 0..x \in FiniteSubsetsOf(Nat)
  <3> SUFFICES ASSUME NEW x \in T PROVE 0..x \in FiniteSubsetsOf(Nat)  OBVIOUS
  <3> QED BY FS_Interval DEF FiniteSubsetsOf
 <2> QED BY <2>1
<1>3. \E x \in F : \A y \in F : ~ (<<y, x>> \in R)
 <2> HIDE DEF F, R
 <2> QED BY <1>1, <1>2, WFMin
<1>4. PICK x \in T : \A y \in T : ~ (<<0..y, 0..x>> \in R)  BY <1>3
<1>5. ASSUME NEW y \in T, y < x PROVE FALSE
 <2>1. /\ 0..y \in SUBSET Nat /\ 0..x \in SUBSET Nat
       /\ 0..y \subseteq 0..x /\ 0..y # 0..x
   BY <1>5
 <2> QED BY <1>4, <2>1 DEF StrictSubsetOrdering
<1> QED BY <1>5

\* Row u comes before row t.
Precedes(segment, u, t) == Follows(segment, Key(segment, u), u, t)

RowSet(R) == R \subseteq DOMAIN tasks /\ IsFiniteSet(R)

\* What the types say of a row.
LEMMA RowTypes ==
    ASSUME RowsTyped
    PROVE  /\ DOMAIN tasks = 1..Len(tasks) /\ Len(tasks) \in Nat
           /\ DOMAIN tasks \subseteq TaskIds /\ IsFiniteSet(DOMAIN tasks)
           /\ now \in Nat /\ now >= 1 /\ now <= LastInstant
           /\ {Quota, Horizon, PageLimit, LastInstant, TaskBound} \subseteq Nat
           /\ PageLimit >= 1
           /\ \A t \in DOMAIN tasks :
                  /\ tasks[t] \in LongTask /\ t \in Nat
                  /\ tasks[t].at \in Nat /\ tasks[t].claimedAt \in Nat
                  /\ tasks[t].cancelledAt \in Nat
           /\ \A t \in DOMAIN tasks : Key("p", t) \in Nat /\ Key("t", t) \in Nat
<1>1. {Quota, Horizon, PageLimit, LastInstant} \subseteq Nat \ {0} /\ TaskBound \in Nat
  BY TasksAssumption
<1>2. /\ DOMAIN tasks = 1..Len(tasks) /\ Len(tasks) \in Nat /\ Len(tasks) <= TaskBound
      /\ \A t \in DOMAIN tasks : tasks[t] \in LongTask
  BY DEF RowsTyped
<1>3. DOMAIN tasks \subseteq TaskIds /\ IsFiniteSet(DOMAIN tasks)
 <2>3. IsFiniteSet(1..Len(tasks))  BY FS_Interval, <1>2
 <2> QED BY <1>2, <2>3, <1>1 DEF TaskIds
<1>5. ASSUME NEW t \in DOMAIN tasks
      PROVE  /\ t \in Nat /\ tasks[t].at \in Nat /\ tasks[t].claimedAt \in Nat
             /\ tasks[t].cancelledAt \in Nat
 <2> QED BY <1>1, <1>2 DEF Instant, LongTask
<1> QED BY <1>1, <1>2, <1>3, <1>5 DEF RowsTyped, Key, EndedAt

\* In each segment the rows are in a total order, and what comes after a cursor
\* is closed upwards.
LEMMA RowsInOrder ==
    ASSUME RowsTyped, NEW s \in {"p", "t"},
           NEW u \in DOMAIN tasks, NEW t \in DOMAIN tasks
    PROVE  /\ ~ Precedes(s, t, t)
           /\ u = t \/ Precedes(s, u, t) \/ Precedes(s, t, u)
           /\ \A v \in DOMAIN tasks : Precedes(s, u, t) /\ Precedes(s, t, v) => Precedes(s, u, v)
           /\ \A key, id \in Int :
                  Follows(s, key, id, u) /\ Precedes(s, u, t) => Follows(s, key, id, t)
<1>1. \A v \in DOMAIN tasks : v \in Nat /\ Key("p", v) \in Nat /\ Key("t", v) \in Nat
  BY RowTypes
<1>2. CASE s = "p"  BY <1>1, <1>2 DEF Precedes, Follows
<1>3. CASE s = "t"  BY <1>1, <1>3 DEF Precedes, Follows
<1> QED BY <1>2, <1>3

\* The rows of R before t.
Ahead(R, s, t) == {u \in R : Precedes(s, u, t)}

LEMMA AheadCounts ==
    ASSUME RowsTyped, NEW R, RowSet(R), NEW s \in {"p", "t"}, NEW t \in DOMAIN tasks
    PROVE  /\ IsFiniteSet(Ahead(R, s, t)) /\ Cardinality(Ahead(R, s, t)) \in Nat
           /\ Cardinality(R) \in Nat
           /\ t \in R => Cardinality(Ahead(R, s, t)) < Cardinality(R)
           /\ \A u \in R : Precedes(s, u, t) =>
                  Cardinality(Ahead(R, s, u)) < Cardinality(Ahead(R, s, t))
<1> DEFINE A == Ahead(R, s, t)
<1>1. IsFiniteSet(R) /\ R \subseteq DOMAIN tasks /\ A \subseteq R  BY DEF RowSet, Ahead
<1>2. IsFiniteSet(A) /\ Cardinality(A) \in Nat /\ Cardinality(R) \in Nat
  BY <1>1, FS_Subset, FS_CardinalityType
<1>3. ASSUME t \in R PROVE Cardinality(A) < Cardinality(R)
 <2>1. t \notin A  BY <1>3, RowsInOrder DEF Ahead
 <2> HIDE DEF A
 <2>2. A # R  BY <1>3, <2>1
 <2> QED BY <1>2, <2>2, <1>1, FS_Subset
<1>4. ASSUME NEW u \in R, Precedes(s, u, t)
      PROVE  Cardinality(Ahead(R, s, u)) < Cardinality(A)
 <2> DEFINE B == Ahead(R, s, u)
 <2>1. B \subseteq A /\ u \in A /\ u \notin B
  <3>2. ASSUME NEW v \in B PROVE v \in A
   <4> QED BY <1>4, RowsInOrder, <1>1, <3>2 DEF Ahead
  <3> QED BY <3>2, <1>1, <1>4, RowsInOrder DEF Ahead
 <2> HIDE DEF A, B
 <2> QED BY <1>2, <2>1, FS_Subset, FS_CardinalityType DEF B
<1> QED BY <1>2, <1>3, <1>4

\* The first rows of a set are those with few ahead of them ...
LEMMA FirstRowsAre ==
    ASSUME NEW R, NEW s, NEW k
    PROVE  FirstRows(R, s, k) = {t \in R : Cardinality(Ahead(R, s, t)) < k}
BY DEF FirstRows, Ahead, Precedes

\* ... they leave no gap ...
LEMMA NoGap ==
    ASSUME RowsTyped, NEW R, RowSet(R), NEW s \in {"p", "t"}, NEW k \in Int,
           NEW t \in FirstRows(R, s, k), NEW u \in R, Precedes(s, u, t)
    PROVE  u \in FirstRows(R, s, k)
<1>1. t \in R /\ Cardinality(Ahead(R, s, t)) < k  BY FirstRowsAre
<1> QED BY <1>1, FirstRowsAre, AheadCounts DEF RowSet

\* ... they are all there is when there are fewer than asked for ...
LEMMA AllWhenFew ==
    ASSUME RowsTyped, NEW R, RowSet(R), NEW s \in {"p", "t"}, NEW k \in Int
    PROVE  /\ RowSet(FirstRows(R, s, k)) /\ FirstRows(R, s, k) \subseteq R
           /\ Cardinality(FirstRows(R, s, k)) \in Nat
           /\ Cardinality(FirstRows(R, s, k)) < k => FirstRows(R, s, k) = R
           /\ Cardinality(R) <= k => FirstRows(R, s, k) = R
<1> DEFINE F == FirstRows(R, s, k)
<1>1. F = {t \in R : Cardinality(Ahead(R, s, t)) < k}  BY FirstRowsAre
<1>2. IsFiniteSet(R) /\ R \subseteq DOMAIN tasks /\ F \subseteq R  BY <1>1 DEF RowSet
<1>3. IsFiniteSet(F) /\ Cardinality(F) \in Nat /\ Cardinality(R) \in Nat
 <2> HIDE DEF F
 <2> QED BY <1>2, FS_Subset, FS_CardinalityType
<1>4. ASSUME Cardinality(R) <= k PROVE F = R
 <2> HIDE DEF F
 <2> QED BY <1>1, <1>3, <1>4, <1>2, AheadCounts
<1>5. ASSUME Cardinality(F) < k, F # R PROVE FALSE
 <2> DEFINE Ranks == {Cardinality(Ahead(R, s, t)) : t \in R \ F}
 <2>1. \A t \in R \ F : t \in DOMAIN tasks /\ Cardinality(Ahead(R, s, t)) \in Nat
   BY <1>2, AheadCounts
 <2> HIDE DEF F
 <2>2. Ranks \in SUBSET Nat /\ Ranks # {}  BY <1>2, <1>5, <2>1
 <2>3. PICK r \in Ranks : \A q \in Ranks : r <= q
  <3> HIDE DEF Ranks
  <3> QED BY <2>2, SmallestOf
 <2>4. PICK t \in R \ F : Cardinality(Ahead(R, s, t)) = r  OBVIOUS
 <2>5. Ahead(R, s, t) \subseteq F
  <3> SUFFICES ASSUME NEW u \in Ahead(R, s, t), u \notin F PROVE FALSE  OBVIOUS
  <3>1. u \in R /\ Precedes(s, u, t)  BY DEF Ahead
  <3>2. u \in R \ F  BY <3>1
  <3>5. r <= Cardinality(Ahead(R, s, u)) /\ r \in Nat /\ Cardinality(Ahead(R, s, u)) \in Nat
    BY <2>2, <2>3, <3>2
  <3> QED BY <2>4, <3>5, <2>1, <3>1, AheadCounts
 <2> QED BY <1>1, <1>3, <1>5, <2>1, <2>5, FS_Subset
<1>6. RowSet(F)
 <2> HIDE DEF F
 <2> QED BY <1>2, <1>3 DEF RowSet
<1> QED BY <1>2, <1>3, <1>4, <1>5, <1>6

\* ... some, if any are asked for ...
LEMMA SomeIfAny ==
    ASSUME RowsTyped, NEW R, RowSet(R), NEW s \in {"p", "t"}, NEW k \in Int, k >= 1,
           R # {}
    PROVE  FirstRows(R, s, k) # {}
<1> SUFFICES ASSUME FirstRows(R, s, k) = {} PROVE FALSE  OBVIOUS
<1>2. Cardinality(FirstRows(R, s, k)) < k  BY FS_EmptySet
<1> QED BY <1>2, AllWhenFew

\* ... and the first of the first are the first.
LEMMA FirstOfFirst ==
    ASSUME RowsTyped, NEW R, RowSet(R), NEW s \in {"p", "t"}, NEW k \in Int, NEW j \in Int,
           j <= k
    PROVE  FirstRows(FirstRows(R, s, k), s, j) = FirstRows(R, s, j)
<1> DEFINE F == FirstRows(R, s, k)
<1>1. ASSUME NEW t \in F PROVE Ahead(F, s, t) = Ahead(R, s, t)
 <2>1. F \subseteq R  BY AllWhenFew
 <2>2. \A u \in R : Precedes(s, u, t) => u \in F  BY <1>1, NoGap
 <2> HIDE DEF F
 <2> QED BY <2>1, <2>2 DEF Ahead
<1>2. F = {t \in R : Cardinality(Ahead(R, s, t)) < k}  BY FirstRowsAre
<1> HIDE DEF F
<1>6. \A t \in R : Cardinality(Ahead(R, s, t)) < j => t \in F  BY <1>2, AheadCounts DEF RowSet
<1>7. F \subseteq R  BY <1>2
<1> QED BY <1>6, <1>7, FirstRowsAre, <1>1 DEF F

\* The last row of a set has none after it.
LEMMA LastIsLast ==
    ASSUME RowsTyped, NEW R, RowSet(R), R # {}, NEW s \in {"p", "t"}
    PROVE  LastRow(R, s) \in R /\ \A u \in R : ~ Precedes(s, LastRow(R, s), u)
<1>1. \E t \in R : \A u \in R : ~ Precedes(s, t, u)
 <2> DEFINE Left == {Cardinality(R) - Cardinality(Ahead(R, s, t)) : t \in R}
 <2>1. \A t \in R : /\ t \in DOMAIN tasks /\ Cardinality(Ahead(R, s, t)) \in Nat
                    /\ Cardinality(R) \in Nat
                    /\ Cardinality(Ahead(R, s, t)) < Cardinality(R)
   BY AheadCounts DEF RowSet
 <2>2. Left \in SUBSET Nat /\ Left # {}  BY <2>1
 <2>3. PICK r \in Left : \A q \in Left : r <= q
  <3> HIDE DEF Left
  <3> QED BY <2>2, SmallestOf
 <2>4. PICK t \in R : r = Cardinality(R) - Cardinality(Ahead(R, s, t))  OBVIOUS
 <2>5. ASSUME NEW u \in R, Precedes(s, t, u) PROVE FALSE
  <3>3. r <= Cardinality(R) - Cardinality(Ahead(R, s, u))  BY <2>3, <2>5
  <3> QED BY <2>1, <2>4, <2>5, <3>3, AheadCounts
 <2> QED BY <2>5
<1> QED BY <1>1 DEF LastRow, Precedes

-----------------------------------------------------------------------------
(* Long tasks: the pages.                                                     *)

\* What a query for rows of a segment selects before its limit.
Candidates(s, cursor, filter) ==
    {t \in DOMAIN tasks :
        /\ tasks[t].plugin = "alarm"
        /\ IF s = "p" THEN AlarmState(t) = "pending"
           ELSE AlarmState(t) # "pending" /\ filter \in {"all", AlarmState(t)}
        /\ AfterCursor(cursor, s, t)}

\* Of the rows the filter asks for they are those the cursor has not passed, and
\* each comes after all that it has passed.
LEMMA CandidatesAre ==
    ASSUME RowsTyped, NEW s \in {"p", "t"}, NEW filter, NEW cursor \in Cursor,
           cursor.segment \in {"none", s}
    PROVE  LET C == Candidates(s, cursor, filter) IN
           /\ RowSet(C) /\ \A t \in C : SegmentOf(t) = s
           /\ \A t \in Wanted(filter) : SegmentOf(t) = s => (t \in C <=> ~ Passed(cursor, t))
           /\ \A u \in C : \A t \in DOMAIN tasks :
                  SegmentOf(t) = s /\ Passed(cursor, t) => ~ Precedes(s, u, t)
<1> DEFINE C == Candidates(s, cursor, filter)
<1>1. RowSet(C)
 <2>1. C \subseteq DOMAIN tasks  BY DEF Candidates
 <2> HIDE DEF C
 <2> QED BY <2>1, RowTypes, FS_Subset DEF RowSet
<1>3. ASSUME NEW t \in Wanted(filter), SegmentOf(t) = s
      PROVE  t \in C <=> ~ Passed(cursor, t)
 <2>3. t \in C <=> AfterCursor(cursor, s, t)  BY <1>3 DEF Candidates, Wanted, SegmentOf
 <2> QED BY <2>3, <1>3 DEF Passed, AfterCursor
<1>4. ASSUME NEW u \in C, NEW t \in DOMAIN tasks, SegmentOf(t) = s, Passed(cursor, t),
             Precedes(s, u, t)
      PROVE  FALSE
 <2>3. cursor.key \in Int /\ cursor.id \in Int  BY DEF Cursor
 <2> QED BY <1>4, <2>3, RowsInOrder DEF Candidates, AfterCursor, Passed
<1> QED BY <1>1, <1>3, <1>4 DEF Candidates, SegmentOf

\* A cursor that names a row has passed that row and those before it.
LEMMA CursorNamesRow ==
    ASSUME RowsTyped, NEW s \in {"p", "t"}, NEW u \in DOMAIN tasks, SegmentOf(u) = s
    PROVE  /\ CursorFor(u) \in Cursor /\ CursorFor(u).segment = s /\ CursorFor(u) # NoCursor
           /\ \A t : SegmentOf(t) = s =>
                  (Passed(CursorFor(u), t) <=> ~ Precedes(s, u, t))
<1>1. CursorFor(u) = [segment |-> s, key |-> Key(s, u), id |-> u]  BY DEF CursorFor, SegmentOf
<1>5. ASSUME NEW t, SegmentOf(t) = s
      PROVE  Passed(CursorFor(u), t) <=> ~ Precedes(s, u, t)
  BY <1>1, <1>5 DEF Passed, Precedes
<1> QED BY <1>5, <1>1, RowTypes DEF NoCursor, Cursor

\* One segment of a page with room for n rows, of which one more, G, is fetched:
\* the rows F shown are those between the old cursor and the new one, or all that
\* are left when no more was fetched than there is room for.
SegmentSound(s, filter, cursor, n, G, F) ==
    /\ RowSet(F) /\ Cardinality(F) \in Nat /\ Cardinality(G) \in Nat
    /\ \A t \in F : SegmentOf(t) = s
    /\ Cardinality(G) <= n =>
           /\ Cardinality(F) = Cardinality(G)
           /\ \A t \in Wanted(filter) :
                  SegmentOf(t) = s => (t \in F <=> ~ Passed(cursor, t))
    /\ Cardinality(G) > n /\ n >= 1 =>
           /\ F # {}
           /\ LastRow(F, s) \in F
           /\ \A t \in Wanted(filter) : SegmentOf(t) = s =>
                  /\ Passed(cursor, t) =>
                         t \notin F /\ Passed(CursorFor(LastRow(F, s)), t)
                  /\ ~ Passed(cursor, t) =>
                         (t \in F <=> Passed(CursorFor(LastRow(F, s)), t))
    /\ n = 0 => F = {}

LEMMA SegmentPage ==
    ASSUME RowsTyped, NEW s \in {"p", "t"}, NEW filter, NEW cursor \in Cursor,
           cursor.segment \in {"none", s}, NEW n \in Nat,
           NEW G, G = FetchRows(s, n + 1, cursor, filter)
    PROVE  SegmentSound(s, filter, cursor, n, G, FirstRows(G, s, n))
<1> DEFINE F == FirstRows(G, s, n)
<1> DEFINE C == Candidates(s, cursor, filter)
<1>1. G = FirstRows(C, s, n + 1)  BY DEF FetchRows, Candidates
<1>2. /\ RowSet(C) /\ \A t \in C : SegmentOf(t) = s
      /\ \A t \in Wanted(filter) : SegmentOf(t) = s => (t \in C <=> ~ Passed(cursor, t))
      /\ \A u \in C : \A t \in DOMAIN tasks :
             SegmentOf(t) = s /\ Passed(cursor, t) => ~ Precedes(s, u, t)
  BY CandidatesAre
<1> HIDE DEF C, F
<1>3. n \in Int /\ n + 1 \in Int /\ n <= n + 1  OBVIOUS
<1>4. F = FirstRows(C, s, n)  BY <1>1, <1>2, <1>3, FirstOfFirst DEF F
<1>5. /\ RowSet(G) /\ G \subseteq C /\ Cardinality(G) \in Nat
      /\ Cardinality(G) < n + 1 => G = C
 <2> DEFINE m == n + 1
            E == FirstRows(C, s, m)
 <2>1. m \in Int  BY <1>3
 <2> HIDE DEF m
 <2>2. /\ RowSet(E) /\ E \subseteq C /\ Cardinality(E) \in Nat
       /\ Cardinality(E) < m => E = C
   BY <1>2, <2>1, AllWhenFew
 <2> HIDE DEF E
 <2> QED BY <1>1, <2>2 DEF E, m
<1>6. /\ RowSet(F) /\ F \subseteq C /\ Cardinality(F) \in Nat
      /\ Cardinality(C) <= n => F = C
 <2> DEFINE E == FirstRows(C, s, n)
 <2> HIDE DEF E
 <2> QED BY <1>4, <1>2, <1>3, AllWhenFew DEF E
<1>8. ASSUME Cardinality(G) <= n
      PROVE  /\ Cardinality(F) = Cardinality(G)
             /\ \A t \in Wanted(filter) :
                    SegmentOf(t) = s => (t \in F <=> ~ Passed(cursor, t))
 <2>1. G = C  BY <1>5, <1>8
 <2>2. F = C  BY <1>6, <1>8, <2>1
 <2> QED BY <1>2, <2>1, <2>2
<1>9. ASSUME Cardinality(G) > n, n >= 1
      PROVE  /\ F # {}
             /\ LastRow(F, s) \in F
             /\ \A t \in Wanted(filter) : SegmentOf(t) = s =>
                    /\ Passed(cursor, t) =>
                           t \notin F /\ Passed(CursorFor(LastRow(F, s)), t)
                    /\ ~ Passed(cursor, t) =>
                           (t \in F <=> Passed(CursorFor(LastRow(F, s)), t))
 <2> DEFINE l == LastRow(F, s)
 <2>1. C # {}
  <3> QED BY <1>5, <1>9, FS_EmptySet
 <2>2. F # {}  BY <1>2, <1>3, <1>4, <1>9, <2>1, SomeIfAny
 <2>3. l \in F /\ \A u \in F : ~ Precedes(s, l, u)  BY <1>6, <2>2, LastIsLast
 <2>4. l \in C /\ l \in DOMAIN tasks /\ SegmentOf(l) = s  BY <1>2, <1>6, <2>3 DEF RowSet
 <2> HIDE DEF l
 <2>5. \A t : SegmentOf(t) = s => (Passed(CursorFor(l), t) <=> ~ Precedes(s, l, t))
   BY <2>4, CursorNamesRow
 <2>6. ASSUME NEW t \in Wanted(filter), SegmentOf(t) = s
       PROVE  /\ Passed(cursor, t) => t \notin F /\ Passed(CursorFor(l), t)
              /\ ~ Passed(cursor, t) => (t \in F <=> Passed(CursorFor(l), t))
  <3>1. t \in DOMAIN tasks  BY DEF Wanted
  <3>2. ASSUME Passed(cursor, t) PROVE t \notin F /\ Passed(CursorFor(l), t)
   <4> QED BY <1>6, <2>5, <2>6, <1>2, <3>2, <2>4, <3>1
  <3>3. ASSUME ~ Passed(cursor, t) PROVE t \in F <=> Passed(CursorFor(l), t)
   <4>3. ASSUME t \notin F, ~ Precedes(s, l, t) PROVE FALSE
    <5>2. Precedes(s, t, l)  BY <2>3, <4>3, <2>4, <3>1, RowsInOrder
    <5> QED BY <1>4, <4>3, <1>2, <1>3, <2>3, <5>2, NoGap, <2>6, <3>3
   <4> QED BY <2>5, <2>6, <4>3, <2>3
  <3> QED BY <3>2, <3>3
 <2> QED BY <2>2, <2>3, <2>6 DEF l
<1>10. ASSUME n = 0 PROVE F = {}
 <2> QED BY <1>4, FirstRowsAre, <1>10, <1>2, AheadCounts DEF RowSet
<1> QED BY <1>5, <1>6, <1>8, <1>9, <1>10, <1>2 DEF F, SegmentSound

\* A page shows the rows between its cursor and the next, or those that are left.
PageSound(filter, cursor, page) ==
    /\ page.next # NoCursor => CursorSound(filter, page.next)
    /\ \A t \in Wanted(filter) :
           /\ Passed(cursor, t) =>
                  t \notin page.rows /\ (page.next = NoCursor \/ Passed(page.next, t))
           /\ ~ Passed(cursor, t) =>
                  (t \in page.rows <=> page.next = NoCursor \/ Passed(page.next, t))

LEMMA NoFirstRows ==
    ASSUME NEW s, NEW k PROVE FirstRows({}, s, k) = {}
BY DEF FirstRows

\* A page of one segment.
LEMMA OneSegment ==
    ASSUME RowsTyped, NEW s \in {"p", "t"}, NEW filter \in Filters, NEW cursor,
           CursorSound(filter, cursor), cursor.segment \in {"none", s},
           s = "p" => filter \in {"all", "pending"},
           s = "t" => filter = "cancelled" \/ cursor.segment = "t",
           NEW G, G = FetchRows(s, PageLimit + 1, cursor, filter),
           NEW page, page = IF s = "p" THEN PageFromRows(G, {}) ELSE PageFromRows({}, G),
           s = "p" => filter = "pending" \/ Cardinality(G) > PageLimit
    PROVE  PageSound(filter, cursor, page)
<1> DEFINE F == FirstRows(G, s, PageLimit)
           l == LastRow(F, s)
<1>1. PageLimit \in Nat /\ PageLimit >= 1 /\ cursor \in Cursor  BY RowTypes DEF CursorSound
<1>2. /\ RowSet(F) /\ Cardinality(F) \in Nat /\ Cardinality(G) \in Nat
      /\ \A t \in F : SegmentOf(t) = s
      /\ Cardinality(G) <= PageLimit =>
             \A t \in Wanted(filter) :
                 SegmentOf(t) = s => (t \in F <=> ~ Passed(cursor, t))
      /\ Cardinality(G) > PageLimit =>
             /\ F # {}
             /\ l \in F
             /\ \A t \in Wanted(filter) : SegmentOf(t) = s =>
                    /\ Passed(cursor, t) => t \notin F /\ Passed(CursorFor(l), t)
                    /\ ~ Passed(cursor, t) => (t \in F <=> Passed(CursorFor(l), t))
 <2>1. SegmentSound(s, filter, cursor, PageLimit, G, F)  BY <1>1, SegmentPage
 <2> HIDE DEF F
 <2> QED BY <1>1, <2>1 DEF SegmentSound
<1>3. /\ page.rows = F
      /\ page.next = IF Cardinality(G) > PageLimit THEN CursorFor(l) ELSE NoCursor
 <2>1. Cardinality({}) = 0  BY FS_EmptySet
 <2>2. CASE s = "p"
  <3>1. FirstRows({}, "t", PageLimit - Cardinality(F)) = {}  BY NoFirstRows
  <3>4. Cardinality(G) + Cardinality({}) = Cardinality(G)  BY <1>2, <2>1
  <3> QED BY <3>4, <2>2, <3>1 DEF PageFromRows
 <2>3. CASE s = "t"
  <3>1. FirstRows({}, "p", PageLimit) = {}  BY NoFirstRows
  <3>2. PageLimit - Cardinality({}) = PageLimit  BY <1>1, <2>1
  <3>5. Cardinality({}) + Cardinality(G) = Cardinality(G)  BY <1>2, <2>1
  <3> QED BY <1>2, <3>5, <2>3, <3>1, <3>2 DEF PageFromRows
 <2> QED BY <2>2, <2>3
<1> HIDE DEF F, l
<1>4. ASSUME NEW t \in Wanted(filter), SegmentOf(t) # s
      PROVE  /\ t \notin F
             /\ s = "p" => ~ Passed(cursor, t) /\ Cardinality(G) > PageLimit
             /\ s = "t" => Passed(cursor, t)
 <2>1. SegmentOf(t) \in {"p", "t"} /\ t \notin F  BY <1>2, <1>4 DEF SegmentOf
 <2>2. CASE s = "p"
  <3>1. cursor.segment \in {"none", "p"} /\ SegmentOf(t) = "t" /\ AlarmState(t) # "pending"
    BY <1>4, <2>1, <2>2 DEF SegmentOf
  <3> QED BY <2>1, <2>2, <3>1 DEF Passed, Wanted
 <2>3. CASE s = "t"
  <3> QED BY <2>1, <2>3, <1>4 DEF Passed, Wanted, SegmentOf
 <2> QED BY <2>2, <2>3
<1>5. CASE Cardinality(G) <= PageLimit
 <2>3. ASSUME NEW t \in Wanted(filter)
       PROVE  t \in F <=> ~ Passed(cursor, t)
  <3>1. CASE SegmentOf(t) = s  BY <1>2, <1>5, <3>1
  <3>2. CASE SegmentOf(t) # s  BY <1>4, <3>2, <1>1, <1>2, <1>5
  <3> QED BY <3>1, <3>2
 <2> QED BY <1>3, <2>3, <1>2, <1>1, <1>5 DEF PageSound
<1>6. CASE Cardinality(G) > PageLimit
 <2>1. page.next = CursorFor(l) /\ l \in F /\ l \in DOMAIN tasks /\ SegmentOf(l) = s
   BY <1>2, <1>3, <1>6 DEF RowSet
 <2>2. CursorFor(l) \in Cursor /\ CursorFor(l).segment = s /\ CursorFor(l) # NoCursor
   BY <2>1, CursorNamesRow
 <2>4. ASSUME NEW t \in Wanted(filter)
       PROVE  /\ Passed(cursor, t) => t \notin F /\ Passed(CursorFor(l), t)
              /\ ~ Passed(cursor, t) => (t \in F <=> Passed(CursorFor(l), t))
  <3>1. CASE SegmentOf(t) = s  BY <1>2, <1>6, <3>1
  <3>2. CASE SegmentOf(t) # s
   <4>1. SegmentOf(t) \in {"p", "t"}  BY DEF SegmentOf
   <4> QED BY <1>4, <3>2, <2>2, <4>1 DEF Passed
  <3> QED BY <3>1, <3>2
 <2> QED BY <1>3, <2>1, <2>2, <2>4 DEF PageSound, CursorSound, Filters
<1> QED BY <1>1, <1>2, <1>5, <1>6

\* A page where the pending rows end and the others begin.
LEMMA TwoSegments ==
    ASSUME RowsTyped, NEW cursor, CursorSound("all", cursor), cursor.segment # "t",
           NEW G, G = FetchRows("p", PageLimit + 1, cursor, "all"),
           Cardinality(G) <= PageLimit,
           NEW H, H = FetchRows("t", PageLimit - Cardinality(G) + 1, NoCursor, "all")
    PROVE  PageSound("all", cursor, PageFromRows(G, H))
<1> DEFINE P == FirstRows(G, "p", PageLimit)
           n == PageLimit - Cardinality(G)
           T == FirstRows(H, "t", n)
           l == LastRow(T, "t")
           k == LastRow(P, "p")
           page == PageFromRows(G, H)
<1>1. PageLimit \in Nat /\ PageLimit >= 1 /\ cursor \in Cursor /\ NoCursor \in Cursor
      /\ cursor.segment \in {"none", "p"} /\ NoCursor.segment = "none"
  BY RowTypes DEF CursorSound, Cursor, NoCursor
<1>2. /\ RowSet(P) /\ \A t \in P : SegmentOf(t) = "p"
      /\ Cardinality(P) = Cardinality(G) /\ Cardinality(G) \in Nat
      /\ \A t \in Wanted("all") : SegmentOf(t) = "p" => (t \in P <=> ~ Passed(cursor, t))
 <2>1. SegmentSound("p", "all", cursor, PageLimit, G, P)  BY <1>1, SegmentPage
 <2> HIDE DEF P
 <2> QED BY <1>1, <2>1 DEF SegmentSound
<1>3. n \in Nat  BY <1>1, <1>2
<1>4. /\ RowSet(T) /\ Cardinality(T) \in Nat /\ Cardinality(H) \in Nat
      /\ \A t \in T : SegmentOf(t) = "t"
      /\ Cardinality(H) <= n =>
             \A t \in Wanted("all") :
                 SegmentOf(t) = "t" => (t \in T <=> ~ Passed(NoCursor, t))
      /\ Cardinality(H) > n /\ n >= 1 =>
             /\ T # {}
             /\ l \in T
             /\ \A t \in Wanted("all") : SegmentOf(t) = "t" =>
                    /\ Passed(NoCursor, t) => t \notin T /\ Passed(CursorFor(l), t)
                    /\ ~ Passed(NoCursor, t) => (t \in T <=> Passed(CursorFor(l), t))
      /\ n = 0 => T = {}
 <2> HIDE DEF n
 <2>2. SegmentSound("t", "all", NoCursor, n, H, T)  BY <1>1, <1>3, SegmentPage DEF n
 <2> HIDE DEF T
 <2> QED BY <2>2 DEF SegmentSound
<1>5. /\ page.rows = P \cup T
      /\ page.next = IF Cardinality(H) > n
                     THEN CursorFor(IF T = {} THEN k ELSE l) ELSE NoCursor
 <2>2. T = FirstRows(H, "t", PageLimit - Cardinality(P))  BY <1>2
 <2>4. page.next = IF Cardinality(G) + Cardinality(H) > PageLimit
                   THEN CursorFor(IF T = {} THEN k ELSE l) ELSE NoCursor
   BY <2>2 DEF PageFromRows
 <2> QED BY <2>4, <1>1, <1>2, <1>4, <2>2 DEF PageFromRows
<1>6. \A t : ~ Passed(NoCursor, t)  BY DEF Passed, NoCursor, SegmentOf
<1> HIDE DEF P, T, n, l, k, page
<1>7. \A t : SegmentOf(t) \in {"p", "t"}  BY DEF SegmentOf
<1>8. \A t \in Wanted("all") : SegmentOf(t) = "t" => ~ Passed(cursor, t) /\ t \notin P
  BY <1>1, <1>2 DEF Passed
<1>9. \A t \in Wanted("all") : SegmentOf(t) = "p" => t \notin T  BY <1>4
<1>10. CASE Cardinality(H) <= n
 <2> QED BY <1>5, <1>3, <1>4, <1>10, <1>2, <1>6, <1>7, <1>8, <1>9 DEF PageSound, page
<1>11. CASE Cardinality(H) > n /\ n = 0
 <2>2. P # {}
  <3>2. P = {} => Cardinality(P) = 0  BY FS_EmptySet
  <3> QED BY <3>2, <1>1, <1>2, <1>11 DEF n
 <2>3. k \in P /\ \A u \in P : ~ Precedes("p", k, u)  BY <1>2, <2>2, LastIsLast DEF k
 <2>5. /\ CursorFor(k) \in Cursor /\ CursorFor(k).segment = "p" /\ CursorFor(k) # NoCursor
       /\ \A t : SegmentOf(t) = "p" => (Passed(CursorFor(k), t) <=> ~ Precedes("p", k, t))
   BY CursorNamesRow, <1>2, <2>3 DEF RowSet
 <2>7. \A t : SegmentOf(t) = "t" => ~ Passed(CursorFor(k), t)  BY <2>5 DEF Passed
 <2>8. G = FetchRows("p", PageLimit + 1, cursor, "all")  OBVIOUS
 <2>9. ASSUME NEW t \in Wanted("all"), SegmentOf(t) = "p"
       PROVE  Passed(CursorFor(k), t)
  <3>2. ASSUME Passed(cursor, t) PROVE Passed(CursorFor(k), t)
   <4> DEFINE C == Candidates("p", cursor, "all")
   <4>1. \A u \in C : \A v \in DOMAIN tasks :
             SegmentOf(v) = "p" /\ Passed(cursor, v) => ~ Precedes("p", u, v)
     BY <1>1, CandidatesAre
   <4>2. P \subseteq C
    <5>1. G = FirstRows(C, "p", PageLimit + 1)  BY DEF FetchRows, Candidates
    <5> HIDE DEF C
    <5> QED BY <5>1 DEF FirstRows, P
   <4> HIDE DEF C
   <4> QED BY <2>3, <2>5, <2>9, <3>2, <4>1, <4>2 DEF Wanted
  <3> QED BY <1>2, <2>9, <3>2, <2>3, <2>5
 <2> QED
   BY <1>2, <1>7, <1>8, <2>5, <2>7, <2>9, <1>4, <1>5, <1>11 DEF PageSound,
     page, CursorSound
<1>12. CASE Cardinality(H) > n /\ n >= 1
 <2>1. T # {} /\ page.next = CursorFor(l) /\ page.rows = P \cup T /\ l \in T
   BY <1>4, <1>5, <1>12
 <2>3. CursorFor(l) \in Cursor /\ CursorFor(l).segment = "t" /\ CursorFor(l) # NoCursor
   BY CursorNamesRow, <1>4, <2>1 DEF RowSet
 <2>6. ASSUME NEW t \in Wanted("all"), SegmentOf(t) = "t"
       PROVE  t \in T <=> Passed(CursorFor(l), t)
   BY <1>4, <1>6, <1>12, <2>6
 <2> QED BY <1>2, <1>7, <1>8, <1>9, <2>1, <2>3, <2>6 DEF PageSound, page, CursorSound, Passed
<1> QED BY <1>3, <1>4, <1>10, <1>11, <1>12

\* Whatever page is asked for.
LEMMA PageIsSound ==
    ASSUME RowsTyped, NEW filter \in Filters, NEW cursor, CursorSound(filter, cursor)
    PROVE  PageSound(filter, cursor, AlarmPage(filter, cursor))
<1> DEFINE G == FetchRows("p", PageLimit + 1, cursor, filter)
           page == AlarmPage(filter, cursor)
<1>1. PageLimit \in Nat /\ cursor.segment \in {"none", "p", "t"}
  BY RowTypes DEF CursorSound, Cursor
<1>2. CASE filter \in {"all", "pending"} /\ cursor.segment # "t"
 <2>1. Cardinality(G) \in Nat
  <3>2. SegmentSound("p", filter, cursor, PageLimit, G, FirstRows(G, "p", PageLimit))
    BY <1>1, SegmentPage, <1>2 DEF CursorSound
  <3> QED BY <3>2 DEF SegmentSound
 <2>2. CASE Cardinality(G) > PageLimit \/ filter = "pending"
  <3>1. page = PageFromRows(G, {})  BY <1>2, <2>2 DEF AlarmPage
  <3> HIDE DEF page
  <3>4. PageSound(filter, cursor, page)  BY <1>2, <2>2, OneSegment, <1>1, <3>1
  <3> QED BY <3>4 DEF page
 <2>3. CASE ~ (Cardinality(G) > PageLimit \/ filter = "pending")
  <3>1. filter = "all" /\ Cardinality(G) <= PageLimit  BY <1>1, <1>2, <2>1, <2>3
  <3> DEFINE H == FetchRows("t", PageLimit - Cardinality(G) + 1, NoCursor, filter)
  <3> QED BY <3>1, <1>2, <2>3, TwoSegments DEF AlarmPage
 <2> QED BY <2>2, <2>3
<1>3. CASE ~ (filter \in {"all", "pending"} /\ cursor.segment # "t")
 <2> DEFINE H == FetchRows("t", PageLimit + 1, cursor, filter)
 <2>1. page = PageFromRows({}, H)  BY <1>3 DEF AlarmPage
 <2> HIDE DEF page
 <2>4. PageSound(filter, cursor, page)  BY OneSegment, <1>1, <1>3, <2>1 DEF CursorSound, Filters
 <2> QED BY <2>4 DEF page
<1> QED BY <1>2, <1>3

-----------------------------------------------------------------------------
(* Long tasks: the steps.                                                     *)

LEMMA TasksInitial ==
    TasksInit => TasksInv
<1> SUFFICES ASSUME TasksInit PROVE TasksInv  OBVIOUS
<1>1. /\ tasks = <<>> /\ now = 1 /\ cancelled = {} /\ claims = [t \in TaskIds |-> 0]
      /\ walk = NoWalk
  BY DEF TasksInit
<1>2. LastInstant \in Nat \ {0} /\ TaskBound \in Nat /\ Quota \in Nat  BY TasksAssumption
<1>4. AlarmQuotaHolds
 <2> QED BY <1>2, FS_EmptySet, <1>1 DEF AlarmQuotaHolds
<1> QED BY <1>1, <1>4, <1>2 DEF TasksInv, RowsTyped, WalkSound

\* The walk has no part in a step that changes other rows.
LEMMA WalkKept ==
    ASSUME WalkSound, NEW D, walk' = Touched(D),
           \A t \in DOMAIN tasks : t \notin D => t \in DOMAIN tasks' /\ tasks'[t] = tasks[t]
    PROVE  WalkSound'
<1>1. CASE walk = NoWalk
 <2> QED BY <1>1 DEF WalkSound, Touched, NoWalk
<1>2. CASE walk # NoWalk
 <2>1. /\ walk \in [filter: Filters, cursor: Cursor, rows: SUBSET TaskIds,
                    listed: [TaskIds -> Nat], ended: BOOLEAN]
       /\ CursorSound(walk.filter, walk.cursor)
       /\ walk.rows \subseteq Wanted(walk.filter)
       /\ \A t \in walk.rows :
              walk.listed[t] = IF walk.ended \/ Passed(walk.cursor, t) THEN 1 ELSE 0
   BY <1>2 DEF WalkSound
 <2>2. /\ walk' \in [filter: Filters, cursor: Cursor, rows: SUBSET TaskIds,
                     listed: [TaskIds -> Nat], ended: BOOLEAN]
       /\ walk'.filter = walk.filter /\ walk'.cursor = walk.cursor
       /\ walk'.listed = walk.listed /\ walk'.ended = walk.ended
       /\ walk'.rows = walk.rows \ D
   BY <2>1 DEF Touched
 <2>3. ASSUME NEW t \in walk'.rows
       PROVE  /\ t \in Wanted(walk.filter)'
              /\ walk'.listed[t] =
                     IF walk'.ended \/ Passed(walk.cursor, t)' THEN 1 ELSE 0
  <3>1. t \in walk.rows /\ t \in Wanted(walk.filter) /\ t \notin D  BY <2>1, <2>2
  <3>2. t \in DOMAIN tasks /\ t \in DOMAIN tasks' /\ tasks'[t] = tasks[t]  BY <3>1 DEF Wanted
  <3>3. AlarmState(t)' = AlarmState(t)  BY <3>2 DEF AlarmState
  <3>7. walk.listed[t] = IF walk.ended \/ Passed(walk.cursor, t) THEN 1 ELSE 0  BY <2>1, <3>1
  <3> QED BY <2>2, <3>7, <3>1, <3>2, <3>3 DEF Wanted, Passed, SegmentOf, Follows, Key, EndedAt
 <2> QED BY <2>2, <2>3, <2>1 DEF WalkSound, CursorSound
<1> QED BY <1>1, <1>2

\* Plugin and run of a task do not change.
LEMMA QuotaKept ==
    ASSUME AlarmQuotaHolds, DOMAIN tasks' = DOMAIN tasks,
           \A t \in DOMAIN tasks : /\ tasks'[t].plugin = tasks[t].plugin
                                   /\ tasks'[t].run = tasks[t].run
    PROVE  AlarmQuotaHolds'
<1> SUFFICES ASSUME NEW run \in Runs
    PROVE Cardinality({t \in DOMAIN tasks' :
              tasks'[t].plugin = "alarm" /\ tasks'[t].run = run}) <= Quota
  BY DEF AlarmQuotaHolds
<1> QED BY DEF AlarmQuotaHolds

LEMMA QuotaCounts ==
    ASSUME RowsTyped, NEW plugin, NEW run
    PROVE  /\ IsFiniteSet(CountedForQuota(plugin, run))
           /\ Cardinality(CountedForQuota(plugin, run)) \in Nat
<1> QED BY RowTypes, FS_Subset, FS_CardinalityType DEF CountedForQuota

\* A new task.
LEMMA TaskCreated ==
    ASSUME TasksInv, NEW row \in LongTask, Len(tasks) < TaskBound,
           tasks' = Append(tasks, row), walk' = Touched({Len(tasks) + 1}),
           UNCHANGED <<now, cancelled, claims>>,
           row.state = "waiting", row.receipt = "none", row.claimedAt = 0,
           row.plugin = "image" => row.at = 0,
           row.plugin = "alarm" => Cardinality(CountedForQuota("alarm", row.run)) < Quota
    PROVE  TasksInv'
<1> DEFINE n == Len(tasks) + 1
<1>1. /\ RowsTyped /\ claims \in [TaskIds -> Nat] /\ AlarmQuotaHolds /\ WalkSound
      /\ \A t \in TaskIds : t \notin DOMAIN tasks => claims[t] = 0
  BY DEF TasksInv
<1>2. /\ DOMAIN tasks = 1..Len(tasks) /\ Len(tasks) \in Nat /\ TaskBound \in Nat
      /\ tasks \in Seq(LongTask) /\ Quota \in Nat
  BY <1>1, RowTypes DEF RowsTyped
<1>3. /\ tasks' \in Seq(LongTask) /\ Len(tasks') = n /\ DOMAIN tasks' = DOMAIN tasks \cup {n}
      /\ tasks'[n] = row /\ \A t \in DOMAIN tasks : tasks'[t] = tasks[t]
      /\ n \notin DOMAIN tasks
  BY <1>2
<1>4. n \in TaskIds /\ claims[n] = 0 /\ n <= TaskBound  BY <1>1, <1>2, <1>3 DEF TaskIds
<1>5. UNCHANGED now /\ UNCHANGED cancelled /\ UNCHANGED claims /\ walk' = Touched({n})  OBVIOUS
<1> HIDE DEF n
<1>8. ASSUME NEW t \in DOMAIN tasks' PROVE TaskSound(t)'
 <2>1. CASE t = n  BY <1>3, <1>4, <1>5, <2>1 DEF TaskSound
 <2>2. CASE t \in DOMAIN tasks
  <3> QED BY <1>3, <1>5, <2>2 DEF TaskSound, TasksInv
 <2> QED BY <1>3, <2>1, <2>2
<1>9. ASSUME NEW c \in cancelled' PROVE CancelSound(c)'
 <2> QED BY <1>3, <1>5 DEF CancelSound, TasksInv
<1>10. AlarmQuotaHolds'
 <2> SUFFICES ASSUME NEW run \in Runs
     PROVE Cardinality({t \in DOMAIN tasks' :
               tasks'[t].plugin = "alarm" /\ tasks'[t].run = run}) <= Quota
   BY DEF AlarmQuotaHolds
 <2> DEFINE Old == CountedForQuota("alarm", run)
            New == {t \in DOMAIN tasks' :
                        tasks'[t].plugin = "alarm" /\ tasks'[t].run = run}
 <2>1. IsFiniteSet(Old) /\ Cardinality(Old) \in Nat  BY <1>1, QuotaCounts
 <2>3. CASE row.plugin = "alarm" /\ row.run = run
  <3>1. New = Old \cup {n} /\ n \notin Old  BY <1>3, <2>3 DEF CountedForQuota
  <3>2. Cardinality(Old) < Quota  BY <2>3
  <3> HIDE DEF Old, New
  <3>3. Cardinality(New) = Cardinality(Old) + 1  BY <2>1, <3>1, FS_AddElement
  <3>4. Cardinality(New) <= Quota  BY <1>2, <2>1, <3>2, <3>3
  <3> QED BY <3>4 DEF New
 <2>4. CASE ~ (row.plugin = "alarm" /\ row.run = run)
  <3> QED BY <1>1, <1>3, <2>4 DEF AlarmQuotaHolds, CountedForQuota
 <2> QED BY <2>3, <2>4
<1>11. WalkSound'  BY <1>1, <1>3, <1>5, WalkKept
<1>12. claims' \in [TaskIds -> Nat]  BY <1>1, <1>5
<1> QED BY <1>8, <1>9, <1>10, <1>11, <1>12, <1>1, <1>3, <1>5, <1>4 DEF TasksInv, RowsTyped

\* One row changes ...
LEMMA OneRowChanges ==
    ASSUME TasksInv, NEW t \in DOMAIN tasks, NEW row \in LongTask, Set(t, row),
           row.plugin = tasks[t].plugin, row.run = tasks[t].run
    PROVE  /\ tasks' \in Seq(LongTask) /\ Len(tasks') = Len(tasks)
           /\ DOMAIN tasks' = DOMAIN tasks /\ tasks'[t] = row
           /\ \A u \in DOMAIN tasks : u # t => tasks'[u] = tasks[u]
           /\ AlarmQuotaHolds' /\ WalkSound'
<1>1. tasks \in Seq(LongTask) /\ AlarmQuotaHolds /\ WalkSound  BY DEF TasksInv, RowsTyped
<1>2. tasks' = [tasks EXCEPT ![t] = row] /\ walk' = Touched({t})  BY DEF Set
<1>3. /\ tasks' \in Seq(LongTask) /\ Len(tasks') = Len(tasks)
      /\ DOMAIN tasks' = DOMAIN tasks /\ tasks'[t] = row
      /\ \A u \in DOMAIN tasks : u # t => tasks'[u] = tasks[u]
  BY <1>1, <1>2
<1> QED BY <1>3, <1>1, QuotaKept, <1>2, WalkKept

\* ... and stays sound, with what was cancelled.
LEMMA OneRowKeeps ==
    ASSUME TasksInv, NEW t \in DOMAIN tasks, NEW row \in LongTask, Set(t, row),
           row.plugin = tasks[t].plugin, row.run = tasks[t].run, now' = now,
           claims' \in [TaskIds -> Nat], \A u \in TaskIds : u # t => claims'[u] = claims[u],
           TaskSound(t)',
           \A c \in cancelled' : c \in cancelled \/ CancelSound(c)',
           \A c \in cancelled : c.task = t => CancelSound(c)'
    PROVE  TasksInv'
<1>1. /\ tasks' \in Seq(LongTask) /\ Len(tasks') = Len(tasks)
      /\ DOMAIN tasks' = DOMAIN tasks /\ tasks'[t] = row
      /\ \A u \in DOMAIN tasks : u # t => tasks'[u] = tasks[u]
      /\ AlarmQuotaHolds' /\ WalkSound'
  BY OneRowChanges
<1>2. RowsTyped /\ \A u \in TaskIds : u \notin DOMAIN tasks => claims[u] = 0  BY DEF TasksInv
<1>3. DOMAIN tasks \subseteq TaskIds  BY <1>2, RowTypes
<1>6. ASSUME NEW u \in DOMAIN tasks' PROVE TaskSound(u)'
 <2>1. CASE u # t
  <3> QED BY <1>1, <1>3, <2>1 DEF TaskSound, TasksInv
 <2> QED BY <2>1
<1>7. ASSUME NEW c \in cancelled' PROVE CancelSound(c)'
 <2>1. CASE c \in cancelled /\ c.task # t
  <3> QED BY <1>1, <1>3, <2>1 DEF CancelSound, TasksInv
 <2> QED BY <2>1
<1> QED BY <1>1, <1>6, <1>7, <1>2 DEF TasksInv, RowsTyped

\* #finish: a plugin's own task, which no timer has.
LEMMA FinishKeeps ==
    ASSUME TasksInv, NEW t \in DOMAIN tasks, FinishTask(t)
    PROVE  TasksInv'
<1>1. /\ tasks[t].plugin = "image" /\ tasks[t].state = "waiting"
      /\ UNCHANGED now /\ UNCHANGED cancelled /\ UNCHANGED claims
  BY DEF FinishTask
<1>2. PICK state \in {"completed", "failed"}, receipt \in {"pending", "suppressed"} :
          Set(t, [tasks[t] EXCEPT !.state = state, !.receipt = receipt])
  BY DEF FinishTask
<1> DEFINE row == [tasks[t] EXCEPT !.state = state, !.receipt = receipt]
<1>3. RowsTyped /\ TaskSound(t) /\ claims \in [TaskIds -> Nat]  BY DEF TasksInv
<1>4. tasks[t] \in LongTask /\ now \in Nat  BY <1>3, RowTypes
<1>5. /\ row \in LongTask /\ row.plugin = "image" /\ row.run = tasks[t].run
      /\ row.at = tasks[t].at /\ row.claimedAt = tasks[t].claimedAt
      /\ row.state = state /\ row.receipt = receipt
  BY <1>1, <1>4 DEF LongTask
<1>6. Set(t, row)  BY <1>2
<1> HIDE DEF row
<1>9. ASSUME NEW c \in cancelled, c.task = t PROVE FALSE
 <2> QED BY <1>1, <1>3, <1>9 DEF TaskSound, TasksInv, CancelSound
<1> QED BY <1>1, <1>3, <1>5, <1>6, <1>9, OneRowKeeps, <1>4, OneRowChanges DEF TaskSound

\* #cancel, by the owner or the operator.
LEMMA CancelKeeps ==
    ASSUME TasksInv, NEW t \in DOMAIN tasks, Cancellable(t), tasks[t].plugin = "alarm",
           NEW who \in {"admin", tasks[t].owner}, Set(t, CancelledRow(tasks[t])),
           cancelled' = cancelled \cup {[task |-> t, by |-> who]},
           UNCHANGED <<now, claims>>
    PROVE  TasksInv'
<1> DEFINE row == CancelledRow(tasks[t])
<1>1. UNCHANGED now /\ UNCHANGED claims  OBVIOUS
<1>2. RowsTyped /\ TaskSound(t) /\ claims \in [TaskIds -> Nat]  BY DEF TasksInv
<1>3. tasks[t] \in LongTask /\ now \in Nat /\ now \in Instant
 <2> QED BY <1>2, RowTypes DEF Instant
<1>4. /\ row \in LongTask /\ row.plugin = "alarm" /\ row.run = tasks[t].run
      /\ row.at = tasks[t].at /\ row.claimedAt = tasks[t].claimedAt
      /\ row.owner = tasks[t].owner
      /\ row.state # "waiting" /\ row.receipt = "suppressed"
  BY <1>3 DEF LongTask, CancelledRow
<1>5. claims[t] = 0  BY <1>2 DEF Cancellable, TaskSound
<1> HIDE DEF row
<1>6. tasks'[t] = row /\ DOMAIN tasks' = DOMAIN tasks  BY <1>4, OneRowChanges DEF row
<1>8. ASSUME NEW c, c.task = t, c.by \in {"admin", tasks[t].owner} PROVE CancelSound(c)'
  BY <1>1, <1>4, <1>5, <1>6, <1>8 DEF CancelSound
<1>9. \A c \in cancelled : c.task = t => CancelSound(c)'
 <2> SUFFICES ASSUME NEW c \in cancelled, c.task = t PROVE CancelSound(c)'  OBVIOUS
 <2> QED BY <1>8 DEF TasksInv, CancelSound
<1>10. \A c \in cancelled' : c \in cancelled \/ CancelSound(c)'
 <2> SUFFICES ASSUME NEW c \in cancelled', c \notin cancelled PROVE CancelSound(c)'  OBVIOUS
 <2> QED BY <1>8
<1> QED BY <1>1, <1>2, <1>4, <1>9, <1>10, OneRowKeeps, <1>5, <1>6 DEF TaskSound, row

LEMMA DeleteKeeps ==
    ASSUME TasksInv, NEW t \in DOMAIN tasks, NEW caller, NEW room,
           DeleteAlarm(caller, room, t)
    PROVE  TasksInv'
<1> QED BY CancelKeeps DEF DeleteAlarm, MayDelete, Owns

LEMMA AdminCancelKeeps ==
    ASSUME TasksInv, NEW t \in DOMAIN tasks, AdminCancelAlarm(t)
    PROVE  TasksInv'
<1> QED BY CancelKeeps DEF AdminCancelAlarm

\* The queue claims a receipt ...
LEMMA ClaimKeeps ==
    ASSUME TasksInv, NEW t \in DOMAIN tasks, ClaimReceipt(t)
    PROVE  TasksInv'
<1> DEFINE row == [tasks[t] EXCEPT !.receipt = "claimed", !.claimedAt = now]
<1>1. /\ tasks[t].receipt = "pending" /\ Set(t, row)
      /\ claims' = [claims EXCEPT ![t] = @ + 1]
      /\ UNCHANGED now /\ UNCHANGED cancelled
  BY DEF ClaimReceipt
<1>2. RowsTyped /\ TaskSound(t) /\ claims \in [TaskIds -> Nat]  BY DEF TasksInv
<1>3. tasks[t] \in LongTask /\ now \in Nat /\ now \in Instant /\ t \in TaskIds
      /\ tasks[t].at \in Nat
 <2> QED BY <1>2, RowTypes DEF Instant
<1>4. /\ row \in LongTask /\ row.plugin = tasks[t].plugin /\ row.run = tasks[t].run
      /\ row.at = tasks[t].at /\ row.claimedAt = now
      /\ row.state = tasks[t].state /\ row.receipt = "claimed"
  BY <1>3 DEF LongTask
<1> HIDE DEF row
<1>6. claims[t] = 0 /\ tasks[t].at <= now /\ tasks[t].state # "waiting"
  BY <1>1, <1>2 DEF TaskSound
<1>7. /\ claims' \in [TaskIds -> Nat] /\ claims'[t] = 1
      /\ \A u \in TaskIds : u # t => claims'[u] = claims[u]
  BY <1>1, <1>2, <1>3, <1>6
<1>9. ASSUME NEW c \in cancelled, c.task = t PROVE FALSE
 <2> QED BY <1>1, <1>9 DEF TasksInv, CancelSound
<1> QED BY <1>1, <1>4, <1>7, <1>9, OneRowKeeps, <1>2, <1>6, OneRowChanges DEF TaskSound

\* ... and settles it.
LEMMA SettleKeeps ==
    ASSUME TasksInv, NEW t \in DOMAIN tasks, SettleReceipt(t)
    PROVE  TasksInv'
<1>1. /\ tasks[t].receipt = "claimed"
      /\ UNCHANGED now /\ UNCHANGED cancelled /\ UNCHANGED claims
  BY DEF SettleReceipt
<1>2. RowsTyped /\ TaskSound(t) /\ claims \in [TaskIds -> Nat]  BY DEF TasksInv
<1>3. tasks[t] \in LongTask /\ now \in Instant
 <2> QED BY <1>2, RowTypes DEF Instant
<1>4. \E row \in LongTask :
          /\ Set(t, row) /\ row.plugin = tasks[t].plugin /\ row.run = tasks[t].run
          /\ row.at = tasks[t].at /\ row.claimedAt = tasks[t].claimedAt
          /\ row.state = tasks[t].state /\ row.receipt \in {"handled", "suppressed"}
 <2> DEFINE handled == [tasks[t] EXCEPT !.receipt = "handled"]
            gone == [tasks[t] EXCEPT !.receipt = "suppressed", !.cancelledAt = now]
 <2>1. Set(t, handled) \/ Set(t, gone)  BY DEF SettleReceipt
 <2>2. /\ handled \in LongTask /\ handled.plugin = tasks[t].plugin
       /\ handled.run = tasks[t].run
       /\ handled.at = tasks[t].at /\ handled.claimedAt = tasks[t].claimedAt
       /\ handled.state = tasks[t].state /\ handled.receipt = "handled"
   BY <1>3 DEF LongTask
 <2>3. /\ gone \in LongTask /\ gone.plugin = tasks[t].plugin /\ gone.run = tasks[t].run
       /\ gone.at = tasks[t].at /\ gone.claimedAt = tasks[t].claimedAt
       /\ gone.state = tasks[t].state /\ gone.receipt = "suppressed"
   BY <1>3 DEF LongTask
 <2> HIDE DEF handled, gone
 <2> QED BY <2>1, <2>2, <2>3
<1>5. PICK row \in LongTask :
          /\ Set(t, row) /\ row.plugin = tasks[t].plugin /\ row.run = tasks[t].run
          /\ row.at = tasks[t].at /\ row.claimedAt = tasks[t].claimedAt
          /\ row.state = tasks[t].state /\ row.receipt \in {"handled", "suppressed"}
  BY <1>4
<1>8. ASSUME NEW c \in cancelled, c.task = t PROVE FALSE
 <2> QED BY <1>1, <1>8 DEF TasksInv, CancelSound
<1> QED BY <1>1, <1>2, <1>5, <1>8, OneRowKeeps, OneRowChanges DEF TaskSound

\* Every timer that is due completes.
LEMMA TimersKeep ==
    ASSUME TasksInv, ProcessTimers
    PROVE  TasksInv'
<1>1. /\ tasks' = [t \in DOMAIN tasks |->
             IF Due(t) THEN [tasks[t] EXCEPT !.state = "completed", !.receipt = "pending"]
             ELSE tasks[t]]
      /\ walk' = Touched({t \in DOMAIN tasks : Due(t)})
      /\ UNCHANGED now /\ UNCHANGED cancelled /\ UNCHANGED claims
  BY DEF ProcessTimers
<1>2. /\ RowsTyped /\ claims \in [TaskIds -> Nat] /\ AlarmQuotaHolds /\ WalkSound
      /\ \A t \in TaskIds : t \notin DOMAIN tasks => claims[t] = 0
  BY DEF TasksInv
<1>3. /\ DOMAIN tasks = 1..Len(tasks) /\ Len(tasks) \in Nat /\ Len(tasks) <= TaskBound
      /\ now \in Nat
      /\ \A t \in DOMAIN tasks :
             /\ tasks[t] \in LongTask /\ tasks[t].at \in Nat
  BY <1>2, RowTypes DEF RowsTyped
<1>4. ASSUME NEW t \in DOMAIN tasks
      PROVE  /\ tasks'[t] \in LongTask
             /\ tasks'[t].plugin = tasks[t].plugin /\ tasks'[t].run = tasks[t].run
             /\ tasks'[t].at = tasks[t].at /\ tasks'[t].owner = tasks[t].owner
             /\ tasks'[t].claimedAt = tasks[t].claimedAt
             /\ ~ Due(t) => tasks'[t] = tasks[t]
             /\ Due(t) => tasks'[t].state = "completed" /\ tasks'[t].receipt = "pending"
  BY <1>1, <1>3, <1>4 DEF LongTask
<1>5. /\ DOMAIN tasks' = DOMAIN tasks /\ tasks' \in Seq(LongTask) /\ Len(tasks') = Len(tasks)
 <2>1. DOMAIN tasks' = 1..Len(tasks) /\ tasks' = [t \in 1..Len(tasks) |-> tasks'[t]]
   BY <1>1, <1>3
 <2> QED BY <1>3, <2>1, SeqDef, <1>4
<1>7. ASSUME NEW t \in DOMAIN tasks' PROVE TaskSound(t)'
 <2>1. t \in DOMAIN tasks /\ TaskSound(t)  BY <1>5 DEF TasksInv
 <2>2. CASE Due(t)
  <3> QED BY <1>1, <1>4, <2>1, <2>2 DEF TaskSound, Due
 <2>3. CASE ~ Due(t)  BY <1>1, <1>4, <2>1, <2>3 DEF TaskSound
 <2> QED BY <2>2, <2>3
<1>8. ASSUME NEW c \in cancelled' PROVE CancelSound(c)'
 <2>1. CancelSound(c)  BY <1>1 DEF TasksInv
 <2>2. c.task \in DOMAIN tasks /\ tasks[c.task].receipt = "suppressed"  BY <2>1 DEF CancelSound
 <2>3. ~ Due(c.task)
  <3> QED BY <2>2 DEF TaskSound, Due, TasksInv
 <2> QED BY <1>1, <1>5, <2>1, <1>4, <2>2, <2>3 DEF CancelSound
<1>10. WalkSound'
 <2> DEFINE D == {t \in DOMAIN tasks : Due(t)}
 <2>1. \A t \in DOMAIN tasks : t \notin D => t \in DOMAIN tasks' /\ tasks'[t] = tasks[t]
   BY <1>4, <1>5
 <2> QED BY <1>1, <1>2, <2>1, WalkKept
<1> QED BY <1>1, <1>2, <1>5, <1>7, <1>8, <1>10, <1>4, QuotaKept DEF TasksInv, RowsTyped

\* What depends neither on the clock nor on the walk.
LEMMA RowsKept ==
    ASSUME TasksInv, UNCHANGED <<tasks, cancelled, claims>>,
           now' \in 1..LastInstant, now <= now', WalkSound'
    PROVE  TasksInv'
<1>1. UNCHANGED tasks /\ UNCHANGED cancelled /\ UNCHANGED claims  OBVIOUS
<1>2. RowsTyped /\ LastInstant \in Nat  BY TasksAssumption DEF TasksInv
<1>4. ASSUME NEW t \in DOMAIN tasks PROVE TaskSound(t)'
 <2> QED BY <1>1, <1>2, RowTypes DEF TaskSound, TasksInv
<1>5. ASSUME NEW c \in cancelled PROVE CancelSound(c)'
 <2> QED BY <1>1 DEF CancelSound, TasksInv
<1>6. AlarmQuotaHolds'
 <2> QED BY <1>1, QuotaKept DEF TasksInv
<1> QED BY <1>1, <1>4, <1>5, <1>6, <1>2 DEF TasksInv, RowsTyped

LEMMA TimePassesKeeps ==
    ASSUME TasksInv, TimePasses PROVE TasksInv'
<1>1. now < LastInstant /\ now' = now + 1 /\ UNCHANGED <<tasks, cancelled, claims, walk>>
  BY DEF TimePasses
<1>2. RowsTyped  BY DEF TasksInv
<1>5. WalkSound'
 <2>1. WalkSound  BY DEF TasksInv
 <2>2. walk' = Touched({})
  <3> QED BY <1>1, <2>1 DEF Touched, NoWalk, WalkSound
 <2> QED BY <1>1, <2>1, <2>2, WalkKept
<1> QED BY <1>1, <1>5, RowsKept, <1>2, RowTypes

LEMMA StartWalkKeeps ==
    ASSUME TasksInv, StartWalk PROVE TasksInv'
<1>1. PICK filter \in Filters :
          walk' = [NoWalk EXCEPT !.filter = filter, !.rows = Wanted(filter)]
  BY DEF StartWalk, Filters
<1>2. UNCHANGED tasks /\ UNCHANGED now /\ UNCHANGED cancelled /\ UNCHANGED claims
  BY DEF StartWalk
<1>3. RowsTyped  BY DEF TasksInv
<1>4. now \in Nat /\ now \in 1..LastInstant /\ DOMAIN tasks \subseteq TaskIds
  BY <1>3, RowTypes DEF RowsTyped
<1>5. /\ walk'.filter = filter /\ walk'.rows = Wanted(filter) /\ walk'.cursor = NoCursor
      /\ walk'.ended = FALSE /\ walk'.listed = [t \in TaskIds |-> 0]
      /\ walk' \in [filter: Filters, cursor: Cursor, rows: SUBSET TaskIds,
                    listed: [TaskIds -> Nat], ended: BOOLEAN]
 <2> DEFINE W == Wanted(filter)
            L == [t \in TaskIds |-> 0]
 <2>3. walk' = [filter |-> filter, cursor |-> NoCursor, rows |-> W, listed |-> L,
                ended |-> FALSE]
   BY <1>1 DEF NoWalk
 <2>4. L \in [TaskIds -> Nat] /\ W \in SUBSET TaskIds  BY <1>4 DEF Wanted
 <2> HIDE DEF W, L
 <2> QED BY <2>3, <2>4 DEF W, L, NoCursor, Cursor
<1>10. CursorSound(walk.filter, walk.cursor)' /\ walk'.rows \subseteq Wanted(walk.filter)'
  BY <1>5, <1>2 DEF CursorSound, Wanted, AlarmState, NoCursor, Cursor
<1>11. WalkSound'  BY <1>5, <1>10 DEF WalkSound, Passed, NoCursor, SegmentOf
<1> QED BY <1>2, <1>4, <1>11, RowsKept

LEMMA NextPageKeeps ==
    ASSUME TasksInv, NextPage PROVE TasksInv'
<1> DEFINE page == AlarmPage(walk.filter, walk.cursor)
<1>1. /\ walk # NoWalk /\ ~ walk.ended
      /\ walk' = [walk EXCEPT
             !.listed = [t \in TaskIds |-> @[t] + IF t \in page.rows THEN 1 ELSE 0],
             !.cursor = page.next,
             !.ended = page.next = NoCursor]
      /\ UNCHANGED tasks /\ UNCHANGED now /\ UNCHANGED cancelled /\ UNCHANGED claims
  BY DEF NextPage
<1>2. RowsTyped /\ WalkSound  BY DEF TasksInv
<1>3. /\ walk \in [filter: Filters, cursor: Cursor, rows: SUBSET TaskIds,
                   listed: [TaskIds -> Nat], ended: BOOLEAN]
      /\ CursorSound(walk.filter, walk.cursor)
      /\ walk.rows \subseteq Wanted(walk.filter)
      /\ \A t \in walk.rows : walk.listed[t] = IF Passed(walk.cursor, t) THEN 1 ELSE 0
  BY <1>1, <1>2 DEF WalkSound
<1>4. PageSound(walk.filter, walk.cursor, page)  BY <1>2, <1>3, PageIsSound
<1> HIDE DEF page
<1>5. page.next \in Cursor /\ CursorSound(walk.filter, page.next)
  BY <1>4 DEF PageSound, CursorSound, NoCursor, Cursor
<1>6. /\ walk'.filter = walk.filter /\ walk'.rows = walk.rows /\ walk'.cursor = page.next
      /\ walk'.ended = (page.next = NoCursor)
      /\ \A t \in TaskIds : walk'.listed[t] =
             walk.listed[t] + IF t \in page.rows THEN 1 ELSE 0
      /\ walk' \in [filter: Filters, cursor: Cursor, rows: SUBSET TaskIds,
                    listed: [TaskIds -> Nat], ended: BOOLEAN]
 <2> DEFINE L == [t \in TaskIds |-> walk.listed[t] + IF t \in page.rows THEN 1 ELSE 0]
            ended == page.next = NoCursor
 <2>1. L \in [TaskIds -> Nat] /\ ended \in BOOLEAN  BY <1>3
 <2>2. \A t \in TaskIds : L[t] = walk.listed[t] + IF t \in page.rows THEN 1 ELSE 0  OBVIOUS
 <2>3. walk' = [walk EXCEPT !.listed = L, !.cursor = page.next, !.ended = ended]  BY <1>1
 <2> HIDE DEF L
 <2>5. walk'.ended = ended
  <3> HIDE DEF ended
  <3> QED BY <1>3, <2>3
 <2>6. walk' \in [filter: Filters, cursor: Cursor, rows: SUBSET TaskIds,
                  listed: [TaskIds -> Nat], ended: BOOLEAN]
  <3> HIDE DEF ended
  <3> QED BY <1>3, <1>5, <2>1, <2>3
 <2> QED BY <2>2, <2>5, <2>6, <1>3, <2>3
<1>8. \A cursor, t : Passed(cursor, t)' <=> Passed(cursor, t)
  BY <1>1 DEF Passed, SegmentOf, AlarmState, Follows, Key, EndedAt
<1>9. ASSUME NEW t \in walk'.rows
      PROVE  walk'.listed[t] = IF walk'.ended \/ Passed(page.next, t) THEN 1 ELSE 0
 <2>1. t \in walk.rows /\ t \in TaskIds /\ t \in Wanted(walk.filter)  BY <1>3, <1>6
 <2> QED BY <1>6, <1>3, <2>1, <1>4 DEF PageSound
<1>10. Wanted(walk.filter)' = Wanted(walk.filter)  BY <1>1, <1>6 DEF Wanted, AlarmState
<1>12. \A t \in walk'.rows :
           walk'.listed[t] = IF walk'.ended \/ Passed(walk.cursor, t)' THEN 1 ELSE 0
  BY <1>6, <1>8, <1>9
<1>13. WalkSound'  BY <1>3, <1>6, <1>10, <1>12, <1>5 DEF WalkSound, CursorSound
<1> QED BY <1>1, <1>13, RowsKept, <1>2, RowTypes DEF RowsTyped

LEMMA CreateAlarmKeeps ==
    ASSUME TasksInv, NEW run \in Runs, CreateAlarm(run)
    PROVE  TasksInv'
<1>2. PICK caller \in Users, at \in AlarmInstants :
          tasks' = Append(tasks, NewTask("alarm", RoomOf[run], run, caller, at))
  BY DEF CreateAlarm
<1> DEFINE row == NewTask("alarm", RoomOf[run], run, caller, at)
<1>3. RowsTyped  BY DEF TasksInv
<1>4. at \in Instant /\ 0 \in Instant /\ RoomOf[run] \in Rooms
 <2> QED BY TasksAssumption, <1>3, RowTypes DEF AlarmInstants, Instant
<1>5. /\ row \in LongTask /\ row.state = "waiting" /\ row.receipt = "none"
      /\ row.claimedAt = 0 /\ row.plugin = "alarm" /\ row.run = run
  BY <1>4 DEF NewTask, LongTask
<1>6. tasks' = Append(tasks, row)  BY <1>2
<1> HIDE DEF row
<1> QED BY <1>5, <1>6, TaskCreated DEF CreateAlarm

LEMMA CreateImageTaskKeeps ==
    ASSUME TasksInv, NEW run \in Runs, CreateImageTask(run)
    PROVE  TasksInv'
<1> DEFINE row == NewTask("image", RoomOf[run], run, NoUser, 0)
<1>1. /\ Len(tasks) < TaskBound /\ tasks' = Append(tasks, row)
      /\ walk' = Touched({Len(tasks) + 1}) /\ UNCHANGED <<now, cancelled, claims>>
  BY DEF CreateImageTask
<1>2. 0 \in Instant /\ RoomOf[run] \in Rooms
 <2> QED BY TasksAssumption DEF Instant
<1>3. /\ row \in LongTask /\ row.state = "waiting" /\ row.receipt = "none"
      /\ row.claimedAt = 0 /\ row.plugin = "image" /\ row.at = 0
  BY <1>2 DEF NewTask, LongTask
<1> HIDE DEF row
<1> QED BY <1>1, <1>3, TaskCreated

LEMMA TasksStep ==
    ASSUME TasksInv, [TasksNext]_taskVars
    PROVE  TasksInv'
<1>1. CASE TasksNext
 <2>1. ASSUME NEW run \in Runs, CreateAlarm(run) \/ CreateImageTask(run) PROVE TasksInv'
   BY <2>1, CreateAlarmKeeps, CreateImageTaskKeeps
 <2>2. CASE ProcessTimers \/ TimePasses \/ StartWalk \/ NextPage
   BY <2>2, TimersKeep, TimePassesKeeps, StartWalkKeeps, NextPageKeeps
 <2>3. ASSUME NEW t \in DOMAIN tasks,
              \/ FinishTask(t) \/ AdminCancelAlarm(t)
              \/ ClaimReceipt(t) \/ SettleReceipt(t)
       PROVE  TasksInv'
   BY <2>3, FinishKeeps, AdminCancelKeeps, ClaimKeeps, SettleKeeps
 <2>4. ASSUME NEW t \in DOMAIN tasks, NEW caller \in Users \cup {NoUser},
              NEW room \in Rooms, DeleteAlarm(caller, room, t)
       PROVE  TasksInv'
   BY <2>4, DeleteKeeps
 <2> QED BY <1>1, <2>1, <2>2, <2>3, <2>4 DEF TasksNext
<1>2. CASE UNCHANGED taskVars
 <2>1. UNCHANGED tasks /\ UNCHANGED now /\ UNCHANGED cancelled /\ UNCHANGED claims
       /\ UNCHANGED walk
   BY <1>2 DEF taskVars
 <2>2. RowsTyped /\ WalkSound  BY DEF TasksInv
 <2>4. walk' = Touched({})
  <3> QED BY <2>1, <2>2 DEF Touched, NoWalk, WalkSound
 <2> QED BY <2>1, RowsKept, <2>2, RowTypes, <2>4, WalkKept DEF RowsTyped
<1> QED BY <1>1, <1>2

\* long-tasks.ts with the alarm plugin and its list: what was cancelled is never
\* delivered, the rest once and not before its time; an agent cancels what it is
\* shown and nothing else; the quota holds; the operator's pages show each alarm
\* that did not change exactly once.
THEOREM TasksEnd ==
    TasksSpec => []TasksEndOnce
<1>1. TasksInv => TasksEndOnce
 <2> SUFFICES ASSUME TasksInv PROVE TasksEndOnce  OBVIOUS
 <2>1. RowsTyped /\ WalkSound /\ AlarmQuotaHolds  BY DEF TasksInv
 <2>2. TasksTypeOK
  <3> QED BY <2>1 DEF TasksTypeOK, RowsTyped, WalkSound, NoWalk, TasksInv, TaskSound
 <2>3. CancelOrDeliverOnce
  <3>2. ASSUME NEW t \in DOMAIN tasks
        PROVE  /\ claims[t] <= 1
               /\ claims[t] = 1 /\ tasks[t].at # 0 => tasks[t].at <= tasks[t].claimedAt
    BY DEF TasksInv, TaskSound
  <3> QED BY <3>2 DEF CancelOrDeliverOnce, TasksInv, CancelSound
 <2>4. DeletesWhatItLists
  <3> QED BY DEF DeletesWhatItLists, ListedTo, MayDelete, Cancellable, TasksInv, CancelSound
 <2> QED BY <2>1, <2>2, <2>3, <2>4 DEF TasksEndOnce, WalkSound, WalkListsEachOnce, NoWalk
<1> QED BY <1>1, TasksInitial, TasksStep, PTL DEF TasksSpec

-----------------------------------------------------------------------------
(* Stickers: the inductive invariant.                                         *)

\* An active sticker was in its set when Telegram last answered for it, and what
\* is in the search was analysed.
StickerSound(s) ==
    /\ catalogue[s].active =>
           catalogue[s].set \in Sets /\ s \in shown[catalogue[s].set]
    /\ s \in search => catalogue[s].index = "success"

\* What the process has configured is what the table says; the indexer's sticker
\* is running.
StickersInv ==
    /\ StickersTypeOK /\ shown \in [Sets -> SUBSET Stickers]
    /\ lifecycle # "down" => approved = configured
    /\ indexer # "none" => catalogue[indexer].index = "running"
    /\ \A s \in Stickers : StickerSound(s)

LEMMA StickersStart == StickersInit => StickersInv
<1> SUFFICES ASSUME StickersInit PROVE StickersInv  OBVIOUS
<1> QED BY StickerAssumption DEF StickersInit, StickersInv, StickerSound, StickersTypeOK, Row

\* Rows that keep, or lose, what the invariant asks of them.
LEMMA StickersKept ==
    ASSUME StickersInv, UNCHANGED shown, search' \subseteq search,
           catalogue' \in [Stickers -> Row],
           \A s \in Stickers : /\ catalogue'[s].active =>
                                      catalogue[s].active /\ catalogue'[s].set = catalogue[s].set
                               /\ s \in search' => catalogue'[s].index = "success"
    PROVE  \A s \in Stickers : StickerSound(s)'
<1> SUFFICES ASSUME NEW s \in Stickers PROVE StickerSound(s)'  OBVIOUS
<1> QED BY DEF StickerSound, StickersInv

LEMMA StartStickersKeeps ==
    ASSUME StickersInv, StartStickers PROVE StickersInv'
<1>1. PICK sets \in SUBSET Sets :
          /\ lifecycle = "down" /\ lifecycle' = "sync"
          /\ approved' = sets /\ configured' = sets
          /\ catalogue' = Unapprove(sets)
          /\ search' = {s \in search : catalogue[s].set \in sets}
          /\ todo' = sets
          /\ UNCHANGED <<telegram, indexer, shown>>
  BY DEF StartStickers
<1>2. StickersTypeOK /\ shown \in [Sets -> SUBSET Stickers]  BY DEF StickersInv
<1>3. ASSUME NEW s \in Stickers
      PROVE  /\ catalogue'[s] \in Row /\ catalogue'[s].index = catalogue[s].index
             /\ catalogue'[s].set = catalogue[s].set
             /\ catalogue'[s].active => catalogue[s].active
 <2> QED BY <1>2, <1>1 DEF Row, StickersTypeOK, Unapprove
<1>4. catalogue' \in [Stickers -> Row]  BY <1>1, <1>3 DEF Unapprove
<1>8. indexer' # "none" => catalogue'[indexer'].index = "running"
  BY <1>1, <1>2, <1>3 DEF StickersInv, StickersTypeOK
<1> QED
  BY <1>1, <1>2, <1>8, <1>4, <1>3, StickersKept DEF StickersInv,
    StickersTypeOK, StickerSound

LEMMA SyncSetKeeps ==
    ASSUME StickersInv, NEW set \in Sets, SyncSet(set) PROVE StickersInv'
<1>1. /\ lifecycle = "sync" /\ todo' = todo \ {set}
      /\ UNCHANGED <<telegram, approved, configured, lifecycle, indexer, starts>>
  BY DEF SyncSet
<1>2. StickersTypeOK /\ shown \in [Sets -> SUBSET Stickers]  BY DEF StickersInv
<1>3. CASE UNCHANGED <<catalogue, search, shown>>
  BY <1>1, <1>2, <1>3 DEF StickersInv, StickersTypeOK, StickerSound
<1>4. CASE ~ UNCHANGED <<catalogue, search, shown>>
 <2> DEFINE held == {s \in Stickers : telegram[s] = set}
 <2>1. /\ catalogue' = SetResponse(set, held)
       /\ shown' = [shown EXCEPT ![set] = held]
       /\ search' = {s \in search : catalogue'[s].set = set => catalogue'[s].active}
   BY <1>4 DEF SyncSet
 <2>2. held \subseteq Stickers  OBVIOUS
 <2> HIDE DEF held
 <2>3. ASSUME NEW s \in Stickers
       PROVE  /\ catalogue'[s] \in Row /\ catalogue'[s].index = catalogue[s].index
              /\ s \in held => catalogue'[s].set = set
              /\ s \notin held =>
                     /\ catalogue'[s].set = catalogue[s].set
                     /\ catalogue'[s].active =>
                            catalogue[s].active /\ catalogue[s].set # set
  <3>1. catalogue[s] \in Row  BY <1>2 DEF StickersTypeOK
  <3>2. CASE s \in held
   <4> QED BY <3>1, <3>2, <2>1 DEF Row, SetResponse
  <3>3. CASE s \notin held /\ catalogue[s].set = set
   <4> QED BY <3>1, <3>3, <2>1 DEF Row, SetResponse
  <3>4. CASE s \notin held /\ catalogue[s].set # set
   <4> QED BY <3>1, <3>4, <2>1 DEF SetResponse
  <3> QED BY <3>2, <3>3, <3>4
 <2>6. StickersTypeOK'  BY <1>1, <1>2, <2>1, <2>3 DEF StickersTypeOK, SetResponse
 <2>7. ASSUME NEW s \in Stickers PROVE StickerSound(s)'
  <3>1. StickerSound(s)  BY DEF StickersInv
  <3>3. catalogue'[s].active => catalogue'[s].set \in Sets /\ s \in shown'[catalogue'[s].set]
   <4>1. CASE s \in held  BY <1>2, <2>1, <2>3, <4>1
   <4>2. CASE s \notin held  BY <1>2, <2>1, <2>3, <3>1, <4>2 DEF StickerSound
   <4> QED BY <4>1, <4>2
  <3> QED BY <3>3, <2>1, <2>3, <3>1 DEF StickerSound
 <2> QED BY <1>1, <2>6, <2>7, <1>2, <2>3, <2>1, <2>2 DEF StickersInv, StickersTypeOK
<1> QED BY <1>3, <1>4

\* One row gets another index state.
LEMMA IndexStateKeeps ==
    ASSUME StickersInv, NEW s \in Stickers, NEW row \in Row,
           catalogue' = [catalogue EXCEPT ![s] = row],
           row.active = catalogue[s].active, row.set = catalogue[s].set,
           telegram' = telegram, configured' = configured, todo' = todo, shown' = shown,
           lifecycle' \in {"down", lifecycle}, approved' \subseteq Sets,
           approved' = approved \/ lifecycle' = "down",
           row.index = "success" \/ s \notin search,
           search' = search \/ (search' = search \cup {s} /\ row.index = "success"),
           indexer' \in Stickers \cup {"none"},
           indexer' # "none" => indexer' = s /\ row.index = "running"
    PROVE  StickersInv'
<1>1. StickersTypeOK /\ shown \in [Sets -> SUBSET Stickers]  BY DEF StickersInv
<1>2. /\ catalogue' \in [Stickers -> Row] /\ catalogue'[s] = row
      /\ \A u \in Stickers : u # s => catalogue'[u] = catalogue[u]
  BY <1>1 DEF StickersTypeOK
<1>4. ASSUME NEW u \in Stickers PROVE StickerSound(u)'
 <2>1. StickerSound(u) /\ StickerSound(s)  BY DEF StickersInv
 <2>2. CASE u = s  BY <1>2, <2>1, <2>2 DEF StickerSound
 <2>3. CASE u # s  BY <1>2, <2>1, <2>3 DEF StickerSound
 <2> QED BY <2>2, <2>3
<1>6. indexer' # "none" => catalogue'[indexer'].index = "running"  BY <1>2
<1> QED BY <1>1, <1>4, <1>6, <1>2 DEF StickersInv, StickersTypeOK

LEMMA RunningIsNotFound ==
    ASSUME StickersInv, NEW s \in Stickers, catalogue[s].index # "success"
    PROVE  s \notin search
BY DEF StickersInv, StickerSound

LEMMA TakeStickerKeeps ==
    ASSUME StickersInv, NEW s \in Stickers, TakeSticker(s) PROVE StickersInv'
<1> DEFINE row == [catalogue[s] EXCEPT !.index = "running"]
<1>1. /\ catalogue[s].index \in {"pending", "error"} /\ indexer' = s
      /\ catalogue' = [catalogue EXCEPT ![s].index = "running"]
      /\ UNCHANGED <<telegram, approved, configured, search, todo, lifecycle, starts, shown>>
  BY DEF TakeSticker, Eligible
<1>2. catalogue \in [Stickers -> Row] /\ approved \subseteq Sets
  BY DEF StickersInv, StickersTypeOK
<1>3. /\ row \in Row /\ row.index = "running" /\ row.active = catalogue[s].active
      /\ row.set = catalogue[s].set /\ catalogue' = [catalogue EXCEPT ![s] = row]
  BY <1>1, <1>2 DEF Row
<1>4. s \notin search  BY <1>1, RunningIsNotFound
<1> HIDE DEF row
<1> QED BY <1>3, IndexStateKeeps, <1>1, <1>2, <1>4 DEF row

LEMMA PublishKeeps ==
    ASSUME StickersInv, NEW s \in Stickers, PublishIndex(s) PROVE StickersInv'
<1> DEFINE row == [catalogue[s] EXCEPT !.index = "success", !.failures = 0, !.due = TRUE]
<1>1. /\ indexer' = "none" /\ search' = search \cup {s}
      /\ catalogue' = [catalogue EXCEPT ![s].index = "success", ![s].failures = 0,
                                        ![s].due = TRUE]
      /\ UNCHANGED <<telegram, approved, configured, todo, lifecycle, starts, shown>>
  BY DEF PublishIndex
<1>2. catalogue \in [Stickers -> Row] /\ approved \subseteq Sets /\ MaxFailures \in Nat
  BY StickerAssumption DEF StickersInv, StickersTypeOK
<1>3. /\ row \in Row /\ row.index = "success" /\ row.active = catalogue[s].active
      /\ row.set = catalogue[s].set
 <2>1. catalogue[s] \in Row /\ 0 \in 0..MaxFailures  BY <1>2
 <2> QED BY <2>1 DEF Row
<1>4. catalogue' = [catalogue EXCEPT ![s] = row]  BY <1>1
<1> HIDE DEF row
<1> QED BY <1>3, IndexStateKeeps, <1>1, <1>2, <1>4 DEF row

LEMMA FailedRowIs ==
    ASSUME NEW row \in Row, row.failures < MaxFailures
    PROVE  /\ FailedRow(row) \in Row /\ FailedRow(row).index = "error"
           /\ FailedRow(row).active = row.active /\ FailedRow(row).set = row.set
<1>2. row.failures + 1 \in 0..MaxFailures  BY StickerAssumption DEF Row
<1> QED BY <1>2 DEF FailedRow, Row

LEMMA FailKeeps ==
    ASSUME StickersInv, NEW s \in Stickers, FailIndex(s) PROVE StickersInv'
<1> DEFINE row == FailedRow(catalogue[s])
<1>1. /\ indexer = s /\ catalogue[s].failures < MaxFailures /\ indexer' = "none"
      /\ catalogue' = [catalogue EXCEPT ![s] = row]
      /\ UNCHANGED <<telegram, approved, configured, search, todo, lifecycle, starts, shown>>
  BY DEF FailIndex
<1>2. catalogue \in [Stickers -> Row] /\ approved \subseteq Sets
  BY DEF StickersInv, StickersTypeOK
<1>3. /\ row \in Row /\ row.index = "error" /\ row.active = catalogue[s].active
      /\ row.set = catalogue[s].set
  BY <1>1, <1>2, FailedRowIs
<1>4. s \notin search
 <2> QED BY RunningIsNotFound, <1>1, StickerAssumption DEF StickersInv
<1> HIDE DEF row
<1> QED BY <1>3, IndexStateKeeps, <1>1, <1>2, <1>4 DEF row

LEMMA RetryDueKeeps ==
    ASSUME StickersInv, NEW s \in Stickers, RetryDue(s) PROVE StickersInv'
<1>1. /\ catalogue' = [catalogue EXCEPT ![s].due = TRUE]
      /\ UNCHANGED <<telegram, approved, configured, search, todo, lifecycle, indexer,
                     starts, shown>>
  BY DEF RetryDue
<1>2. StickersTypeOK /\ shown \in [Sets -> SUBSET Stickers]  BY DEF StickersInv
<1>4. \A u \in Stickers : /\ catalogue'[u].active = catalogue[u].active
                          /\ catalogue'[u].set = catalogue[u].set
                          /\ catalogue'[u].index = catalogue[u].index
  BY <1>1, <1>2 DEF StickersTypeOK, Row
<1>6. StickersTypeOK'  BY <1>1, <1>2 DEF StickersTypeOK, Row
<1>7. indexer' # "none" => catalogue'[indexer'].index = "running"
  BY <1>1, <1>2, <1>4 DEF StickersInv, StickersTypeOK
<1> QED BY <1>1, <1>2, <1>6, <1>7, <1>4 DEF StickersInv, StickerSound

LEMMA StopKeeps ==
    ASSUME StickersInv, Stop PROVE StickersInv'
<1>1. /\ indexer # "none" => catalogue[indexer].failures < MaxFailures
      /\ lifecycle' = "down" /\ indexer' = "none" /\ approved' = {}
      /\ indexer = "none" => catalogue' = catalogue
      /\ indexer # "none" =>
             catalogue' = [catalogue EXCEPT ![indexer] = FailedRow(catalogue[indexer])]
      /\ UNCHANGED <<telegram, configured, search, todo, starts, shown>>
  BY DEF Stop
<1>2. StickersTypeOK  BY DEF StickersInv
<1>3. CASE indexer = "none"  BY <1>1, <1>2, <1>3 DEF StickersInv, StickersTypeOK, StickerSound
<1>4. CASE indexer # "none"
 <2>1. PICK s \in Stickers : s = indexer  BY <1>2, <1>4 DEF StickersTypeOK
 <2> DEFINE row == FailedRow(catalogue[s])
 <2>3. s \notin search
  <3> QED BY RunningIsNotFound, <1>4, <2>1 DEF StickersInv
 <2> HIDE DEF row
 <2>5. /\ telegram' = telegram /\ configured' = configured /\ todo' = todo /\ shown' = shown
       /\ lifecycle' = "down" /\ approved' \subseteq Sets /\ search' = search
       /\ indexer' = "none"
   BY <1>1
 <2> QED BY <2>3, <2>5, IndexStateKeeps, <1>1, <1>2, <1>4, <2>1, FailedRowIs DEF StickersTypeOK
<1> QED BY <1>3, <1>4

LEMMA StickersStep ==
    ASSUME StickersInv, [StickersNext]_stickerVars PROVE StickersInv'
<1>1. CASE StartWorker \/ CrashIndexer \/ UNCHANGED stickerVars
 <2>1. UNCHANGED <<configured, catalogue, search, shown, telegram>>
   BY <1>1 DEF StartWorker, CrashIndexer, stickerVars
 <2>4. \A s \in Stickers : StickerSound(s)'  BY <2>1 DEF StickersInv, StickerSound
 <2> QED
   BY <2>1, <2>4, <1>1 DEF StickersInv, StickersTypeOK, StartWorker,
     CrashIndexer, stickerVars
<1>2. CASE EditSets
 <2> QED BY <1>2 DEF StickersInv, StickersTypeOK, StickerSound, EditSets
<1>3. CASE StartStickers \/ Stop  BY <1>3, StartStickersKeeps, StopKeeps
<1>4. ASSUME NEW set \in Sets, SyncSet(set) PROVE StickersInv'  BY <1>4, SyncSetKeeps
<1>5. ASSUME NEW s \in Stickers,
             TakeSticker(s) \/ PublishIndex(s) \/ FailIndex(s) \/ RetryDue(s)
      PROVE  StickersInv'
  BY <1>5, TakeStickerKeeps, PublishKeeps, FailKeeps, RetryDueKeeps
<1> QED BY <1>1, <1>2, <1>3, <1>4, <1>5 DEF StickersNext

\* stickers.ts #applyStickerSet, #search: whatever sets came and went or failed
\* to answer, and wherever the process was killed, a search finds only stickers
\* with an analysis, of a set that is approved, which had them when Telegram last
\* answered.
THEOREM SearchFindsApproved ==
    StickersSpec => []SearchIsApproved
<1>1. StickersInv => SearchIsApproved
 <2> SUFFICES ASSUME StickersInv PROVE SearchIsApproved  OBVIOUS
 <2>1. StickersTypeOK  BY DEF StickersInv
 <2>2. ASSUME lifecycle = "up", NEW s \in Findable
       PROVE  /\ catalogue[s].set \in approved
              /\ catalogue[s].index = "success"
              /\ s \in shown[catalogue[s].set]
  <3> QED BY <2>2, <2>1 DEF StickerSound, StickersInv, Findable, StickersTypeOK
 <2> QED BY <2>1, <2>2 DEF SearchIsApproved, FindsOnlyApproved
<1> QED BY <1>1, StickersStart, StickersStep, PTL DEF StickersSpec

=============================================================================
