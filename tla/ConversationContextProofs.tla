--------------------- MODULE ConversationContextProofs ---------------------
(***************************************************************************)
(* Proofs about the continuous context of ConversationContext, for every   *)
(* set of batches, retention target, bound and prompt.                     *)
(*                                                                         *)
(* ContextInv is the inductive invariant.  Its heart is that the store is  *)
(* ordered: the rows below the head are evicted, those between head and    *)
(* next are not, and there are none after.  What a header sees is then an  *)
(* interval, and an agent that shows an interval of rows, each once and in *)
(* order, still does so after a row is appended or a prefix collected.     *)
(* Neither the transcript's being renderable nor the authority of a round  *)
(* is inductive alone: the first needs the call that pending results       *)
(* answer to be in the transcript, the second that the run's batch is the  *)
(* last one there, and the references of what is retained need the batch   *)
(* being loaded to be new.                                                 *)
(***************************************************************************)
EXTENDS ConversationContext, FiniteSetTheorems, WellFoundedInduction, TLAPS

-----------------------------------------------------------------------------
(* Sets of numbers.                                                        *)

\* Every set of naturals with an element has a least one.
LEMMA LeastNat ==
    ASSUME NEW T \in SUBSET Nat, T # {}
    PROVE  \E x \in T : \A y \in T : x <= y
<1>1. PICK x \in T : \A y \in T : ~ (<<y, x>> \in OpToRel(<, Nat))
  BY WFMin, NatLessThanWellFounded
<1>2. \A y \in T : ~ (y < x)  BY <1>1 DEF OpToRel
<1> QED BY <1>2

\* Below a bound it has a greatest one, which Max chooses.
LEMMA MaxNat ==
    ASSUME NEW N \in Nat, NEW T \in SUBSET 0..N, T # {}
    PROVE  Max(T) \in T /\ \A y \in T : Max(T) >= y
<1> DEFINE D == {n \in Nat : N - n \in T}
<1>1. D # {} /\ D \in SUBSET Nat
 <2>1. PICK y \in T : TRUE  OBVIOUS
 <2>2. N - y \in D  BY <2>1
 <2> QED BY <2>2
<1>2. PICK d \in D : \A e \in D : d <= e  BY <1>1, LeastNat
<1>3. ASSUME NEW y \in T PROVE N - d >= y
 <2>1. N - y \in D  OBVIOUS
 <2> QED BY <1>2, <2>1
<1>4. \E x \in T : \A y \in T : x >= y  BY <1>2, <1>3
<1> QED BY <1>4 DEF Max

\* Min chooses the least.
LEMMA MinNat ==
    ASSUME NEW T \in SUBSET Nat, T # {}
    PROVE  Min(T) \in T /\ \A y \in T : Min(T) <= y
BY LeastNat DEF Min

-----------------------------------------------------------------------------
(* Transcripts.                                                            *)

Transcripts == Seq(0..MaxSeq)
Store == [Seqs -> Row]

\* What an agent is given from the store: rows, each once, in order.
LEMMA ShowsOnce ==
    ASSUME NEW t \in Transcripts, NEW R, Shows(t, R),
           NEW i \in DOMAIN t, NEW j \in DOMAIN t, t[i] = t[j], t[i] # 0
    PROVE  i = j
<1>1. t[i] \in Nat /\ i \in Nat /\ j \in Nat  BY ContextAssumptions DEF Transcripts
<1> QED BY <1>1 DEF Shows

\* A row past the end continues the transcript.
LEMMA ShowsAppend ==
    ASSUME NEW t \in Transcripts, NEW a \in Nat, NEW b \in Seqs, a <= b,
           Shows(t, a..(b - 1))
    PROVE  Shows(Append(t, b), a..b)
<1> DEFINE u == Append(t, b)
           n == Len(t)
<1>1. /\ n \in Nat /\ DOMAIN t = 1..n /\ DOMAIN u = 1..(n + 1)
      /\ u[n + 1] = b /\ \A i \in 1..n : u[i] = t[i]
      /\ b \in Nat /\ b # 0
  BY ContextAssumptions DEF Transcripts, Seqs
<1>2. \A i \in 1..n : t[i] \in Nat /\ (t[i] # 0 => t[i] \in a..(b - 1))
  BY <1>1, ContextAssumptions DEF Shows, Transcripts
<1> DEFINE kt == {i \in DOMAIN t : t[i] # 0}
           ku == {i \in DOMAIN u : u[i] # 0}
<1>3. {t[i] : i \in kt} = a..(b - 1) /\ \A i, j \in kt : i < j => t[i] < t[j]  BY DEF Shows
<1>4. ku = kt \cup {n + 1}  BY <1>1
<1>5. ASSUME NEW i \in ku, NEW j \in ku, i < j PROVE u[i] < u[j]
 <2>1. CASE j = n + 1  BY <1>1, <1>2, <1>4, <1>5, <2>1
 <2>2. CASE j # n + 1  BY <1>1, <1>3, <1>4, <1>5, <2>2
 <2> QED BY <2>1, <2>2
<1>6. ASSUME NEW x \in a..b PROVE \E i \in ku : u[i] = x
 <2>1. CASE x = b  BY <1>1, <1>4, <2>1
 <2>2. CASE x # b
  <3>1. x \in a..(b - 1)  BY <2>2, <1>1
  <3>2. PICK i \in kt : t[i] = x  BY <1>3, <3>1
  <3> QED BY <1>1, <1>4, <3>2
 <2> QED BY <2>1, <2>2
<1>7. ASSUME NEW i \in ku PROVE u[i] \in a..b  BY <1>1, <1>2, <1>4
<1> HIDE DEF u, ku
<1>8. {u[i] : i \in ku} = a..b  BY <1>6, <1>7
<1> QED BY <1>5, <1>8 DEF Shows, u, ku

\* A message that is not persisted changes nothing of what is shown.
LEMMA ShowsNothing ==
    ASSUME NEW t \in Transcripts, NEW R, Shows(t, R)
    PROVE  Shows(Append(t, 0), R)
<1> DEFINE u == Append(t, 0)
           n == Len(t)
           kt == {i \in DOMAIN t : t[i] # 0}
           ku == {i \in DOMAIN u : u[i] # 0}
<1>1. /\ n \in Nat /\ DOMAIN t = 1..n /\ DOMAIN u = 1..(n + 1)
      /\ u[n + 1] = 0 /\ \A i \in 1..n : u[i] = t[i]
  BY ContextAssumptions DEF Transcripts
<1>2. ku = kt /\ \A i \in kt : u[i] = t[i]  BY <1>1
<1> HIDE DEF u
<1>3. {u[i] : i \in ku} = {t[i] : i \in kt}  BY <1>2
<1> QED BY <1>2, <1>3 DEF Shows

\* From a row it shows on, it shows the rows from that one on.
LEMMA ShowsSuffix ==
    ASSUME NEW t \in Transcripts, NEW a \in Nat, NEW b \in Nat,
           Shows(t, a..b), NEW i \in DOMAIN t, t[i] # 0
    PROVE  /\ SubSeq(t, i, Len(t)) \in Transcripts
           /\ Shows(SubSeq(t, i, Len(t)), t[i]..b)
<1> DEFINE u == SubSeq(t, i, Len(t))
           n == Len(t)
           kt == {j \in DOMAIN t : t[j] # 0}
           ku == {j \in DOMAIN u : u[j] # 0}
<1>1. /\ n \in Nat /\ i \in 1..n /\ DOMAIN t = 1..n
      /\ \A j \in 1..n : t[j] \in 0..MaxSeq
  BY ContextAssumptions DEF Transcripts
<1>2. /\ u \in Transcripts /\ DOMAIN u = 1..(n - i + 1)
      /\ \A j \in 1..(n - i + 1) : u[j] = t[j + i - 1]
  BY <1>1 DEF Transcripts
<1>3. {t[j] : j \in kt} = a..b /\ \A j, k \in kt : j < k => t[j] < t[k]  BY DEF Shows
<1>4. \A j \in ku : j + i - 1 \in kt /\ u[j] = t[j + i - 1]  BY <1>1, <1>2
<1>5. \A j \in kt : j >= i => j - i + 1 \in ku /\ u[j - i + 1] = t[j]  BY <1>1, <1>2
<1>6. ASSUME NEW j \in ku, NEW k \in ku, j < k PROVE u[j] < u[k]
  BY <1>1, <1>2, <1>3, <1>4, <1>6
<1>7. ASSUME NEW j \in ku PROVE u[j] \in t[i]..b
 <2>1. t[j + i - 1] \in a..b  BY <1>3, <1>4
 <2>2. j + i - 1 >= i /\ i \in kt  BY <1>1, <1>2
 <2>3. t[j + i - 1] >= t[i]
  <3>1. CASE j = 1  BY <3>1, <1>1, <2>1
  <3>2. CASE j # 1
   <4>1. i < j + i - 1  BY <1>1, <1>2, <3>2
   <4>2. t[i] < t[j + i - 1]  BY <1>3, <1>4, <2>2, <4>1
   <4> QED BY <1>1, <2>1, <4>2
  <3> QED BY <3>1, <3>2
 <2> QED BY <1>1, <1>4, <2>1, <2>3
<1>8. ASSUME NEW x \in t[i]..b PROVE \E j \in ku : u[j] = x
 <2>1. t[i] \in a..b  BY <1>3
 <2>2. x \in a..b  BY <2>1
 <2>3. PICK j \in kt : t[j] = x  BY <1>3, <2>2
 <2>4. j >= i  BY <1>1, <1>3, <2>1, <2>3
 <2> QED BY <1>5, <2>3, <2>4
<1> HIDE DEF u, ku
<1>9. {u[j] : j \in ku} = t[i]..b  BY <1>7, <1>8
<1>10. Shows(u, t[i]..b)  BY <1>6, <1>9 DEF Shows, ku
<1> QED BY <1>2, <1>10 DEF u

\* The rows of an interval, by rank, are the interval in order.
LEMMA RetainedInterval ==
    ASSUME NEW rs, NEW h, NEW a \in Nat \ {0}, NEW b \in 0..MaxSeq,
           RetainedRange(rs, h) = a..b
    PROVE  /\ Retained(rs, h) \in Transcripts
           /\ Shows(Retained(rs, h), a..b)
           /\ a > b => Retained(rs, h) = <<>>
           /\ \A i \in DOMAIN Retained(rs, h) : Retained(rs, h)[i] \in a..b
<1> DEFINE n == IF a > b THEN 0 ELSE b - a + 1
           c(i) == CHOOSE s \in a..b : Cardinality({t \in a..b : t < s}) = i - 1
           f == [i \in 1..n |-> c(i)]
<1>1. Cardinality(a..b) = n /\ n \in Nat /\ b \in Nat  BY FS_Interval, ContextAssumptions
<1>2. Retained(rs, h) = f  BY <1>1 DEF Retained
<1>3. ASSUME NEW s \in a..b PROVE Cardinality({t \in a..b : t < s}) = s - a
 <2> DEFINE S == {t \in a..b : t < s}
            T == a..(s - 1)
 <2>1. S = T  BY <1>1
 <2>2. Cardinality(T) = IF a > s - 1 THEN 0 ELSE (s - 1) - a + 1  BY FS_Interval, <1>1
 <2>3. (IF a > s - 1 THEN 0 ELSE (s - 1) - a + 1) = s - a  BY <1>1
 <2>4. Cardinality(S) = s - a
  <3> HIDE DEF S, T
  <3> QED BY <2>1, <2>2, <2>3
 <2> QED BY <2>4
<1>4. ASSUME NEW i \in 1..n PROVE f[i] = a + i - 1 /\ a + i - 1 \in a..b
 <2>1. a + i - 1 \in a..b  BY <1>1
 <2>2. \A s \in a..b : Cardinality({t \in a..b : t < s}) = i - 1 <=> s = a + i - 1
   BY <1>3, <1>1
 <2>3. f[i] = c(i)  OBVIOUS
 <2> QED BY <2>1, <2>2, <2>3
<1>5. DOMAIN f = 1..n /\ f \in Seq(0..MaxSeq)
 <2>1. ASSUME NEW i \in 1..n PROVE f[i] \in 0..MaxSeq
  <3>1. f[i] \in a..b  BY <1>4
  <3> HIDE DEF f
  <3> QED BY <3>1, <1>1, ContextAssumptions
 <2>2. \A i \in 1..n : c(i) \in 0..MaxSeq  BY <2>1
 <2>3. f \in Seq(0..MaxSeq)
  <3> HIDE DEF c, n
  <3> QED BY <1>1, <2>2
 <2> QED BY <2>3
<1> HIDE DEF f
<1>6. {i \in DOMAIN f : f[i] # 0} = 1..n  BY <1>4, <1>5
<1>7. {f[i] : i \in 1..n} = a..b
 <2>1. ASSUME NEW x \in a..b PROVE \E i \in 1..n : f[i] = x
  <3>1. x - a + 1 \in 1..n /\ a + (x - a + 1) - 1 = x  BY <1>1
  <3> QED BY <3>1, <1>4
 <2> QED BY <1>4, <2>1
<1>8. \A i, j \in 1..n : i < j => f[i] < f[j]  BY <1>4, <1>1
<1>9. Shows(f, a..b)  BY <1>6, <1>7, <1>8 DEF Shows
<1>10. a > b => f = <<>>
 <2> SUFFICES ASSUME a > b PROVE f = <<>>  OBVIOUS
 <2>1. f \in Seq(0..MaxSeq) /\ DOMAIN f = 1..0  BY <1>5
 <2>2. Len(f) = 0  BY <2>1
 <2> QED BY <2>1, <2>2
<1> QED BY <1>2, <1>4, <1>5, <1>9, <1>10 DEF Transcripts

-----------------------------------------------------------------------------
(* Renderable transcripts, and whose batches they hold.                    *)

\* Two stores tell the same of the rows of a transcript.
SameStory(rs1, rs2, t) ==
    \A i \in DOMAIN t : t[i] # 0 =>
        /\ rs1[t[i]].role = rs2[t[i]].role
        /\ rs1[t[i]].answers = rs2[t[i]].answers
        /\ rs1[t[i]].batch = rs2[t[i]].batch

\* Being renderable is a matter of the rows of the transcript alone.
LEMMA RenderableSame ==
    ASSUME NEW t \in Transcripts, NEW rs1, NEW rs2, SameStory(rs1, rs2, t),
           IsRenderable(rs1, t)
    PROVE  IsRenderable(rs2, t)
<1>1. DOMAIN t = 1..Len(t) /\ Len(t) \in Nat /\ t # <<>>  BY DEF Transcripts, IsRenderable
<1>2. 1 \in DOMAIN t  BY <1>1 DEF Transcripts
<1> QED BY <1>1, <1>2 DEF SameStory, IsRenderable

\* A user turn alone is renderable.
LEMMA RenderableFirst ==
    ASSUME NEW rs, NEW s \in Seqs, rs[s].role = "user"
    PROVE  IsRenderable(rs, Append(<<>>, s))
<1>1. Append(<<>>, s) = <<s>> /\ s # 0  BY ContextAssumptions DEF Seqs
<1>2. DOMAIN <<s>> = 1..1 /\ <<s>>[1] = s /\ <<s>> # <<>>  OBVIOUS
<1> QED BY <1>1, <1>2 DEF IsRenderable

\* A message after a renderable transcript leaves it renderable, unless it is a
\* result whose call is not there.
LEMMA RenderableAppend ==
    ASSUME NEW t \in Transcripts, NEW rs, NEW s \in 0..MaxSeq,
           IsRenderable(rs, t),
           s # 0 /\ rs[s].role = "toolResult" =>
               \E j \in DOMAIN t : t[j] = rs[s].answers
    PROVE  IsRenderable(rs, Append(t, s))
<1> DEFINE u == Append(t, s)
           n == Len(t)
<1>1. /\ n \in Nat \ {0} /\ DOMAIN t = 1..n /\ DOMAIN u = 1..(n + 1)
      /\ u[n + 1] = s /\ \A i \in 1..n : u[i] = t[i]
      /\ u # <<>>
 <2>1. t # <<>> /\ Len(t) \in Nat /\ DOMAIN t = 1..Len(t)  BY DEF IsRenderable, Transcripts
 <2>2. n # 0  BY <2>1 DEF Transcripts
 <2>3. u \in Seq(0..MaxSeq) /\ Len(u) = n + 1  BY DEF Transcripts
 <2>4. u # <<>>  BY <2>1, <2>3
 <2> QED BY <2>1, <2>2, <2>3, <2>4 DEF Transcripts
<1>2. u[1] # 0 /\ rs[u[1]].role = "user"  BY <1>1 DEF IsRenderable
<1>3. ASSUME NEW i \in 1..(n + 1), u[i] # 0, rs[u[i]].role = "toolResult"
      PROVE  \E j \in 1..(i - 1) : u[j] = rs[u[i]].answers
 <2>1. CASE i = n + 1
  <3>1. PICK j \in 1..n : t[j] = rs[s].answers  BY <1>1, <1>3, <2>1
  <3>2. j \in 1..(i - 1) /\ u[j] = t[j] /\ u[i] = s  BY <1>1, <2>1
  <3> QED BY <3>1, <3>2
 <2>2. CASE i # n + 1
  <3>1. i \in 1..n /\ u[i] = t[i]  BY <1>1, <2>2
  <3>2. PICK j \in 1..(i - 1) : t[j] = rs[t[i]].answers  BY <1>1, <1>3, <3>1 DEF IsRenderable
  <3>3. u[j] = t[j]  BY <1>1, <3>1, <3>2
  <3> QED BY <3>1, <3>2, <3>3
 <2> QED BY <2>1, <2>2
<1> HIDE DEF u
<1>4. IsRenderable(rs, u)  BY <1>1, <1>2, <1>3 DEF IsRenderable
<1> QED BY <1>4 DEF u

\* So are its senders.
LEMMA SendersSame ==
    ASSUME NEW t, NEW rs1, NEW rs2, SameStory(rs1, rs2, t)
    PROVE  SendersOf(rs1, t) = SendersOf(rs2, t)
BY DEF SameStory, SendersOf, BatchesOf

\* A message adds the batch of its row.
LEMMA SendersAppend ==
    ASSUME NEW t \in Transcripts, NEW rs, NEW s \in 0..MaxSeq
    PROVE  SendersOf(rs, Append(t, s)) =
               SendersOf(rs, t) \cup
                   (IF s = 0 THEN {} ELSE {rs[s].batch} \ ({None} \cup Completions))
<1> DEFINE u == Append(t, s)
           n == Len(t)
<1>1. /\ n \in Nat /\ DOMAIN t = 1..n /\ DOMAIN u = 1..(n + 1)
      /\ u[n + 1] = s /\ \A i \in 1..n : u[i] = t[i]
  BY DEF Transcripts
<1> HIDE DEF u
<1>2. BatchesOf(rs, u) = BatchesOf(rs, t) \cup (IF s = 0 THEN {} ELSE {rs[s].batch} \ {None})
 <2>1. ASSUME NEW x \in BatchesOf(rs, u)
       PROVE  x \in BatchesOf(rs, t) \/ (s # 0 /\ x = rs[s].batch)
  <3>1. PICK i \in 1..(n + 1) : u[i] # 0 /\ x = rs[u[i]].batch /\ x # None
    BY <1>1 DEF BatchesOf
  <3>2. CASE i = n + 1  BY <1>1, <3>1, <3>2
  <3>3. CASE i # n + 1
   <4>1. i \in 1..n /\ u[i] = t[i]  BY <1>1, <3>3
   <4> QED BY <1>1, <3>1, <4>1 DEF BatchesOf
  <3> QED BY <3>2, <3>3
 <2>2. ASSUME NEW x \in BatchesOf(rs, t) PROVE x \in BatchesOf(rs, u)
  <3>1. PICK i \in 1..n : t[i] # 0 /\ x = rs[t[i]].batch /\ x # None  BY <1>1 DEF BatchesOf
  <3>2. i \in 1..(n + 1) /\ u[i] = t[i]  BY <1>1
  <3> QED BY <1>1, <3>1, <3>2 DEF BatchesOf
 <2>3. ASSUME s # 0, rs[s].batch # None PROVE rs[s].batch \in BatchesOf(rs, u)
  <3>1. n + 1 \in DOMAIN u /\ u[n + 1] # 0  BY <1>1, <2>3
  <3> QED BY <1>1, <2>3, <3>1 DEF BatchesOf
 <2>4. \A x \in BatchesOf(rs, u) : x # None  BY DEF BatchesOf
 <2> QED BY <2>1, <2>2, <2>3, <2>4
<1>3. SendersOf(rs, u) = SendersOf(rs, t) \cup
          (IF s = 0 THEN {} ELSE {rs[s].batch} \ ({None} \cup Completions))
  BY <1>2 DEF SendersOf
<1> QED BY <1>3 DEF u

-----------------------------------------------------------------------------
(* The store.                                                              *)

ContextRow == [head : 1..(MaxSeq + 1), next : 1..(MaxSeq + 1),
               sends : 0..MaxSeq, hash : Prompts \cup {None}]
RefTable == [Kinds -> [Batches -> 0..(MaxSeq + 1)]]
RunRecord == [phase : Phases, batch : Batches \cup {None}, open : 0..MaxCalls,
              tools : BOOLEAN, aborted : BOOLEAN, cut : BOOLEAN,
              visible : SUBSET Batches, caller : Batches \cup {None}]

\* The rows below the head are evicted, those from it on are not, there are none
\* from the next one on, and a checkpoint is the row of a batch.
Ordered(r, rs) ==
    /\ r.head <= r.next
    /\ r.sends < r.next
    /\ \A s \in Seqs :
          /\ rs[s].role # "none" <=> s < r.next
          /\ s >= r.next => rs[s] = NoRow
          /\ rs[s].evicted <=> s < r.head
          /\ rs[s].checkpoint <=> rs[s].batch # None
          /\ rs[s].checkpoint => rs[s].role = "user"

\* Another store holds the same messages, whatever is evicted.
SameMessages(rs1, rs2) ==
    \A s \in Seqs :
        /\ rs2[s].role = rs1[s].role
        /\ rs2[s].batch = rs1[s].batch
        /\ rs2[s].calls = rs1[s].calls
        /\ rs2[s].answers = rs1[s].answers
        /\ rs2[s].checkpoint = rs1[s].checkpoint
        /\ rs2[s].send = rs1[s].send
        /\ rs2[s].late = rs1[s].late

\* What a header sees of an ordered store is the interval from its head, or from
\* that of the store where it lags behind.
LEMMA RangeIsInterval ==
    ASSUME NEW r \in ContextRow, NEW rs \in Store, Ordered(r, rs),
           NEW h, h.head \in 1..(MaxSeq + 1), h.head <= r.head
    PROVE  RetainedRange(rs, h) = r.head..(r.next - 1)
<1>1. r.head \in Nat /\ r.next \in Nat /\ r.head >= 1 /\ r.next <= MaxSeq + 1 /\ MaxSeq \in Nat
  BY ContextAssumptions DEF ContextRow
<1>2. \A s \in Seqs : s \in RetainedRange(rs, h) <=> s >= r.head /\ s < r.next
  BY <1>1 DEF RetainedRange, Ordered, Seqs
<1>3. \A s \in r.head..(r.next - 1) : s \in Seqs  BY <1>1 DEF Seqs
<1>4. RetainedRange(rs, h) \subseteq Seqs  BY DEF RetainedRange
<1>5. \A s \in Seqs : s \in r.head..(r.next - 1) <=> s >= r.head /\ s < r.next  BY <1>1 DEF Seqs
<1>6. r.head..(r.next - 1) \subseteq Seqs  BY <1>3
<1> QED BY <1>2, <1>4, <1>5, <1>6

\* Evicting below a later head, and all from the head on.
LEMMA EvictBelowOrdered ==
    ASSUME NEW r \in ContextRow, NEW rs \in Store, Ordered(r, rs),
           NEW target \in Nat, target >= r.head, target <= r.next
    PROVE  /\ EvictBelow(rs, target) \in Store
           /\ [r EXCEPT !.head = target] \in ContextRow
           /\ Ordered([r EXCEPT !.head = target], EvictBelow(rs, target))
           /\ SameMessages(rs, EvictBelow(rs, target))
<1> DEFINE q == [r EXCEPT !.head = target]
           es == EvictBelow(rs, target)
<1>1. /\ r.head \in Nat /\ r.next \in Nat /\ r.head >= 1 /\ r.next <= MaxSeq + 1
      /\ r.sends \in Nat /\ MaxSeq \in Nat
  BY ContextAssumptions DEF ContextRow
<1>2. q \in ContextRow /\ q.head = target /\ q.next = r.next /\ q.sends = r.sends
  BY <1>1 DEF ContextRow
<1>3. \A s \in Seqs : es[s] = IF s < target /\ rs[s].role # "none"
                              THEN [rs[s] EXCEPT !.evicted = TRUE] ELSE rs[s]
  BY DEF EvictBelow
<1>4. es \in Store  BY DEF EvictBelow, Store, Row
<1>5. SameMessages(rs, es)  BY <1>3 DEF SameMessages, Store, Row
<1>6. ASSUME NEW s \in Seqs
      PROVE  /\ es[s].role # "none" <=> s < r.next
             /\ s >= r.next => es[s] = NoRow
             /\ es[s].evicted <=> s < target
             /\ es[s].checkpoint <=> es[s].batch # None
             /\ es[s].checkpoint => es[s].role = "user"
 <2>1. CASE s < target
  <3>1. s < r.next /\ rs[s].role # "none" /\ s \in Nat  BY <1>1, <2>1 DEF Ordered, Seqs
  <3>2. es[s] = [rs[s] EXCEPT !.evicted = TRUE]  BY <1>3, <2>1, <3>1
  <3> QED BY <1>1, <1>5, <2>1, <3>1, <3>2 DEF Ordered, SameMessages, Store, Row
 <2>2. CASE ~(s < target)
  <3>0. s \in Nat  BY <1>1 DEF Seqs
  <3>1. es[s] = rs[s] /\ s \in Nat  BY <1>3, <2>2, <3>0
  <3>2. ~(s < r.head)  BY <1>1, <2>2, <3>1
  <3>3. /\ rs[s].role # "none" <=> s < r.next
        /\ s >= r.next => rs[s] = NoRow
        /\ rs[s].evicted <=> s < r.head
        /\ rs[s].checkpoint <=> rs[s].batch # None
        /\ rs[s].checkpoint => rs[s].role = "user"
    BY DEF Ordered
  <3> QED BY <2>2, <3>1, <3>2, <3>3
 <2> QED BY <2>1, <2>2
<1>7. Ordered(q, es)  BY <1>1, <1>2, <1>6 DEF Ordered
<1> QED BY <1>2, <1>4, <1>5, <1>7

\* Evicting from the head on is evicting below the end.
LEMMA EvictFromOrdered ==
    ASSUME NEW r \in ContextRow, NEW rs \in Store, Ordered(r, rs)
    PROVE  /\ EvictFrom(rs, r.head) = EvictBelow(rs, r.next)
<1>1. r.head \in Nat /\ r.next \in Nat  BY ContextAssumptions DEF ContextRow
<1>2. ASSUME NEW s \in Seqs PROVE EvictFrom(rs, r.head)[s] = EvictBelow(rs, r.next)[s]
 <2>1. s \in Nat /\ rs[s] \in Row  BY DEF Seqs, Store
 <2>2. CASE s < r.head
  <3>1. rs[s].evicted = TRUE /\ s < r.next  BY <1>1, <2>1, <2>2 DEF Ordered, Row
  <3>2. [rs[s] EXCEPT !.evicted = TRUE] = rs[s]  BY <2>1, <3>1 DEF Row
  <3> QED BY <1>1, <2>1, <2>2, <3>1, <3>2 DEF EvictFrom, EvictBelow
 <2>3. CASE ~(s < r.head)
  <3>1. rs[s].role # "none" <=> s < r.next  BY DEF Ordered
  <3> QED BY <1>1, <2>1, <2>3, <3>1 DEF EvictFrom, EvictBelow
 <2> QED BY <2>2, <2>3
<1> QED BY <1>2 DEF EvictFrom, EvictBelow

\* While a batch is retained, its reply reference is no older than its row.
Replied(r, rs, rf) ==
    \A s \in Seqs : (s >= r.head /\ rs[s].checkpoint /\ ~rs[s].late) =>
                        rf["reply"][rs[s].batch] >= s

\* Dropping the references below a head that rises leaves those of what is kept.
LEMMA RefsAboveReplied ==
    ASSUME NEW r \in ContextRow, NEW rs \in Store, NEW rf \in RefTable,
           NEW es \in Store, SameMessages(rs, es), Ordered(r, rs),
           NEW target \in Nat, target >= r.head, Replied(r, rs, rf)
    PROVE  /\ RefsAbove(rf, target) \in RefTable
           /\ Replied([r EXCEPT !.head = target], es, RefsAbove(rf, target))
<1> DEFINE q == [r EXCEPT !.head = target]
<1>1. r.head \in Nat /\ q.head = target /\ MaxSeq \in Nat  BY ContextAssumptions DEF ContextRow
<1>2. RefsAbove(rf, target) \in RefTable
 <2>1. \A k \in Kinds, b \in Batches : rf[k][b] \in 0..(MaxSeq + 1) /\ 0 \in 0..(MaxSeq + 1)
   BY <1>1 DEF RefTable
 <2> QED BY <2>1 DEF RefsAbove, RefTable
<1>3. ASSUME NEW s \in Seqs, s >= q.head, es[s].checkpoint, ~es[s].late
      PROVE  RefsAbove(rf, target)["reply"][es[s].batch] >= s
 <2>1. s \in Nat /\ s >= r.head /\ s >= target  BY <1>1, <1>3 DEF Seqs
 <2>2. /\ rs[s].checkpoint /\ ~rs[s].late /\ es[s].batch = rs[s].batch
       /\ rs[s].batch # None
   BY <1>3 DEF SameMessages, Ordered
 <2>3. rf["reply"][rs[s].batch] >= s  BY <2>1, <2>2 DEF Replied
 <2>4. rs[s].batch \in Batches /\ "reply" \in Kinds  BY <2>2 DEF Store, Row, Kinds
 <2>5. rf["reply"][rs[s].batch] \in Nat  BY <2>4, <1>1 DEF RefTable
 <2>6. RefsAbove(rf, target)["reply"][rs[s].batch] = rf["reply"][rs[s].batch]
   BY <2>1, <2>3, <2>4, <2>5 DEF RefsAbove
 <2> QED BY <2>2, <2>3, <2>6
<1>4. Replied(q, es, RefsAbove(rf, target))  BY <1>3 DEF Replied
<1> QED BY <1>2, <1>4

\* Nothing is retained under a head at the end, so no reference is missed.
LEMMA NoRefsReplied ==
    ASSUME NEW r, NEW rs \in Store, Ordered(r, rs), r.head = r.next,
           r.head \in Nat
    PROVE  NoRefs \in RefTable /\ Replied(r, rs, NoRefs)
<1>1. NoRefs \in RefTable
 <2>1. 0 \in 0..(MaxSeq + 1)  BY ContextAssumptions
 <2> QED BY <2>1 DEF NoRefs, RefTable
<1>2. ASSUME NEW s \in Seqs, s >= r.head PROVE ~rs[s].checkpoint  BY <1>2 DEF Ordered, NoRow
<1> QED BY <1>1, <1>2 DEF Replied

-----------------------------------------------------------------------------
(* Opening.                                                                *)

Opened == [row : ContextRow, rows : Store, refs : RefTable, rebuilt : BOOLEAN]

\* #alignedRetained leaves an ordered store and seeds the agent with what it
\* retains: nothing, or a transcript that starts on a user turn.
LEMMA AlignedIsFaithful ==
    ASSUME NEW o \in Opened, Ordered(o.row, o.rows), Replied(o.row, o.rows, o.refs)
    PROVE  LET a == AlignedRetained(o)
               r == [o.row EXCEPT !.head = a.head]
           IN  /\ a.head \in Nat /\ a.head >= o.row.head
               /\ r \in ContextRow
               /\ a.rows \in Store
               /\ a.refs \in RefTable
               /\ a.seed \in Transcripts
               /\ Ordered(r, a.rows)
               /\ SameMessages(o.rows, a.rows)
               /\ Replied(r, a.rows, a.refs)
               /\ Shows(a.seed, a.head..(o.row.next - 1))
               /\ a.seed = <<>> \/ IsRenderable(a.rows, a.seed)
<1> DEFINE a == AlignedRetained(o)
           r == [o.row EXCEPT !.head = a.head]
           kept == Retained(o.rows, o.row)
           users == {i \in DOMAIN kept : o.rows[kept[i]].role = "user"}
           boundary == IF users = {} THEN 0 ELSE kept[Min(users)]
           moved == EvictBelow(o.rows, boundary)
           after == [o.row EXCEPT !.head = boundary]
           realigned == Retained(moved, after)
           h == o.row.head
           n == o.row.next
<1>1. /\ o.row \in ContextRow /\ o.rows \in Store /\ o.refs \in RefTable
      /\ h \in 1..(MaxSeq + 1) /\ n \in 1..(MaxSeq + 1) /\ h <= n
      /\ h \in Nat \ {0} /\ n \in Nat /\ n - 1 \in 0..MaxSeq
  BY ContextAssumptions DEF Opened, ContextRow, Ordered
<1>2. RetainedRange(o.rows, o.row) = h..(n - 1)  BY <1>1, RangeIsInterval
<1>3. /\ kept \in Transcripts /\ Shows(kept, h..(n - 1))
      /\ \A i \in DOMAIN kept : kept[i] \in h..(n - 1)
  BY <1>1, <1>2, RetainedInterval
<1> HIDE DEF kept
<1>4. CASE kept = <<>> \/ IsRenderable(o.rows, kept)
 <2>1. a = [head |-> h, rows |-> o.rows, refs |-> o.refs, seed |-> kept]
   BY <1>4 DEF AlignedRetained, kept
 <2>2. r = o.row  BY <1>1, <2>1 DEF ContextRow
 <2>3. SameMessages(o.rows, o.rows)  BY DEF SameMessages
 <2> HIDE DEF a, r
 <2> QED BY <1>1, <1>3, <1>4, <2>1, <2>2, <2>3 DEF a, r
<1>5. CASE /\ ~(kept = <<>> \/ IsRenderable(o.rows, kept))
           /\ boundary > h /\ IsRenderable(moved, realigned)
 <2>1. a = [head |-> boundary, rows |-> moved,
            refs |-> RefsAbove(o.refs, boundary), seed |-> realigned]
   BY <1>5 DEF AlignedRetained, kept
 <2>2. users # {}  BY <1>1, <1>5
 <2>3. users \in SUBSET Nat  BY <1>3 DEF Transcripts
 <2>4. Min(users) \in DOMAIN kept /\ boundary = kept[Min(users)]  BY <2>2, <2>3, MinNat
 <2>5. boundary \in h..(n - 1)  BY <1>3, <2>4
 <2> HIDE DEF boundary, users
 <2>6. boundary \in Nat \ {0} /\ boundary >= h /\ boundary <= n /\ boundary \in 1..(MaxSeq + 1)
   BY <1>1, <2>5, ContextAssumptions
 <2>7. /\ moved \in Store /\ after \in ContextRow /\ Ordered(after, moved)
       /\ SameMessages(o.rows, moved)
   BY <1>1, <2>6, EvictBelowOrdered
 <2>8. RefsAbove(o.refs, boundary) \in RefTable  BY <1>1, <2>6, <2>7, RefsAboveReplied
 <2>9. Replied(after, moved, RefsAbove(o.refs, boundary))  BY <1>1, <2>6, <2>7, RefsAboveReplied
 <2>10. after.head = boundary /\ after.next = n  BY <1>1 DEF ContextRow
 <2> HIDE DEF after, moved
 <2>11. RetainedRange(moved, after) = boundary..(n - 1)  BY <2>6, <2>7, <2>10, RangeIsInterval
 <2>12. realigned \in Transcripts /\ Shows(realigned, boundary..(n - 1))
   BY <1>1, <2>6, <2>11, RetainedInterval
 <2>13. r = after /\ a.head = boundary /\ a.rows = moved
        /\ a.refs = RefsAbove(o.refs, boundary) /\ a.seed = realigned
   BY <2>1 DEF after
 <2> HIDE DEF realigned, a, r
 <2>14. IsRenderable(moved, realigned)  BY <1>5
 <2> QED BY <2>6, <2>7, <2>8, <2>9, <2>12, <2>13, <2>14 DEF a, r
<1>6. CASE /\ ~(kept = <<>> \/ IsRenderable(o.rows, kept))
           /\ ~(boundary > h /\ IsRenderable(moved, realigned))
 <2>1. a = [head |-> n, rows |-> EvictFrom(o.rows, h), refs |-> NoRefs, seed |-> <<>>]
   BY <1>6 DEF AlignedRetained, kept
 <2> DEFINE es == EvictBelow(o.rows, n)
            q == [o.row EXCEPT !.head = n]
 <2>2. EvictFrom(o.rows, h) = es  BY <1>1, EvictFromOrdered
 <2>3. es \in Store /\ q \in ContextRow /\ Ordered(q, es) /\ SameMessages(o.rows, es)
  <3>1. n \in Nat /\ n >= h /\ n <= o.row.next  BY <1>1
  <3> HIDE DEF n
  <3> QED BY <1>1, <3>1, EvictBelowOrdered
 <2>4. q.head = n /\ q.next = n  BY <1>1 DEF ContextRow
 <2> HIDE DEF es, q
 <2>5. NoRefs \in RefTable /\ Replied(q, es, NoRefs)  BY <1>1, <2>3, <2>4, NoRefsReplied
 <2>6. Shows(<<>>, n..(n - 1)) /\ <<>> \in Transcripts
  <3>1. n..(n - 1) = {}  BY <1>1
  <3>2. DOMAIN <<>> = {}  OBVIOUS
  <3> QED BY <3>1, <3>2 DEF Shows, Transcripts
 <2>7. r = q /\ a.head = n /\ a.rows = es /\ a.refs = NoRefs /\ a.seed = <<>>
   BY <2>1, <2>2 DEF q
 <2> HIDE DEF a, r
 <2> QED BY <1>1, <2>3, <2>5, <2>6, <2>7 DEF a, r
<1> QED BY <1>4, <1>5, <1>6

\* open: the store as it was, or a new one when the prompt changed.
LEMMA OpenIsFaithful ==
    ASSUME row \in ContextRow, rows \in Store, refs \in RefTable,
           Ordered(row, rows), Replied(row, rows, refs), NEW hash \in Prompts
    PROVE  LET o == Open(hash)
           IN  /\ o \in Opened
               /\ Ordered(o.row, o.rows)
               /\ Replied(o.row, o.rows, o.refs)
               /\ o.row.hash = hash
               /\ o.rebuilt => row.hash # hash
               /\ ~o.rebuilt => /\ o.row = [row EXCEPT !.hash = hash]
                                /\ o.rows = rows /\ o.refs = refs
               /\ \A s \in Seqs : o.rows[s].checkpoint =>
                      rows[s].checkpoint /\ o.rows[s].batch = rows[s].batch
<1>1. CASE row.hash \in {None, hash}
 <2> DEFINE q == [row EXCEPT !.hash = hash]
 <2>1. Open(hash) = [row |-> q, rows |-> rows, refs |-> refs, rebuilt |-> FALSE]
   BY <1>1 DEF Open
 <2>2. q \in ContextRow /\ q.head = row.head /\ q.next = row.next /\ q.sends = row.sends
       /\ q.hash = hash
   BY DEF ContextRow
 <2>3. Ordered(q, rows) /\ Replied(q, rows, refs)  BY <2>2 DEF Ordered, Replied
 <2>4. Open(hash) \in Opened  BY <2>1, <2>2 DEF Opened
 <2>5. /\ Open(hash).row = q /\ Open(hash).rows = rows /\ Open(hash).refs = refs
       /\ ~Open(hash).rebuilt
   BY <2>1
 <2> HIDE DEF q
 <2> QED BY <2>2, <2>3, <2>4, <2>5 DEF q
<1>2. CASE row.hash \notin {None, hash}
 <2> DEFINE q == [head |-> 1, next |-> 1, sends |-> 0, hash |-> hash]
            es == [s \in Seqs |-> NoRow]
 <2>1. Open(hash) = [row |-> q, rows |-> es, refs |-> NoRefs, rebuilt |-> TRUE]
   BY <1>2 DEF Open
 <2>2. MaxSeq \in Nat /\ MaxCalls \in Nat  BY ContextAssumptions
 <2>3. q \in ContextRow /\ q.head = 1 /\ q.next = 1 /\ q.sends = 0
  <3>1. 1 \in 1..(MaxSeq + 1) /\ 0 \in 0..MaxSeq  BY <2>2
  <3> QED BY <3>1 DEF ContextRow
 <2>4. es \in Store
  <3>1. 0 \in 0..MaxCalls /\ 0 \in 0..MaxSeq  BY <2>2
  <3> QED BY <3>1 DEF Store, Row, NoRow
 <2>5. Ordered(q, es)
  <3>1. \A s \in Seqs : ~(s < 1) /\ s >= 1 /\ es[s] = NoRow  BY DEF Seqs
  <3> QED BY <2>3, <3>1 DEF Ordered, NoRow
 <2>6. NoRefs \in RefTable /\ Replied(q, es, NoRefs)  BY <2>3, <2>4, <2>5, NoRefsReplied
 <2>7. \A s \in Seqs : ~es[s].checkpoint  BY DEF NoRow
 <2>8. Open(hash) \in Opened  BY <2>1, <2>3, <2>4, <2>6 DEF Opened
 <2>9. /\ Open(hash).row = q /\ Open(hash).rows = es /\ Open(hash).refs = NoRefs
       /\ Open(hash).rebuilt
   BY <2>1
 <2> HIDE DEF es
 <2> QED BY <1>2, <2>3, <2>5, <2>6, <2>7, <2>8, <2>9
<1> QED BY <1>1, <1>2

-----------------------------------------------------------------------------
(* The invariant.                                                          *)

\* The tables are ordered, and the batches of their checkpoints are injected.
StoreInv ==
    /\ Ordered(row, rows)
    /\ \A s \in Seqs : rows[s].checkpoint => rows[s].batch \in injected
    /\ Replied(row, rows, refs)

\* The agent shows what its run's header has retained, and a cached one between
\* runs what the next run will find; a run whose topic was cut is not cached.
AgentInv ==
    /\ run.phase # "idle" => Shows(transcript, header.head..(header.next - 1))
    /\ run.phase = "idle" /\ cached => Shows(transcript, row.head..(row.next - 1))
    /\ run.cut => ~cached /\ run.phase # "idle"

Working == {"model", "tools", "boundary", "next"}

\* The transcript is empty or starts on a user turn, and no longer empty once the
\* opening batch is in it.
RenderableInv ==
    /\ run.phase \in Working => IsRenderable(rows, transcript)
    /\ (run.phase = "loading" \/ (run.phase = "idle" /\ cached)) =>
           transcript = <<>> \/ IsRenderable(rows, transcript)
    /\ run.phase = "tools" =>
           /\ run.open >= 1
           /\ \E i \in DOMAIN transcript :
                 transcript[i] # 0 /\ rows[transcript[i]].role = "assistant"

\* The last batch of a transcript.
EndsOn(rs, t, b) ==
    \E i \in DOMAIN t :
        /\ t[i] # 0 /\ rs[t[i]].batch = b
        /\ \A j \in DOMAIN t : (j > i /\ t[j] # 0) => rs[t[j]].batch = None

\* A batch being loaded is new and its reply reference waits for its row; then it
\* is the last one of the transcript, until the next.
BatchInv ==
    /\ run.phase # "idle" =>
           /\ run.batch \in Batches
           /\ run.caller = IF run.batch \in Completions THEN None ELSE run.batch
    /\ run.phase = "loading" =>
           /\ run.batch \notin injected
           /\ ~run.cut => refs["reply"][run.batch] = header.next
           /\ run.visible = SendersOf(rows, transcript) \cup ({run.batch} \ Completions)
    /\ run.phase \in Working =>
           /\ EndsOn(rows, transcript, run.batch)
           /\ run.visible = SendersOf(rows, transcript)

ContextInv ==
    TypeOK /\ StoreInv /\ HeaderAgrees /\ AgentInv /\ RenderableInv /\ BatchInv

\* The type invariant by names.
LEMMA TypeNames ==
    TypeOK <=> /\ row \in ContextRow /\ rows \in Store /\ refs \in RefTable
               /\ expired \subseteq Batches /\ injected \subseteq Batches
               /\ cached \in BOOLEAN /\ transcript \in Transcripts /\ header \in Header
               /\ run \in RunRecord
BY DEF TypeOK, ContextRow, Store, RefTable, Transcripts, RunRecord

\* The bounds that arithmetic needs.
LEMMA Bounds ==
    ASSUME TypeOK, Ordered(row, rows)
    PROVE  /\ MaxSeq \in Nat /\ MaxCalls \in Nat
           /\ row.head \in Nat /\ row.head >= 1 /\ row.head <= row.next
           /\ row.next \in Nat /\ row.next <= MaxSeq + 1
           /\ row.sends \in Nat /\ row.sends < row.next
           /\ header.head \in Nat /\ header.head >= 1 /\ header.next \in Nat
BY ContextAssumptions DEF TypeOK, Header, Ordered

\* The persisted messages of a transcript are rows.
LEMMA TranscriptRows ==
    ASSUME NEW t \in Transcripts
    PROVE  \A i \in DOMAIN t : t[i] # 0 => t[i] \in Seqs
BY ContextAssumptions DEF Transcripts, Seqs

\* Senders are batches.
LEMMA SendersAreBatches ==
    ASSUME NEW rs \in Store, NEW t \in Transcripts
    PROVE  SendersOf(rs, t) \subseteq Batches
<1>1. \A i \in DOMAIN t : t[i] # 0 => t[i] \in Seqs  BY TranscriptRows
<1> QED BY <1>1 DEF SendersOf, BatchesOf, Store, Row

\* The rows of a shown transcript exist, and the next row is none of them.
LEMMA ShownRows ==
    ASSUME TypeOK, StoreInv, HeaderAgrees, AgentInv, run.phase # "idle",
           NEW i \in DOMAIN transcript, transcript[i] # 0
    PROVE  /\ transcript[i] \in Seqs
           /\ transcript[i] >= header.head /\ transcript[i] < header.next
<1>1. Shows(transcript, header.head..(header.next - 1))  BY DEF AgentInv
<1>2. transcript[i] \in header.head..(header.next - 1)  BY <1>1 DEF Shows
<1>3. header.next = row.next  BY DEF HeaderAgrees
<1>4. Ordered(row, rows)  BY DEF StoreInv
<1> QED BY <1>2, <1>3, <1>4, Bounds DEF Seqs

\* The row a run may write.
WrittenRow(message) ==
    /\ message \in Row
    /\ message.role # "none" /\ ~message.evicted
    /\ message.checkpoint <=> message.batch # None
    /\ message.checkpoint => message.role = "user"

\* #persistMessage: the row, the header and the transcript move on together.
LEMMA PersistKeeps ==
    ASSUME TypeOK, StoreInv, HeaderAgrees, AgentInv, run.phase # "idle",
           NEW message, WrittenRow(message), Persist(message)
    PROVE  /\ header.next \in Seqs /\ header.next = row.next
           /\ row' \in ContextRow /\ row'.head = row.head /\ row'.next = row.next + 1
           /\ row'.hash = row.hash
           /\ rows' = [rows EXCEPT ![header.next] = message] /\ rows' \in Store
           /\ header' \in Header /\ header'.head = header.head
           /\ header'.next = row'.next /\ header'.sends = row'.sends
           /\ transcript' = Append(transcript, header.next) /\ transcript' \in Transcripts
           /\ Ordered(row', rows')
           /\ Shows(transcript', header'.head..(header'.next - 1))
           /\ SameStory(rows, rows', transcript)
<1>1. /\ header.next \in Seqs /\ header.next = row.next /\ header.sends = row.sends
      /\ header.head <= row.head
  BY DEF HeaderAgrees, Persist, Append1
<1>2. /\ MaxSeq \in Nat
      /\ row.head \in Nat /\ row.head >= 1 /\ row.head <= row.next
      /\ row.next \in Nat /\ row.next <= MaxSeq
      /\ row.sends \in Nat /\ row.sends < row.next
      /\ header.head \in Nat /\ header.head >= 1 /\ header.next \in Nat
 <2>1. Ordered(row, rows)  BY DEF StoreInv
 <2>2. header.next <= MaxSeq  BY <1>1, <2>1, Bounds DEF Seqs
 <2> QED BY <1>1, <2>1, <2>2, Bounds
<1> DEFINE sends == IF message.send THEN header.sends + 1 ELSE header.sends
<1>3. sends \in 0..MaxSeq /\ sends < row.next + 1 /\ row.next + 1 \in 1..(MaxSeq + 1)
  BY <1>1, <1>2
<1>4. /\ row' = [row EXCEPT !.next = row.next + 1, !.sends = sends]
      /\ header' = [header EXCEPT !.next = row.next + 1, !.sends = sends]
      /\ rows' = [rows EXCEPT ![header.next] = message]
      /\ transcript' = Append(transcript, header.next)
 <2>1. row \in ContextRow /\ header \in Header  BY TypeNames
 <2> QED BY <1>1, <2>1 DEF Persist, Append1, ContextRow, Header
<1> HIDE DEF sends
<1>5. /\ row' \in ContextRow /\ row'.head = row.head /\ row'.next = row.next + 1
      /\ row'.hash = row.hash /\ row'.sends = sends
  BY <1>3, <1>4, TypeNames DEF ContextRow
<1>6. /\ header' \in Header /\ header'.head = header.head /\ header'.next = row.next + 1
      /\ header'.sends = sends
  BY <1>3, <1>4, TypeNames DEF Header
<1>7. rows' \in Store
 <2>1. rows \in Store /\ message \in Row  BY TypeNames DEF WrittenRow
 <2> QED BY <1>1, <1>4, <2>1 DEF Store
<1>8. transcript' \in Transcripts
 <2>1. transcript \in Transcripts /\ header.next \in 0..MaxSeq  BY <1>1, <1>2, TypeNames
 <2> QED BY <1>4, <2>1 DEF Transcripts
<1>9. ASSUME NEW s \in Seqs
      PROVE  /\ rows'[s].role # "none" <=> s < row.next + 1
             /\ s >= row.next + 1 => rows'[s] = NoRow
             /\ rows'[s].evicted <=> s < row.head
             /\ rows'[s].checkpoint <=> rows'[s].batch # None
             /\ rows'[s].checkpoint => rows'[s].role = "user"
 <2>1. s \in Nat /\ rows \in Store  BY TypeNames, <1>2 DEF Seqs
 <2>2. CASE s = header.next
  <3>1. rows'[s] = message  BY <1>4, <2>1, <2>2 DEF Store
  <3>2. ~(s < row.head) /\ s < row.next + 1 /\ ~(s >= row.next + 1)  BY <1>1, <1>2, <2>2
  <3> QED BY <3>1, <3>2 DEF WrittenRow
 <2>3. CASE s # header.next
  <3>1. rows'[s] = rows[s]  BY <1>4, <2>1, <2>3 DEF Store
  <3>2. /\ s < row.next + 1 <=> s < row.next
        /\ s >= row.next + 1 => s >= row.next
    BY <1>1, <1>2, <2>1, <2>3
  <3>3. /\ rows[s].role # "none" <=> s < row.next
        /\ s >= row.next => rows[s] = NoRow
        /\ rows[s].evicted <=> s < row.head
        /\ rows[s].checkpoint <=> rows[s].batch # None
        /\ rows[s].checkpoint => rows[s].role = "user"
    BY DEF StoreInv, Ordered
  <3> QED BY <3>1, <3>2, <3>3
 <2> QED BY <2>2, <2>3
<1>10. Ordered(row', rows')
 <2>1. row'.head <= row'.next /\ row'.sends < row'.next  BY <1>2, <1>3, <1>5
 <2> QED BY <1>5, <1>9, <2>1 DEF Ordered
<1>11. Shows(transcript', header'.head..(header'.next - 1))
 <2>1. Shows(transcript, header.head..(header.next - 1)) /\ transcript \in Transcripts
   BY TypeNames DEF AgentInv
 <2>2. header.head <= header.next  BY <1>1, <1>2
 <2>3. Shows(Append(transcript, header.next), header.head..header.next)
   BY <1>1, <1>2, <2>1, <2>2, ShowsAppend
 <2>4. header'.next - 1 = header.next  BY <1>1, <1>2, <1>6
 <2> QED BY <1>4, <1>6, <2>3, <2>4
<1>12. SameStory(rows, rows', transcript)
 <2>1. ASSUME NEW i \in DOMAIN transcript, transcript[i] # 0
       PROVE  rows'[transcript[i]] = rows[transcript[i]]
  <3>1. transcript[i] \in Seqs /\ transcript[i] < header.next  BY <2>1, ShownRows
  <3>2. transcript[i] # header.next  BY <3>1, <1>2 DEF Seqs
  <3>3. rows \in Store  BY TypeNames
  <3> QED BY <1>4, <3>1, <3>2, <3>3 DEF Store
 <2> QED BY <2>1 DEF SameStory
<1> QED BY <1>1, <1>4, <1>5, <1>6, <1>7, <1>8, <1>10, <1>11, <1>12

-----------------------------------------------------------------------------
(* Every action keeps the invariant: opening a run.                        *)

\* The agent a run starts from, cached or seeded, shows what the store retains.
LEMMA SeededIsFaithful ==
    ASSUME ContextInv, run.phase = "idle", NEW hash \in Prompts
    PROVE  LET o == Open(hash)
               a == SeededAgent(o)
               r == [o.row EXCEPT !.head = a.head]
           IN  /\ o \in Opened
               /\ o.row.hash = hash
               /\ row.hash = hash => o.row.head = row.head /\ o.row.next = row.next
               /\ row.hash = hash => o.rows = rows
               /\ a.head \in Nat /\ a.head >= o.row.head
               /\ r \in ContextRow
               /\ a.rows \in Store
               /\ a.refs \in RefTable
               /\ a.seed \in Transcripts
               /\ Ordered(r, a.rows)
               /\ Replied(r, a.rows, a.refs)
               /\ SameMessages(o.rows, a.rows)
               /\ Shows(a.seed, a.head..(o.row.next - 1))
               /\ a.seed = <<>> \/ IsRenderable(a.rows, a.seed)
               /\ \A s \in Seqs : a.rows[s].checkpoint => a.rows[s].batch \in injected
<1> DEFINE o == Open(hash)
           a == SeededAgent(o)
           r == [o.row EXCEPT !.head = a.head]
<1>1. /\ row \in ContextRow /\ rows \in Store /\ refs \in RefTable
      /\ transcript \in Transcripts
      /\ Ordered(row, rows) /\ Replied(row, rows, refs)
      /\ \A s \in Seqs : rows[s].checkpoint => rows[s].batch \in injected
  BY TypeNames DEF ContextInv, StoreInv
<1>2. /\ o \in Opened /\ o.row.hash = hash
      /\ Ordered(o.row, o.rows) /\ Replied(o.row, o.rows, o.refs)
      /\ o.rebuilt => row.hash # hash
      /\ ~o.rebuilt => /\ o.row = [row EXCEPT !.hash = hash]
                       /\ o.rows = rows /\ o.refs = refs
      /\ \A s \in Seqs : o.rows[s].checkpoint =>
             rows[s].checkpoint /\ o.rows[s].batch = rows[s].batch
  BY <1>1, OpenIsFaithful
<1> HIDE DEF o
<1>3. row.hash = hash => o.row.head = row.head /\ o.row.next = row.next /\ o.rows = rows
  BY <1>1, <1>2 DEF ContextRow
<1>4. \A s \in Seqs : o.rows[s].checkpoint => o.rows[s].batch \in injected  BY <1>1, <1>2
<1>5. CASE cached /\ ~o.rebuilt
 <2>1. /\ a.head = o.row.head /\ a.rows = o.rows /\ a.refs = o.refs
       /\ a.seed = transcript
   BY <1>5 DEF SeededAgent
 <2>2. r = o.row /\ o.row \in ContextRow /\ o.row.head \in Nat /\ o.rows \in Store
       /\ o.refs \in RefTable
   BY <1>2, <2>1 DEF Opened, ContextRow
 <2>3. o.row.head = row.head /\ o.row.next = row.next /\ o.rows = rows
   BY <1>1, <1>2, <1>5 DEF ContextRow
 <2>4. Shows(transcript, row.head..(row.next - 1))  BY <1>5 DEF ContextInv, AgentInv
 <2>5. transcript = <<>> \/ IsRenderable(rows, transcript)
   BY <1>5 DEF ContextInv, RenderableInv
 <2>6. SameMessages(o.rows, o.rows)  BY DEF SameMessages
 <2> HIDE DEF a, r
 <2>7. o.row.head >= o.row.head  BY <2>2
 <2> QED BY <1>1, <1>2, <1>3, <1>4, <2>1, <2>2, <2>3, <2>4, <2>5, <2>6, <2>7 DEF a, r, o
<1>6. CASE ~(cached /\ ~o.rebuilt)
 <2>1. a = AlignedRetained(o)  BY <1>6 DEF SeededAgent
 <2> HIDE DEF a
 <2>2. /\ a.head \in Nat /\ a.head >= o.row.head
       /\ r \in ContextRow
       /\ a.rows \in Store
       /\ a.refs \in RefTable
       /\ a.seed \in Transcripts
       /\ Ordered(r, a.rows)
       /\ SameMessages(o.rows, a.rows)
       /\ Replied(r, a.rows, a.refs)
       /\ Shows(a.seed, a.head..(o.row.next - 1))
       /\ a.seed = <<>> \/ IsRenderable(a.rows, a.seed)
   BY <1>2, <2>1, AlignedIsFaithful
 <2>3. \A s \in Seqs : a.rows[s].checkpoint => a.rows[s].batch \in injected
   BY <1>4, <2>2 DEF SameMessages
 <2> HIDE DEF r
 <2> QED BY <1>2, <1>3, <2>2, <2>3 DEF a, r, o
<1> QED BY <1>5, <1>6

\* A rendered injection gives the batch a reply reference, and takes none away.
LEMMA RenderedReplies ==
    ASSUME NEW rf \in RefTable, NEW b \in Batches, NEW seq \in 0..(MaxSeq + 1)
    PROVE  /\ RenderInjection(rf, b, seq) \in RefTable
           /\ RenderInjection(rf, b, seq)["reply"][b] = seq
           /\ \A c \in Batches : c # b =>
                  RenderInjection(rf, b, seq)["reply"][c] = rf["reply"][c]
<1> DEFINE media == MediaRef(rf, b, seq)
<1>1. "reply" \in Kinds /\ "media" \in Kinds /\ "reply" # "media"  BY DEF Kinds
<1>2. media \in RefTable /\ media["reply"] = rf["reply"]  BY <1>1 DEF MediaRef, RefTable
<1>3. RenderInjection(rf, b, seq) = [media EXCEPT !["reply"][b] = seq]
  BY DEF RenderInjection, PrepareSnapshot, ReplyRef
<1> HIDE DEF media
<1>4. media["reply"] \in [Batches -> 0..(MaxSeq + 1)]  BY <1>1, <1>2 DEF RefTable
<1> QED BY <1>1, <1>2, <1>3, <1>4 DEF RefTable

\* A batch that is not injected has no row, so its new reference moves nothing.
LEMMA NewBatchReplied ==
    ASSUME NEW r, NEW rs \in Store, NEW rf \in RefTable, Replied(r, rs, rf),
           Ordered(r, rs),
           \A s \in Seqs : rs[s].checkpoint => rs[s].batch \in injected,
           NEW b \in Batches, b \notin injected, NEW seq \in 0..(MaxSeq + 1)
    PROVE  Replied(r, rs, RenderInjection(rf, b, seq))
<1>1. ASSUME NEW s \in Seqs, s >= r.head, rs[s].checkpoint, ~rs[s].late
      PROVE  RenderInjection(rf, b, seq)["reply"][rs[s].batch] >= s
 <2>1. rs[s].batch # b /\ rs[s].batch \in Batches  BY <1>1 DEF Ordered, Store, Row
 <2>2. rf["reply"][rs[s].batch] >= s  BY <1>1 DEF Replied
 <2> QED BY <2>1, <2>2, RenderedReplies
<1> QED BY <1>1 DEF Replied

\* Opening a run, and under one prompt it never lowers the head.
LEMMA OpenRunKeeps ==
    ASSUME ContextInv, NEW b \in Batches, NEW hash \in Prompts, OpenRun(b, hash)
    PROVE  /\ ContextInv'
           /\ row'.hash = row.hash =>
                 /\ row'.head >= row.head
                 /\ \A s \in Seqs : rows[s].evicted => s < row'.head \/ rows'[s].evicted
<1> DEFINE o == Open(hash)
           a == SeededAgent(o)
           r == [o.row EXCEPT !.head = a.head]
<1>1. /\ run.phase = "idle" /\ b \notin injected
      /\ row' = r /\ rows' = a.rows
      /\ refs' = RenderInjection(a.refs, b, o.row.next)
      /\ transcript' = a.seed
      /\ header' = [head |-> a.head, next |-> o.row.next, sends |-> o.row.sends]
      /\ cached' = TRUE /\ expired' = expired \ {b} /\ injected' = injected
      /\ run' = ApplyInjection([NoRun EXCEPT !.visible = SendersOf(a.rows, a.seed)], b)
  BY DEF OpenRun
<1>2. /\ o \in Opened
      /\ o.row.hash = hash
      /\ row.hash = hash => o.row.head = row.head /\ o.row.next = row.next
      /\ row.hash = hash => o.rows = rows
      /\ a.head \in Nat /\ a.head >= o.row.head
      /\ r \in ContextRow
      /\ a.rows \in Store
      /\ a.refs \in RefTable
      /\ a.seed \in Transcripts
      /\ Ordered(r, a.rows)
      /\ Replied(r, a.rows, a.refs)
      /\ SameMessages(o.rows, a.rows)
      /\ Shows(a.seed, a.head..(o.row.next - 1))
      /\ a.seed = <<>> \/ IsRenderable(a.rows, a.seed)
      /\ \A s \in Seqs : a.rows[s].checkpoint => a.rows[s].batch \in injected
  BY <1>1, SeededIsFaithful
<1>3. r.head = a.head /\ r.next = o.row.next /\ r.sends = o.row.sends /\ r.hash = hash
      /\ o.row.next \in 0..(MaxSeq + 1)
  BY <1>2, ContextAssumptions DEF Opened, ContextRow
<1>4. run' = [phase |-> "loading", batch |-> b, open |-> 0, tools |-> FALSE,
              aborted |-> FALSE, cut |-> FALSE,
              visible |-> SendersOf(a.rows, a.seed) \cup ({b} \ Completions),
              caller |-> IF b \in Completions THEN None ELSE b]
  BY <1>1 DEF ApplyInjection, NoRun
<1> HIDE DEF o, a, r
<1>5. TypeOK'
 <2>1. header' \in Header  BY <1>1, <1>2, <1>3 DEF Header, ContextRow
 <2>2. SendersOf(a.rows, a.seed) \subseteq Batches  BY <1>2, SendersAreBatches
 <2>3. run' \in RunRecord
  <3>1. 0 \in 0..MaxCalls  BY ContextAssumptions
  <3> QED BY <1>4, <2>2, <3>1 DEF Phases, RunRecord
 <2>4. refs' \in RefTable  BY <1>1, <1>2, <1>3, RenderedReplies
 <2>5. expired \subseteq Batches /\ injected \subseteq Batches  BY DEF ContextInv, TypeOK
 <2>6. row' \in ContextRow /\ rows' \in Store /\ transcript' \in Transcripts  BY <1>1, <1>2
 <2>7. expired' \subseteq Batches /\ injected' \subseteq Batches /\ cached' \in BOOLEAN
   BY <1>1, <2>5
 <2> QED BY <2>1, <2>3, <2>4, <2>6, <2>7 DEF TypeOK, ContextRow, Store, RefTable, Transcripts, RunRecord
<1>6. StoreInv'
 <2>1. Replied(r, a.rows, RenderInjection(a.refs, b, o.row.next))
   BY <1>1, <1>2, <1>3, NewBatchReplied
 <2> QED BY <1>1, <1>2, <2>1 DEF StoreInv
<1>7. HeaderAgrees'
 <2>1. a.head <= a.head  BY <1>2
 <2> QED BY <1>1, <1>3, <2>1 DEF HeaderAgrees
<1>8. AgentInv'  BY <1>1, <1>2, <1>4 DEF AgentInv
<1>9. RenderableInv'  BY <1>1, <1>2, <1>4 DEF RenderableInv, Working
<1>10. BatchInv'
 <2>1. refs'["reply"][b] = header'.next  BY <1>1, <1>2, <1>3, RenderedReplies
 <2> QED BY <1>1, <1>4, <2>1 DEF BatchInv, Working
<1>11. ASSUME row'.hash = row.hash
       PROVE  /\ row'.head >= row.head
              /\ \A s \in Seqs : rows[s].evicted => s < row'.head \/ rows'[s].evicted
 <2>1. row.hash = hash  BY <1>1, <1>3, <1>11
 <2>2. row'.head = a.head /\ a.head >= row.head  BY <1>1, <1>2, <1>3, <2>1
 <2>3. \A s \in Seqs : rows[s].evicted => s < row.head  BY DEF ContextInv, StoreInv, Ordered
 <2>4. row.head \in Nat  BY ContextAssumptions DEF ContextInv, TypeOK
 <2> QED BY <1>2, <2>2, <2>3, <2>4 DEF Seqs
<1> QED BY <1>5, <1>6, <1>7, <1>8, <1>9, <1>10, <1>11 DEF ContextInv

-----------------------------------------------------------------------------
(* Every action keeps the invariant: the messages of a run.                *)

\* What a transcript ends on is a matter of its rows.
LEMMA EndsOnSame ==
    ASSUME NEW t \in Transcripts, NEW rs1, NEW rs2, SameStory(rs1, rs2, t), NEW b,
           EndsOn(rs1, t, b)
    PROVE  EndsOn(rs2, t, b)
<1>1. PICK i \in DOMAIN t :
          /\ t[i] # 0 /\ rs1[t[i]].batch = b
          /\ \A j \in DOMAIN t : (j > i /\ t[j] # 0) => rs1[t[j]].batch = None
  BY DEF EndsOn
<1>2. \A j \in DOMAIN t : t[j] # 0 => rs1[t[j]].batch = rs2[t[j]].batch  BY DEF SameStory
<1> QED BY <1>1, <1>2 DEF EndsOn

\* A message of no batch leaves the last batch the last, one of a batch is it.
LEMMA EndsOnAppend ==
    ASSUME NEW t \in Transcripts, NEW rs, NEW b, NEW s \in 0..MaxSeq,
           \/ EndsOn(rs, t, b) /\ (s = 0 \/ rs[s].batch = None)
           \/ s # 0 /\ rs[s].batch = b
    PROVE  EndsOn(rs, Append(t, s), b)
<1> DEFINE u == Append(t, s)
           n == Len(t)
<1>1. /\ n \in Nat /\ DOMAIN t = 1..n /\ DOMAIN u = 1..(n + 1)
      /\ u[n + 1] = s /\ \A i \in 1..n : u[i] = t[i]
  BY DEF Transcripts
<1> HIDE DEF u
<1>2. CASE s # 0 /\ rs[s].batch = b
 <2>1. n + 1 \in DOMAIN u /\ \A j \in DOMAIN u : ~(j > n + 1)  BY <1>1
 <2> QED BY <1>1, <1>2, <2>1 DEF EndsOn, u
<1>3. CASE EndsOn(rs, t, b) /\ (s = 0 \/ rs[s].batch = None)
 <2>1. PICK i \in DOMAIN t :
           /\ t[i] # 0 /\ rs[t[i]].batch = b
           /\ \A j \in DOMAIN t : (j > i /\ t[j] # 0) => rs[t[j]].batch = None
   BY <1>3 DEF EndsOn
 <2>2. i \in DOMAIN u /\ u[i] = t[i]  BY <1>1, <2>1
 <2>3. ASSUME NEW j \in DOMAIN u, j > i, u[j] # 0 PROVE rs[u[j]].batch = None
  <3>1. CASE j = n + 1  BY <1>1, <1>3, <2>3, <3>1
  <3>2. CASE j # n + 1
   <4>1. j \in DOMAIN t /\ u[j] = t[j]  BY <1>1, <3>2
   <4> QED BY <2>1, <2>3, <4>1
  <3> QED BY <3>1, <3>2
 <2>4. EndsOn(rs, u, b)  BY <2>1, <2>2, <2>3 DEF EndsOn
 <2> QED BY <2>4 DEF u
<1> QED BY <1>2, <1>3

\* A persisted message keeps the tables and the agent one history.
LEMMA WriteKeepsHistory ==
    ASSUME ContextInv, run.phase # "idle",
           NEW message, WrittenRow(message), Persist(message),
           injected \subseteq injected',
           message.checkpoint => message.batch \in injected',
           message.checkpoint /\ ~message.late =>
               refs["reply"][message.batch] = header.next,
           refs' = refs, cached' = cached, run'.cut = run.cut, run'.phase # "idle"
    PROVE  StoreInv' /\ HeaderAgrees' /\ AgentInv'
<1>1. TypeOK /\ StoreInv /\ HeaderAgrees /\ AgentInv  BY DEF ContextInv
<1>2. /\ header.next \in Seqs /\ header.next = row.next
      /\ row'.head = row.head /\ row'.next = row.next + 1
      /\ rows' = [rows EXCEPT ![header.next] = message] /\ rows' \in Store
      /\ header'.head = header.head
      /\ header'.next = row'.next /\ header'.sends = row'.sends
      /\ Ordered(row', rows')
      /\ Shows(transcript', header'.head..(header'.next - 1))
  BY <1>1, PersistKeeps
<1>3. rows \in Store  BY <1>1, TypeNames
<1>4. ASSUME NEW s \in Seqs, rows'[s].checkpoint
      PROVE  /\ rows'[s].batch \in injected'
             /\ (s >= row'.head /\ ~rows'[s].late) => refs'["reply"][rows'[s].batch] >= s
 <2>1. CASE s = header.next
  <3>1. rows'[s] = message  BY <1>2, <1>3, <2>1 DEF Store
  <3>2. s >= s  BY DEF Seqs
  <3> QED BY <1>4, <2>1, <3>1, <3>2
 <2>2. CASE s # header.next
  <3>1. rows'[s] = rows[s]  BY <1>2, <1>3, <2>2 DEF Store
  <3> QED BY <1>1, <1>2, <1>4, <3>1 DEF StoreInv, Replied
 <2> QED BY <2>1, <2>2
<1>5. StoreInv'  BY <1>2, <1>4 DEF StoreInv, Replied
<1>6. HeaderAgrees'  BY <1>1, <1>2 DEF HeaderAgrees
<1>7. AgentInv'  BY <1>1, <1>2 DEF AgentInv
<1> QED BY <1>5, <1>6, <1>7

\* A message of no batch in a run at work: its transcript stays renderable, and
\* its batches are the same.
LEMMA WriteKeepsTurn ==
    ASSUME ContextInv, run.phase \in Working,
           NEW message, WrittenRow(message), Persist(message), message.batch = None,
           message.role = "toolResult" =>
               \E j \in DOMAIN transcript : transcript[j] = message.answers
    PROVE  /\ IsRenderable(rows', transcript')
           /\ EndsOn(rows', transcript', run.batch)
           /\ SendersOf(rows', transcript') = SendersOf(rows, transcript)
<1>1. /\ TypeOK /\ StoreInv /\ HeaderAgrees /\ AgentInv /\ run.phase # "idle"
      /\ IsRenderable(rows, transcript) /\ EndsOn(rows, transcript, run.batch)
      /\ transcript \in Transcripts /\ rows \in Store
  BY TypeNames DEF ContextInv, RenderableInv, BatchInv, Working
<1>2. /\ header.next \in Seqs
      /\ rows' = [rows EXCEPT ![header.next] = message]
      /\ transcript' = Append(transcript, header.next)
      /\ SameStory(rows, rows', transcript)
  BY <1>1, PersistKeeps
<1>3. header.next \in 0..MaxSeq /\ header.next # 0 /\ rows'[header.next] = message
  BY <1>1, <1>2, ContextAssumptions DEF Seqs, Store
<1>4. IsRenderable(rows', transcript)  BY <1>1, <1>2, RenderableSame
<1>5. IsRenderable(rows', transcript')  BY <1>1, <1>2, <1>3, <1>4, RenderableAppend
<1>6. EndsOn(rows', transcript, run.batch)  BY <1>1, <1>2, EndsOnSame
<1>7. EndsOn(rows', transcript', run.batch)  BY <1>1, <1>2, <1>3, <1>6, EndsOnAppend
<1>8. SendersOf(rows', transcript) = SendersOf(rows, transcript)  BY <1>2, SendersSame
<1>9. SendersOf(rows', transcript') = SendersOf(rows', transcript)
 <2>1. SendersOf(rows', Append(transcript, header.next)) =
           SendersOf(rows', transcript) \cup
               (IF header.next = 0 THEN {}
                ELSE {rows'[header.next].batch} \ ({None} \cup Completions))
   BY <1>1, <1>3, SendersAppend
 <2>2. {rows'[header.next].batch} \ ({None} \cup Completions) = {}  BY <1>3
 <2> QED BY <1>2, <2>1, <2>2
<1> QED BY <1>5, <1>7, <1>8, <1>9

\* A message before it is given anything.
LEMMA MessageFields ==
    ASSUME TypeOK, NEW role \in {"user", "assistant", "toolResult"}
    PROVE  /\ Message(role) \in Row /\ Message(role).role = role
           /\ Message(role).batch = None /\ Message(role).calls = 0
           /\ ~Message(role).checkpoint /\ ~Message(role).send
           /\ ~Message(role).evicted /\ Message(role).late = run.cut
<1>1. 0 \in 0..MaxCalls /\ 0 \in 0..MaxSeq /\ run.cut \in BOOLEAN
  BY ContextAssumptions DEF TypeOK
<1>2. /\ NoRow \in Row /\ NoRow.batch = None /\ NoRow.calls = 0 /\ ~NoRow.checkpoint
      /\ ~NoRow.send /\ ~NoRow.evicted
  BY <1>1 DEF NoRow, Row
<1> QED BY <1>1, <1>2 DEF Message, Row

\* The opening or injected batch becomes the next row.
LEMMA LoadImagesKeeps ==
    ASSUME ContextInv, LoadImages
    PROVE  ContextInv'
<1> DEFINE message == [Message("user") EXCEPT !.batch = run.batch, !.checkpoint = TRUE]
<1>1. /\ run.phase = "loading" /\ Persist(message)
      /\ injected' = injected \cup {run.batch}
      /\ run' = [run EXCEPT !.phase = "model"]
      /\ refs' = refs /\ expired' = expired /\ cached' = cached
  BY DEF LoadImages
<1>2. /\ TypeOK /\ StoreInv /\ HeaderAgrees /\ AgentInv /\ run.phase # "idle"
      /\ run.batch \in Batches /\ run.batch \notin injected
      /\ ~run.cut => refs["reply"][run.batch] = header.next
      /\ run.visible = SendersOf(rows, transcript) \cup ({run.batch} \ Completions)
      /\ transcript = <<>> \/ IsRenderable(rows, transcript)
      /\ run.caller = IF run.batch \in Completions THEN None ELSE run.batch
      /\ transcript \in Transcripts /\ rows \in Store
      /\ injected \subseteq Batches /\ expired \subseteq Batches /\ cached \in BOOLEAN
      /\ refs \in RefTable
      /\ run \in RunRecord
  BY <1>1, TypeNames DEF ContextInv, RenderableInv, BatchInv
<1>3. /\ message \in Row /\ message.role = "user" /\ message.batch = run.batch
      /\ message.checkpoint /\ ~message.evicted /\ message.late = run.cut
 <2>1. /\ Message("user") \in Row /\ Message("user").role = "user"
       /\ ~Message("user").evicted /\ Message("user").late = run.cut
   BY <1>2, MessageFields
 <2> QED BY <1>2, <2>1 DEF Row
<1>4. WrittenRow(message)  BY <1>2, <1>3, ContextAssumptions DEF WrittenRow
<1> HIDE DEF message
<1>5. /\ header.next \in Seqs
      /\ row' \in ContextRow /\ rows' \in Store /\ header' \in Header
      /\ transcript' \in Transcripts
      /\ rows' = [rows EXCEPT ![header.next] = message]
      /\ transcript' = Append(transcript, header.next)
      /\ SameStory(rows, rows', transcript)
  BY <1>1, <1>2, <1>4, PersistKeeps
<1>6. /\ run'.phase = "model" /\ run'.cut = run.cut /\ run'.batch = run.batch
      /\ run'.visible = run.visible /\ run'.caller = run.caller
      /\ run' \in RunRecord
  BY <1>1, <1>2 DEF Phases, RunRecord
<1>7. TypeOK'
 <2>1. injected' \subseteq Batches /\ expired' \subseteq Batches /\ cached' \in BOOLEAN
       /\ refs' \in RefTable
   BY <1>1, <1>2
 <2> QED BY <1>5, <1>6, <2>1 DEF TypeOK, ContextRow, Store, RefTable, Transcripts, RunRecord
<1>8. StoreInv' /\ HeaderAgrees' /\ AgentInv'
  BY <1>1, <1>2, <1>3, <1>4, <1>6, WriteKeepsHistory
<1>9. header.next \in 0..MaxSeq /\ header.next # 0 /\ rows'[header.next] = message
  BY <1>2, <1>5, ContextAssumptions DEF Seqs, Store
<1>10. RenderableInv'
 <2>1. CASE transcript = <<>>
  <3>1. rows'[header.next].role = "user"  BY <1>3, <1>9
  <3>2. IsRenderable(rows', Append(<<>>, header.next))  BY <1>5, <3>1, RenderableFirst
  <3> QED BY <1>5, <1>6, <2>1, <3>2 DEF RenderableInv
 <2>2. CASE IsRenderable(rows, transcript)
  <3>1. IsRenderable(rows', transcript)  BY <1>2, <1>5, <2>2, RenderableSame
  <3>2. rows'[header.next].role # "toolResult"  BY <1>3, <1>9
  <3>3. IsRenderable(rows', Append(transcript, header.next))
    BY <1>2, <1>9, <3>1, <3>2, RenderableAppend
  <3> QED BY <1>5, <1>6, <3>3 DEF RenderableInv
 <2> QED BY <1>2, <2>1, <2>2
<1>11. BatchInv'
 <2>0. rows'[header.next].batch = run.batch  BY <1>3, <1>9
 <2>1. EndsOn(rows', Append(transcript, header.next), run.batch)
   BY <1>2, <1>9, <2>0, EndsOnAppend
 <2>2. SendersOf(rows', transcript) = SendersOf(rows, transcript)  BY <1>5, SendersSame
 <2>3. SendersOf(rows', Append(transcript, header.next)) =
           SendersOf(rows', transcript) \cup
               (IF header.next = 0 THEN {}
                ELSE {rows'[header.next].batch} \ ({None} \cup Completions))
   BY <1>2, <1>9, SendersAppend
 <2>4. {run.batch} \ ({None} \cup Completions) = {run.batch} \ Completions
   BY <1>2, ContextAssumptions
 <2>5. SendersOf(rows', transcript') = run.visible  BY <1>2, <1>5, <1>9, <2>0, <2>2, <2>3, <2>4
 <2> QED BY <1>2, <1>5, <1>6, <2>1, <2>5 DEF BatchInv
<1> QED BY <1>7, <1>8, <1>10, <1>11 DEF ContextInv

\* An assistant message.
LEMMA RespondKeeps ==
    ASSUME ContextInv, NEW calls \in 0..MaxCalls, Respond(calls)
    PROVE  ContextInv'
<1> DEFINE message == [Message("assistant") EXCEPT !.calls = calls]
<1>1. /\ run.phase = "model" /\ Persist(message)
      /\ run' = [run EXCEPT !.phase = IF calls > 0 THEN "tools" ELSE "boundary",
                            !.open = calls, !.tools = calls > 0]
      /\ refs' = refs /\ expired' = expired /\ injected' = injected /\ cached' = cached
  BY DEF Respond
<1>2. /\ TypeOK /\ StoreInv /\ HeaderAgrees /\ AgentInv /\ run.phase # "idle"
      /\ run.phase \in Working
      /\ run.batch \in Batches /\ run.visible = SendersOf(rows, transcript)
      /\ run.caller = IF run.batch \in Completions THEN None ELSE run.batch
      /\ transcript \in Transcripts /\ rows \in Store
      /\ injected \subseteq Batches /\ expired \subseteq Batches /\ cached \in BOOLEAN
      /\ refs \in RefTable /\ run \in RunRecord
  BY <1>1, TypeNames DEF ContextInv, BatchInv, Working, RunRecord
<1>3. /\ message \in Row /\ message.role = "assistant" /\ message.batch = None
      /\ ~message.checkpoint /\ ~message.evicted
 <2>1. /\ Message("assistant") \in Row /\ Message("assistant").role = "assistant"
       /\ Message("assistant").batch = None /\ ~Message("assistant").checkpoint
       /\ ~Message("assistant").evicted
   BY <1>2, MessageFields
 <2> QED BY <2>1 DEF Row
<1>4. WrittenRow(message)  BY <1>3 DEF WrittenRow
<1> HIDE DEF message
<1>5. /\ header.next \in Seqs
      /\ row' \in ContextRow /\ rows' \in Store /\ header' \in Header
      /\ transcript' \in Transcripts
      /\ rows' = [rows EXCEPT ![header.next] = message]
      /\ transcript' = Append(transcript, header.next)
  BY <1>1, <1>2, <1>4, PersistKeeps
<1>6. /\ run'.phase \in {"tools", "boundary"}
      /\ run'.phase = "tools" => run'.open >= 1
      /\ run'.cut = run.cut /\ run'.batch = run.batch
      /\ run'.visible = run.visible /\ run'.caller = run.caller
      /\ run' \in RunRecord
 <2>1. calls > 0 => calls >= 1  BY ContextAssumptions
 <2>2. (calls > 0) \in BOOLEAN  OBVIOUS
 <2>3. CASE calls > 0  BY <1>1, <1>2, <2>1, <2>3 DEF Phases, RunRecord
 <2>4. CASE ~(calls > 0)
  <3>1. (calls > 0) = FALSE  BY <2>4
  <3>2. run' = [run EXCEPT !.phase = "boundary", !.open = calls, !.tools = FALSE]
    BY <1>1, <2>4, <3>1
  <3> QED BY <1>2, <3>2 DEF Phases, RunRecord
 <2> QED BY <2>3, <2>4
<1>7. TypeOK'
 <2>1. injected' \subseteq Batches /\ expired' \subseteq Batches /\ cached' \in BOOLEAN
       /\ refs' \in RefTable
   BY <1>1, <1>2
 <2> QED BY <1>5, <1>6, <2>1 DEF TypeOK, ContextRow, Store, RefTable, Transcripts, RunRecord
<1>8. StoreInv' /\ HeaderAgrees' /\ AgentInv'
  BY <1>1, <1>2, <1>3, <1>4, <1>6, WriteKeepsHistory
<1>9. /\ IsRenderable(rows', transcript')
      /\ EndsOn(rows', transcript', run.batch)
      /\ SendersOf(rows', transcript') = SendersOf(rows, transcript)
  BY <1>1, <1>2, <1>3, <1>4, WriteKeepsTurn
<1>10. \E i \in DOMAIN transcript' :
          transcript'[i] # 0 /\ rows'[transcript'[i]].role = "assistant"
 <2>1. /\ Len(transcript) + 1 \in DOMAIN transcript'
       /\ transcript'[Len(transcript) + 1] = header.next
   BY <1>2, <1>5, ContextAssumptions DEF Transcripts, Seqs
 <2>2. rows'[header.next] = message /\ header.next # 0  BY <1>2, <1>5 DEF Store, Seqs
 <2> QED BY <1>3, <2>1, <2>2
<1>11. RenderableInv'  BY <1>6, <1>9, <1>10 DEF RenderableInv
<1>12. BatchInv'  BY <1>2, <1>6, <1>9 DEF BatchInv
<1> QED BY <1>7, <1>8, <1>11, <1>12 DEF ContextInv

\* An assistant message that is not persisted.
LEMMA RespondNothingKeeps ==
    ASSUME ContextInv, RespondNothing
    PROVE  ContextInv'
<1>1. /\ run.phase = "model" /\ transcript' = Append(transcript, 0)
      /\ run' = [run EXCEPT !.phase = "boundary", !.tools = FALSE]
      /\ row' = row /\ rows' = rows /\ refs' = refs /\ expired' = expired
      /\ injected' = injected /\ cached' = cached /\ header' = header
  BY DEF RespondNothing
<1>2. /\ TypeOK /\ StoreInv /\ HeaderAgrees /\ AgentInv
      /\ IsRenderable(rows, transcript) /\ EndsOn(rows, transcript, run.batch)
      /\ run.batch \in Batches /\ run.visible = SendersOf(rows, transcript)
      /\ run.caller = IF run.batch \in Completions THEN None ELSE run.batch
      /\ transcript \in Transcripts /\ run \in RunRecord
      /\ 0 \in 0..MaxSeq
  BY <1>1, TypeNames, ContextAssumptions
  DEF ContextInv, RenderableInv, BatchInv, Working, RunRecord
<1>3. transcript' \in Transcripts  BY <1>1, <1>2 DEF Transcripts
<1>4. /\ run'.phase = "boundary" /\ run'.cut = run.cut /\ run'.batch = run.batch
      /\ run'.visible = run.visible /\ run'.caller = run.caller
      /\ run' \in RunRecord
  BY <1>1, <1>2 DEF Phases, RunRecord
<1>5. TypeOK'  BY <1>1, <1>2, <1>3, <1>4 DEF TypeOK, Transcripts, RunRecord
<1>6. StoreInv' /\ HeaderAgrees'  BY <1>1, <1>2, <1>4 DEF StoreInv, HeaderAgrees
<1>7. AgentInv'
 <2>1. Shows(transcript, header.head..(header.next - 1)) /\ (run.cut => ~cached)
   BY <1>1, <1>2 DEF AgentInv
 <2>2. Shows(transcript', header'.head..(header'.next - 1))  BY <1>1, <1>2, <2>1, ShowsNothing
 <2> QED BY <1>1, <1>4, <2>1, <2>2 DEF AgentInv
<1>8. RenderableInv'
 <2>1. IsRenderable(rows, Append(transcript, 0))  BY <1>2, RenderableAppend
 <2> QED BY <1>1, <1>4, <2>1 DEF RenderableInv
<1>9. BatchInv'
 <2>1. EndsOn(rows, Append(transcript, 0), run.batch)  BY <1>2, EndsOnAppend
 <2>2. SendersOf(rows, Append(transcript, 0)) = SendersOf(rows, transcript) \cup {}
   BY <1>2, SendersAppend
 <2>3. SendersOf(rows', transcript') = run'.visible  BY <1>1, <1>2, <1>4, <2>2
 <2>4. EndsOn(rows', transcript', run'.batch)  BY <1>1, <1>4, <2>1
 <2> QED BY <1>2, <1>4, <2>3, <2>4 DEF BatchInv
<1> QED BY <1>5, <1>6, <1>7, <1>8, <1>9 DEF ContextInv

\* While results are due, the call they answer is in the transcript.
LEMMA LastCallIsShown ==
    ASSUME ContextInv, run.phase = "tools"
    PROVE  /\ LastCall \in Seqs
           /\ \E j \in DOMAIN transcript : transcript[j] = LastCall
<1> DEFINE T == {s \in ToSet(transcript) : s # 0 /\ rows[s].role = "assistant"}
<1>1. T # {} /\ \A s \in T : \E j \in DOMAIN transcript : transcript[j] = s
  BY DEF ContextInv, RenderableInv, ToSet
<1>2. T \in SUBSET (0..MaxSeq) /\ MaxSeq \in Nat
  BY <1>1, TypeNames, ContextAssumptions DEF ContextInv, Transcripts
<1>3. \A s \in T : s # 0  OBVIOUS
<1>4. LastCall = Max(T)  BY DEF LastCall
<1> HIDE DEF T
<1>5. LastCall \in T  BY <1>1, <1>2, <1>4, MaxNat
<1>6. LastCall \in 0..MaxSeq /\ LastCall # 0  BY <1>2, <1>3, <1>5
<1> QED BY <1>1, <1>2, <1>5, <1>6 DEF Seqs

\* A tool result, after the call it answers.
LEMMA ToolResultKeeps ==
    ASSUME ContextInv, NEW send \in BOOLEAN, ToolResult(send)
    PROVE  ContextInv'
<1> DEFINE message == [Message("toolResult") EXCEPT !.answers = LastCall, !.send = send]
<1>1. /\ run.phase = "tools" /\ Persist(message)
      /\ run' = [run EXCEPT !.open = run.open - 1,
                            !.phase = IF run.open = 1 THEN "boundary" ELSE run.phase]
      /\ refs' = refs /\ expired' = expired /\ injected' = injected /\ cached' = cached
  BY TypeNames DEF ContextInv, ToolResult, RunRecord
<1>2. /\ TypeOK /\ StoreInv /\ HeaderAgrees /\ AgentInv /\ run.phase # "idle"
      /\ run.phase \in Working /\ run.open >= 1
      /\ run.batch \in Batches /\ run.visible = SendersOf(rows, transcript)
      /\ run.caller = IF run.batch \in Completions THEN None ELSE run.batch
      /\ transcript \in Transcripts /\ rows \in Store
      /\ injected \subseteq Batches /\ expired \subseteq Batches /\ cached \in BOOLEAN
      /\ refs \in RefTable /\ run \in RunRecord
  BY <1>1, TypeNames DEF ContextInv, RenderableInv, BatchInv, Working, RunRecord
<1>3. /\ message \in Row /\ message.role = "toolResult" /\ message.batch = None
      /\ ~message.checkpoint /\ ~message.evicted /\ message.answers = LastCall
 <2>1. /\ Message("toolResult") \in Row /\ Message("toolResult").role = "toolResult"
       /\ Message("toolResult").batch = None /\ ~Message("toolResult").checkpoint
       /\ ~Message("toolResult").evicted
   BY <1>2, MessageFields
 <2>2. LastCall \in 0..MaxSeq  BY <1>1, LastCallIsShown, ContextAssumptions DEF Seqs
 <2> QED BY <2>1, <2>2 DEF Row
<1>4. WrittenRow(message)  BY <1>3 DEF WrittenRow
<1> HIDE DEF message
<1>5. /\ header.next \in Seqs
      /\ row' \in ContextRow /\ rows' \in Store /\ header' \in Header
      /\ transcript' \in Transcripts
      /\ rows' = [rows EXCEPT ![header.next] = message]
      /\ transcript' = Append(transcript, header.next)
      /\ SameStory(rows, rows', transcript)
  BY <1>1, <1>2, <1>4, PersistKeeps
<1>6. /\ run'.phase \in {"tools", "boundary"}
      /\ run'.phase = "tools" => run'.open >= 1
      /\ run'.cut = run.cut /\ run'.batch = run.batch
      /\ run'.visible = run.visible /\ run'.caller = run.caller
      /\ run' \in RunRecord
 <2>1. run.open \in 0..MaxCalls /\ MaxCalls \in Nat  BY <1>2, ContextAssumptions DEF RunRecord
 <2>2. run.open - 1 \in 0..MaxCalls /\ (run.open # 1 => run.open - 1 >= 1)  BY <1>2, <2>1
 <2> QED BY <1>1, <1>2, <2>2 DEF Phases, RunRecord
<1>7. TypeOK'
 <2>1. injected' \subseteq Batches /\ expired' \subseteq Batches /\ cached' \in BOOLEAN
       /\ refs' \in RefTable
   BY <1>1, <1>2
 <2> QED BY <1>5, <1>6, <2>1 DEF TypeOK, ContextRow, Store, RefTable, Transcripts, RunRecord
<1>8. StoreInv' /\ HeaderAgrees' /\ AgentInv'
  BY <1>1, <1>2, <1>3, <1>4, <1>6, WriteKeepsHistory
<1>9. /\ IsRenderable(rows', transcript')
      /\ EndsOn(rows', transcript', run.batch)
      /\ SendersOf(rows', transcript') = SendersOf(rows, transcript)
 <2>1. \E j \in DOMAIN transcript : transcript[j] = message.answers
   BY <1>1, <1>3, LastCallIsShown
 <2> QED BY <1>1, <1>2, <1>3, <1>4, <2>1, WriteKeepsTurn
<1>10. \E i \in DOMAIN transcript' :
          transcript'[i] # 0 /\ rows'[transcript'[i]].role = "assistant"
 <2>1. PICK i \in DOMAIN transcript :
           transcript[i] # 0 /\ rows[transcript[i]].role = "assistant"
   BY <1>1 DEF ContextInv, RenderableInv
 <2>2. i \in DOMAIN transcript' /\ transcript'[i] = transcript[i]
   BY <1>2, <1>5, ContextAssumptions DEF Transcripts, Seqs
 <2>3. rows'[transcript[i]].role = "assistant"  BY <1>5, <2>1 DEF SameStory
 <2> QED BY <2>1, <2>2, <2>3
<1>11. RenderableInv'  BY <1>6, <1>9, <1>10 DEF RenderableInv
<1>12. BatchInv'  BY <1>2, <1>6, <1>9 DEF BatchInv
<1> QED BY <1>7, <1>8, <1>11, <1>12 DEF ContextInv

\* A nudge is a user turn of no batch.
LEMMA NudgeKeeps ==
    ASSUME ContextInv, Nudge
    PROVE  ContextInv'
<1> DEFINE message == Message("user")
<1>1. /\ run.phase = "next" /\ Persist(message)
      /\ run' = [run EXCEPT !.phase = "model"]
      /\ refs' = refs /\ expired' = expired /\ injected' = injected /\ cached' = cached
  BY DEF Nudge
<1>2. /\ TypeOK /\ StoreInv /\ HeaderAgrees /\ AgentInv /\ run.phase # "idle"
      /\ run.phase \in Working
      /\ run.batch \in Batches /\ run.visible = SendersOf(rows, transcript)
      /\ run.caller = IF run.batch \in Completions THEN None ELSE run.batch
      /\ injected \subseteq Batches /\ expired \subseteq Batches /\ cached \in BOOLEAN
      /\ refs \in RefTable /\ run \in RunRecord
  BY <1>1, TypeNames DEF ContextInv, BatchInv, Working, RunRecord
<1>3. /\ message \in Row /\ message.role = "user" /\ message.batch = None
      /\ ~message.checkpoint /\ ~message.evicted
  BY <1>2, MessageFields
<1>4. WrittenRow(message)  BY <1>3 DEF WrittenRow
<1> HIDE DEF message
<1>5. /\ row' \in ContextRow /\ rows' \in Store /\ header' \in Header
      /\ transcript' \in Transcripts
  BY <1>1, <1>2, <1>4, PersistKeeps
<1>6. /\ run'.phase = "model" /\ run'.cut = run.cut /\ run'.batch = run.batch
      /\ run'.visible = run.visible /\ run'.caller = run.caller
      /\ run' \in RunRecord
  BY <1>1, <1>2 DEF Phases, RunRecord
<1>7. TypeOK'
 <2>1. injected' \subseteq Batches /\ expired' \subseteq Batches /\ cached' \in BOOLEAN
       /\ refs' \in RefTable
   BY <1>1, <1>2
 <2> QED BY <1>5, <1>6, <2>1 DEF TypeOK, ContextRow, Store, RefTable, Transcripts, RunRecord
<1>8. StoreInv' /\ HeaderAgrees' /\ AgentInv'
  BY <1>1, <1>2, <1>3, <1>4, <1>6, WriteKeepsHistory
<1>9. /\ IsRenderable(rows', transcript')
      /\ EndsOn(rows', transcript', run.batch)
      /\ SendersOf(rows', transcript') = SendersOf(rows, transcript)
  BY <1>1, <1>2, <1>3, <1>4, WriteKeepsTurn
<1>10. RenderableInv'  BY <1>6, <1>9 DEF RenderableInv
<1>11. BatchInv'  BY <1>2, <1>6, <1>9 DEF BatchInv
<1> QED BY <1>7, <1>8, <1>10, <1>11 DEF ContextInv

-----------------------------------------------------------------------------
(* Every action keeps the invariant: collection.                           *)

\* planContextGc: a collection starts the retained segment at a checkpoint of the
\* window, which is a user turn of the transcript.
LEMMA PlanIsACheckpoint ==
    ASSUME ContextInv, run.phase # "idle", NEW pressure \in BOOLEAN, NEW budget,
           PlanContextGc(pressure, budget) # 0
    PROVE  LET target == PlanContextGc(pressure, budget)
               index == CHOOSE i \in DOMAIN transcript : transcript[i] = target
           IN  /\ target \in Seqs /\ target >= row.head /\ target < row.next
               /\ rows[target].checkpoint
               /\ index \in DOMAIN transcript /\ transcript[index] = target
               /\ IsRenderable(rows, SubSeq(transcript, index, Len(transcript)))
<1> DEFINE window == RetainedRange(rows, header)
           checkpoints == {s \in window : rows[s].checkpoint /\ s > header.head}
           fits(s) == Cardinality({t \in window : t >= s}) <= budget
           enough == {s \in checkpoints : /\ CountSends(window, s) >= SendsTarget
                                          /\ pressure => fits(s)}
           small == {s \in checkpoints : fits(s)}
           goal == IF enough # {} THEN Max(enough)
                   ELSE IF small # {} THEN Max(small) ELSE 0
           places == {i \in DOMAIN transcript : transcript[i] = goal}
           target == PlanContextGc(pressure, budget)
           index == CHOOSE i \in DOMAIN transcript : transcript[i] = target
<1>1. /\ goal # 0 /\ places # {}
      /\ IsRenderable(rows, SubSeq(transcript, Min(places), Len(transcript)))
      /\ target = goal
  BY DEF PlanContextGc
<1>2. checkpoints \in SUBSET (0..MaxSeq) /\ MaxSeq \in Nat
  BY ContextAssumptions DEF RetainedRange, Seqs
<1>3. goal \in checkpoints
 <2>1. CASE enough # {}
  <3>1. enough \in SUBSET (0..MaxSeq) /\ enough \subseteq checkpoints  BY <1>2
  <3>2. goal = Max(enough)  BY <2>1
  <3> HIDE DEF enough, checkpoints, goal
  <3> QED BY <1>2, <2>1, <3>1, <3>2, MaxNat
 <2>2. CASE enough = {}
  <3>1. small \in SUBSET (0..MaxSeq) /\ small \subseteq checkpoints  BY <1>2
  <3>2. small # {} /\ goal = Max(small)  BY <1>1, <2>2
  <3> HIDE DEF small, checkpoints, goal
  <3> QED BY <1>2, <3>1, <3>2, MaxNat
 <2> QED BY <2>1, <2>2
<1> HIDE DEF target, goal, enough, small
<1>4. goal \in Seqs /\ rows[goal].checkpoint /\ rows[goal].role # "none" /\ ~rows[goal].evicted
  BY <1>3 DEF RetainedRange
<1>5. goal >= row.head /\ goal < row.next
 <2>1. Ordered(row, rows) /\ TypeOK  BY DEF ContextInv, StoreInv
 <2> QED BY <1>4, <2>1, Bounds DEF Ordered, Seqs
<1>6. /\ index \in DOMAIN transcript /\ transcript[index] = goal
      /\ \A i \in DOMAIN transcript : transcript[i] = goal => i = index
 <2>1. index \in DOMAIN transcript /\ transcript[index] = goal  BY <1>1
 <2>2. Shows(transcript, header.head..(header.next - 1)) /\ transcript \in Transcripts
   BY TypeNames DEF ContextInv, AgentInv
 <2>3. goal # 0  BY <1>4 DEF Seqs
 <2> HIDE DEF index
 <2> QED BY <2>1, <2>2, <2>3, ShowsOnce
<1>7. places = {index}  BY <1>6
<1>8. Min(places) = index
 <2>1. transcript \in Transcripts  BY TypeNames DEF ContextInv
 <2>2. places \in SUBSET Nat  BY <2>1 DEF Transcripts
 <2> HIDE DEF places, index
 <2>3. Min(places) \in places  BY <1>1, <2>2, MinNat
 <2> QED BY <1>7, <2>3
<1> QED BY <1>1, <1>4, <1>5, <1>6, <1>8 DEF target

\* A transcript from a batch's message on still ends on the same batch.
LEMMA EndsOnSuffix ==
    ASSUME NEW t \in Transcripts, NEW rs, NEW b, EndsOn(rs, t, b),
           NEW i \in DOMAIN t, t[i] # 0, rs[t[i]].batch # None
    PROVE  EndsOn(rs, SubSeq(t, i, Len(t)), b)
<1> DEFINE u == SubSeq(t, i, Len(t))
           n == Len(t)
<1>1. /\ n \in Nat /\ i \in 1..n /\ DOMAIN t = 1..n
      /\ DOMAIN u = 1..(n - i + 1) /\ \A j \in 1..(n - i + 1) : u[j] = t[j + i - 1]
  BY DEF Transcripts
<1> HIDE DEF u
<1>2. PICK k \in DOMAIN t :
          /\ t[k] # 0 /\ rs[t[k]].batch = b
          /\ \A j \in DOMAIN t : (j > k /\ t[j] # 0) => rs[t[j]].batch = None
  BY DEF EndsOn
<1>3. k >= i  BY <1>1, <1>2
<1>4. k - i + 1 \in DOMAIN u /\ u[k - i + 1] = t[k]
 <2>1. k - i + 1 \in 1..(n - i + 1) /\ (k - i + 1) + i - 1 = k  BY <1>1, <1>3
 <2> QED BY <1>1, <2>1
<1>5. ASSUME NEW j \in DOMAIN u, j > k - i + 1, u[j] # 0
      PROVE  rs[u[j]].batch = None
 <2>1. j + i - 1 \in DOMAIN t /\ j + i - 1 > k /\ u[j] = t[j + i - 1]  BY <1>1, <1>2, <1>5
 <2> QED BY <1>2, <1>5, <2>1
<1>6. EndsOn(rs, u, b)  BY <1>2, <1>4, <1>5 DEF EndsOn
<1> QED BY <1>6 DEF u

\* The caller after a collection is the sender of the last batch.
LEMMA RebuiltAuthority ==
    ASSUME NEW r \in RunRecord, NEW rs \in Store, NEW t \in Transcripts,
           r.batch \in Batches, EndsOn(rs, t, r.batch),
           r.caller = IF r.batch \in Completions THEN None ELSE r.batch
    PROVE  /\ RebuildVisible(r, rs, t).visible = SendersOf(rs, t)
           /\ RebuildVisible(r, rs, t).caller = r.caller
           /\ RebuildVisible(r, rs, t) \in RunRecord
           /\ RebuildVisible(r, rs, t).phase = r.phase
           /\ RebuildVisible(r, rs, t).cut = r.cut
           /\ RebuildVisible(r, rs, t).batch = r.batch
<1> DEFINE senders == SendersOf(rs, t)
           newest == {i \in DOMAIN t : t[i] # 0 /\ rs[t[i]].batch \in senders}
           caller == IF r.caller = None \/ r.batch \in Completions THEN r.caller
                     ELSE IF newest = {} THEN None ELSE rs[t[Max(newest)]].batch
<1>1. RebuildVisible(r, rs, t) = [r EXCEPT !.visible = senders, !.caller = caller]
  BY DEF RebuildVisible, RunRecord
<1>2. caller = r.caller
 <2>1. CASE r.batch \in Completions  BY <2>1
 <2>2. CASE r.batch \notin Completions
  <3>1. PICK k \in DOMAIN t :
            /\ t[k] # 0 /\ rs[t[k]].batch = r.batch
            /\ \A j \in DOMAIN t : (j > k /\ t[j] # 0) => rs[t[j]].batch = None
    BY DEF EndsOn
  <3>2. None \notin Batches /\ None \notin senders
    BY ContextAssumptions DEF SendersOf, BatchesOf
  <3>3. r.batch \in senders  BY <2>2, <3>1, <3>2 DEF SendersOf, BatchesOf
  <3>4. k \in newest /\ \A i \in newest : i \in Nat /\ k \in Nat /\ ~(i > k)
    BY <3>1, <3>2, <3>3 DEF Transcripts
  <3>5. newest \in SUBSET (0..Len(t)) /\ Len(t) \in Nat  BY DEF Transcripts
  <3> HIDE DEF newest
  <3>6. Max(newest) \in newest /\ \A y \in newest : Max(newest) >= y  BY <3>4, <3>5, MaxNat
  <3>7. Max(newest) = k  BY <3>4, <3>6
  <3> QED BY <2>2, <3>1, <3>4, <3>7
 <2> QED BY <2>1, <2>2
<1>3. senders \subseteq Batches  BY SendersAreBatches
<1> HIDE DEF senders, caller
<1>4. r.caller \in Batches \cup {None}  BY DEF RunRecord
<1> QED BY <1>1, <1>2, <1>3, <1>4 DEF RunRecord, senders

\* A collection moves the head, the rows, the references and the agent together.
LEMMA CollectKeeps ==
    ASSUME ContextInv, NEW pressure \in BOOLEAN, NEW budget, Collect(pressure, budget)
    PROVE  /\ ContextInv'
           /\ row'.head >= row.head
           /\ \A s \in Seqs : rows[s].evicted => rows'[s].evicted
<1> DEFINE target == PlanContextGc(pressure, budget)
           index == CHOOSE i \in DOMAIN transcript : transcript[i] = target
           retained == SubSeq(transcript, index, Len(transcript))
           r == [run EXCEPT !.phase = "next"]
<1>1. /\ run.phase = "boundary"
      /\ expired' = expired /\ injected' = injected /\ cached' = cached
  BY DEF Collect
<1>2. /\ TypeOK /\ StoreInv /\ HeaderAgrees /\ AgentInv /\ run.phase # "idle"
      /\ IsRenderable(rows, transcript) /\ EndsOn(rows, transcript, run.batch)
      /\ run.batch \in Batches /\ run.visible = SendersOf(rows, transcript)
      /\ run.caller = IF run.batch \in Completions THEN None ELSE run.batch
      /\ transcript \in Transcripts /\ rows \in Store /\ row \in ContextRow
      /\ injected \subseteq Batches /\ expired \subseteq Batches /\ cached \in BOOLEAN
      /\ refs \in RefTable /\ run \in RunRecord /\ header \in Header
      /\ Ordered(row, rows) /\ Replied(row, rows, refs)
      /\ \A s \in Seqs : rows[s].checkpoint => rows[s].batch \in injected
      /\ Shows(transcript, header.head..(header.next - 1)) /\ (run.cut => ~cached)
  BY <1>1, TypeNames
  DEF ContextInv, StoreInv, AgentInv, RenderableInv, BatchInv, Working, RunRecord
<1>3. /\ row.head \in Nat /\ row.next \in Nat /\ row.next <= MaxSeq + 1 /\ MaxSeq \in Nat
      /\ header.head \in Nat /\ header.next \in Nat /\ header.next = row.next
  BY <1>2, Bounds DEF HeaderAgrees
<1>4. /\ r \in RunRecord /\ r.phase = "next" /\ r.cut = run.cut /\ r.batch = run.batch
      /\ r.visible = run.visible /\ r.caller = run.caller
  BY <1>2 DEF RunRecord, Phases
<1>5. CASE target = 0
 <2>1. /\ run' = r /\ row' = row /\ rows' = rows /\ refs' = refs
       /\ transcript' = transcript /\ header' = header
   BY <1>5 DEF Collect
 <2> HIDE DEF r
 <2>2. TypeOK'  BY <1>1, <1>2, <1>4, <2>1 DEF TypeOK, RunRecord
 <2>3. StoreInv' /\ HeaderAgrees' /\ AgentInv'
   BY <1>1, <1>2, <1>4, <2>1 DEF StoreInv, HeaderAgrees, AgentInv
 <2>4. RenderableInv' /\ BatchInv'  BY <1>1, <1>2, <1>4, <2>1 DEF RenderableInv, BatchInv
 <2>5. row.head >= row.head  BY <1>3
 <2> QED BY <2>1, <2>2, <2>3, <2>4, <2>5 DEF ContextInv
<1>6. CASE target # 0
 <2>1. /\ row' = [row EXCEPT !.head = target] /\ rows' = EvictBelow(rows, target)
       /\ refs' = RefsAbove(refs, target) /\ transcript' = retained
       /\ header' = [header EXCEPT !.head = target]
       /\ run' = RebuildVisible(r, rows, retained)
   BY <1>6 DEF Collect
 <2>2. /\ target \in Seqs /\ target >= row.head /\ target < row.next
       /\ rows[target].checkpoint
       /\ index \in DOMAIN transcript /\ transcript[index] = target
       /\ IsRenderable(rows, retained)
   BY <1>2, <1>6, PlanIsACheckpoint
 <2> HIDE DEF target, index, r
 <2>3. target \in Nat /\ target # 0 /\ target \in 1..(MaxSeq + 1) /\ target <= row.next
   BY <1>3, <2>2 DEF Seqs
 <2>4. /\ rows' \in Store /\ row' \in ContextRow /\ Ordered(row', rows')
       /\ SameMessages(rows, rows')
   BY <1>2, <2>1, <2>2, <2>3, EvictBelowOrdered
 <2>5. refs' \in RefTable /\ Replied(row', rows', refs')
   BY <1>2, <2>1, <2>2, <2>3, <2>4, RefsAboveReplied
 <2>6. /\ header' \in Header /\ header'.head = target /\ header'.next = header.next
       /\ header'.sends = header.sends /\ row'.head = target /\ row'.next = row.next
       /\ row'.sends = row.sends
   BY <1>2, <2>1, <2>3 DEF Header, ContextRow
 <2>7. /\ retained \in Transcripts
       /\ Shows(retained, target..(header.next - 1))
  <3>1. header.next - 1 \in Nat  BY <1>3, <2>2, <2>3
  <3> QED BY <1>2, <1>3, <2>2, <2>3, <3>1, ShowsSuffix
 <2>8. EndsOn(rows, retained, run.batch)
  <3>1. rows[target].batch # None  BY <1>2, <2>2 DEF Ordered
  <3> QED BY <1>2, <2>2, <2>3, <3>1, EndsOnSuffix
 <2>9. SameStory(rows, rows', retained)
  <3>1. \A i \in DOMAIN retained : retained[i] # 0 => retained[i] \in Seqs
    BY <2>7, TranscriptRows
  <3> QED BY <2>4, <3>1 DEF SameMessages, SameStory
 <2> HIDE DEF retained
 <2>10. /\ run'.visible = SendersOf(rows, retained) /\ run'.caller = run.caller
        /\ run' \in RunRecord /\ run'.phase = "next" /\ run'.cut = run.cut
        /\ run'.batch = run.batch
   BY <1>2, <1>4, <2>1, <2>7, <2>8, RebuiltAuthority
 <2>11. TypeOK'
   BY <1>1, <1>2, <2>1, <2>4, <2>5, <2>6, <2>7, <2>10
   DEF TypeOK, ContextRow, Store, RefTable, Transcripts, RunRecord
 <2>12. StoreInv'
  <3>1. \A s \in Seqs : rows'[s].checkpoint => rows'[s].batch \in injected
    BY <1>2, <2>4 DEF SameMessages
  <3> QED BY <1>1, <2>4, <2>5, <3>1 DEF StoreInv
 <2>13. HeaderAgrees'
  <3>1. target <= target  BY <2>3
  <3> QED BY <1>2, <2>6, <3>1 DEF HeaderAgrees
 <2>14. AgentInv'  BY <1>1, <1>2, <2>1, <2>6, <2>7, <2>10 DEF AgentInv
 <2>15. RenderableInv'
  <3>1. IsRenderable(rows', retained)  BY <2>2, <2>7, <2>9, RenderableSame
  <3> QED BY <2>1, <2>10, <3>1 DEF RenderableInv
 <2>16. BatchInv'
  <3>1. EndsOn(rows', retained, run.batch)  BY <2>7, <2>8, <2>9, EndsOnSame
  <3>2. SendersOf(rows', retained) = SendersOf(rows, retained)  BY <2>9, SendersSame
  <3> QED BY <1>2, <2>1, <2>10, <3>1, <3>2 DEF BatchInv
 <2>17. \A s \in Seqs : rows[s].evicted => rows'[s].evicted
   BY <1>3, <2>2, <2>3, <2>4, <2>6, <1>2 DEF Ordered, Seqs
 <2> QED BY <2>2, <2>6, <2>11, <2>12, <2>13, <2>14, <2>15, <2>16, <2>17 DEF ContextInv
<1> QED BY <1>5, <1>6

-----------------------------------------------------------------------------
(* Every action keeps the invariant: the others.                           *)

\* What an action leaves alone.
LEMMA RunMovesOn ==
    ASSUME ContextInv, row' = row, rows' = rows, refs' = refs,
           expired' \subseteq Batches, injected' = injected, cached' = cached,
           transcript' = transcript, header' = header,
           run' \in RunRecord, run'.cut = run.cut, run'.batch = run.batch,
           run'.visible = run.visible, run'.caller = run.caller,
           \/ run'.phase = run.phase /\ run'.open = run.open
           \/ run.phase = "next" /\ run'.phase = "model"
    PROVE  ContextInv'
<1>1. TypeOK /\ StoreInv /\ HeaderAgrees /\ AgentInv /\ RenderableInv /\ BatchInv
  BY DEF ContextInv
<1>2. TypeOK'  BY <1>1 DEF TypeOK, RunRecord
<1>3. StoreInv' /\ HeaderAgrees' /\ AgentInv'  BY <1>1 DEF StoreInv, HeaderAgrees, AgentInv
<1>4. RenderableInv'  BY <1>1 DEF RenderableInv, Working
<1>5. BatchInv'  BY <1>1 DEF BatchInv, Working
<1> QED BY <1>2, <1>3, <1>4, <1>5 DEF ContextInv

\* The next model call.
LEMMA ContinueKeeps ==
    ASSUME ContextInv, Continue PROVE ContextInv'
<1>1. run \in RunRecord /\ run.phase = "next" /\ run' = [run EXCEPT !.phase = "model"]
      /\ expired \subseteq Batches
  BY TypeNames DEF ContextInv, Continue
<1>2. /\ run' \in RunRecord /\ run'.cut = run.cut /\ run'.batch = run.batch
      /\ run'.visible = run.visible /\ run'.caller = run.caller /\ run'.phase = "model"
  BY <1>1 DEF RunRecord, Phases
<1>3. /\ row' = row /\ rows' = rows /\ refs' = refs /\ expired' = expired
      /\ injected' = injected /\ cached' = cached /\ transcript' = transcript
      /\ header' = header
  BY DEF Continue
<1> QED BY <1>1, <1>2, <1>3, RunMovesOn

\* An abort is only noted.
LEMMA AbortRunKeeps ==
    ASSUME ContextInv, AbortRun PROVE ContextInv'
<1>1. run \in RunRecord /\ run' = [run EXCEPT !.aborted = TRUE] /\ expired \subseteq Batches
  BY TypeNames DEF ContextInv, AbortRun
<1>2. /\ run' \in RunRecord /\ run'.cut = run.cut /\ run'.batch = run.batch
      /\ run'.visible = run.visible /\ run'.caller = run.caller
      /\ run'.phase = run.phase /\ run'.open = run.open
  BY <1>1 DEF RunRecord
<1>3. /\ row' = row /\ rows' = rows /\ refs' = refs /\ expired' = expired
      /\ injected' = injected /\ cached' = cached /\ transcript' = transcript
      /\ header' = header
  BY DEF AbortRun
<1> QED BY <1>1, <1>2, <1>3, RunMovesOn

\* A media reference past its TTL.
LEMMA ExpireKeeps ==
    ASSUME ContextInv, NEW b \in Batches, Expire(b) PROVE ContextInv'
<1>1. run \in RunRecord /\ run' = run /\ expired' \subseteq Batches
  BY TypeNames DEF ContextInv, Expire
<1>2. /\ row' = row /\ rows' = rows /\ refs' = refs
      /\ injected' = injected /\ cached' = cached /\ transcript' = transcript
      /\ header' = header
  BY DEF Expire
<1> QED BY <1>1, <1>2, RunMovesOn

\* A sticker reference is no reply reference.
LEMMA MintStickerKeeps ==
    ASSUME ContextInv, MintSticker PROVE ContextInv'
<1> DEFINE seq == IF header.next > header.head THEN header.next - 1 ELSE header.head
<1>1. /\ run.phase = "tools" /\ refs' = [refs EXCEPT !["sticker"][run.batch] = seq]
      /\ row' = row /\ rows' = rows /\ expired' = expired /\ injected' = injected
      /\ cached' = cached /\ transcript' = transcript /\ header' = header /\ run' = run
  BY DEF MintSticker
<1>2. TypeOK /\ StoreInv /\ HeaderAgrees /\ AgentInv /\ RenderableInv /\ BatchInv
  BY DEF ContextInv
<1>3. /\ refs \in RefTable /\ run.batch \in Batches
      /\ "sticker" \in Kinds /\ "reply" \in Kinds /\ "sticker" # "reply"
  BY <1>1, <1>2, TypeNames DEF BatchInv, Kinds
<1>4. seq \in 0..(MaxSeq + 1)
 <2>1. header.head \in 1..(MaxSeq + 1) /\ header.next \in 1..(MaxSeq + 1) /\ MaxSeq \in Nat
   BY <1>2, TypeNames, ContextAssumptions DEF Header
 <2> QED BY <2>1
<1> HIDE DEF seq
<1>5. refs' \in RefTable /\ refs'["reply"] = refs["reply"]  BY <1>1, <1>3, <1>4 DEF RefTable
<1>6. TypeOK'  BY <1>1, <1>2, <1>5 DEF TypeOK, RefTable
<1>7. StoreInv' /\ HeaderAgrees' /\ AgentInv'
  BY <1>1, <1>2, <1>5 DEF StoreInv, Replied, HeaderAgrees, AgentInv
<1>8. RenderableInv' /\ BatchInv'  BY <1>1, <1>2 DEF RenderableInv, BatchInv
<1> QED BY <1>6, <1>7, <1>8 DEF ContextInv

\* A new batch joins the run.
LEMMA InjectKeeps ==
    ASSUME ContextInv, NEW b \in Batches, Inject(b) PROVE ContextInv'
<1>1. /\ run.phase = "next" /\ b \notin injected
      /\ refs' = RenderInjection(refs, b, header.next)
      /\ run' = ApplyInjection(run, b) /\ expired' = expired \ {b}
      /\ row' = row /\ rows' = rows /\ injected' = injected
      /\ cached' = cached /\ transcript' = transcript /\ header' = header
  BY DEF Inject
<1>2. /\ TypeOK /\ StoreInv /\ HeaderAgrees /\ AgentInv
      /\ IsRenderable(rows, transcript) /\ run.visible = SendersOf(rows, transcript)
      /\ refs \in RefTable /\ rows \in Store /\ transcript \in Transcripts
      /\ run \in RunRecord /\ header \in Header /\ expired \subseteq Batches
      /\ Ordered(row, rows) /\ Replied(row, rows, refs)
      /\ \A s \in Seqs : rows[s].checkpoint => rows[s].batch \in injected
  BY <1>1, TypeNames DEF ContextInv, StoreInv, RenderableInv, BatchInv, Working
<1>3. /\ run' \in RunRecord /\ run'.phase = "loading" /\ run'.batch = b
      /\ run'.cut = run.cut
      /\ run'.visible = run.visible \cup ({b} \ Completions)
      /\ run'.caller = IF b \in Completions THEN None ELSE b
  BY <1>1, <1>2 DEF ApplyInjection, RunRecord, Phases
<1>4. header.next \in 0..(MaxSeq + 1)  BY <1>2, ContextAssumptions DEF Header
<1>5. refs' \in RefTable /\ refs'["reply"][b] = header.next
  BY <1>1, <1>2, <1>4, RenderedReplies
<1>6. TypeOK'  BY <1>1, <1>2, <1>3, <1>5 DEF TypeOK, RefTable, RunRecord
<1>7. StoreInv'
 <2>1. Replied(row, rows, refs')  BY <1>1, <1>2, <1>4, NewBatchReplied
 <2> QED BY <1>1, <1>2, <2>1 DEF StoreInv
<1>8. HeaderAgrees' /\ AgentInv'  BY <1>1, <1>2, <1>3 DEF HeaderAgrees, AgentInv
<1>9. RenderableInv'  BY <1>1, <1>2, <1>3 DEF RenderableInv, Working
<1>10. BatchInv'  BY <1>1, <1>2, <1>3, <1>5 DEF BatchInv, Working
<1> QED BY <1>6, <1>7, <1>8, <1>9, <1>10 DEF ContextInv

\* A run that ends: an agent that stays cached shows what the store retains.
LEMMA IdleKeeps ==
    ASSUME ContextInv, row' = row, rows' = rows, refs' = refs, expired' = expired,
           injected' = injected, header' = header, run' = NoRun,
           \/ cached' = FALSE /\ transcript' = <<>>
           \/ cached' = cached /\ transcript' = transcript /\ run.phase \in Working
    PROVE  ContextInv'
<1>1. TypeOK /\ StoreInv /\ HeaderAgrees /\ AgentInv /\ RenderableInv /\ BatchInv
  BY DEF ContextInv
<1>2. NoRun \in RunRecord /\ NoRun.phase = "idle" /\ ~NoRun.cut
 <2>1. 0 \in 0..MaxCalls  BY ContextAssumptions
 <2> QED BY <2>1 DEF NoRun, RunRecord, Phases
<1>3. TypeOK'
 <2>1. <<>> \in Seq(0..MaxSeq)  OBVIOUS
 <2> QED BY <1>1, <1>2, <2>1 DEF TypeOK, RunRecord
<1>4. StoreInv' /\ HeaderAgrees'  BY <1>1, <1>2 DEF StoreInv, HeaderAgrees
<1>5. AgentInv'  BY <1>1, <1>2 DEF AgentInv, HeaderAgrees, Working
<1>6. RenderableInv' /\ BatchInv'  BY <1>1, <1>2 DEF RenderableInv, BatchInv, Working
<1> QED BY <1>3, <1>4, <1>5, <1>6 DEF ContextInv

\* The finally of a run.
LEMMA EndRunKeeps ==
    ASSUME ContextInv, NEW failed \in BOOLEAN, EndRun(failed) PROVE ContextInv'
<1>1. /\ ~failed => run.phase = "next"
      /\ cached' = (cached /\ ~failed)
      /\ transcript' = IF cached' THEN transcript ELSE <<>>
      /\ run' = NoRun /\ row' = row /\ rows' = rows /\ refs' = refs
      /\ expired' = expired /\ injected' = injected /\ header' = header
      /\ cached \in BOOLEAN
  BY TypeNames DEF ContextInv, EndRun, AgentKept
<1>2. CASE cached'
 <2>1. ~failed /\ cached  BY <1>1, <1>2
 <2>2. cached' = cached /\ run.phase \in Working  BY <1>1, <2>1 DEF Working
 <2> QED BY <1>1, <1>2, <2>2, IdleKeeps
<1>3. CASE ~cached'
 <2>1. cached' = FALSE  BY <1>1, <1>3
 <2> QED BY <1>1, <2>1, IdleKeeps
<1> QED BY <1>2, <1>3

\* A run whose append throws leaves no agent.
LEMMA PersistFailsKeeps ==
    ASSUME ContextInv, PersistFails PROVE ContextInv'
<1>1. /\ cached' = FALSE /\ transcript' = <<>> /\ run' = NoRun
      /\ row' = row /\ rows' = rows /\ refs' = refs
      /\ expired' = expired /\ injected' = injected /\ header' = header
  BY DEF PersistFails, AgentKept
<1> QED BY <1>1, IdleKeeps

\* A crash leaves the tables.
LEMMA CrashKeeps ==
    ASSUME ContextInv, Crash PROVE ContextInv'
<1>1. /\ cached' = FALSE /\ transcript' = <<>> /\ run' = NoRun
      /\ row' = row /\ rows' = rows /\ refs' = refs
      /\ expired' = expired /\ injected' = injected /\ header' = header
  BY DEF Crash
<1> QED BY <1>1, IdleKeeps

\* The cache drops the agent.
LEMMA EvictAgentKeeps ==
    ASSUME ContextInv, EvictAgent PROVE ContextInv'
<1>1. /\ cached' = FALSE
      /\ transcript' = IF run.phase = "idle" THEN <<>> ELSE transcript
      /\ run' = run /\ row' = row /\ rows' = rows /\ refs' = refs
      /\ expired' = expired /\ injected' = injected /\ header' = header
  BY DEF EvictAgent
<1>2. TypeOK /\ StoreInv /\ HeaderAgrees /\ AgentInv /\ RenderableInv /\ BatchInv
  BY DEF ContextInv
<1>3. TypeOK'
 <2>1. <<>> \in Seq(0..MaxSeq)  OBVIOUS
 <2> QED BY <1>1, <1>2, <2>1 DEF TypeOK
<1>4. StoreInv' /\ HeaderAgrees' /\ AgentInv'
  BY <1>1, <1>2 DEF StoreInv, HeaderAgrees, AgentInv
<1>5. RenderableInv' /\ BatchInv'  BY <1>1, <1>2 DEF RenderableInv, BatchInv, Working
<1> QED BY <1>3, <1>4, <1>5 DEF ContextInv

\* The history is dropped under a run, which keeps its transcript and loses its cache.
LEMMA CutTopicKeeps ==
    ASSUME ContextInv, CutTopic
    PROVE  /\ ContextInv'
           /\ row'.head >= row.head
           /\ \A s \in Seqs : rows[s].evicted => rows'[s].evicted
<1>1. /\ row' = [row EXCEPT !.head = row.next] /\ rows' = EvictFrom(rows, row.head)
      /\ refs' = NoRefs /\ cached' = FALSE
      /\ run' = IF run.phase = "idle" THEN run
                ELSE [run EXCEPT !.aborted = TRUE, !.cut = TRUE]
      /\ transcript' = IF run.phase = "idle" THEN <<>> ELSE transcript
      /\ expired' = expired /\ injected' = injected /\ header' = header
  BY DEF CutTopic
<1>2. /\ TypeOK /\ StoreInv /\ HeaderAgrees /\ AgentInv /\ RenderableInv /\ BatchInv
      /\ Ordered(row, rows) /\ rows \in Store /\ row \in ContextRow /\ run \in RunRecord
      /\ transcript \in Transcripts
      /\ \A s \in Seqs : rows[s].checkpoint => rows[s].batch \in injected
  BY TypeNames DEF ContextInv, StoreInv
<1>3. row.next \in Nat /\ row.next >= row.head /\ row.next <= row.next /\ row.head \in Nat
      /\ MaxSeq \in Nat
  BY <1>2, Bounds
<1>4. rows' = EvictBelow(rows, row.next)  BY <1>1, <1>2, EvictFromOrdered
<1>5. /\ rows' \in Store /\ row' \in ContextRow /\ Ordered(row', rows')
      /\ SameMessages(rows, rows')
  BY <1>1, <1>2, <1>3, <1>4, EvictBelowOrdered
<1>6. row'.head = row.next /\ row'.next = row.next /\ row'.sends = row.sends
  BY <1>1, <1>2 DEF ContextRow
<1>7. NoRefs \in RefTable /\ Replied(row', rows', NoRefs)  BY <1>3, <1>5, <1>6, NoRefsReplied
<1>8. /\ run' \in RunRecord /\ run'.phase = run.phase /\ run'.batch = run.batch
      /\ run'.visible = run.visible /\ run'.caller = run.caller /\ run'.open = run.open
      /\ run.phase # "idle" => run'.cut
      /\ run.phase = "idle" => ~run'.cut
  BY <1>1, <1>2 DEF RunRecord, AgentInv
<1>9. SameStory(rows, rows', transcript)
 <2>1. \A i \in DOMAIN transcript : transcript[i] # 0 => transcript[i] \in Seqs
   BY <1>2, TranscriptRows
 <2> QED BY <1>5, <2>1 DEF SameMessages, SameStory
<1>10. TypeOK'
 <2>0. <<>> \in Seq(0..MaxSeq)  OBVIOUS
 <2>1. transcript' \in Transcripts  BY <1>1, <1>2, <2>0 DEF Transcripts
 <2> QED BY <1>1, <1>2, <1>5, <1>7, <1>8, <2>1
     DEF TypeOK, ContextRow, Store, RefTable, Transcripts, RunRecord
<1>11. StoreInv'
 <2>1. \A s \in Seqs : rows'[s].checkpoint => rows'[s].batch \in injected
   BY <1>2, <1>5 DEF SameMessages
 <2> QED BY <1>1, <1>5, <1>7, <2>1 DEF StoreInv
<1>12. HeaderAgrees'
 <2>1. run.phase # "idle" => header.head \in Nat /\ header.head <= row.head
   BY <1>2, Bounds DEF HeaderAgrees
 <2>2. run.phase # "idle" => header.head <= row.next  BY <1>3, <2>1
 <2> QED BY <1>1, <1>2, <1>6, <1>8, <2>2 DEF HeaderAgrees
<1>13. AgentInv'  BY <1>1, <1>2, <1>8 DEF AgentInv
<1>14. CASE run.phase = "idle"
 <2>1. RenderableInv' /\ BatchInv'  BY <1>1, <1>8, <1>14 DEF RenderableInv, BatchInv, Working
 <2> QED BY <1>3, <1>5, <1>6, <1>10, <1>11, <1>12, <1>13, <2>1, <1>2
     DEF ContextInv, Ordered, Seqs
<1>15. CASE run.phase # "idle"
 <2>1. transcript' = transcript  BY <1>1, <1>15
 <2>2. IsRenderable(rows, transcript) => IsRenderable(rows', transcript)
   BY <1>2, <1>9, RenderableSame
 <2>3. EndsOn(rows, transcript, run.batch) => EndsOn(rows', transcript, run.batch)
   BY <1>2, <1>9, EndsOnSame
 <2>4. SendersOf(rows', transcript) = SendersOf(rows, transcript)  BY <1>9, SendersSame
 <2>5. RenderableInv'
   BY <1>2, <1>8, <1>9, <1>15, <2>1, <2>2 DEF RenderableInv, SameStory, Working
 <2>6. BatchInv'  BY <1>1, <1>2, <1>8, <1>15, <2>1, <2>3, <2>4 DEF BatchInv
 <2> QED BY <1>3, <1>5, <1>6, <1>10, <1>11, <1>12, <1>13, <2>5, <2>6, <1>2
     DEF ContextInv, Ordered, Seqs
<1> QED BY <1>14, <1>15

-----------------------------------------------------------------------------
(* The theorems.                                                           *)

\* The empty conversation satisfies the invariant.
LEMMA InitContextInv == Init => ContextInv
<1> SUFFICES ASSUME Init PROVE ContextInv  OBVIOUS
<1>1. /\ row = [head |-> 1, next |-> 1, sends |-> 0, hash |-> None]
      /\ rows = [s \in Seqs |-> NoRow] /\ refs = NoRefs
      /\ expired = {} /\ injected = {} /\ cached = FALSE /\ transcript = <<>>
      /\ header = [head |-> 1, next |-> 1, sends |-> 0] /\ run = NoRun
  BY DEF Init, NoRefs
<1>2. /\ 0 \in 0..MaxCalls /\ 0 \in 0..MaxSeq /\ 1 \in 1..(MaxSeq + 1)
      /\ <<>> \in Seq(0..MaxSeq)
  BY ContextAssumptions
<1>3. row \in ContextRow /\ header \in Header  BY <1>1, <1>2 DEF ContextRow, Header
<1>4. rows \in Store  BY <1>1, <1>2 DEF Store, Row, NoRow
<1>5. run \in RunRecord /\ run.phase = "idle" /\ ~run.cut
  BY <1>1, <1>2 DEF NoRun, RunRecord, Phases
<1>6. Ordered(row, rows)
 <2>1. \A s \in Seqs : ~(s < 1) /\ s >= 1 /\ rows[s] = NoRow  BY <1>1 DEF Seqs
 <2>2. row.head = 1 /\ row.next = 1 /\ row.sends = 0  BY <1>1
 <2>3. NoRow.role = "none" /\ ~NoRow.evicted /\ ~NoRow.checkpoint /\ NoRow.batch = None
   BY DEF NoRow
 <2>4. \A s \in Seqs :
         /\ rows[s].role # "none" <=> s < row.next
         /\ s >= row.next => rows[s] = NoRow
         /\ rows[s].evicted <=> s < row.head
         /\ rows[s].checkpoint <=> rows[s].batch # None
         /\ rows[s].checkpoint => rows[s].role = "user"
   BY <2>1, <2>2, <2>3
 <2> QED BY <2>2, <2>4 DEF Ordered
<1>7. refs \in RefTable /\ Replied(row, rows, refs)
 <2>1. row.head = row.next /\ row.head \in Nat  BY <1>1
 <2> QED BY <1>1, <1>4, <1>6, <2>1, NoRefsReplied
<1>8. TypeOK
  BY <1>1, <1>2, <1>3, <1>4, <1>5, <1>7
  DEF TypeOK, ContextRow, Store, RefTable, RunRecord
<1>9. StoreInv  BY <1>1, <1>6, <1>7 DEF StoreInv, NoRow
<1>10. HeaderAgrees /\ AgentInv /\ RenderableInv /\ BatchInv
  BY <1>1, <1>5 DEF HeaderAgrees, AgentInv, RenderableInv, BatchInv, Working
<1> QED BY <1>8, <1>9, <1>10 DEF ContextInv

\* Every step keeps the invariant, one case per action.
LEMMA NextContextInv == ContextInv /\ [Next]_vars => ContextInv'
<1> SUFFICES ASSUME ContextInv, [Next]_vars PROVE ContextInv'  OBVIOUS
<1>1. ASSUME NEW b \in Batches, NEW hash \in Prompts, OpenRun(b, hash)
      PROVE  ContextInv'
  BY <1>1, OpenRunKeeps
<1>2. ASSUME NEW b \in Batches, Inject(b) PROVE ContextInv'  BY <1>2, InjectKeeps
<1>3. ASSUME NEW b \in Batches, Expire(b) PROVE ContextInv'  BY <1>3, ExpireKeeps
<1>4. CASE LoadImages  BY <1>4, LoadImagesKeeps
<1>5. ASSUME NEW calls \in 0..MaxCalls, Respond(calls) PROVE ContextInv'  BY <1>5, RespondKeeps
<1>6. CASE RespondNothing  BY <1>6, RespondNothingKeeps
<1>7. CASE MintSticker  BY <1>7, MintStickerKeeps
<1>8. ASSUME NEW send \in BOOLEAN, ToolResult(send) PROVE ContextInv'  BY <1>8, ToolResultKeeps
<1>9. ASSUME NEW pressure \in BOOLEAN, NEW budget \in TokenBudgets,
             Collect(pressure, budget)
      PROVE  ContextInv'
  BY <1>9, CollectKeeps
<1>10. CASE Continue  BY <1>10, ContinueKeeps
<1>11. CASE Nudge  BY <1>11, NudgeKeeps
<1>12. ASSUME NEW failed \in BOOLEAN, EndRun(failed) PROVE ContextInv'  BY <1>12, EndRunKeeps
<1>13. CASE PersistFails  BY <1>13, PersistFailsKeeps
<1>14. CASE CutTopic  BY <1>14, CutTopicKeeps
<1>15. CASE AbortRun  BY <1>15, AbortRunKeeps
<1>16. CASE EvictAgent  BY <1>16, EvictAgentKeeps
<1>17. CASE Crash  BY <1>17, CrashKeeps
<1>18. CASE UNCHANGED vars
 <2>1. TypeOK' /\ StoreInv'  BY <1>18 DEF ContextInv, vars, TypeOK, StoreInv
 <2>2. HeaderAgrees' /\ AgentInv' /\ RenderableInv' /\ BatchInv'
   BY <1>18 DEF ContextInv, vars, HeaderAgrees, AgentInv, RenderableInv, BatchInv
 <2> QED BY <2>1, <2>2 DEF ContextInv
<1> QED BY <1>1, <1>2, <1>3, <1>4, <1>5, <1>6, <1>7, <1>8, <1>9, <1>10, <1>11,
           <1>12, <1>13, <1>14, <1>15, <1>16, <1>17, <1>18 DEF Next

\* The invariant says what the runs check.
LEMMA ContextInvImplies ==
    ContextInv => HistoryAgrees /\ Replayable /\ RoundAuthority
<1> SUFFICES ASSUME ContextInv PROVE HistoryAgrees /\ Replayable /\ RoundAuthority  OBVIOUS
<1>1. /\ TypeOK /\ HeaderAgrees /\ AgentInv /\ RenderableInv /\ BatchInv
      /\ Ordered(row, rows) /\ Replied(row, rows, refs)
      /\ row \in ContextRow /\ rows \in Store /\ refs \in RefTable /\ cached \in BOOLEAN
  BY TypeNames DEF ContextInv, StoreInv
<1>2. /\ MaxSeq \in Nat /\ row.head \in Nat /\ row.head >= 1 /\ row.head <= row.next
      /\ row.next \in Nat /\ row.next <= MaxSeq + 1
  BY <1>1, Bounds
<1>3. CanonicalTranscript
 <2>1. row.head \in 1..(MaxSeq + 1) /\ row.head <= row.head  BY <1>2
 <2>2. RetainedRange(rows, row) = row.head..(row.next - 1)  BY <1>1, <2>1, RangeIsInterval
 <2>3. CASE run.phase = "idle"  BY <1>1, <2>2, <2>3 DEF CanonicalTranscript, AgentInv
 <2>4. CASE run.phase # "idle"
   BY <1>1, <2>2, <2>4 DEF CanonicalTranscript, AgentInv, HeaderAgrees
 <2> QED BY <2>3, <2>4
<1>4. RefsBacked
 <2> SUFFICES ASSUME NEW k \in Kinds, NEW b \in Batches,
                     Resolve(row, k, b), refs[k][b] < row.next
              PROVE  ~rows[refs[k][b]].evicted
   BY DEF RefsBacked
 <2>1. refs[k][b] \in Nat  BY <1>1, <1>2 DEF RefTable
 <2>2. refs[k][b] \in Seqs /\ ~(refs[k][b] < row.head)  BY <1>2, <2>1 DEF Resolve, Seqs
 <2> QED BY <1>1, <2>2 DEF Ordered
<1>5. RepliesResolve
 <2> SUFFICES ASSUME NEW s \in row.head..MaxSeq, rows[s].checkpoint,
                     ~rows[s].evicted, ~rows[s].late
              PROVE  Resolve(row, "reply", rows[s].batch)
   BY DEF RepliesResolve, BatchRows
 <2>1. s \in Seqs /\ s \in Nat /\ s >= row.head  BY <1>2 DEF Seqs
 <2>2. refs["reply"][rows[s].batch] >= s  BY <1>1, <2>1 DEF Replied
 <2>3. rows[s].batch \in Batches /\ "reply" \in Kinds
   BY <1>1, <2>1 DEF Ordered, Store, Row, Kinds
 <2>4. refs["reply"][rows[s].batch] \in Nat  BY <1>1, <1>2, <2>3 DEF RefTable
 <2> QED BY <1>2, <2>1, <2>2, <2>4 DEF Resolve
<1>6. HistoryAgrees  BY <1>1, <1>3, <1>4, <1>5 DEF HistoryAgrees
<1>7. Replayable /\ RoundAuthority
  BY <1>1 DEF Replayable, RoundAuthority, RenderableInv, BatchInv, Working
<1> QED BY <1>6, <1>7

\* The invariant holds of every behaviour.
LEMMA ContextInvHolds == Spec => []ContextInv
BY InitContextInv, NextContextInv, PTL DEF Spec

\* The tables, the header of a run and the transcript of its agent tell one
\* history, and references reach as far as it does, whatever cuts, collections,
\* failed appends, evicted agents and crashes come in between.
THEOREM OneHistory == Spec => []HistoryAgrees
BY ContextInvHolds, ContextInvImplies, PTL

\* What a run sends to the provider starts on a user turn and holds no tool
\* result without its call (isRenderable, #alignedRetained, planContextGc).
THEOREM AlwaysReplayable == Spec => []Replayable
BY ContextInvHolds, ContextInvImplies, PTL

\* The senders a run may act for are those it can see, and its authority is that
\* of its own batch, across injections and collections (rebuildVisibleState).
THEOREM AuthorityIsOfTheRound == Spec => []RoundAuthority
BY ContextInvHolds, ContextInvImplies, PTL

\* Under one prompt the head only moves forward and dropped rows stay dropped.
THEOREM DroppedStaysDropped == Spec => HistoryOnlyShrinks
<1> DEFINE Shrinks == row'.hash = row.hash =>
                         /\ row'.head >= row.head
                         /\ \A s \in Seqs : rows[s].evicted =>
                                               s < row'.head \/ rows'[s].evicted
<1>1. ContextInv /\ [Next]_vars => [Shrinks]_vars
 <2> SUFFICES ASSUME ContextInv, Next PROVE Shrinks  OBVIOUS
 <2>1. /\ TypeOK /\ StoreInv /\ HeaderAgrees /\ AgentInv
       /\ row.head \in Nat /\ row.head >= row.head /\ rows \in Store
   BY Bounds, TypeNames DEF ContextInv, StoreInv
 <2>2. ASSUME row' = row, rows' = rows PROVE Shrinks  BY <2>1, <2>2
 <2>3. ASSUME NEW b \in Batches, NEW hash \in Prompts, OpenRun(b, hash) PROVE Shrinks
   BY <2>3, OpenRunKeeps
 <2>4. ASSUME NEW b \in Batches, Inject(b) \/ Expire(b) PROVE Shrinks
   BY <2>2, <2>4 DEF Inject, Expire
 <2>5. ASSUME LoadImages \/ (\E calls \in 0..MaxCalls : Respond(calls))
                         \/ (\E send \in BOOLEAN : ToolResult(send)) \/ Nudge
       PROVE  Shrinks
  <3>1. PICK message : Persist(message)  BY <2>5 DEF LoadImages, Respond, ToolResult, Nudge
  <3>2. row'.head = row.head
   <4>1. row \in ContextRow  BY <2>1, TypeNames
   <4> QED BY <3>1, <4>1 DEF Persist, Append1, ContextRow
  <3>3. \A s \in Seqs : rows[s].evicted => s < row.head  BY <2>1 DEF StoreInv, Ordered
  <3> QED BY <2>1, <3>2, <3>3
 <2>6. ASSUME RespondNothing \/ MintSticker \/ Continue PROVE Shrinks
   BY <2>2, <2>6 DEF RespondNothing, MintSticker, Continue
 <2>7. ASSUME NEW pressure \in BOOLEAN, NEW budget \in TokenBudgets,
              Collect(pressure, budget)
       PROVE  Shrinks
   BY <2>7, CollectKeeps
 <2>8. ASSUME NEW failed \in BOOLEAN, EndRun(failed) PROVE Shrinks  BY <2>2, <2>8 DEF EndRun
 <2>9. CASE CutTopic  BY <2>9, CutTopicKeeps
 <2>10. ASSUME PersistFails \/ AbortRun \/ EvictAgent \/ Crash PROVE Shrinks
   BY <2>2, <2>10 DEF PersistFails, AbortRun, EvictAgent, Crash
 <2> HIDE DEF Shrinks
 <2> QED BY <2>3, <2>4, <2>5, <2>6, <2>7, <2>8, <2>9, <2>10 DEF Next
<1>2. Spec => [][Shrinks]_vars  BY <1>1, ContextInvHolds, PTL DEF Spec
<1> QED BY <1>2 DEF HistoryOnlyShrinks

=============================================================================
