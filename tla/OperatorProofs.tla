---------------------------- MODULE OperatorProofs ----------------------------
(* Proofs about the operator's side: the configuration file, its keys and the   *)
(* running process, the panel's accounts and sign-ins, its providers, and what   *)
(* it lists and clears, for any chats, models, requests and hand edits.          *)
EXTENDS ConfigLifecycle, AdminSessions, ProviderAdmin, AdminRecords,
        FiniteSetTheorems, SequenceTheorems, WellFoundedInduction, TLAPS

-----------------------------------------------------------------------------
(* Contents and edits.                                                         *)

\* The edits a write may carry.
EditSet ==
    [what: {"none"}] \cup [what: {"agent"}, model: Models]
        \cup [what: {"chat"}, index: Int, model: Models \cup {NoModel}]
        \cup [what: {"remove"}, index: Int] \cup [what: {"add"}, id: ChatIds]
        \cup [what: {"models"}, models: SUBSET Models]
        \cup [what: {"key"}, key: 1..OpBound + 1]

\* The edit is of the chat with that id, in that content.
IsAbout(e, id, c) ==
    /\ e.what \in {"chat", "remove", "add"}
    /\ e.what = "add" => e.id = id
    /\ e.what \in {"chat", "remove"} => e.index \in DOMAIN c.chats /\ c.chats[e.index].id = id

\* An edit that can be applied to that content.
Applies(e, c) ==
    /\ e \in EditSet /\ e.what # "none"
    /\ e.what = "remove" => e.index \in DOMAIN c.chats

\* The settings but the chats.
Rest(c) == [c EXCEPT !.chats = <<>>]

\* A content is its settings and its chats.
LEMMA ContentIs ==
    ASSUME NEW c \in Content
    PROVE  /\ c = [agent |-> c.agent, models |-> c.models, key |-> c.key,
                   frozen |-> c.frozen, image |-> c.image, chats |-> c.chats]
           /\ c.agent \in Models /\ c.models \in SUBSET Models /\ c.key \in 1..OpBound + 1
           /\ c.frozen \in BOOLEAN /\ c.image \in BOOLEAN /\ c.chats \in Seq(ChatSettings)
           /\ Len(c.chats) \in Nat /\ DOMAIN c.chats = 1..Len(c.chats)
           /\ \A i \in DOMAIN c.chats : c.chats[i] \in ChatSettings
BY DEF Content

\* Two contents have the same settings when the fields of both agree.
LEMMA SameRest ==
    ASSUME NEW c \in Content, NEW d \in Content
    PROVE  [c EXCEPT !.chats = <<>>] = [d EXCEPT !.chats = <<>>]
               <=> /\ c.agent = d.agent /\ c.models = d.models /\ c.key = d.key
                   /\ c.frozen = d.frozen /\ c.image = d.image
<1> QED BY ContentIs

\* A revision that is a content is none of the placeholders.
LEMMA ContentIsNoPlaceholder == Nothing \notin Content /\ AnyRevision \notin Content
<1>3. "agent" \notin DOMAIN AnyRevision  BY DEF AnyRevision
<1> QED BY <1>3 DEF Content, Nothing

\* A content with other chats.
LEMMA WithChats ==
    ASSUME NEW c \in Content, NEW chats \in Seq(ChatSettings)
    PROVE  LET d == [c EXCEPT !.chats = chats]
           IN  /\ d \in Content /\ d.chats = chats /\ d.key = c.key
               /\ [c EXCEPT !.chats = <<>>] = [d EXCEPT !.chats = <<>>]
<1> DEFINE d == [c EXCEPT !.chats = chats]
<1>1. d = [agent |-> c.agent, models |-> c.models, key |-> c.key,
           frozen |-> c.frozen, image |-> c.image, chats |-> chats]
  BY ContentIs
<1>2. d \in Content  BY <1>1, ContentIs DEF Content
<1>3. d.chats = chats /\ d.key = c.key  BY <1>1
<1>4. [c EXCEPT !.chats = <<>>] = [d EXCEPT !.chats = <<>>]
 <2> HIDE DEF d
 <2> QED BY <1>2, <1>3, SameRest, <1>1
<1> QED BY <1>2, <1>3, <1>4

\* The list without its element i.
LEMMA Removed ==
    ASSUME NEW s \in Seq(ChatSettings), NEW i \in DOMAIN s
    PROVE  /\ RemoveAt(s, i) \in Seq(ChatSettings)
           /\ \A c : c \in ToSet(RemoveAt(s, i)) <=> \E j \in DOMAIN s : j # i /\ c = s[j]
<1> DEFINE A == SubSeq(s, 1, i - 1)
           B == SubSeq(s, i + 1, Len(s))
<1>1. i \in 1..Len(s) /\ Len(s) \in Nat /\ DOMAIN s = 1..Len(s)  OBVIOUS
<1>2. A \in Seq(ChatSettings) /\ Len(A) = i - 1 /\ \A j \in 1..i-1 : A[j] = s[j]  BY <1>1
<1>3. B \in Seq(ChatSettings) /\ Len(B) = Len(s) - i /\ \A j \in 1..Len(s)-i : B[j] = s[i + j]
  BY <1>1
<1>4. RemoveAt(s, i) = A \o B  BY DEF RemoveAt
<1> HIDE DEF A, B
<1>5. /\ A \o B \in Seq(ChatSettings) /\ Len(A \o B) = Len(s) - 1
      /\ \A j \in 1..i-1 : (A \o B)[j] = s[j]
      /\ \A j \in i..Len(s)-1 : (A \o B)[j] = s[j + 1]
 <2>1. A \o B \in Seq(ChatSettings) /\ Len(A \o B) = Len(A) + Len(B)
   BY <1>2, <1>3, ConcatProperties
 <2>3. \A j \in i..Len(s)-1 : (A \o B)[j] = B[j - (i - 1)]  BY <1>1, <1>2, <1>3
 <2>4. \A j \in i..Len(s)-1 : B[j - (i - 1)] = s[j + 1]
  <3> TAKE j \in i..Len(s)-1
  <3> QED BY <1>3, <1>1
 <2> QED BY <1>1, <1>2, <1>3, <2>1, <2>3, <2>4
<1> DEFINE R == A \o B
<1>6. R \in Seq(ChatSettings) /\ DOMAIN R = 1..Len(s)-1  BY <1>5
<1>7. \A j \in 1..i-1 : R[j] = s[j]  BY <1>5
<1>8. \A j \in i..Len(s)-1 : R[j] = s[j + 1]  BY <1>5
<1> HIDE DEF R
<1>9. ASSUME NEW c, NEW k \in DOMAIN R, c = R[k]
      PROVE  \E j \in DOMAIN s : j # i /\ c = s[j]
 <2>1. CASE k < i
  <3> QED BY <1>1, <1>6, <1>7, <1>9, <2>1
 <2>2. CASE ~ k < i
  <3> QED BY <1>1, <1>6, <1>8, <1>9, <2>2
 <2> QED BY <2>1, <2>2
<1>10. ASSUME NEW c, NEW j \in DOMAIN s, j # i, c = s[j]
       PROVE  \E k \in DOMAIN R : c = R[k]
 <2>1. CASE j < i
  <3> QED BY <1>1, <1>6, <1>7, <1>10, <2>1
 <2>2. CASE ~ j < i
  <3>1. j - 1 \in DOMAIN R /\ j - 1 \in i..Len(s)-1 /\ (j - 1) + 1 = j
    BY <1>1, <1>6, <1>10, <2>2
  <3> QED BY <1>8, <1>10, <3>1
 <2> QED BY <2>1, <2>2
<1> QED BY <1>6, <1>9, <1>10, <1>4 DEF ToSet, R

\* The list in reverse.
LEMMA Reversed ==
    ASSUME NEW s \in Seq(ChatSettings)
    PROVE  Reverse(s) \in Seq(ChatSettings)
<1>2. \A i \in 1..Len(s) : s[(Len(s) - i) + 1] \in ChatSettings
 <2> TAKE i \in 1..Len(s)
 <2> QED OBVIOUS
<1> QED BY <1>2, SeqDef DEF Reverse

\* The list with an entry more.
LEMMA Appended ==
    ASSUME NEW s \in Seq(ChatSettings), NEW c \in ChatSettings
    PROVE  /\ Append(s, c) \in Seq(ChatSettings)
           /\ \A d : d \in ToSet(Append(s, c)) <=> d = c \/ d \in ToSet(s)
<1>1. /\ Append(s, c) \in Seq(ChatSettings) /\ DOMAIN Append(s, c) = 1..Len(s) + 1
      /\ Append(s, c)[Len(s) + 1] = c /\ \A j \in 1..Len(s) : Append(s, c)[j] = s[j]
      /\ Len(s) \in Nat /\ DOMAIN s = 1..Len(s)
  OBVIOUS
<1> DEFINE A == Append(s, c)
<1> HIDE DEF A
<1>2. /\ A \in Seq(ChatSettings) /\ DOMAIN A = 1..Len(s) + 1
      /\ A[Len(s) + 1] = c /\ \A j \in 1..Len(s) : A[j] = s[j]
  BY <1>1 DEF A
<1>3. ASSUME NEW d, d \in ToSet(A) PROVE d = c \/ d \in ToSet(s)
 <2>1. PICK k \in 1..Len(s) + 1 : d = A[k]  BY <1>2, <1>3 DEF ToSet
 <2>2. CASE k = Len(s) + 1  BY <1>2, <2>1, <2>2
 <2>3. CASE k # Len(s) + 1
  <3> QED BY <1>1, <1>2, <2>1, <2>3 DEF ToSet
 <2> QED BY <2>2, <2>3
<1>4. c \in ToSet(A)
 <2> QED BY <1>2, <1>1 DEF ToSet
<1>5. ASSUME NEW k \in DOMAIN s PROVE s[k] \in ToSet(A)
 <2> QED BY <1>1, <1>2 DEF ToSet
<1> QED BY <1>2, <1>3, <1>4, <1>5 DEF A, ToSet

\* What is edited is a content again; the key is that of the edit, if it is one of
\* a key; and an edit about one chat leaves all else as it is.
LEMMA EditedIs ==
    ASSUME NEW c \in Content, NEW e, Applies(e, c)
    PROVE  /\ Edited(c, e) \in Content
           /\ Edited(c, e).key = IF e.what = "key" THEN e.key ELSE c.key
           /\ \A id \in ChatIds : IsAbout(e, id, c) => OnlyAbout(id, c, Edited(c, e))
<1> DEFINE d == Edited(c, e)
<1>c. c.chats \in Seq(ChatSettings)  BY ContentIs
<1>1. CASE e.what = "agent"
 <2> QED BY <1>1 DEF IsAbout, Content, Edited, Applies, EditSet
<1>2. CASE e.what = "chat"
 <2>0. PICK m \in Models \cup {NoModel}, i \in Int : m = e.model /\ i = e.index
   BY <1>2 DEF Applies, EditSet
 <2> DEFINE r == [c.chats EXCEPT ![i].model = m]
 <2>2. d = [c EXCEPT !.chats = r]  BY <1>2, <2>0 DEF Edited
 <2>3. /\ r \in Seq(ChatSettings) /\ DOMAIN r = DOMAIN c.chats
       /\ \A j \in DOMAIN c.chats : r[j].id = c.chats[j].id /\ (j # i => r[j] = c.chats[j])
  <3>1. \A j \in DOMAIN c.chats : c.chats[j] \in [id: ChatIds, model: Models \cup {NoModel}]
    BY ContentIs DEF ChatSettings
  <3>3. r = [j \in DOMAIN c.chats |->
               IF j = i THEN [id |-> c.chats[j].id, model |-> m] ELSE c.chats[j]]
    BY <3>1
  <3>5. DOMAIN c.chats = 1..Len(c.chats) /\ Len(c.chats) \in Nat  BY ContentIs
  <3> HIDE DEF r
  <3> QED BY <3>3, <3>5, SeqDef, <3>1 DEF ChatSettings
 <2> HIDE DEF r, d
 <2>4. d \in Content /\ d.chats = r /\ d.key = c.key
       /\ [c EXCEPT !.chats = <<>>] = [d EXCEPT !.chats = <<>>]
   BY <2>2, <2>3, WithChats
 <2>5. ASSUME NEW id \in ChatIds, IsAbout(e, id, c) PROVE OnlyAbout(id, c, d)
  <3>1. i \in DOMAIN c.chats /\ c.chats[i].id = id  BY <1>2, <2>0, <2>5 DEF IsAbout
  <3>4. {k \in ToSet(c.chats) : k.id # id} = {k \in ToSet(r) : k.id # id}
    BY <2>3, <3>1 DEF ToSet
  <3> QED BY <2>4, <3>4 DEF OnlyAbout
 <2> QED BY <1>2, <2>4, <2>5 DEF d
<1>3. CASE e.what = "remove"
 <2> DEFINE r == RemoveAt(c.chats, e.index)
 <2>1. d = [c EXCEPT !.chats = r] /\ e.index \in DOMAIN c.chats  BY <1>3 DEF Edited, Applies
 <2>2. /\ r \in Seq(ChatSettings)
       /\ \A k : k \in ToSet(r) <=> \E j \in DOMAIN c.chats : j # e.index /\ k = c.chats[j]
   BY <1>c, <2>1, Removed
 <2> HIDE DEF r, d
 <2>4. d \in Content /\ d.chats = r /\ d.key = c.key
       /\ [c EXCEPT !.chats = <<>>] = [d EXCEPT !.chats = <<>>]
   BY <2>1, <2>2, WithChats
 <2>5. ASSUME NEW id \in ChatIds, IsAbout(e, id, c) PROVE OnlyAbout(id, c, d)
  <3>2. ASSUME NEW k, k.id # id PROVE k \in ToSet(c.chats) <=> k \in ToSet(r)
   <4> QED BY <2>2, <3>2, <1>3, <2>5 DEF ToSet, IsAbout
  <3> QED BY <2>4, <3>2 DEF OnlyAbout
 <2> QED BY <1>3, <2>4, <2>5 DEF d
<1>4. CASE e.what = "add"
 <2> DEFINE n == [id |-> e.id, model |-> NoModel]
            r == Append(c.chats, n)
 <2>1. d = [c EXCEPT !.chats = r] /\ n \in ChatSettings /\ n.id = e.id
   BY <1>4 DEF Edited, Applies, EditSet, ChatSettings
 <2> HIDE DEF n
 <2>2. r \in Seq(ChatSettings) /\ \A k : k \in ToSet(r) <=> k = n \/ k \in ToSet(c.chats)
   BY <1>c, <2>1, Appended
 <2> HIDE DEF r, d
 <2>4. d \in Content /\ d.chats = r /\ d.key = c.key
       /\ [c EXCEPT !.chats = <<>>] = [d EXCEPT !.chats = <<>>]
   BY <2>1, <2>2, WithChats
 <2>5. ASSUME NEW id \in ChatIds, IsAbout(e, id, c) PROVE OnlyAbout(id, c, d)
  <3> QED BY <2>4, <2>2, <1>4, <2>1, <2>5 DEF OnlyAbout, IsAbout
 <2> QED BY <1>4, <2>4, <2>5 DEF d
<1>5. CASE e.what = "models"
 <2> QED BY <1>5 DEF IsAbout, Content, Edited, Applies, EditSet
<1>6. CASE e.what = "key"
 <2> QED BY <1>6 DEF IsAbout, Content, Edited, Applies, EditSet
<1> QED BY <1>1, <1>2, <1>3, <1>4, <1>5, <1>6 DEF Applies, EditSet

\* A valid list of chats names each chat once.
LEMMA DistinctWhenValid ==
    ASSUME NEW c \in Content, Valid(c), NEW i \in DOMAIN c.chats, NEW j \in DOMAIN c.chats,
           c.chats[i].id = c.chats[j].id
    PROVE  i = j
<1> DEFINE f == [k \in 1..Len(c.chats) |-> c.chats[k].id]
<1>1. Len(c.chats) \in Nat /\ DOMAIN c.chats = 1..Len(c.chats)  BY ContentIs
<1>2. f \in Surjection(1..Len(c.chats), IdsOf(c))  BY <1>1 DEF Surjection, IdsOf
<1>3. IsFiniteSet(1..Len(c.chats)) /\ Cardinality(1..Len(c.chats)) = Len(c.chats)
  BY <1>1, FS_Interval
<1> HIDE DEF f
<1>5. f \in Injection(1..Len(c.chats), IdsOf(c))  BY <1>2, <1>3, FS_Surjection DEF Valid
<1> QED BY <1>1, <1>5 DEF Injection, IsInjective, f

\* The chat with an id that is there.
LEMMA ChatOfId ==
    ASSUME NEW c \in Content, NEW id \in IdsOf(c)
    PROVE  /\ IndexOf(c, id) \in DOMAIN c.chats /\ c.chats[IndexOf(c, id)].id = id
           /\ IndexOf(c, id) \in Int
           /\ ChatOf(c, id) \in ToSet(c.chats) /\ ChatOf(c, id) \in ChatSettings
           /\ ChatOf(c, id).id = id
<1>2. IndexOf(c, id) \in DOMAIN c.chats /\ c.chats[IndexOf(c, id)].id = id
  BY DEF IndexOf, IdsOf
<1> QED BY <1>2, ContentIs DEF ChatOf, ToSet

\* What of a file is adopted: its settings but the frozen ones, and the chats that
\* are active, from the file where it has them.
LEMMA CandidateIs ==
    ASSUME NEW a \in Content, NEW n \in Content
    PROVE  /\ Candidate(a, n) \in Content
           /\ Candidate(a, n).agent = n.agent /\ Candidate(a, n).models = n.models
           /\ Candidate(a, n).key = n.key /\ Candidate(a, n).image = n.image
           /\ Candidate(a, n).frozen = a.frozen
           /\ Candidate(a, n).chats = [i \in DOMAIN a.chats |->
                  IF a.chats[i].id \in IdsOf(n) THEN ChatOf(n, a.chats[i].id) ELSE a.chats[i]]
           /\ IdsOf(Candidate(a, n)) = IdsOf(a)
<1> DEFINE s == [i \in DOMAIN a.chats |->
                   IF a.chats[i].id \in IdsOf(n) THEN ChatOf(n, a.chats[i].id) ELSE a.chats[i]]
           c == Candidate(a, n)
<1>1. /\ DOMAIN a.chats = 1..Len(a.chats) /\ Len(a.chats) \in Nat
      /\ \A i \in DOMAIN a.chats : a.chats[i] \in ChatSettings
  BY ContentIs
<1>2. \A i \in DOMAIN a.chats : s[i] \in ChatSettings /\ s[i].id = a.chats[i].id
  BY <1>1, ChatOfId
<1>3. DOMAIN s = DOMAIN a.chats /\ s \in [1..Len(a.chats) -> ChatSettings]
 <2>1. s = [i \in DOMAIN a.chats |-> s[i]]  OBVIOUS
 <2> HIDE DEF s
 <2> QED BY <1>1, <1>2, <2>1
<1>4. s \in Seq(ChatSettings)
 <2> HIDE DEF s
 <2> QED BY <1>1, <1>3, SeqDef
<1>5. c = [n EXCEPT !.frozen = a.frozen, !.chats = s]  BY DEF Candidate
<1> HIDE DEF s, c
<1>6. c = [agent |-> n.agent, models |-> n.models, key |-> n.key,
           frozen |-> a.frozen, image |-> n.image, chats |-> s]
 <2> QED BY <1>5 DEF Content
<1>8. IdsOf(c) = IdsOf(a)
 <2> QED BY <1>2, <1>3, <1>6 DEF IdsOf
<1> QED BY <1>6, <1>8, <1>4, ContentIs DEF c, s, Content

\* With nothing left to the restart what is adopted is the file.
LEMMA AllIsAdopted ==
    ASSUME NEW a \in Content, NEW n \in Content, Valid(n), PendingRestart(a, n) = {}
    PROVE  SameSettings(Candidate(a, n), n)
<1> DEFINE c == Candidate(a, n)
<1>1. a.frozen = n.frozen /\ IdsOf(a) = IdsOf(n)
 <2> QED BY DEF PendingRestart
<1>2. [c EXCEPT !.chats = <<>>] = [n EXCEPT !.chats = <<>>]
 <2>1. /\ c \in Content /\ c.agent = n.agent /\ c.models = n.models /\ c.key = n.key
       /\ c.frozen = n.frozen /\ c.image = n.image
   BY <1>1, CandidateIs
 <2> HIDE DEF c
 <2> QED BY <2>1, SameRest
<1>3. DOMAIN c.chats = DOMAIN a.chats
      /\ \A i \in DOMAIN a.chats : c.chats[i] = ChatOf(n, a.chats[i].id)
 <2>2. c.chats = [i \in DOMAIN a.chats |->
                     IF a.chats[i].id \in IdsOf(n) THEN ChatOf(n, a.chats[i].id) ELSE a.chats[i]]
   BY CandidateIs
 <2> HIDE DEF c
 <2>4. ASSUME NEW i \in DOMAIN a.chats PROVE c.chats[i] = ChatOf(n, a.chats[i].id)
   BY <2>2, <1>1 DEF IdsOf
 <2> QED BY <2>4, <2>2
<1>4. ASSUME NEW k \in ToSet(c.chats) PROVE k \in ToSet(n.chats)
 <2>1. PICK i \in DOMAIN a.chats : k = ChatOf(n, a.chats[i].id)  BY <1>3, <1>4 DEF ToSet
 <2> QED BY <2>1, ChatOfId, <1>1 DEF IdsOf
<1>5. ASSUME NEW k \in ToSet(n.chats) PROVE k \in ToSet(c.chats)
 <2>1. PICK j \in DOMAIN n.chats : k = n.chats[j]  BY <1>5 DEF ToSet
 <2>2. n.chats[j].id \in IdsOf(n)  BY DEF IdsOf
 <2>3. PICK i \in DOMAIN a.chats : a.chats[i].id = n.chats[j].id  BY <1>1, <2>2 DEF IdsOf
 <2> QED BY <1>3, <2>1, <2>3, DistinctWhenValid, <2>2, ChatOfId DEF ToSet, ChatOf
<1> HIDE DEF c
<1> QED BY <1>2, <1>4, <1>5 DEF SameSettings, c

\* The chats of the first file, in some order.
LEMMA FirstChats ==
    /\ SetToSeq(ChatIds) \in [1..Cardinality(ChatIds) -> ChatIds]
    /\ Cardinality(ChatIds) \in Nat
<1> QED
  BY ConfigAssumption, FS_CardinalityType DEF SetToSeq, ExistsBijection,
    Bijection, Injection

-----------------------------------------------------------------------------
(* The configuration: the inductive invariant.                                 *)

OpType ==
    [kind: {"write", "chat", "agent", "panel", "provider"},
     stage: {"revision", "locate", "write", "keys", "rename", "release", "load", "publish"},
     id: ChatIds \cup {0}, model: Models \cup {NoModel}, revision: Content \cup {AnyRevision},
     edit: EditSet, source: Content \cup {Nothing}, next: Content \cup {Nothing},
     loaded: Content \cup {Nothing}, seen: Content \cup {Nothing}, since: Int]

\* A write that waits for the text to be read: a key is not in the jar before it is
\* written, and the position of a chat is that of the content with the revision.
\* For /model, which takes revision and position in two steps, this is so unless the
\* file was changed and changed back meanwhile.
WriteSound(o) ==
    /\ o.revision \in Content /\ o.edit.what # "none"
    /\ o.edit.what = "key" => o.edit.key \notin jar
    /\ o.edit.what = "remove" => o.kind = "panel"
    /\ o.kind = "chat" =>
           /\ o.edit.what = "chat"
           /\ o.since = edits => IsAbout(o.edit, o.id, o.revision)
           /\ edits - o.since < 2 /\ file = o.revision => IsAbout(o.edit, o.id, file)
    /\ o.kind = "panel" => o.seen = o.revision /\ IsAbout(o.edit, o.id, o.revision)

\* A write that has read the text: nobody else writes keys into the file.
WrittenSound(o) ==
    /\ o.source \in Content /\ o.next \in Content
    /\ o.source.key = file.key
    /\ o.next.key = IF o.edit.what = "key" THEN o.edit.key ELSE file.key
    /\ o.edit.what = "key" => o.edit.key # file.key
    /\ o.kind \in {"chat", "panel"} /\ edits - o.since < 2 => OnlyAbout(o.id, o.source, o.next)
    /\ o.kind = "panel" => o.source = o.seen

\* What an operation knows, by the stage it is at.
OpSound(o) ==
    /\ o \in OpType /\ o.since <= edits
    /\ o.kind \in {"chat", "panel"} => o.id \in ChatIds
    /\ o.edit.what = "key" => o.edit.key <= names
    /\ o.stage \in {"revision", "locate"} => o.kind = "chat"
    /\ o.stage = "locate" =>
           o.revision \in Content /\ (o.since = edits => file = o.revision)
    /\ o.stage = "write" => WriteSound(o)
    /\ o.stage \in {"keys", "rename"} => WrittenSound(o)
    /\ o.stage = "keys" /\ o.edit.what = "key" => o.edit.key \notin jar
    /\ o.stage = "rename" /\ o.edit.what = "key" => o.edit.key \in jar
    /\ o.stage = "release" => o.next.key = file.key
    /\ o.stage = "publish" =>
           /\ o.loaded \in Content /\ Valid(o.loaded)
           /\ Valid(Candidate(process.config, o.loaded))

ProcessType ==
    [up: {TRUE}, config: Content, hash: {"file", "raw"} \X Content,
     registry: [models: SUBSET Models, key: 1..OpBound + 1], image: BOOLEAN,
     imageSeen: BOOLEAN, fileHash: {"file"} \X Content,
     pending: SUBSET ({"frozen"} \cup ChatIds), failed: BOOLEAN, origin: Content]

StoreSound ==
    /\ file \in Content /\ edits \in Int /\ ops \in Int
    /\ names \in 1..OpBound + 1 /\ jar \subseteq 1..names /\ file.key \in jar

ProcessSound ==
    /\ process = Down \/ process \in ProcessType
    /\ RunningIsCoherent /\ HashNamesConfiguration

PanelSound ==
    /\ panel \in [page: {"none", "chats", "providers"}, content: Content \cup {Nothing},
                  revision: Content \cup {Nothing}]
    /\ IF panel.page = "none" THEN panel.revision = Nothing ELSE panel.content \in Content
    /\ panel.page = "chats" => panel.revision = panel.content

LockSound == op # Idle => process.up /\ OpSound(op)

RequestSound ==
    request # Idle =>
        /\ process.up /\ OpSound(request)
        /\ request.stage = "write" /\ request.kind \in {"panel", "provider"}

KeysApart ==
    op # Idle /\ request # Idle /\ op.edit.what = "key" /\ request.edit.what = "key" =>
        op.edit.key # request.edit.key

ConfigInv ==
    StoreSound /\ ProcessSound /\ PanelSound /\ LockSound /\ RequestSound /\ KeysApart

\* The numbers of the bounds.
LEMMA BoundsAreNumbers == EditBound \in Nat /\ OpBound \in Nat
BY ConfigAssumption

\* Down is told from a running process, and an idle lock from an operation.
LEMMA Placeholders ==
    /\ Down \notin ProcessType /\ ~Down.up /\ Idle \notin OpType
    /\ \A p \in ProcessType : p.up
<1> QED BY DEF Down, ProcessType, OpType, Idle

\* At the start.
LEMMA ConfigStarts == ConfigInit => ConfigInv
<1> SUFFICES ASSUME ConfigInit PROVE ConfigInv  OBVIOUS
<1>1. file \in Content /\ file.key = 1
 <2>1. PICK s \in {SetToSeq(ChatIds)} :
           file \in [agent: Models, models: {Models}, key: {1}, frozen: {FALSE}, image: BOOLEAN,
                     chats: {[i \in DOMAIN s |-> [id |-> s[i], model |-> NoModel]]}]
   BY DEF ConfigInit
 <2> DEFINE chats == [i \in DOMAIN s |-> [id |-> s[i], model |-> NoModel]]
 <2>2. s \in [1..Cardinality(ChatIds) -> ChatIds] /\ Cardinality(ChatIds) \in Nat  BY FirstChats
 <2>3. chats \in [1..Cardinality(ChatIds) -> ChatSettings]  BY <2>2 DEF ChatSettings
 <2> HIDE DEF chats
 <2>4. chats \in Seq(ChatSettings)  BY <2>2, <2>3, SeqDef
 <2>6. /\ file = [agent |-> file.agent, models |-> file.models, key |-> file.key,
                  frozen |-> file.frozen, image |-> file.image, chats |-> file.chats]
       /\ file.agent \in Models /\ file.models = Models /\ file.key = 1
       /\ file.frozen = FALSE /\ file.image \in BOOLEAN /\ file.chats = chats
   BY <2>1 DEF chats
 <2>7. 1 \in 1..OpBound + 1  BY BoundsAreNumbers
 <2>8. file.chats \in Seq(ChatSettings) /\ file.key \in 1..OpBound + 1
       /\ file.models \in SUBSET Models /\ file.frozen \in BOOLEAN
   BY <2>4, <2>6, <2>7
 <2> QED BY <2>6, <2>8 DEF Content
<1>3. ProcessSound
  BY DEF ConfigInit, ProcessSound, RunningIsCoherent, HashNamesConfiguration, Down
<1> QED
  BY <1>3, <1>1, BoundsAreNumbers DEF ConfigInit, ConfigInv, LockSound,
    RequestSound, KeysApart, StoreSound, PanelSound, NoPanel

-----------------------------------------------------------------------------
(* The configuration: what operations keep of each other.                      *)

\* The key of an edit.
LEMMA KeyOf == ASSUME NEW e \in EditSet, e.what = "key" PROVE e.key \in 1..OpBound + 1
BY DEF EditSet

\* An operation is not concerned by names given out, nor by keys that are not its own.
LEMMA OpKept ==
    ASSUME StoreSound, NEW o, OpSound(o), file' = file, edits' = edits,
           process'.config = process.config, names' \in Int, names <= names',
           o.edit.what = "key" => (o.edit.key \in jar' <=> o.edit.key \in jar)
    PROVE  OpSound(o)'
<1>1. o.edit.what = "key" => o.edit.key <= names'
 <2> QED BY KeyOf, BoundsAreNumbers DEF OpSound, StoreSound, OpType
<1>4. o.stage = "publish" => Valid(Candidate(process'.config, o.loaded))  BY DEF OpSound
<1> QED BY <1>1, <1>4 DEF OpSound, WriteSound, WrittenSound

\* An operation under a hand edit.
LEMMA OpUnderHand ==
    ASSUME StoreSound, NEW o, OpSound(o), file' \in Content, file'.key = file.key,
           edits' = edits + 1, UNCHANGED <<jar, names, process>>
    PROVE  OpSound(o)'
<1>2. o.since <= edits' /\ o.since # edits' /\ (edits' - o.since < 2 => o.since = edits)
      /\ (edits' - o.since < 2 => edits - o.since < 2)
  BY DEF StoreSound, OpSound, OpType
<1>3. o.stage = "write" => WriteSound(o)'
 <2> SUFFICES ASSUME o.stage = "write" PROVE WriteSound(o)'  OBVIOUS
 <2>1. WriteSound(o)  BY DEF OpSound
 <2>2. ASSUME o.kind = "chat", edits' - o.since < 2, file' = o.revision
       PROVE  IsAbout(o.edit, o.id, file')
   BY <1>2, <2>1, <2>2 DEF WriteSound
 <2> QED BY <1>2, <2>1, <2>2 DEF WriteSound
<1> QED BY <1>2, <1>3 DEF OpSound, WrittenSound

\* A step of the operation that holds the lock and writes nothing: what is left to
\* show is what the operation knows after it.
LEMMA LockStep ==
    ASSUME ConfigInv, op # Idle, OpSound(op)', op'.edit = op.edit \/ op'.edit.what # "key",
           UNCHANGED <<file, jar, names, process, panel, request, edits, ops>>
    PROVE  ConfigInv'
<1>3. RequestSound'  BY DEF ConfigInv, RequestSound, OpSound, WriteSound, WrittenSound
<1>4. KeysApart'  BY DEF ConfigInv, KeysApart
<1>5. LockSound'  BY DEF ConfigInv, LockSound
<1> QED
  BY <1>3, <1>4, <1>5 DEF ConfigInv, StoreSound, PanelSound, ProcessSound,
    RunningIsCoherent, HashNamesConfiguration

-----------------------------------------------------------------------------
(* The configuration: every action keeps the invariant.                        *)

LEMMA StartProcessKeeps == ConfigInv /\ StartProcess => ConfigInv'
<1> SUFFICES ASSUME ConfigInv, StartProcess PROVE ConfigInv'  OBVIOUS
<1>3. ProcessSound'
 <2>1. process' = [up |-> TRUE, config |-> file, hash |-> <<"file", file>>,
                   registry |-> [models |-> file.models, key |-> file.key],
                   image |-> file.image, imageSeen |-> FALSE, fileHash |-> <<"file", file>>,
                   pending |-> {}, failed |-> FALSE, origin |-> file]
   BY DEF StartProcess, Started, FileHash, Registry
 <2>2. file \in Content /\ Valid(file) /\ file.models \in SUBSET Models
       /\ file.key \in 1..OpBound + 1 /\ file.image \in BOOLEAN
   BY ContentIs DEF StartProcess, ConfigInv, StoreSound
 <2>5. HashNamesConfiguration'  BY <2>1 DEF HashNamesConfiguration, SameSettings
 <2> QED BY <2>5, <2>1, <2>2 DEF ProcessSound, ProcessType, RunningIsCoherent, Registry
<1> QED
  BY <1>3 DEF ConfigInv, PanelSound, LockSound, RequestSound, KeysApart,
    StartProcess, StoreSound

LEMMA CrashConfigKeeps == ConfigInv /\ CrashConfig => ConfigInv'
<1> SUFFICES ASSUME ConfigInv, CrashConfig PROVE ConfigInv'  OBVIOUS
<1>2. ProcessSound'
  BY DEF CrashConfig, ProcessSound, RunningIsCoherent, HashNamesConfiguration, Down
<1> QED
  BY <1>2 DEF CrashConfig, ConfigInv, LockSound, RequestSound, KeysApart,
    StoreSound, PanelSound, NoPanel

\* Whatever hands do, the file stays a content with the same key.
LEMMA HandEditIs ==
    ASSUME StoreSound, NEW kind, HandEdit(kind)
    PROVE  file' \in Content /\ file'.key = file.key
<1>1. file \in Content /\ file.chats \in Seq(ChatSettings)  BY ContentIs DEF StoreSound
<1>2. CASE \E m \in Models : file' = [file EXCEPT !.agent = m]  BY <1>1, <1>2 DEF Content
<1>3. CASE \E i \in DOMAIN file.chats, m \in Models \cup {NoModel} :
               file' = Edited(file, [what |-> "chat", index |-> i, model |-> m])
 <2>1. PICK i \in DOMAIN file.chats, m \in Models \cup {NoModel} :
              file' = Edited(file, [what |-> "chat", index |-> i, model |-> m])
   BY <1>3
 <2> DEFINE e == [what |-> "chat", index |-> i, model |-> m]
 <2> HIDE DEF e
 <2> QED BY <1>1, <2>1, EditedIs, ContentIs DEF e, Applies, EditSet
<1>4. CASE \E m \in Models : file' = [file EXCEPT !.models = @ \ {m}]  BY <1>1, <1>4 DEF Content
<1>5. CASE file' = [file EXCEPT !.frozen = ~@]  BY <1>1, <1>5 DEF Content
<1>6. CASE file' = [file EXCEPT !.image = ~@]  BY <1>1, <1>6 DEF Content
<1>7. CASE file' = [file EXCEPT !.chats = Reverse(@)]
 <2> QED BY <1>1, <1>7, WithChats, Reversed
<1>8. CASE \E i \in DOMAIN file.chats : file' = Edited(file, [what |-> "remove", index |-> i])
 <2>1. PICK i \in DOMAIN file.chats : file' = Edited(file, [what |-> "remove", index |-> i])
   BY <1>8
 <2> DEFINE e == [what |-> "remove", index |-> i]
 <2> HIDE DEF e
 <2> QED BY <1>1, <2>1, EditedIs, ContentIs DEF e, Applies, EditSet
<1>9. CASE \E id \in ChatIds \ IdsOf(file) : file' = Edited(file, [what |-> "add", id |-> id])
 <2>1. PICK id \in ChatIds : file' = Edited(file, [what |-> "add", id |-> id])  BY <1>9
 <2> DEFINE e == [what |-> "add", id |-> id]
 <2> HIDE DEF e
 <2> QED BY <1>1, <2>1, EditedIs DEF e, Applies, EditSet
<1> QED BY <1>2, <1>3, <1>4, <1>5, <1>6, <1>7, <1>8, <1>9 DEF HandEdit

LEMMA HandEditKeeps == ASSUME ConfigInv, NEW kind, HandEdit(kind) PROVE ConfigInv'
<1>1. file' \in Content /\ file'.key = file.key /\ edits' = edits + 1 /\ edits \in Int
      /\ UNCHANGED <<jar, names, process, op, panel, request, ops>>
  BY HandEditIs DEF ConfigInv, StoreSound, HandEdit
<1>4. LockSound'
 <2>1. ASSUME op # Idle PROVE process.up /\ OpSound(op)  BY <2>1 DEF ConfigInv, LockSound
 <2>2. PICK o : o = op  OBVIOUS
 <2> QED BY <1>1, <2>1, <2>2, OpUnderHand DEF LockSound, ConfigInv
<1>5. RequestSound'
 <2>2. PICK o : o = request  OBVIOUS
 <2> QED BY <1>1, <2>2, OpUnderHand DEF RequestSound, ConfigInv
<1> QED
  BY <1>1, <1>4, <1>5 DEF ConfigInv, PanelSound, KeysApart, StoreSound,
    ProcessSound, RunningIsCoherent, HashNamesConfiguration

\* An operation that takes the lock, with the request it was or one left waiting.
LEMMA TakeKeeps ==
    ASSUME ConfigInv, NEW o, Take(o), OpSound(o)', o # Idle, RequestSound',
           request' = Idle \/ o.edit.what # "key"
    PROVE  ConfigInv'
<1>1. process.up /\ op' = o /\ ops' = ops + 1
      /\ UNCHANGED <<file, jar, names, process, panel, edits>>
  BY DEF Take
<1>4. LockSound' /\ KeysApart'  BY <1>1 DEF LockSound, KeysApart
<1> QED
  BY <1>4, <1>1 DEF ConfigInv, StoreSound, PanelSound, ProcessSound,
    RunningIsCoherent, HashNamesConfiguration

\* A write that is about to load what is there.
LEMMA LoadIsSound ==
    ASSUME StoreSound
    PROVE  /\ Operation("write", "load", 0, NoModel, AnyRevision, NoEdit) # Idle
           /\ OpSound(Operation("write", "load", 0, NoModel, AnyRevision, NoEdit))
           /\ Operation("write", "load", 0, NoModel, AnyRevision, NoEdit).edit.what # "key"
<1> DEFINE o == Operation("write", "load", 0, NoModel, AnyRevision, NoEdit)
<1>1. o = [kind |-> "write", stage |-> "load", id |-> 0, model |-> NoModel,
           revision |-> AnyRevision, edit |-> [what |-> "none"], source |-> Nothing,
           next |-> Nothing, loaded |-> Nothing, seen |-> Nothing, since |-> edits]
  BY DEF Operation, NoEdit
<1> HIDE DEF o
<1>3. o \in OpType  BY <1>1 DEF OpType, StoreSound, EditSet
<1> QED BY <1>1, <1>3, Placeholders DEF o, OpSound, StoreSound

\* A request that waits goes on waiting.
LEMMA RequestWaits ==
    ASSUME ConfigInv, UNCHANGED <<file, process, edits, request>>, names' \in Int, names <= names',
           request # Idle /\ request.edit.what = "key" =>
               (request.edit.key \in jar' <=> request.edit.key \in jar)
    PROVE  RequestSound'
<1>2. PICK o : o = request  OBVIOUS
<1> QED BY <1>2, OpKept DEF RequestSound, ConfigInv

LEMMA ReloadKeeps == ConfigInv /\ Reload => ConfigInv'
<1> SUFFICES ASSUME ConfigInv, Reload PROVE ConfigInv'  OBVIOUS
<1> DEFINE o == Operation("write", "load", 0, NoModel, AnyRevision, NoEdit)
<1>1. Take(o) /\ UNCHANGED <<file, jar, names, process, edits, request>>  BY DEF Reload, Take
<1>3. o # Idle /\ OpSound(o) /\ o.edit.what # "key"  BY LoadIsSound DEF ConfigInv
<1>4. PICK p : p = o  OBVIOUS
<1> HIDE DEF o
<1> QED BY <1>1, <1>3, <1>4, TakeKeeps, RequestWaits, OpKept DEF ConfigInv, StoreSound

\* The models in the registry of the process are models.
LEMMA RegistryIs ==
    ASSUME ConfigInv, process.up
    PROVE  process \in ProcessType /\ process.registry.models \subseteq Models
           /\ process.config \in Content
BY Placeholders DEF ConfigInv, ProcessSound, ProcessType

LEMMA SwitchChatModelKeeps == ConfigInv /\ SwitchChatModel => ConfigInv'
<1> SUFFICES ASSUME ConfigInv, SwitchChatModel PROVE ConfigInv'  OBVIOUS
<1>1. PICK id \in ChatIds, m \in Models \cup {NoModel} :
          Take(Operation("chat", "revision", id, m, AnyRevision, NoEdit))
  BY RegistryIs DEF SwitchChatModel
<1>2. UNCHANGED <<file, jar, names, process, edits, request>>  BY <1>1 DEF Take, SwitchChatModel
<1>3. PICK o : o = [kind |-> "chat", stage |-> "revision", id |-> id, model |-> m,
           revision |-> AnyRevision, edit |-> [what |-> "none"], source |-> Nothing,
           next |-> Nothing, loaded |-> Nothing, seen |-> Nothing, since |-> edits]
  OBVIOUS
<1>4. Take(o)  BY <1>1, <1>3 DEF Operation, NoEdit
<1>6. o \in OpType  BY <1>3 DEF OpType, ConfigInv, StoreSound, EditSet
<1>7. o # Idle  BY <1>6, Placeholders
<1> QED
  BY <1>3, <1>4, <1>7, TakeKeeps, <1>2, <1>6, RequestWaits DEF OpSound,
    ConfigInv, StoreSound

LEMMA SwitchAgentModelKeeps == ConfigInv /\ SwitchAgentModel => ConfigInv'
<1> SUFFICES ASSUME ConfigInv, SwitchAgentModel PROVE ConfigInv'  OBVIOUS
<1>1. PICK m \in Models :
          Take(Operation("agent", "write", 0, m, panel.revision,
                         [what |-> "agent", model |-> m]))
  BY RegistryIs DEF SwitchAgentModel
<1>2. UNCHANGED <<file, jar, names, process, edits, request>>
  BY <1>1 DEF Take, SwitchAgentModel
<1>3. PICK o : o = [kind |-> "agent", stage |-> "write", id |-> 0, model |-> m,
           revision |-> panel.revision, edit |-> [what |-> "agent", model |-> m],
           source |-> Nothing, next |-> Nothing, loaded |-> Nothing, seen |-> Nothing,
           since |-> edits]
  OBVIOUS
<1>4. Take(o)  BY <1>1, <1>3 DEF Operation
<1>5. [what |-> "agent", model |-> m] \in EditSet /\ panel.revision \in Content
  BY DEF EditSet, SwitchAgentModel, ConfigInv, PanelSound
<1>6. o \in OpType  BY <1>3, <1>5 DEF OpType, ConfigInv, StoreSound
<1>7. o # Idle  BY <1>6, Placeholders
<1>8. OpSound(o)'  BY <1>2, <1>3, <1>5, <1>6 DEF OpSound, WriteSound, ConfigInv, StoreSound
<1>9. RequestSound'  BY <1>2, RequestWaits DEF ConfigInv, StoreSound
<1> QED BY <1>3, <1>4, <1>7, <1>8, <1>9, TakeKeeps

LEMMA ServeRequestKeeps == ConfigInv /\ ServeRequest => ConfigInv'
<1> SUFFICES ASSUME ConfigInv, ServeRequest PROVE ConfigInv'  OBVIOUS
<1>1. PICK o : o = request  OBVIOUS
<1>2. o # Idle /\ OpSound(o) /\ Take(o) /\ request' = Idle
  BY <1>1 DEF ServeRequest, ConfigInv, RequestSound
<1> QED BY <1>2, TakeKeeps, OpKept DEF RequestSound, ConfigInv, StoreSound, Take

LEMMA OpenPageKeeps ==
    ConfigInv /\ (OpenChats \/ LoadProviders \/ StampProviders) => ConfigInv'
<1> SUFFICES ASSUME ConfigInv, OpenChats \/ LoadProviders \/ StampProviders PROVE ConfigInv'
  OBVIOUS
<1>1. UNCHANGED <<file, jar, names, process, op, request, edits, ops>>
  BY DEF OpenChats, LoadProviders, StampProviders
<1>2. PanelSound'
 <2>1. file \in Content /\ PanelSound  BY DEF ConfigInv, StoreSound
 <2>2. CASE OpenChats  BY <2>1, <2>2 DEF OpenChats, PanelSound
 <2>3. CASE LoadProviders  BY <2>1, <2>3 DEF LoadProviders, PanelSound
 <2>4. CASE StampProviders  BY <2>1, <2>4 DEF StampProviders, PanelSound
 <2> QED BY <2>2, <2>3, <2>4
<1>5. LockSound'  BY <1>1 DEF ConfigInv, LockSound, OpSound, WriteSound, WrittenSound
<1>6. RequestSound'  BY <1>1, RequestWaits DEF ConfigInv, StoreSound
<1> QED
  BY <1>2, <1>5, <1>6, <1>1 DEF ConfigInv, StoreSound, KeysApart, ProcessSound,
    RunningIsCoherent, HashNamesConfiguration

\* A write the panel asks for; what it carries has to be sound.
LEMMA AskKeeps ==
    ASSUME ConfigInv, NEW o, Ask(o), o \in OpType, o.kind \in {"panel", "provider"},
           o.stage = "write", o.since = edits, o.revision \in Content, o.edit.what # "none",
           o.edit.what # "remove" \/ o.kind = "panel",
           o.kind = "panel" => /\ panel.content = o.revision /\ o.id \in ChatIds
                               /\ IsAbout(o.edit, o.id, o.revision),
           names' \in 1..OpBound + 1, names <= names',
           o.edit.what = "key" => o.edit.key = names' /\ names < names'
    PROVE  ConfigInv'
<1>1. /\ process.up /\ panel.content \in Content /\ panel' = NoPanel
      /\ request' = [o EXCEPT !.seen = panel.content]
      /\ UNCHANGED <<file, jar, process, op, edits, ops>>
 <2> QED BY DEF Ask, ConfigInv, PanelSound
<1>2. PICK r : r = request'  OBVIOUS
<1>3. /\ r \in OpType /\ r.kind = o.kind /\ r.stage = "write" /\ r.since = edits
      /\ r.revision = o.revision /\ r.edit = o.edit /\ r.id = o.id /\ r.seen = panel.content
  BY <1>1, <1>2 DEF OpType
<1>4. names \in Int /\ names' \in Int /\ jar \subseteq 1..names /\ edits \in Int
  BY DEF ConfigInv, StoreSound
<1>7. LockSound'
 <2>1. PICK q : q = op  OBVIOUS
 <2> QED BY <1>1, <2>1, <1>4, OpKept DEF LockSound, ConfigInv
<1>8. OpSound(r)'
 <2> QED BY <1>1, <1>3, <1>4 DEF OpSound, WriteSound
<1>9. RequestSound'  BY <1>1, <1>2, <1>3, <1>8 DEF RequestSound
<1>10. KeysApart'
 <2> SUFFICES ASSUME op # Idle, op.edit.what = "key", r.edit.what = "key"
              PROVE  op.edit.key # r.edit.key
   BY <1>1, <1>2 DEF KeysApart
 <2> QED BY <1>3, <1>4, KeyOf, BoundsAreNumbers DEF ConfigInv, LockSound, OpSound, OpType
<1> QED
  BY <1>7, <1>8, <1>9, <1>10, <1>1, <1>4, BoundsAreNumbers DEF ConfigInv,
    StoreSound, ProcessSound, RunningIsCoherent, HashNamesConfiguration,
    PanelSound, NoPanel

LEMMA WriteChatsKeeps == ConfigInv /\ WriteChats => ConfigInv'
<1> SUFFICES ASSUME ConfigInv, WriteChats PROVE ConfigInv'  OBVIOUS
<1>1. /\ panel.page = "chats" /\ panel.revision = file /\ panel.content = file
      /\ file \in Content /\ names' = names /\ names \in 1..OpBound + 1 /\ edits \in Int
  BY DEF WriteChats, Located, ConfigInv, PanelSound, StoreSound
<1>2. PICK id \in ChatIds, m \in Models \cup {NoModel}, e \in EditSet :
          /\ Ask(Operation("panel", "write", id, m, file, e))
          /\ IsAbout(e, id, file)
 <2>1. PICK id \in ChatIds, m \in Models \cup {NoModel} :
       \/ /\ id \in IdsOf(file)
          /\ Ask(Operation("panel", "write", id, m, file,
                   [what |-> "chat", index |-> IndexOf(file, id), model |-> m]))
       \/ /\ id \in IdsOf(file)
          /\ Ask(Operation("panel", "write", id, m, file,
                   [what |-> "remove", index |-> IndexOf(file, id)]))
       \/ Ask(Operation("panel", "write", id, m, file, [what |-> "add", id |-> id]))
   BY <1>1 DEF WriteChats
 <2>2. id \in IdsOf(file) => /\ IndexOf(file, id) \in Int
                             /\ IndexOf(file, id) \in DOMAIN file.chats
                             /\ file.chats[IndexOf(file, id)].id = id
   BY <1>1, ChatOfId
 <2>3. CASE id \in IdsOf(file) /\ Ask(Operation("panel", "write", id, m, file,
                   [what |-> "chat", index |-> IndexOf(file, id), model |-> m]))
  <3>1. PICK e : e = [what |-> "chat", index |-> IndexOf(file, id), model |-> m]  OBVIOUS
  <3> QED BY <2>3, <3>1, <2>2 DEF EditSet, IsAbout
 <2>4. CASE id \in IdsOf(file) /\ Ask(Operation("panel", "write", id, m, file,
                   [what |-> "remove", index |-> IndexOf(file, id)]))
  <3>1. PICK e : e = [what |-> "remove", index |-> IndexOf(file, id)]  OBVIOUS
  <3> QED BY <2>4, <3>1, <2>2 DEF EditSet, IsAbout
 <2>5. CASE Ask(Operation("panel", "write", id, m, file, [what |-> "add", id |-> id]))
  <3>1. PICK e : e = [what |-> "add", id |-> id]  OBVIOUS
  <3> QED BY <2>5, <3>1 DEF EditSet, IsAbout
 <2> QED BY <2>1, <2>3, <2>4, <2>5
<1>3. PICK o : o = [kind |-> "panel", stage |-> "write", id |-> id, model |-> m,
           revision |-> file, edit |-> e, source |-> Nothing, next |-> Nothing,
           loaded |-> Nothing, seen |-> Nothing, since |-> edits]
  OBVIOUS
<1>6. o.edit.what \in {"chat", "remove", "add"}  BY <1>2, <1>3 DEF IsAbout
<1>7. names' \in 1..OpBound + 1 /\ names <= names'  BY <1>1, BoundsAreNumbers
<1> QED BY <1>1, <1>2, <1>3, <1>6, <1>7, AskKeeps DEF Operation, OpType

LEMMA WriteProviderKeeps == ConfigInv /\ WriteProvider => ConfigInv'
<1> SUFFICES ASSUME ConfigInv, WriteProvider PROVE ConfigInv'  OBVIOUS
<1>0. \E e : \E m \in Models \cup {NoModel} :
          /\ Ask(Operation("provider", "write", 0, m, panel.revision, e))
          /\ \/ (\E s \in SUBSET Models : e = [what |-> "models", models |-> s])
                /\ names' = names
             \/ /\ names < OpBound + 1 /\ names' = names + 1
                /\ e = [what |-> "key", key |-> names + 1]
 <2>1. file.models \in SUBSET Models  BY ContentIs DEF ConfigInv, StoreSound
 <2>2. CASE \E m \in file.models \ ReferencedModels :
           /\ Ask(Operation("provider", "write", 0, m, panel.revision,
                   [what |-> "models", models |-> file.models \ {m}]))
           /\ UNCHANGED names
   BY <2>1, <2>2
 <2>3. CASE \E m \in Models \ file.models :
           /\ Ask(Operation("provider", "write", 0, m, panel.revision,
                   [what |-> "models", models |-> file.models \cup {m}]))
           /\ UNCHANGED names
   BY <2>1, <2>3
 <2>4. CASE /\ names < OpBound + 1 /\ names' = names + 1
            /\ Ask(Operation("provider", "write", 0, NoModel, panel.revision,
                   [what |-> "key", key |-> names + 1]))
   BY <2>4
 <2> QED BY <2>2, <2>3, <2>4 DEF WriteProvider
<1>1. PICK e, m : /\ m \in Models \cup {NoModel}
                  /\ Ask(Operation("provider", "write", 0, m, panel.revision, e))
                  /\ \/ (\E s \in SUBSET Models : e = [what |-> "models", models |-> s])
                        /\ names' = names
                     \/ /\ names < OpBound + 1 /\ names' = names + 1
                        /\ e = [what |-> "key", key |-> names + 1]
  BY <1>0
<1>2. names \in 1..OpBound + 1 /\ edits \in Int /\ OpBound \in Nat
  BY BoundsAreNumbers DEF ConfigInv, StoreSound
<1>4. e \in EditSet /\ e.what \in {"models", "key"}
      /\ (e.what = "key" => e.key = names' /\ names < names')
  BY <1>1, <1>2 DEF EditSet
<1>5. panel.revision \in Content  BY <1>1 DEF Ask, ConfigInv, PanelSound
<1>6. PICK o : o = [kind |-> "provider", stage |-> "write", id |-> 0, model |-> m,
           revision |-> panel.revision, edit |-> e, source |-> Nothing, next |-> Nothing,
           loaded |-> Nothing, seen |-> Nothing, since |-> edits]
  OBVIOUS
<1>8. o \in OpType  BY <1>1, <1>2, <1>4, <1>5, <1>6 DEF OpType
<1> QED BY <1>2, <1>4, <1>5, <1>6, <1>8, AskKeeps, <1>1 DEF Operation

\* What the operation that holds the lock is.
LEMMA LockIs ==
    ASSUME ConfigInv, op # Idle
    PROVE  process.up /\ op \in OpType /\ OpSound(op) /\ StoreSound
           /\ edits \in Int /\ op.since \in Int /\ op.since <= edits /\ file \in Content
BY DEF ConfigInv, LockSound, OpSound, OpType, StoreSound

LEMMA RefuseKeeps == ConfigInv /\ Refuse => ConfigInv'
<1> SUFFICES ASSUME ConfigInv, Refuse PROVE ConfigInv'  OBVIOUS
<1>1. op' = Idle /\ UNCHANGED <<file, jar, names, process, panel, request, edits, ops>>
  BY DEF Refuse
<1>4. RequestSound'  BY <1>1, RequestWaits DEF ConfigInv, StoreSound
<1> QED
  BY <1>1, <1>4 DEF ConfigInv, LockSound, KeysApart, StoreSound, PanelSound,
    ProcessSound, RunningIsCoherent, HashNamesConfiguration

LEMMA FailApplyKeeps == ConfigInv /\ op # Idle /\ FailApply => ConfigInv'
<1> SUFFICES ASSUME ConfigInv, op # Idle, FailApply PROVE ConfigInv'  OBVIOUS
<1>1. /\ op' = Idle /\ process' = [process EXCEPT !.failed = TRUE]
      /\ UNCHANGED <<file, jar, names, panel, request, edits, ops>>
  BY DEF FailApply
<1>2. process.up /\ process \in ProcessType  BY LockIs, RegistryIs
<1>3. /\ process' \in ProcessType /\ process'.up /\ process'.config = process.config
      /\ process'.registry = process.registry /\ process'.image = process.image
      /\ process'.origin = process.origin /\ process'.hash = process.hash
      /\ process'.pending = process.pending /\ process'.fileHash = process.fileHash
  BY <1>1, <1>2 DEF ProcessType
<1>6. RequestSound'
 <2>1. PICK o : o = request  OBVIOUS
 <2> QED BY <1>1, <1>3, <2>1, OpKept DEF RequestSound, ConfigInv, StoreSound
<1> QED
  BY <1>1, <1>6, <1>2, <1>3 DEF ConfigInv, LockSound, KeysApart, StoreSound,
    PanelSound, ProcessSound, RunningIsCoherent, HashNamesConfiguration

LEMMA PinRevisionKeeps == ConfigInv /\ op # Idle /\ PinRevision => ConfigInv'
<1> SUFFICES ASSUME ConfigInv, op # Idle, PinRevision PROVE ConfigInv'  OBVIOUS
<1>1. /\ op' = [op EXCEPT !.stage = "locate", !.revision = file, !.since = edits]
      /\ op.stage = "revision"
      /\ UNCHANGED <<file, jar, names, process, panel, request, edits, ops>>
  BY DEF PinRevision, Advance
<1>2. op \in OpType /\ OpSound(op) /\ file \in Content /\ edits \in Int  BY LockIs
<1>3. /\ op' \in OpType /\ op'.stage = "locate" /\ op'.revision = file /\ op'.since = edits
      /\ op'.kind = op.kind /\ op'.edit = op.edit /\ op'.id = op.id
  BY <1>1, <1>2 DEF OpType
<1> QED BY <1>1, <1>3, LockStep, <1>2 DEF OpSound

LEMMA LocateChatKeeps == ConfigInv /\ op # Idle /\ LocateChat => ConfigInv'
<1> SUFFICES ASSUME ConfigInv, op # Idle, LocateChat PROVE ConfigInv'  OBVIOUS
<1>1. CASE Refuse  BY <1>1, RefuseKeeps
<1>2. op \in OpType /\ OpSound(op) /\ op.stage = "locate" /\ op.kind = "chat"
      /\ file \in Content /\ edits \in Int /\ op.since \in Int /\ op.since <= edits
      /\ op.revision \in Content /\ (op.since = edits => file = op.revision)
  BY LockIs DEF LocateChat, OpSound
<1>3. CASE Advance([op EXCEPT !.stage = "load"])
 <2>1. /\ op' = [op EXCEPT !.stage = "load"]
       /\ UNCHANGED <<file, jar, names, process, panel, request, edits, ops>>
   BY <1>3 DEF Advance
 <2> QED BY <2>1, LockStep, <1>2 DEF OpSound, OpType
<1>4. CASE /\ op.id \in IdsOf(file)
           /\ Advance([op EXCEPT !.stage = "write",
                 !.edit = [what |-> "chat", index |-> IndexOf(file, op.id), model |-> op.model]])
 <2>1. PICK e : e = [what |-> "chat", index |-> IndexOf(file, op.id), model |-> op.model]
   OBVIOUS
 <2>2. /\ op' = [op EXCEPT !.stage = "write", !.edit = e]
       /\ UNCHANGED <<file, jar, names, process, panel, request, edits, ops>>
   BY <1>4, <2>1 DEF Advance
 <2>4. e \in EditSet /\ e.what = "chat" /\ IsAbout(e, op.id, file)
   BY <1>2, <1>4, <2>1, ChatOfId DEF EditSet, IsAbout, OpType
 <2>5. /\ op' \in OpType /\ op'.stage = "write" /\ op'.since = op.since
       /\ op'.kind = "chat" /\ op'.edit = e /\ op'.id = op.id /\ op'.revision = op.revision
   BY <1>2, <2>2, <2>4 DEF OpType
 <2> QED BY <2>2, <2>4, <2>5, LockStep, <1>2 DEF OpSound, WriteSound
<1> QED BY <1>1, <1>3, <1>4 DEF LocateChat

LEMMA ReadAndEditKeeps == ConfigInv /\ op # Idle /\ ReadAndEdit => ConfigInv'
<1> SUFFICES ASSUME ConfigInv, op # Idle, ReadAndEdit PROVE ConfigInv'  OBVIOUS
<1>1. CASE Refuse  BY <1>1, RefuseKeeps
<1>2. CASE /\ op.revision \in {AnyRevision, file}
           /\ Advance([op EXCEPT !.stage = "keys", !.source = file,
                        !.next = Edited(file, op.edit), !.revision = AnyRevision])
 <2>1. op \in OpType /\ OpSound(op) /\ op.stage = "write" /\ WriteSound(op)
       /\ file \in Content /\ edits \in Int /\ op.since \in Int /\ op.since <= edits
       /\ op.edit \in EditSet /\ file.key \in jar
   BY LockIs DEF ReadAndEdit, OpSound, OpType, StoreSound
 <2>2. op.revision = file  BY <1>2, <2>1, ContentIsNoPlaceholder DEF WriteSound
 <2>4. Applies(op.edit, file)
  <3> QED BY <2>1, <2>2 DEF Applies, WriteSound, IsAbout
 <2>5. PICK n : n = Edited(file, op.edit)  OBVIOUS
 <2>6. /\ n \in Content
       /\ n.key = IF op.edit.what = "key" THEN op.edit.key ELSE file.key
       /\ \A id \in ChatIds : IsAbout(op.edit, id, file) => OnlyAbout(id, file, n)
   BY <2>1, <2>4, <2>5, EditedIs
 <2>7. /\ op' = [op EXCEPT !.stage = "keys", !.source = file, !.next = n,
                           !.revision = AnyRevision]
       /\ UNCHANGED <<file, jar, names, process, panel, request, edits, ops>>
   BY <1>2, <2>5 DEF Advance
 <2>8. /\ op' \in OpType /\ op'.stage = "keys" /\ op'.since = op.since /\ op'.source = file
       /\ op'.next = n /\ op'.kind = op.kind /\ op'.edit = op.edit /\ op'.id = op.id
       /\ op'.seen = op.seen
   BY <2>1, <2>6, <2>7 DEF OpType
 <2>9. op.edit.what = "key" => op.edit.key # file.key /\ op.edit.key \notin jar
   BY <2>1 DEF WriteSound
 <2>11. op.kind = "panel" => op.seen = file  BY <2>1, <2>2 DEF WriteSound
 <2>12. WrittenSound(op)'
   BY <2>1, <2>6, <2>7, <2>8, <2>9, <2>11, <2>2 DEF WrittenSound, WriteSound,
     OpSound
 <2> QED BY <2>7, <2>8, LockStep, <2>1, <2>9, <2>12 DEF OpSound
<1> QED BY <1>1, <1>2 DEF ReadAndEdit

\* The key of the operation is a name given out, and not that of the request.
LEMMA OwnKey ==
    ASSUME ConfigInv, op # Idle
    PROVE  /\ op.edit.what = "key" => op.edit.key \in 1..names
           /\ AddedKeys = IF op.edit.what = "key" THEN {op.edit.key} ELSE {}
           /\ AddedKeys \subseteq 1..names
           /\ request # Idle /\ request.edit.what = "key" => request.edit.key \notin AddedKeys
<1>3. op.edit.what = "key" => op.edit.key \in 1..names
  BY BoundsAreNumbers, LockIs, KeyOf DEF OpSound, OpType, ConfigInv, StoreSound
<1> QED BY <1>3 DEF AddedKeys, ConfigInv, KeysApart

LEMMA AddKeysKeeps == ConfigInv /\ op # Idle /\ AddKeys => ConfigInv'
<1> SUFFICES ASSUME ConfigInv, op # Idle, AddKeys, ~Refuse PROVE ConfigInv'  BY RefuseKeeps
<1>1. /\ jar' = jar \cup AddedKeys /\ op' = [op EXCEPT !.stage = "rename"] /\ op.stage = "keys"
      /\ UNCHANGED <<file, names, process, panel, request, edits, ops>>
  BY DEF AddKeys
<1>2. process.up /\ op \in OpType /\ OpSound(op) /\ WrittenSound(op)
  BY <1>1, LockIs DEF OpSound
<1>3. /\ op' \in OpType /\ op'.stage = "rename" /\ op'.since = op.since /\ op'.source = op.source
      /\ op'.next = op.next /\ op'.kind = op.kind /\ op'.edit = op.edit /\ op'.id = op.id
      /\ op'.seen = op.seen
  BY <1>1, <1>2 DEF OpType
<1>6. RequestSound'  BY <1>1, OwnKey, RequestWaits DEF ConfigInv, StoreSound
<1>7. OpSound(op)'
 <2> QED BY <1>1, <1>2, <1>3, OwnKey DEF OpSound, WrittenSound
<1>8. KeysApart' /\ LockSound'  BY <1>1, <1>2, <1>3, <1>7 DEF ConfigInv, KeysApart, LockSound
<1> QED
  BY <1>6, <1>7, <1>8, <1>1, OwnKey DEF ConfigInv, StoreSound, PanelSound,
    ProcessSound, RunningIsCoherent, HashNamesConfiguration

LEMMA RenameKeeps == ConfigInv /\ op # Idle /\ Rename => ConfigInv'
<1> SUFFICES ASSUME ConfigInv, op # Idle, Rename PROVE ConfigInv'  OBVIOUS
<1>1. process.up /\ op \in OpType /\ OpSound(op) /\ WrittenSound(op) /\ op.stage = "rename"
      /\ UNCHANGED <<names, process, panel, request, edits, ops>>
  BY LockIs DEF Rename, OpSound
<1>2. PanelSound' /\ ProcessSound'
  BY <1>1 DEF ConfigInv, PanelSound, ProcessSound, RunningIsCoherent, HashNamesConfiguration
<1>3. CASE op' = Idle /\ jar' \in {jar, jar \ AddedKeys} /\ UNCHANGED file
 <2>2. StoreSound'  BY <1>1, <1>3, OwnKey DEF ConfigInv, StoreSound, WrittenSound
 <2> QED
   BY <1>2, <1>3, <2>2, <1>1, OwnKey, RequestWaits DEF ConfigInv, LockSound,
     KeysApart, StoreSound
<1>4. CASE /\ file' = op.next /\ op' = [op EXCEPT !.stage = "release", !.seen = Nothing]
           /\ UNCHANGED jar
 <2>1. /\ op' \in OpType /\ op'.stage = "release" /\ op'.since = op.since
       /\ op'.source = op.source
       /\ op'.next = op.next /\ op'.kind = op.kind /\ op'.edit = op.edit /\ op'.id = op.id
   BY <1>1, <1>4 DEF OpType
 <2>4. OpSound(op)'  BY <1>1, <1>4, <2>1 DEF OpSound
 <2>5. RequestSound'
  <3> SUFFICES ASSUME request # Idle
               PROVE  OpSound(request)' /\ request.stage = "write"
                      /\ request.kind \in {"panel", "provider"}
    BY <1>1 DEF RequestSound
  <3> QED BY <1>1, <1>4 DEF OpSound, WriteSound, ConfigInv, RequestSound
 <2> QED
   BY <1>2, <2>4, <2>5, <1>1, <1>4, <2>1 DEF ConfigInv, KeysApart, LockSound,
     StoreSound, OpSound, WrittenSound
<1> QED BY <1>3, <1>4 DEF Rename

LEMMA ReleaseKeysKeeps == ConfigInv /\ op # Idle /\ ReleaseKeys => ConfigInv'
<1> SUFFICES ASSUME ConfigInv, op # Idle, ReleaseKeys PROVE ConfigInv'  OBVIOUS
<1> DEFINE o == Operation("write", "load", 0, NoModel, AnyRevision, NoEdit)
<1>1. /\ jar' \in {jar, jar \ ({op.source.key} \ {op.next.key})} /\ op' = o
      /\ op.stage = "release"
      /\ UNCHANGED <<file, names, process, panel, request, edits, ops>>
  BY DEF ReleaseKeys, ReleasedKeys
<1>2. process.up /\ op.next.key = file.key  BY <1>1, LockIs DEF OpSound
<1>5. RequestSound'
 <2> QED BY <1>1, RequestWaits DEF ConfigInv, StoreSound, RequestSound, OpSound, WriteSound
<1>6. o # Idle /\ OpSound(o) /\ o.edit.what # "key"  BY LoadIsSound DEF ConfigInv
<1>7. PICK p : p = o  OBVIOUS
<1> HIDE DEF o
<1>9. LockSound' /\ KeysApart'
  BY <1>1, <1>2, <1>6, <1>7, OpKept DEF LockSound, KeysApart, ConfigInv,
    StoreSound
<1> QED
  BY <1>5, <1>9, <1>1, <1>2 DEF ConfigInv, StoreSound, PanelSound,
    ProcessSound, RunningIsCoherent, HashNamesConfiguration

LEMMA LoadFileKeeps == ConfigInv /\ op # Idle /\ LoadFile => ConfigInv'
<1> SUFFICES ASSUME ConfigInv, op # Idle, LoadFile PROVE ConfigInv'  OBVIOUS
<1>1. CASE FailApply  BY <1>1, FailApplyKeeps
<1>2. CASE /\ Valid(file) /\ Valid(Candidate(process.config, file))
           /\ Advance([op EXCEPT !.stage = "publish", !.kind = "write", !.loaded = file])
 <2>1. op \in OpType /\ OpSound(op) /\ file \in Content  BY LockIs
 <2>2. /\ op' = [op EXCEPT !.stage = "publish", !.kind = "write", !.loaded = file]
       /\ UNCHANGED <<file, jar, names, process, panel, request, edits, ops>>
   BY <1>2 DEF Advance
 <2> QED BY <2>2, LockStep, <1>2, <2>1 DEF OpSound, OpType
<1> QED BY <1>1, <1>2 DEF LoadFile

\* The hash that is adopted names what is adopted, and is the file's when nothing
\* is left to the restart.
LEMMA AdoptedHashIs ==
    ASSUME ConfigInv, process.up, NEW n \in Content, NEW pending, NEW changed \in BOOLEAN
    PROVE  /\ AdoptedHash(n, pending, changed) \in {"file", "raw"} \X Content
           /\ pending = {} => AdoptedHash(n, pending, changed) = <<"file", n>>
           /\ pending # {} /\ changed =>
                  AdoptedHash(n, pending, changed) = <<"raw", Candidate(process.config, n)>>
           /\ pending # {} /\ ~changed => AdoptedHash(n, pending, changed) = process.hash
<1>1. process \in ProcessType /\ process.config \in Content  BY RegistryIs
<1> QED BY <1>1, CandidateIs DEF AdoptedHash, FileHash, RawHash, ProcessType

LEMMA PublishKeeps == ConfigInv /\ op # Idle /\ Publish => ConfigInv'
<1> SUFFICES ASSUME ConfigInv, op # Idle, Publish PROVE ConfigInv'  OBVIOUS
<1>1. CASE FailApply  BY <1>1, FailApplyKeeps
<1>2. CASE ~FailApply
 <2> DEFINE a == process.config
            n == op.loaded
            c == Candidate(a, n)
            pending == PendingRestart(a, n)
            changed == ~SameSettings(c, a) \/ ~process.imageSeen \/ c.image # process.image
            hash == AdoptedHash(n, pending, changed)
            known == [process EXCEPT !.fileHash = FileHash(n), !.pending = pending,
                                     !.failed = FALSE]
 <2>1. process' = IF ~changed /\ hash = process.hash THEN known
           ELSE [known EXCEPT !.config = c, !.hash = hash, !.registry = Registry(c),
                              !.image = c.image, !.imageSeen = TRUE]
   BY <1>2 DEF Publish
 <2>2. op.stage = "publish" /\ op' = Idle
       /\ UNCHANGED <<file, jar, names, panel, request, edits, ops>>
   BY <1>2 DEF Publish
 <2>3. process.up /\ process \in ProcessType /\ a \in Content /\ RunningIsCoherent
       /\ HashNamesConfiguration
   BY LockIs, RegistryIs DEF ConfigInv, ProcessSound
 <2>4. n \in Content /\ Valid(n) /\ Valid(c)  BY <2>2, LockIs DEF OpSound
 <2> HIDE DEF a, n
 <2>5. /\ c \in Content /\ c.frozen = a.frozen /\ IdsOf(c) = IdsOf(a)
       /\ c.models \in SUBSET Models /\ c.key \in 1..OpBound + 1 /\ c.image \in BOOLEAN
   BY <2>3, <2>4, CandidateIs, ContentIs
 <2>6. pending \in SUBSET ({"frozen"} \cup ChatIds)
  <3> QED BY <2>3, <2>4, ContentIs DEF PendingRestart, IdsOf, ChatSettings
 <2>7. /\ hash \in {"file", "raw"} \X Content
       /\ pending = {} => hash = <<"file", n>>
       /\ pending # {} /\ changed => hash[1] = "raw"
       /\ pending # {} /\ ~changed => hash = process.hash
  <3> HIDE DEF c, pending, changed
  <3>2. /\ AdoptedHash(n, pending, changed) \in {"file", "raw"} \X Content
        /\ pending = {} => AdoptedHash(n, pending, changed) = <<"file", n>>
        /\ pending # {} /\ changed =>
               AdoptedHash(n, pending, changed) = <<"raw", Candidate(process.config, n)>>
        /\ pending # {} /\ ~changed => AdoptedHash(n, pending, changed) = process.hash
    BY <2>3, <2>4, AdoptedHashIs DEF changed
  <3> QED BY <3>2
 <2>8. pending = {} => SameSettings(c, n)  BY <2>3, <2>4, AllIsAdopted
 <2> HIDE DEF c, pending, changed, hash
 <2>9. /\ known \in ProcessType /\ known.config = a /\ known.hash = process.hash
       /\ known.registry = process.registry /\ known.image = process.image
       /\ known.origin = process.origin /\ known.pending = pending
       /\ known.fileHash = <<"file", n>> /\ known.up
   BY <2>3, <2>4, <2>6 DEF a, ProcessType, FileHash
 <2> HIDE DEF known
 <2>10. ProcessSound'
  <3>1. CASE ~changed /\ hash = process.hash
   <4>1. process' = known  BY <2>1, <3>1
   <4> QED
     BY <2>9, <4>1, <2>3, <2>7, <3>1 DEF ProcessSound, a, RunningIsCoherent,
       HashNamesConfiguration
  <3>2. CASE ~(~changed /\ hash = process.hash)
   <4>1. PICK r : r = Registry(c)  OBVIOUS
   <4>2. r \in [models: SUBSET Models, key: 1..OpBound + 1] /\ r = Registry(c)
     BY <2>5, <4>1 DEF Registry
   <4>4. /\ process' \in ProcessType /\ process'.config = c /\ process'.hash = hash
         /\ process'.registry = r /\ process'.image = c.image
         /\ process'.origin = known.origin /\ process'.pending = pending
         /\ process'.fileHash = known.fileHash /\ process'.up
     BY <2>5, <2>7, <2>9, <4>2, <2>1, <3>2, <4>1 DEF ProcessType
   <4>7. hash[1] = "file" => SameSettings(c, hash[2])  BY <2>7, <2>8, <3>2
   <4> QED
     BY <4>4, <2>3, <2>4, <2>5, <2>9, <4>2, <2>7, <4>7 DEF ProcessSound, a,
       RunningIsCoherent, HashNamesConfiguration
  <3> QED BY <3>1, <3>2
 <2>11. process'.up
  <3>1. CASE ~changed /\ hash = process.hash  BY <2>1, <2>9, <3>1
  <3>2. CASE ~(~changed /\ hash = process.hash)  BY <2>1, <2>9, <3>2 DEF ProcessType
  <3> QED BY <3>1, <3>2
 <2>13. RequestSound'
  <3>1. PICK o : o = request  OBVIOUS
  <3>2. request # Idle => /\ OpSound(o) /\ request.stage = "write"
                          /\ request.kind \in {"panel", "provider"}
    BY <3>1 DEF ConfigInv, RequestSound
  <3>3. request # Idle => OpSound(o)'
   <4> QED BY <2>2, <3>1, <3>2 DEF OpSound, WriteSound
  <3> QED BY <2>2, <2>11, <3>1, <3>2, <3>3 DEF RequestSound
 <2> QED BY <2>2, <2>10, <2>13 DEF ConfigInv, LockSound, KeysApart, StoreSound, PanelSound
<1> QED BY <1>1, <1>2

LEMMA ConfigStep == ConfigInv /\ [ConfigNext]_configVars => ConfigInv'
<1> SUFFICES ASSUME ConfigInv, [ConfigNext]_configVars PROVE ConfigInv'  OBVIOUS
<1>1. CASE UNCHANGED configVars
  BY <1>1 DEF ConfigInv, configVars, StoreSound, ProcessSound, RunningIsCoherent,
     HashNamesConfiguration, PanelSound, LockSound, RequestSound, OpSound, WriteSound,
     WrittenSound, KeysApart
<1>2. CASE \E kind \in HandEdits : HandEdit(kind)  BY <1>2, HandEditKeeps
<1>3. CASE StartProcess \/ CrashConfig \/ Reload \/ SwitchChatModel \/ SwitchAgentModel
           \/ ServeRequest \/ OpenChats \/ LoadProviders \/ StampProviders \/ WriteChats
           \/ WriteProvider
  BY <1>3, StartProcessKeeps, CrashConfigKeeps, ReloadKeeps, SwitchChatModelKeeps,
     SwitchAgentModelKeeps, ServeRequestKeeps, OpenPageKeeps, WriteChatsKeeps,
     WriteProviderKeeps
<1>4. CASE op # Idle /\ (PinRevision \/ LocateChat \/ ReadAndEdit \/ AddKeys \/ Rename
                          \/ ReleaseKeys \/ LoadFile \/ Publish)
  BY <1>4, PinRevisionKeeps, LocateChatKeeps, ReadAndEditKeeps, AddKeysKeeps, RenameKeeps,
     ReleaseKeysKeeps, LoadFileKeeps, PublishKeeps
<1> QED BY <1>1, <1>2, <1>3, <1>4 DEF ConfigNext

\* Whatever is edited by hand, switched, written from the panel, refused or cut short
\* by a crash meanwhile: the running process holds one valid configuration that its
\* models, its key and the hash it reports belong to, a write changes the chat it is
\* about, and the file names no key that the jar does not hold.
THEOREM ConfigurationStaysOne == ConfigSpec => []ConfigurationIsOne
<1>1. ConfigInv => ConfigurationIsOne
 <2> SUFFICES ASSUME ConfigInv PROVE ConfigurationIsOne  OBVIOUS
 <2>1. ConfigTypeOK
  <3> QED
    BY RegistryIs DEF ConfigInv, StoreSound, LockSound, RequestSound,
      ConfigTypeOK, ProcessType
 <2>4. NoDanglingKey  BY DEF ConfigInv, StoreSound, NoDanglingKey
 <2> QED
   BY <2>4, <2>1 DEF ConfigurationIsOne, WritesAreSafe, ConfigInv, LockSound,
     OpSound, WrittenSound, WritesHitTheirChat, ProcessSound, RunningAgrees
<1> QED BY <1>1, ConfigStarts, ConfigStep, PTL DEF ConfigSpec

-----------------------------------------------------------------------------
(* The login throttle.                                                         *)

RowSet == [count: Nat, lastAt: Nat, before: SUBSET Clients, lockedUntil: Nat]

\* The rows of some clients, each behind those that failed before it.
RowsAre(rows) ==
    /\ rows = [k \in DOMAIN rows |-> rows[k]]
    /\ DOMAIN rows \subseteq Clients
    /\ \A k \in DOMAIN rows :
          /\ rows[k] \in RowSet
          /\ rows[k].before \subseteq DOMAIN rows
          /\ k \notin rows[k].before
    /\ \A j, k \in DOMAIN rows : j \in rows[k].before => rows[j].before \subseteq rows[k].before

\* The guesses of a client that the lockout still covers.
Recent(tries, now) == {i \in DOMAIN tries : tries[i] + Lockout > now}

\* What the row of a client says of its guesses.
Accounts(row, tries, now) ==
    /\ row.lastAt <= now
    /\ \A i \in DOMAIN tries : tries[i] <= row.lastAt
    /\ Cardinality(Recent(tries, now)) <= row.count
    /\ row.count <= MaxAttempts
    /\ row.count = MaxAttempts => row.lockedUntil = row.lastAt + Lockout

\* Every guess within a lockout is accounted for.
Accounted(rows, tries, now) ==
    /\ tries = [k \in Clients |-> tries[k]]
    /\ \A k \in Clients : tries[k] \in Seq(Nat)
    /\ \A k \in DOMAIN rows : Accounts(rows[k], tries[k], now)
    /\ \A k \in Clients \ DOMAIN rows : Recent(tries[k], now) = {}

\* The server has finitely many clients.
LEMMA ClientsAreFinite == IsFiniteSet(Clients) /\ \A q \in Requests : ClientOf[q] \in Clients
<1> DEFINE f == [q \in Requests |-> ClientOf[q]]
<1>1. f \in Surjection(Requests, Clients)  BY DEF Surjection, Clients
<1> QED BY <1>1, FS_Surjection, SessionsAssumption DEF Clients, SessionsAssumption

\* The constants are positive numbers.
LEMMA Limits ==
    /\ MaxAttempts \in Nat /\ MaxAttempts > 0 /\ Lockout \in Nat /\ Lockout > 0
    /\ MaxTracked \in Nat /\ MaxTracked > 0 /\ MaxHashes \in Nat /\ MaxHashes > 0
    /\ SessionTicks \in Nat
BY SessionsAssumption DEF SessionsAssumption

\* Rows that are kept keep what they say, but for those they stood behind.
LEMMA KeptRows ==
    ASSUME NEW rows, RowsAre(rows), NEW S \in SUBSET DOMAIN rows
    PROVE  /\ RowsAre(Kept(rows, S)) /\ DOMAIN Kept(rows, S) = S
           /\ \A k \in S :
                 /\ Kept(rows, S)[k].count = rows[k].count
                 /\ Kept(rows, S)[k].lastAt = rows[k].lastAt
                 /\ Kept(rows, S)[k].lockedUntil = rows[k].lockedUntil
                 /\ Kept(rows, S)[k].before = rows[k].before \cap S
<1> DEFINE kept == Kept(rows, S)
<1>1. DOMAIN kept = S /\ kept = [k \in DOMAIN kept |-> kept[k]]  BY DEF Kept
<1>2. ASSUME NEW k \in S
      PROVE  /\ kept[k].count = rows[k].count /\ kept[k].lastAt = rows[k].lastAt
             /\ kept[k].lockedUntil = rows[k].lockedUntil
             /\ kept[k].before = rows[k].before \cap S
             /\ kept[k] \in RowSet
 <2>1. rows[k] \in RowSet  BY DEF RowsAre
 <2>2. kept[k] = [rows[k] EXCEPT !.before = @ \cap S]  BY DEF Kept
 <2> HIDE DEF kept
 <2> QED BY <2>1, <2>2 DEF RowSet
<1> HIDE DEF kept
<1>3. RowsAre(kept)
 <2>3. \A j, k \in S : j \in kept[k].before => kept[j].before \subseteq kept[k].before
   BY <1>2 DEF RowsAre
 <2> QED BY <1>1, <2>3, <1>2 DEF RowsAre
<1> QED BY <1>1, <1>2, <1>3 DEF kept

\* Some client failed first.
LEMMA OldestExists ==
    ASSUME NEW rows, RowsAre(rows), DOMAIN rows # {}
    PROVE  \E k \in DOMAIN rows : rows[k].before = {}
<1> DEFINE T == {rows[k].before : k \in DOMAIN rows}
<1>1. T \subseteq FiniteSubsetsOf(Clients) /\ T # {}
 <2> QED BY ClientsAreFinite, FS_Subset DEF FiniteSubsetsOf, RowsAre, RowSet
<1>2. PICK b \in T : \A c \in T : ~ (<<c, b>> \in StrictSubsetOrdering(Clients))
  BY <1>1, WFMin, FS_StrictSubsetOrderingWellFounded
<1>3. PICK k \in DOMAIN rows : rows[k].before = b  BY <1>2
<1>4. ASSUME NEW j \in b PROVE FALSE
 <2>1. j \in DOMAIN rows /\ rows[j].before \subseteq b /\ j \notin rows[j].before
   BY <1>3, <1>4 DEF RowsAre
 <2>3. rows[j].before \subseteq Clients /\ b \subseteq Clients
   BY <2>1, <1>3 DEF RowsAre, RowSet
 <2> QED BY <1>2, <2>1, <2>3 DEF StrictSubsetOrdering
<1> QED BY <1>3, <1>4

\* Forgetting rows that are past the lockout leaves every guess accounted for.
LEMMA SweptAccounts ==
    ASSUME NEW rows, RowsAre(rows), NEW tries, Accounted(rows, tries, time), time \in Nat
    PROVE  /\ RowsAre(Swept(rows)) /\ Accounted(Swept(rows), tries, time)
           /\ DOMAIN Swept(rows) \subseteq DOMAIN rows
           /\ \A k \in DOMAIN Swept(rows) : Swept(rows)[k].lastAt + Lockout > time
<1> DEFINE S == {k \in DOMAIN rows : rows[k].lastAt + Lockout > time}
<1>1. Swept(rows) = Kept(rows, S) /\ S \in SUBSET DOMAIN rows  BY DEF Swept
<1> HIDE DEF S
<1> DEFINE kept == Kept(rows, S)
<1>2. /\ RowsAre(kept) /\ DOMAIN kept = S
      /\ \A k \in S : /\ kept[k].count = rows[k].count /\ kept[k].lastAt = rows[k].lastAt
                      /\ kept[k].lockedUntil = rows[k].lockedUntil
  BY <1>1, KeptRows
<1> HIDE DEF kept
<1>3. ASSUME NEW k \in S PROVE Accounts(kept[k], tries[k], time)
  BY <1>1, <1>2 DEF Accounted, Accounts
<1>4. ASSUME NEW k \in Clients \ S PROVE Recent(tries[k], time) = {}
 <2>1. CASE k \in DOMAIN rows
  <3>2. tries[k] \in Seq(Nat) /\ \A i \in DOMAIN tries[k] : tries[k][i] <= rows[k].lastAt
    BY <2>1 DEF Accounted, Accounts
  <3> QED BY <3>2, Limits, <2>1, <1>4 DEF Recent, RowsAre, RowSet, S
 <2>2. CASE k \notin DOMAIN rows  BY <2>2 DEF Accounted
 <2> QED BY <2>1, <2>2
<1> QED BY <1>1, <1>2, <1>3, <1>4 DEF kept, Accounted, S

\* Without loses one client and no more.
LEMMA WithoutRows ==
    ASSUME NEW rows, RowsAre(rows), NEW client
    PROVE  /\ RowsAre(Without(rows, client)) /\ DOMAIN Without(rows, client) = DOMAIN rows \ {client}
           /\ \A k \in DOMAIN rows \ {client} :
                 /\ Without(rows, client)[k].count = rows[k].count
                 /\ Without(rows, client)[k].lastAt = rows[k].lastAt
                 /\ Without(rows, client)[k].lockedUntil = rows[k].lockedUntil
BY KeptRows DEF Without

\* The rows once the failure of a client is written, before the cap.
Grown(rows, client) ==
    LET others == Without(rows, client)
        count == IF client \in DOMAIN rows THEN rows[client].count + 1 ELSE 1
    IN [k \in DOMAIN others \cup {client} |->
           IF k = client THEN Failure(others, count) ELSE others[k]]

\* A set with one element more.
LEMMA OneMore ==
    ASSUME NEW S, IsFiniteSet(S), NEW x
    PROVE  /\ IsFiniteSet(S \cup {x}) /\ Cardinality(S) \in Nat
           /\ Cardinality(S \cup {x}) \in Nat /\ Cardinality(S \cup {x}) <= Cardinality(S) + 1
<1> QED BY FS_CardinalityType, FS_AddElement

\* What is written of a failure.
LEMMA GrownIs ==
    ASSUME NEW rows, RowsAre(rows), NEW client \in Clients, time \in Nat
    PROVE  LET grown == Grown(rows, client)
               count == IF client \in DOMAIN rows THEN rows[client].count + 1 ELSE 1
           IN /\ RowsAre(grown) /\ DOMAIN grown = DOMAIN rows \cup {client}
              /\ grown[client].count = count /\ grown[client].lastAt = time
              /\ grown[client].before = DOMAIN rows \ {client}
              /\ grown[client].lockedUntil = IF count >= MaxAttempts THEN time + Lockout ELSE 0
              /\ \A k \in DOMAIN rows \ {client} :
                    /\ grown[k].count = rows[k].count /\ grown[k].lastAt = rows[k].lastAt
                    /\ grown[k].lockedUntil = rows[k].lockedUntil
<1> DEFINE others == Without(rows, client)
<1>1. /\ RowsAre(others) /\ DOMAIN others = DOMAIN rows \ {client}
      /\ \A k \in DOMAIN rows \ {client} :
            /\ others[k].count = rows[k].count /\ others[k].lastAt = rows[k].lastAt
            /\ others[k].lockedUntil = rows[k].lockedUntil
  BY KeptRows DEF Without
<1> DEFINE count == IF client \in DOMAIN rows THEN rows[client].count + 1 ELSE 1
           grown == Grown(rows, client)
<1>2. count \in Nat  BY DEF RowsAre, RowSet
<1>3. /\ grown = [k \in DOMAIN grown |-> grown[k]]
      /\ DOMAIN grown = DOMAIN others \cup {client}
      /\ grown[client] = Failure(others, count)
      /\ \A k \in DOMAIN others : k # client => grown[k] = others[k]
  BY DEF Grown
<1> HIDE DEF others, count, grown
<1>4. /\ grown[client] \in RowSet /\ grown[client].before = DOMAIN others
      /\ grown[client].count = count /\ grown[client].lastAt = time
      /\ grown[client].lockedUntil = IF count >= MaxAttempts THEN time + Lockout ELSE 0
 <2> QED BY <1>2, <1>3, Limits, <1>1 DEF Failure, RowSet, RowsAre
<1>5. RowsAre(grown)
 <2>3. ASSUME NEW j \in DOMAIN grown, NEW k \in DOMAIN grown, j \in grown[k].before
       PROVE  grown[j].before \subseteq grown[k].before
  <3>1. j \in DOMAIN others /\ j # client /\ grown[j] = others[j]
    BY <1>1, <1>3, <1>4, <2>3 DEF RowsAre
  <3>3. CASE k = client  BY <3>1, <3>3, <1>4, <1>1 DEF RowsAre
  <3>4. CASE k # client  BY <3>1, <3>4, <1>1, <1>3, <2>3 DEF RowsAre
  <3> QED BY <3>3, <3>4
 <2> QED BY <1>3, <2>3, <1>1, <1>4 DEF RowsAre
<1> QED BY <1>1, <1>4, <1>5, <1>3 DEF grown, count

\* A guess more is at most one more that is recent.
LEMMA RecentGuess ==
    ASSUME NEW tries \in Seq(Nat), time \in Nat
    PROVE  /\ Append(tries, time) \in Seq(Nat)
           /\ IsFiniteSet(Recent(tries, time)) /\ Cardinality(Recent(tries, time)) \in Nat
           /\ Cardinality(Recent(Append(tries, time), time)) <= Cardinality(Recent(tries, time)) + 1
           /\ \A i \in DOMAIN Append(tries, time) :
                 Append(tries, time)[i] = time \/ (i \in DOMAIN tries /\ Append(tries, time)[i] = tries[i])
<1> DEFINE more == Append(tries, time)
<1>1. /\ more \in Seq(Nat) /\ DOMAIN tries = 1..Len(tries) /\ Len(tries) \in Nat
      /\ DOMAIN more = 1..Len(tries) + 1
      /\ \A i \in 1..Len(tries) : more[i] = tries[i]
      /\ more[Len(tries) + 1] = time
  OBVIOUS
<1> HIDE DEF more
<1>2. IsFiniteSet(Recent(tries, time))
 <2>1. Recent(tries, time) \in SUBSET (1..Len(tries)) /\ IsFiniteSet(1..Len(tries))
   BY <1>1, FS_Interval DEF Recent
 <2> QED BY <2>1, FS_Subset
<1>3. Recent(more, time) \in SUBSET (Recent(tries, time) \cup {Len(tries) + 1})
  BY <1>1 DEF Recent
<1>4. /\ IsFiniteSet(Recent(tries, time) \cup {Len(tries) + 1})
      /\ Cardinality(Recent(tries, time) \cup {Len(tries) + 1}) <= Cardinality(Recent(tries, time)) + 1
      /\ Cardinality(Recent(tries, time)) \in Nat
      /\ Cardinality(Recent(tries, time) \cup {Len(tries) + 1}) \in Nat
  BY <1>2, OneMore
<1>7. \A i \in DOMAIN more : more[i] = time \/ (i \in DOMAIN tries /\ more[i] = tries[i])
  BY <1>1
<1> QED BY <1>1, <1>2, <1>4, <1>7, <1>3, FS_Subset, FS_CardinalityType DEF more

\* The cap forgets the client that failed longest ago, and never the latest.
LEMMA CappedRows ==
    ASSUME NEW rows, RowsAre(rows), NEW client \in DOMAIN rows,
           rows[client].before = DOMAIN rows \ {client},
           Cardinality(DOMAIN rows) <= MaxTracked + 1
    PROVE  /\ RowsAre(Capped(rows)) /\ client \in DOMAIN Capped(rows)
           /\ DOMAIN Capped(rows) \subseteq DOMAIN rows
           /\ Cardinality(DOMAIN Capped(rows)) <= MaxTracked
           /\ \A k \in DOMAIN Capped(rows) :
                 /\ Capped(rows)[k].count = rows[k].count
                 /\ Capped(rows)[k].lastAt = rows[k].lastAt
                 /\ Capped(rows)[k].lockedUntil = rows[k].lockedUntil
<1>1. IsFiniteSet(DOMAIN rows) /\ Cardinality(DOMAIN rows) \in Nat
  BY ClientsAreFinite, FS_Subset, FS_CardinalityType DEF RowsAre
<1>2. CASE Cardinality(DOMAIN rows) <= MaxTracked  BY <1>2 DEF Capped
<1>3. CASE ~ (Cardinality(DOMAIN rows) <= MaxTracked)
 <2> DEFINE S == {k \in DOMAIN rows : rows[k].before # {}}
 <2>1. Capped(rows) = Kept(rows, S) /\ S \in SUBSET DOMAIN rows  BY <1>3 DEF Capped
 <2>2. client \in S
  <3>1. DOMAIN rows # {client}
   <4>1. Cardinality({client}) = 1  BY FS_Singleton
   <4> QED BY <4>1, <1>3, Limits
  <3> QED BY <3>1
 <2>3. Cardinality(S) <= MaxTracked
  <3>1. PICK k \in DOMAIN rows : k \notin S  BY OldestExists
  <3>3. /\ IsFiniteSet(DOMAIN rows \ {k})
        /\ Cardinality(DOMAIN rows \ {k}) = Cardinality(DOMAIN rows) - 1
    BY <1>1, <3>1, FS_RemoveElement
  <3> QED BY <1>1, <3>3, Limits, FS_Subset, FS_CardinalityType, <3>1
 <2> HIDE DEF S
 <2> QED BY <2>1, <2>2, <2>3, KeptRows
<1> QED BY <1>2, <1>3

\* Guesses as they are once the client has made one more.
GuessesAfter(tries, rows, client) ==
    [k \in Clients |-> IF k = client THEN Append(tries[k], time)
                       ELSE IF k \in DOMAIN rows THEN tries[k] ELSE <<>>]

\* A client that is not locked out makes its guess: the guess is accounted for,
\* and every other within a lockout still is.
LEMMA RecordedAccounts ==
    ASSUME NEW rows, RowsAre(rows), NEW tries, Accounted(rows, tries, time), time \in Nat,
           \A k \in DOMAIN rows : rows[k].lastAt + Lockout > time,
           Cardinality(DOMAIN rows) <= MaxTracked,
           NEW client \in Clients, ~ Locked(rows, client)
    PROVE  LET counted == RecordFailure(rows, client)
           IN /\ RowsAre(counted) /\ Cardinality(DOMAIN counted) <= MaxTracked
              /\ Accounted(counted, GuessesAfter(tries, counted, client), time)
<1> DEFINE grown == Grown(rows, client)
           counted == RecordFailure(rows, client)
           count == IF client \in DOMAIN rows THEN rows[client].count + 1 ELSE 1
           after == GuessesAfter(tries, counted, client)
<1>1. counted = Capped(grown)  BY DEF RecordFailure, Grown
<1>2. /\ RowsAre(grown) /\ DOMAIN grown = DOMAIN rows \cup {client}
      /\ grown[client].count = count /\ grown[client].lastAt = time
      /\ grown[client].before = DOMAIN rows \ {client}
      /\ grown[client].lockedUntil = IF count >= MaxAttempts THEN time + Lockout ELSE 0
      /\ \A k \in DOMAIN rows \ {client} :
            /\ grown[k].count = rows[k].count /\ grown[k].lastAt = rows[k].lastAt
            /\ grown[k].lockedUntil = rows[k].lockedUntil
  BY GrownIs
<1>3. count \in Nat /\ count <= MaxAttempts
 <2>1. CASE client \in DOMAIN rows
  <3>1. rows[client] \in RowSet /\ Accounts(rows[client], tries[client], time)
    BY <2>1 DEF RowsAre, Accounted
  <3> QED BY <2>1, Limits, <3>1 DEF Locked, Accounts, RowSet
 <2>2. CASE client \notin DOMAIN rows  BY <2>2, Limits
 <2> QED BY <2>1, <2>2
<1>4. Cardinality(DOMAIN grown) <= MaxTracked + 1
 <2>1. IsFiniteSet(DOMAIN rows) /\ Cardinality(DOMAIN rows) \in Nat
   BY ClientsAreFinite, FS_Subset, FS_CardinalityType DEF RowsAre
 <2>2. Cardinality(DOMAIN rows \cup {client}) <= Cardinality(DOMAIN rows) + 1
       /\ Cardinality(DOMAIN rows \cup {client}) \in Nat
   BY <2>1, OneMore
 <2> QED BY <1>2, <2>1, <2>2, Limits
<1>5. Cardinality(Recent(tries[client], time)) + 1 <= count
 <2>1. CASE client \in DOMAIN rows
  <3>1. /\ Cardinality(Recent(tries[client], time)) <= rows[client].count
        /\ rows[client].count \in Nat
    BY <2>1 DEF RowsAre, RowSet, Accounted, Accounts
  <3> QED BY <2>1, <3>1, RecentGuess DEF Accounted
 <2>2. CASE client \notin DOMAIN rows
  <3>2. Cardinality(Recent(tries[client], time)) = 0  BY FS_EmptySet, <2>2 DEF Accounted
  <3> QED BY <2>2, <3>2
 <2> QED BY <2>1, <2>2
<1> HIDE DEF grown, count
<1>6. /\ RowsAre(counted) /\ client \in DOMAIN counted
      /\ DOMAIN counted \subseteq DOMAIN grown
      /\ Cardinality(DOMAIN counted) <= MaxTracked
      /\ \A k \in DOMAIN counted :
            /\ counted[k].count = grown[k].count
            /\ counted[k].lastAt = grown[k].lastAt
            /\ counted[k].lockedUntil = grown[k].lockedUntil
 <2> HIDE DEF counted
 <2> QED BY <1>1, <1>2, <1>4, CappedRows
<1> HIDE DEF counted
<1>7. /\ after = [k \in Clients |-> after[k]]
      /\ after[client] = Append(tries[client], time)
      /\ \A k \in Clients : k # client =>
            after[k] = IF k \in DOMAIN counted THEN tries[k] ELSE <<>>
  BY DEF GuessesAfter
<1> HIDE DEF after
<1>8. \A k \in Clients : after[k] \in Seq(Nat)
 <2>1. \A k \in Clients : tries[k] \in Seq(Nat)  BY DEF Accounted
 <2>2. Append(tries[client], time) \in Seq(Nat)  BY <2>1
 <2>3. <<>> \in Seq(Nat)  OBVIOUS
 <2>4. ASSUME NEW k \in Clients PROVE after[k] \in Seq(Nat)
  <3>1. CASE k = client  BY <3>1, <1>7, <2>2
  <3>2. CASE k # client  BY <3>2, <1>7, <2>1, <2>3
  <3> QED BY <3>1, <3>2
 <2> QED BY <2>4
<1>9. Accounts(counted[client], after[client], time)
 <2>2. tries[client] \in Seq(Nat)  BY DEF Accounted
 <2>3. Cardinality(Recent(after[client], time)) <= count
  <3>1. /\ Cardinality(Recent(after[client], time)) <= Cardinality(Recent(tries[client], time)) + 1
        /\ Cardinality(Recent(tries[client], time)) \in Nat
        /\ IsFiniteSet(Recent(after[client], time))
    BY <2>2, <1>7, <1>8, RecentGuess
  <3> QED BY <1>3, <1>5, <3>1, FS_CardinalityType
 <2>4. \A i \in DOMAIN after[client] : after[client][i] <= time
  <3>1. \A i \in DOMAIN tries[client] : tries[client][i] <= time
   <4>1. CASE client \in DOMAIN rows
    <5>1. /\ \A i \in DOMAIN tries[client] : tries[client][i] <= rows[client].lastAt
          /\ rows[client].lastAt <= time /\ rows[client].lastAt \in Nat
      BY <4>1 DEF Accounted, Accounts, RowsAre, RowSet
    <5> QED BY <5>1, <2>2
   <4>2. CASE client \notin DOMAIN rows
    <5> QED BY <4>2, Limits, <2>2 DEF Accounted, Recent
   <4> QED BY <4>1, <4>2
  <3>2. \A i \in DOMAIN after[client] :
            \/ after[client][i] = time
            \/ i \in DOMAIN tries[client] /\ after[client][i] = tries[client][i]
    BY <2>2, <1>7, RecentGuess
  <3> QED BY <3>1, <3>2
 <2> QED BY <2>3, <2>4, <1>3, Limits, <1>2, <1>6 DEF Accounts
<1>10. ASSUME NEW k \in DOMAIN counted, k # client PROVE Accounts(counted[k], after[k], time)
 <2>1. k \in DOMAIN rows /\ k \in Clients  BY <1>2, <1>6, <1>10 DEF RowsAre
 <2>3. counted[k].count = rows[k].count /\ counted[k].lastAt = rows[k].lastAt
       /\ counted[k].lockedUntil = rows[k].lockedUntil
   BY <1>2, <1>6, <1>10, <2>1
 <2> QED BY <2>3, <1>7, <1>10, <2>1 DEF Accounts, Accounted
<1>11. ASSUME NEW k \in Clients \ DOMAIN counted PROVE Recent(after[k], time) = {}
 <2> QED BY <1>6, <1>7, <1>11 DEF Recent
<1> QED BY <1>6, <1>7, <1>8, <1>9, <1>10, <1>11 DEF counted, after, Accounted

-----------------------------------------------------------------------------
(* Accounts, sessions and requests.                                            *)

HashSet == [secret: Secrets, salt: Nat]
UserSet == [name: Names, hash: HashSet]
RequestSet ==
    [kind: {"none", "setup", "login", "change"}, stage: {"free", "body", "hash"}, user: Nat,
     hash: HashSet \cup {Malformed}, name: Names \cup {Malformed},
     secret: Secrets \cup {Malformed}, since: Nat]

\* What a request may hold while there are n accounts.
Sound(r, n) ==
    /\ r \in RequestSet
    /\ r.stage # "free" => r.kind # "none"
    /\ r.user \in 0..n
    /\ r.kind = "change" => r.user # 0
    /\ r.stage = "hash" =>
          /\ r.secret \in Secrets
          /\ r.kind \in {"setup", "change"} => r.name \in Names

\* The accounts and their sessions.
AccountsInv ==
    /\ time \in Nat /\ issued \in Nat
    /\ users \in Seq(UserSet) /\ Len(users) <= 1
    /\ \A s \in sessions : /\ s.token \in 1..issued /\ s.user \in DOMAIN users
                           /\ users[s.user].hash = s.hash

RequestsInv ==
    /\ requests = [q \in Requests |-> requests[q]]
    /\ \A q \in Requests : Sound(requests[q], Len(users))

InSlot(r) == r.stage = "hash" /\ r.kind \in {"setup", "login"}

SlotsInv == hashing \in 0..MaxHashes /\ SlotsComeBack

ThrottleInv ==
    /\ RowsAre(failures) /\ Cardinality(DOMAIN failures) <= MaxTracked
    /\ Accounted(failures, attempts, time)

PanelInv == AccountsInv /\ RequestsInv /\ SlotsInv /\ ThrottleInv

\* A request that changes to a sound one leaves all of them sound.
LEMMA RequestKept ==
    ASSUME RequestsInv, NEW q \in Requests, NEW r, Sound(r, Len(users)'),
           requests' = [requests EXCEPT ![q] = r],
           Len(users) \in Nat, Len(users)' \in Nat, Len(users) <= Len(users)'
    PROVE  RequestsInv'
<1> QED BY DEF RequestsInv, Sound

\* Free is sound.
LEMMA FreeIsSound == ASSUME NEW n \in Nat PROVE Sound(Free, n) /\ ~ InSlot(Free)
BY DEF Sound, RequestSet, Free, InSlot

\* The slots under way are finitely many.
LEMMA SlotsAreFinite ==
    /\ IsFiniteSet({x \in Requests : InSlot(requests[x])})
    /\ Cardinality({x \in Requests : InSlot(requests[x])}) \in Nat
<1> QED BY FS_CardinalityType, FS_Subset, SessionsAssumption DEF SessionsAssumption

\* SlotsComeBack, in terms of InSlot.
LEMMA SlotsAre == SlotsComeBack <=> hashing = Cardinality({x \in Requests : InSlot(requests[x])})
BY DEF SlotsComeBack, InSlot

\* A request that neither holds a slot nor takes one changes nothing of them.
LEMMA SlotsKept ==
    ASSUME SlotsInv, NEW q \in Requests, NEW r, requests' = [requests EXCEPT ![q] = r],
           RequestsInv, hashing' = hashing, InSlot(r) <=> InSlot(requests[q])
    PROVE  SlotsInv'
<1> QED BY DEF SlotsInv, SlotsComeBack, InSlot, RequestsInv

\* A slot is taken when one is left.
LEMMA SlotTaken ==
    ASSUME SlotsInv, NEW q \in Requests, NEW r, requests' = [requests EXCEPT ![q] = r],
           RequestsInv, hashing' = hashing + 1, hashing < MaxHashes,
           InSlot(r), ~ InSlot(requests[q])
    PROVE  SlotsInv'
<1> DEFINE S == {x \in Requests : InSlot(requests[x])}
           T == {x \in Requests : InSlot(requests'[x])}
<1>1. T = S \cup {q} /\ q \notin S  BY DEF RequestsInv
<1>2. IsFiniteSet(S) /\ Cardinality(S) \in Nat  BY SlotsAreFinite
<1>3. hashing = Cardinality(S) /\ hashing \in 0..MaxHashes
  BY DEF SlotsInv, SlotsComeBack, InSlot
<1>4. hashing' = Cardinality(T) => SlotsComeBack'  BY DEF SlotsComeBack, InSlot
<1> HIDE DEF S, T
<1>5. Cardinality(T) = Cardinality(S) + 1  BY <1>1, <1>2, FS_AddElement
<1> QED BY <1>3, <1>4, <1>5, Limits DEF SlotsInv

\* A slot is given back.
LEMMA SlotReturned ==
    ASSUME SlotsInv, NEW q \in Requests, requests' = [requests EXCEPT ![q] = Free],
           RequestsInv, hashing' = hashing - 1, InSlot(requests[q])
    PROVE  SlotsInv'
<1> DEFINE S == {x \in Requests : InSlot(requests[x])}
           T == {x \in Requests : InSlot(requests'[x])}
<1>1. T = S \ {q} /\ q \in S  BY DEF RequestsInv, InSlot, Free
<1>2. IsFiniteSet(S) /\ Cardinality(S) \in Nat  BY SlotsAreFinite
<1>3. hashing = Cardinality(S) /\ hashing \in 0..MaxHashes
  BY DEF SlotsInv, SlotsComeBack, InSlot
<1>4. hashing' = Cardinality(T) => SlotsComeBack'  BY DEF SlotsComeBack, InSlot
<1> HIDE DEF S, T
<1>5. Cardinality(T) = Cardinality(S) - 1 /\ Cardinality(S) # 0
  BY <1>1, <1>2, FS_RemoveElement, FS_EmptySet
<1> QED BY <1>3, <1>4, <1>5, <1>2, Limits DEF SlotsInv

\* Fewer sessions of the same accounts.
LEMMA FewerSessions ==
    ASSUME AccountsInv, sessions' \subseteq sessions, UNCHANGED <<users, time, issued>>
    PROVE  AccountsInv'
BY DEF AccountsInv

\* The throttle is as it was.
LEMMA ThrottleKept ==
    ASSUME ThrottleInv, UNCHANGED <<failures, attempts, time>>
    PROVE  ThrottleInv'
BY DEF ThrottleInv

\* The accounts are a sequence.
LEMMA UsersAre == ASSUME AccountsInv PROVE Len(users) \in 0..1 /\ DOMAIN users = 1..Len(users)
<1>1. users \in Seq(UserSet) /\ Len(users) <= 1  BY DEF AccountsInv
<1>2. Len(users) \in Nat /\ DOMAIN users = 1..Len(users)  BY <1>1
<1> QED BY <1>1, <1>2

\* A request that changes to a sound one leaves all of them sound, the accounts as they were.
LEMMA RequestSame ==
    ASSUME AccountsInv, RequestsInv, NEW q \in Requests, NEW r, Sound(r, Len(users)),
           requests' = [requests EXCEPT ![q] = r], UNCHANGED users
    PROVE  RequestsInv'
<1> QED BY UsersAre DEF RequestsInv

\* A request that is over leaves the others sound.
LEMMA RequestFreed ==
    ASSUME AccountsInv, RequestsInv, NEW q \in Requests,
           requests' = [requests EXCEPT ![q] = Free], UNCHANGED users
    PROVE  RequestsInv'
<1>1. Sound(Free, Len(users))  BY UsersAre, FreeIsSound
<1> QED BY <1>1, RequestSame

\* The beginning.
LEMMA PanelStarts == SessionsInit => PanelInv
<1> SUFFICES ASSUME SessionsInit PROVE PanelInv  OBVIOUS
<1>3. SlotsInv
 <2> QED BY Limits, SlotsAre, FS_EmptySet, FreeIsSound DEF SlotsInv, SessionsInit
<1>4. ThrottleInv
 <2>1. DOMAIN failures = {} /\ failures = [k \in {} |-> failures[k]]
   BY DEF SessionsInit, NoFailures
 <2>4. Accounted(failures, attempts, time)  BY <2>1 DEF SessionsInit, Accounted, Recent
 <2> QED BY <2>4, <2>1, FS_EmptySet, Limits DEF ThrottleInv, RowsAre
<1> QED BY <1>3, <1>4, FreeIsSound DEF PanelInv, SessionsInit, AccountsInv, RequestsInv

\* A request arrives.
LEMMA ArriveKeeps == ASSUME PanelInv, NEW q \in Requests, Arrive(q) PROVE PanelInv'
<1> USE DEF PanelInv
<1>2. AccountsInv'  BY FewerSessions DEF Arrive, AfterLookup
<1>3. ThrottleInv'
 <2> QED BY ThrottleKept DEF Arrive
<1>4. UNCHANGED <<users, hashing>> /\ ~ InSlot(requests[q])  BY DEF Arrive, InSlot
<1>5. \/ UNCHANGED requests
      \/ \E r : /\ requests' = [requests EXCEPT ![q] = r]
                /\ Sound(r, Len(users)) /\ ~ InSlot(r)
 <2>1. ASSUME NEW kind \in {"setup", "login"}
       PROVE  LET r == [Free EXCEPT !.kind = kind, !.stage = "body"]
              IN Sound(r, Len(users)) /\ ~ InSlot(r)
  <3> DEFINE r == [Free EXCEPT !.kind = kind, !.stage = "body"]
  <3>1. r \in RequestSet /\ r.kind = kind /\ r.stage = "body" /\ r.user = 0
    BY DEF Free, RequestSet
  <3> HIDE DEF r
  <3> QED BY <3>1, UsersAre DEF r, Sound, InSlot
 <2>2. ASSUME NEW token, UserOf(token) # 0
       PROVE  LET r == [Free EXCEPT !.kind = "change", !.stage = "body", !.user = UserOf(token)]
              IN Sound(r, Len(users)) /\ ~ InSlot(r)
  <3> DEFINE r == [Free EXCEPT !.kind = "change", !.stage = "body", !.user = UserOf(token)]
  <3>1. PICK s \in sessions : UserOf(token) = s.user  BY <2>2 DEF UserOf
  <3>2. UserOf(token) \in 1..Len(users)  BY <3>1, UsersAre DEF AccountsInv
  <3>3. r \in RequestSet /\ r.kind = "change" /\ r.stage = "body" /\ r.user = UserOf(token)
   <4>1. UserOf(token) \in Nat  BY <3>2, UsersAre
   <4> QED BY <4>1 DEF Free, RequestSet
  <3> HIDE DEF r
  <3> QED BY <3>2, <3>3, UsersAre DEF r, Sound, InSlot
 <2> QED BY <2>1, <2>2 DEF Arrive, Suspend
<1>6. CASE UNCHANGED requests
 <2>1. RequestsInv'  BY <1>4, <1>6 DEF RequestsInv
 <2>2. SlotsInv'  BY <1>4, <1>6 DEF SlotsInv, SlotsComeBack
 <2> QED BY <1>2, <1>3, <2>1, <2>2
<1>7. ASSUME NEW r, requests' = [requests EXCEPT ![q] = r], Sound(r, Len(users)), ~ InSlot(r)
      PROVE  PanelInv'
 <2>1. RequestsInv'  BY <1>4, <1>7, RequestSame
 <2>2. SlotsInv'  BY <1>4, <1>7, SlotsKept
 <2> QED BY <1>2, <1>3, <2>1, <2>2
<1> QED BY <1>5, <1>6, <1>7

\* A request is answered, and no slot was its own.
LEMMA ReplyKeeps ==
    ASSUME PanelInv, NEW q \in Requests, Reply(q), ~ InSlot(requests[q]), UNCHANGED <<users, hashing>>
    PROVE  RequestsInv' /\ SlotsInv'
<1>1. requests' = [requests EXCEPT ![q] = Free]  BY DEF Reply
<1>2. Sound(Free, Len(users)) /\ ~ InSlot(Free)  BY UsersAre, FreeIsSound DEF PanelInv
<1>3. RequestsInv'  BY <1>1, <1>2, RequestSame DEF PanelInv
<1>4. SlotsInv'  BY <1>1, <1>2, SlotsKept DEF PanelInv
<1> QED BY <1>3, <1>4

\* A slot is asked for: the request takes it, or it is turned away.
LEMMA TakeSlotKeeps ==
    ASSUME PanelInv, NEW q \in Requests, NEW r, TakeSlot(q, r), ~ InSlot(requests[q]), InSlot(r),
           Sound(r, Len(users)), UNCHANGED users
    PROVE  RequestsInv' /\ SlotsInv'
<1>1. CASE hashing >= MaxHashes  BY <1>1, ReplyKeeps DEF TakeSlot
<1>2. CASE ~ (hashing >= MaxHashes)
 <2>1. requests' = [requests EXCEPT ![q] = r] /\ hashing' = hashing + 1
   BY <1>2 DEF TakeSlot, Suspend
 <2>2. hashing < MaxHashes  BY <1>2, Limits DEF PanelInv, SlotsInv
 <2>3. RequestsInv'  BY <2>1, RequestSame DEF PanelInv
 <2>4. SlotsInv'  BY <2>1, <2>2, SlotTaken DEF PanelInv
 <2> QED BY <2>3, <2>4
<1> QED BY <1>1, <1>2

\* A setup's body has arrived.
LEMMA SetupBodyKeeps ==
    ASSUME PanelInv, NEW q \in Requests, requests[q].stage = "body", requests[q].kind = "setup",
           NEW name \in Names \cup {Malformed}, NEW secret \in Secrets \cup {Malformed},
           SetupBody(q, name, secret)
    PROVE  PanelInv'
<1>1. UNCHANGED <<users, sessions, failures, time, issued, attempts>>  BY DEF SetupBody
<1>2. AccountsInv' /\ ThrottleInv'  BY <1>1, FewerSessions, ThrottleKept DEF PanelInv
<1>3. ~ InSlot(requests[q])  BY DEF InSlot
<1>4. CASE Reply(q) /\ UNCHANGED hashing  BY <1>1, <1>2, <1>3, <1>4, ReplyKeeps DEF PanelInv
<1>5. CASE ~ (Malformed \in {name, secret} \/ ~SetupRequired)
 <2> DEFINE h == [requests[q] EXCEPT !.stage = "hash", !.name = name, !.secret = secret,
                                     !.since = time]
 <2>1. requests[q] \in RequestSet /\ Sound(requests[q], Len(users)) /\ time \in Nat
   BY DEF PanelInv, RequestsInv, Sound, AccountsInv
 <2>2. name \in Names /\ secret \in Secrets  BY <1>5
 <2>3. /\ h \in RequestSet /\ h.kind = "setup" /\ h.stage = "hash" /\ h.user = requests[q].user
       /\ h.name = name /\ h.secret = secret
   BY <2>1, <2>2 DEF RequestSet
 <2>4. TakeSlot(q, h)  BY <1>5 DEF SetupBody
 <2> HIDE DEF h
 <2> QED BY <1>1, <1>2, <1>3, <2>4, TakeSlotKeeps, <2>1, <2>2, <2>3 DEF PanelInv, Sound, InSlot
<1> QED BY <1>4, <1>5 DEF SetupBody

\* A change's body has arrived.
LEMMA ChangeBodyKeeps ==
    ASSUME PanelInv, NEW q \in Requests, requests[q].stage = "body", requests[q].kind = "change",
           NEW name \in Names \cup {Malformed}, NEW secret \in Secrets \cup {Malformed},
           ChangeBody(q, name, secret)
    PROVE  PanelInv'
<1>1. UNCHANGED <<users, sessions, failures, hashing, time, issued, attempts>>
  BY DEF ChangeBody
<1>2. AccountsInv' /\ ThrottleInv'  BY <1>1, FewerSessions, ThrottleKept DEF PanelInv
<1>3. ~ InSlot(requests[q])  BY DEF InSlot
<1>4. CASE Reply(q)  BY <1>1, <1>2, <1>3, <1>4, ReplyKeeps DEF PanelInv
<1>5. CASE ~ (Malformed \in {name, secret})
 <2> DEFINE h == [requests[q] EXCEPT !.stage = "hash", !.name = name, !.secret = secret,
                                     !.since = time]
 <2>1. requests[q] \in RequestSet /\ Sound(requests[q], Len(users)) /\ time \in Nat
   BY DEF PanelInv, RequestsInv, Sound, AccountsInv
 <2>2. name \in Names /\ secret \in Secrets  BY <1>5
 <2>3. /\ h \in RequestSet /\ h.kind = "change" /\ h.stage = "hash" /\ h.user = requests[q].user
       /\ h.name = name /\ h.secret = secret
   BY <2>1, <2>2 DEF RequestSet
 <2>4. requests' = [requests EXCEPT ![q] = h]  BY <1>5 DEF ChangeBody, Suspend
 <2> HIDE DEF h
 <2>5. Sound(h, Len(users)) /\ ~ InSlot(h)  BY <2>1, <2>2, <2>3 DEF Sound, InSlot
 <2> QED BY <1>2, <1>1, <2>4, <2>5, RequestSame, <1>3, SlotsKept DEF PanelInv
<1> QED BY <1>4, <1>5 DEF ChangeBody

\* A guess is counted.
LEMMA CountedKeeps ==
    ASSUME PanelInv, NEW client \in Clients, ~ Locked(Swept(failures), client),
           failures' = RecordFailure(Swept(failures), client),
           Guessed(RecordFailure(Swept(failures), client), client), UNCHANGED time
    PROVE  ThrottleInv'
<1> DEFINE swept == Swept(failures)
<1>1. time \in Nat /\ RowsAre(failures) /\ Accounted(failures, attempts, time)
      /\ Cardinality(DOMAIN failures) <= MaxTracked
  BY DEF PanelInv, AccountsInv, ThrottleInv
<1>2. /\ RowsAre(swept) /\ Accounted(swept, attempts, time)
      /\ DOMAIN swept \subseteq DOMAIN failures
      /\ \A k \in DOMAIN swept : swept[k].lastAt + Lockout > time
  BY <1>1, SweptAccounts
<1>3. Cardinality(DOMAIN swept) <= MaxTracked
 <2> QED BY <1>1, Limits, <1>2, FS_Subset, FS_CardinalityType, ClientsAreFinite DEF RowsAre
<1> HIDE DEF swept
<1> DEFINE counted == RecordFailure(swept, client)
<1>4. failures' = counted /\ attempts' = GuessesAfter(attempts, counted, client) /\ time' = time
  BY DEF swept, Guessed, GuessesAfter
<1> HIDE DEF counted
<1> QED BY <1>4, <1>1, <1>2, <1>3, RecordedAccounts DEF ThrottleInv, swept

\* The rows that are past the lockout are forgotten.
LEMMA SweptKeeps ==
    ASSUME PanelInv, failures' = Swept(failures), UNCHANGED <<attempts, time>>
    PROVE  ThrottleInv'
<1> DEFINE swept == Swept(failures)
<1>1. time \in Nat /\ RowsAre(failures) /\ Accounted(failures, attempts, time)
      /\ Cardinality(DOMAIN failures) <= MaxTracked
  BY DEF PanelInv, AccountsInv, ThrottleInv
<1>2. /\ RowsAre(swept) /\ Accounted(swept, attempts, time)
      /\ DOMAIN swept \subseteq DOMAIN failures
  BY <1>1, SweptAccounts
<1>3. Cardinality(DOMAIN swept) <= MaxTracked
 <2> QED BY <1>1, Limits, <1>2, FS_Subset, FS_CardinalityType, ClientsAreFinite DEF RowsAre
<1> QED BY <1>2, <1>3 DEF ThrottleInv

\* A sign-in's body has arrived.
LEMMA LoginBodyKeeps ==
    ASSUME PanelInv, NEW q \in Requests, requests[q].stage = "body", requests[q].kind = "login",
           NEW name \in Names \cup {Malformed}, NEW secret \in Secrets \cup {Malformed},
           LoginBody(q, name, secret)
    PROVE  PanelInv'
<1> DEFINE client == ClientOf[q]
           swept == Swept(failures)
           counted == RecordFailure(swept, client)
           known == {u \in DOMAIN users : users[u].name = name}
           user == IF known = {} THEN 0 ELSE CHOOSE u \in known : TRUE
           h == [requests[q] EXCEPT !.stage = "hash", !.user = user,
                      !.hash = IF user = 0 THEN Malformed ELSE users[user].hash,
                      !.secret = secret, !.since = time]
<1>1. UNCHANGED <<users, sessions, time, issued>>  BY DEF LoginBody
<1>2. AccountsInv'  BY <1>1, FewerSessions DEF PanelInv
<1>3. ~ InSlot(requests[q]) /\ client \in Clients  BY ClientsAreFinite DEF InSlot
<1>4. CASE Locked(swept, client)
 <2>1. Reply(q) /\ failures' = swept /\ UNCHANGED <<hashing, attempts>>  BY <1>4 DEF LoginBody
 <2> QED BY <1>2, <1>1, <1>3, <2>1, ReplyKeeps, SweptKeeps DEF PanelInv
<1>5. CASE ~ Locked(swept, client) /\ Malformed \in {name, secret}
 <2>1. Reply(q) /\ failures' = counted /\ Guessed(counted, client) /\ UNCHANGED hashing
   BY <1>5 DEF LoginBody
 <2> QED BY <1>2, <1>1, <1>3, <2>1, ReplyKeeps, <1>5, CountedKeeps DEF PanelInv
<1>6. CASE ~ Locked(swept, client) /\ Malformed \notin {name, secret}
 <2>1. /\ TakeSlot(q, h)
       /\ IF hashing >= MaxHashes THEN failures' = swept /\ UNCHANGED attempts
          ELSE failures' = counted /\ Guessed(counted, client)
   BY <1>6 DEF LoginBody
 <2>2. ThrottleInv'  BY <1>1, <1>3, <1>6, <2>1, CountedKeeps, SweptKeeps
 <2>3. user \in 0..Len(users) /\ (user # 0 => users[user].hash \in HashSet)
  <3>1. known \subseteq 1..Len(users) /\ (known = {} \/ (CHOOSE u \in known : TRUE) \in known)
    BY UsersAre DEF PanelInv
  <3> HIDE DEF known
  <3>2. known = {} => user = 0  OBVIOUS
  <3>4. known # {} => user \in known  BY <3>1
  <3> HIDE DEF user
  <3>5. user = 0 \/ user \in 1..Len(users)  BY <3>1, <3>2, <3>4
  <3>6. Len(users) \in Nat /\ users \in Seq(UserSet)  BY UsersAre DEF PanelInv, AccountsInv
  <3>8. user # 0 => users[user] \in UserSet  BY <3>5, <3>6
  <3> QED BY <3>8, <3>5, <3>6 DEF UserSet
 <2> HIDE DEF user
 <2>5. secret \in Secrets  BY <1>6
 <2>6. /\ h \in RequestSet /\ h.kind = "login" /\ h.stage = "hash" /\ h.user = user
       /\ h.secret = secret
  <3> DEFINE hash == IF user = 0 THEN Malformed ELSE users[user].hash
  <3>1. hash \in HashSet \cup {Malformed} /\ user \in Nat  BY <2>3, UsersAre DEF PanelInv
  <3> HIDE DEF hash
  <3>2. LET f == [requests[q] EXCEPT !.stage = "hash", !.user = user, !.hash = hash,
                                    !.secret = secret, !.since = time]
        IN /\ f \in RequestSet /\ f.kind = requests[q].kind /\ f.stage = "hash" /\ f.user = user
           /\ f.secret = secret
    BY <2>5, <3>1 DEF RequestSet, PanelInv, RequestsInv, Sound, AccountsInv
  <3> QED BY <3>2 DEF hash
 <2> HIDE DEF h
 <2> QED
   BY <1>2, <2>2, <1>1, <1>3, <2>1, TakeSlotKeeps, <2>3, <2>5, <2>6 DEF
     PanelInv, Sound, InSlot
<1> QED BY <1>4, <1>5, <1>6

\* A body has arrived, or it is none.
LEMMA BodyKeeps == ASSUME PanelInv, NEW q \in Requests, Body(q) PROVE PanelInv'
<1>1. requests[q].stage = "body"  BY DEF Body
<1>2. CASE Reply(q) /\ UNCHANGED <<users, sessions, failures, hashing, time, issued, attempts>>
 <2> QED BY <1>2, ReplyKeeps, <1>1, FewerSessions, ThrottleKept DEF PanelInv, InSlot
<1>3. ASSUME NEW name \in Names \cup {Malformed}, NEW secret \in Secrets \cup {Malformed},
             CASE requests[q].kind = "setup"  -> SetupBody(q, name, secret)
               [] requests[q].kind = "change" -> ChangeBody(q, name, secret)
               [] requests[q].kind = "login"  -> LoginBody(q, name, secret)
      PROVE  PanelInv'
 <2> QED
   BY <1>1, <1>3, SetupBodyKeeps, ChangeBodyKeeps, LoginBodyKeeps DEF PanelInv,
     RequestsInv, Sound, RequestSet
<1> QED BY <1>2, <1>3 DEF Body

\* The hash of a password is one.
LEMMA HashIs ==
    ASSUME PanelInv, NEW secret \in Secrets PROVE HashOf(secret) \in HashSet
BY DEF HashOf, HashSet, PanelInv, AccountsInv

\* A session begins with the password of its account.
LEMMA SessionBegins ==
    ASSUME issued \in Nat, NEW rows, NEW user \in DOMAIN users', NEW at, NEW hash,
           hash = users'[user].hash, CreateSession(rows, user, hash, at),
           \A s \in rows : s.token \in 1..issued /\ s.user \in DOMAIN users'
                           /\ users'[s.user].hash = s.hash
    PROVE  /\ issued' \in Nat
           /\ \A s \in sessions' : s.token \in 1..issued' /\ s.user \in DOMAIN users'
                                   /\ users'[s.user].hash = s.hash
<1> DEFINE new == [token |-> issued + 1, user |-> user, expires |-> at + SessionTicks, hash |-> hash]
<1>1. issued' = issued + 1 /\ sessions' = Current(rows, at) \cup {new}  BY DEF CreateSession
<1>2. new.token = issued + 1 /\ new.user = user /\ new.hash = hash  OBVIOUS
<1> HIDE DEF new
<1>4. ASSUME NEW s \in sessions'
      PROVE  s.token \in 1..issued' /\ s.user \in DOMAIN users' /\ users'[s.user].hash = s.hash
 <2>1. CASE s \in rows  BY <1>1, <2>1
 <2>2. CASE s = new  BY <1>1, <1>2, <2>2
 <2> QED BY <1>1, <2>1, <2>2 DEF Current
<1> QED BY <1>1, <1>4

\* The first account is stored, if it still is the first.
LEMMA SetupStoredKeeps ==
    ASSUME PanelInv, NEW q \in Requests, requests[q].stage = "hash", requests[q].kind = "setup",
           Reply(q), UNCHANGED time, SetupStored(q)
    PROVE  PanelInv'
<1> DEFINE r == requests[q]
           hash == HashOf(r.secret)
<1>1. /\ requests' = [requests EXCEPT ![q] = Free] /\ hashing' = hashing - 1
      /\ UNCHANGED <<failures, attempts, time>> /\ InSlot(requests[q])
  BY DEF Reply, SetupStored, ReturnSlot, InSlot
<1>2. SlotsInv' /\ ThrottleInv'  BY <1>1, SlotReturned, ThrottleKept DEF PanelInv
<1>3. CASE ~ SetupRequired
 <2>1. UNCHANGED <<users, sessions, issued>>  BY <1>3 DEF SetupStored
 <2> QED BY <1>2, <1>1, <2>1, FewerSessions, RequestFreed DEF PanelInv
<1>4. CASE SetupRequired
 <2> DEFINE account == [name |-> r.name, hash |-> hash]
 <2>1. users = <<>> /\ Len(users) = 0  BY <1>4 DEF SetupRequired
 <2>2. r.name \in Names /\ r.secret \in Secrets  BY DEF PanelInv, RequestsInv, Sound
 <2>3. hash \in HashSet  BY <2>2, HashIs
 <2>4. users' = Append(users, account) /\ CreateSession(sessions, Len(users) + 1, hash, r.since)
   BY <1>4 DEF SetupStored
 <2> HIDE DEF hash, r
 <2>5. account \in UserSet /\ account.hash = hash  BY <2>2, <2>3 DEF UserSet
 <2> HIDE DEF account
 <2>6. users' \in Seq(UserSet) /\ Len(users') = 1 /\ DOMAIN users' = 1..1 /\ users'[1] = account
   BY <2>1, <2>4, <2>5
 <2>8. /\ issued' \in Nat
       /\ \A s \in sessions' : s.token \in 1..issued' /\ s.user \in DOMAIN users'
                               /\ users'[s.user].hash = s.hash
  <3>1. issued \in Nat /\ Len(users) + 1 = 1 /\ 1 \in DOMAIN users'
    BY <2>1, <2>6 DEF PanelInv, AccountsInv
  <3>3. \A s \in sessions : s.token \in 1..issued /\ s.user \in DOMAIN users'
                            /\ users'[s.user].hash = s.hash
    BY <2>1 DEF PanelInv, AccountsInv
  <3> QED BY <3>1, <3>3, SessionBegins, <2>4, <2>5, <2>6
 <2>10. RequestsInv'
  <3>2. Len(users) \in Nat /\ Len(users)' \in Nat /\ Len(users) <= Len(users)'  BY <2>1, <2>6
  <3> QED BY <1>1, <3>2, RequestKept, <2>6, FreeIsSound DEF PanelInv
 <2> QED BY <1>2, <2>10, <1>1, <2>6, <2>8 DEF PanelInv, AccountsInv
<1> QED BY <1>3, <1>4

\* New credentials are stored, and the sessions of the old ones end.
LEMMA ChangeStoredKeeps ==
    ASSUME PanelInv, NEW q \in Requests, requests[q].stage = "hash", requests[q].kind = "change",
           Reply(q), UNCHANGED time, ChangeStored(q)
    PROVE  PanelInv'
<1> DEFINE r == requests[q]
           hash == HashOf(r.secret)
<1>1. /\ requests' = [requests EXCEPT ![q] = Free]
      /\ UNCHANGED <<failures, hashing, attempts, time>> /\ ~ InSlot(requests[q])
  BY DEF Reply, ChangeStored, InSlot
<1>2. SlotsInv' /\ ThrottleInv'
  BY <1>1, UsersAre, FreeIsSound, SlotsKept, ThrottleKept DEF PanelInv
<1>3. CASE UNCHANGED <<users, sessions, issued>>
 <2> QED BY <1>2, <1>1, <1>3, FewerSessions, RequestFreed DEF PanelInv
<1>4. CASE /\ users' = [users EXCEPT ![r.user] = [name |-> r.name, hash |-> hash]]
           /\ CreateSession({s \in sessions : s.user # r.user}, r.user, hash, r.since)
 <2> DEFINE account == [name |-> r.name, hash |-> hash]
 <2>1. r.name \in Names /\ r.secret \in Secrets /\ r.user \in 1..Len(users)
   BY UsersAre DEF PanelInv, RequestsInv, Sound
 <2>2. hash \in HashSet  BY <2>1, HashIs
 <2>3. /\ users' = [users EXCEPT ![r.user] = account]
       /\ CreateSession({s \in sessions : s.user # r.user}, r.user, hash, r.since)
   BY <1>4
 <2> HIDE DEF hash, r
 <2>4. account \in UserSet /\ account.hash = hash  BY <2>1, <2>2 DEF UserSet
 <2> HIDE DEF account
 <2>5. users \in Seq(UserSet) /\ Len(users) \in 0..1 /\ DOMAIN users = 1..Len(users)
   BY UsersAre DEF PanelInv, AccountsInv
 <2>6. /\ users' \in Seq(UserSet) /\ Len(users') = Len(users) /\ DOMAIN users' = DOMAIN users
       /\ users'[r.user] = account /\ \A u \in DOMAIN users : u # r.user => users'[u] = users[u]
   BY <2>1, <2>3, <2>4, <2>5
 <2>7. /\ issued' \in Nat
       /\ \A s \in sessions' : s.token \in 1..issued' /\ s.user \in DOMAIN users'
                               /\ users'[s.user].hash = s.hash
  <3> DEFINE others == {s \in sessions : s.user # r.user}
  <3>2. \A s \in others : s.token \in 1..issued /\ s.user \in DOMAIN users'
                          /\ users'[s.user].hash = s.hash
    BY <2>6 DEF PanelInv, AccountsInv
  <3>3. CreateSession(others, r.user, hash, r.since)  BY <2>3
  <3> HIDE DEF others
  <3> QED BY <3>2, <3>3, SessionBegins, <2>1, <2>4, <2>5, <2>6 DEF PanelInv, AccountsInv
 <2>9. RequestsInv'
  <3>2. Len(users) \in Nat /\ Len(users)' \in Nat /\ Len(users) <= Len(users)'  BY <2>5, <2>6
  <3> QED BY <1>1, <3>2, RequestKept, <2>5, <2>6, FreeIsSound DEF PanelInv
 <2> QED BY <1>2, <2>9, <1>1, <2>5, <2>6, <2>7 DEF PanelInv, AccountsInv
<1> QED BY <1>3, <1>4 DEF ChangeStored

\* The password is verified.
LEMMA LoginVerifiedKeeps ==
    ASSUME PanelInv, NEW q \in Requests, requests[q].stage = "hash", requests[q].kind = "login",
           Reply(q), UNCHANGED time, LoginVerified(q)
    PROVE  PanelInv'
<1> DEFINE r == requests[q]
           client == ClientOf[q]
<1>1. /\ requests' = [requests EXCEPT ![q] = Free] /\ hashing' = hashing - 1
      /\ UNCHANGED <<users, time>> /\ InSlot(requests[q])
  BY DEF Reply, LoginVerified, ReturnSlot, InSlot
<1>2. SlotsInv' /\ RequestsInv'  BY <1>1, RequestFreed, SlotReturned DEF PanelInv
<1>3. CASE UNCHANGED <<failures, attempts, sessions, issued>>
 <2> QED BY <1>2, <1>1, <1>3, FewerSessions, ThrottleKept DEF PanelInv
<1>4. CASE /\ r.user # 0
           /\ failures' = Without(failures, client)
           /\ attempts' = [attempts EXCEPT ![client] = <<>>]
           /\ IF users[r.user].hash # r.hash THEN UNCHANGED <<sessions, issued>>
              ELSE CreateSession(sessions, r.user, r.hash, r.since)
 <2>1. AccountsInv'
  <3>1. CASE UNCHANGED <<sessions, issued>>  BY <1>1, <3>1, FewerSessions DEF PanelInv
  <3>2. CASE users[r.user].hash = r.hash /\ CreateSession(sessions, r.user, r.hash, r.since)
   <4>2. r.user \in DOMAIN users' /\ issued \in Nat /\ r.hash = users'[r.user].hash
     BY <1>1, <3>2, UsersAre, <1>4 DEF PanelInv, AccountsInv, RequestsInv,
       Sound
   <4> HIDE DEF r
   <4>4. /\ issued' \in Nat
         /\ \A s \in sessions' : s.token \in 1..issued' /\ s.user \in DOMAIN users'
                                 /\ users'[s.user].hash = s.hash
     BY <3>2, <4>2, SessionBegins, <1>1 DEF PanelInv, AccountsInv
   <4> QED BY <1>1, <4>4 DEF PanelInv, AccountsInv
  <3> QED BY <1>4, <3>1, <3>2
 <2>2. ThrottleInv'
  <3> DEFINE rest == Without(failures, client)
  <3>1. RowsAre(failures) /\ Accounted(failures, attempts, time) /\ client \in Clients
        /\ Cardinality(DOMAIN failures) <= MaxTracked
    BY ClientsAreFinite DEF PanelInv, ThrottleInv
  <3>2. /\ RowsAre(rest) /\ DOMAIN rest = DOMAIN failures \ {client}
        /\ \A k \in DOMAIN failures \ {client} :
              /\ rest[k].count = failures[k].count
              /\ rest[k].lastAt = failures[k].lastAt
              /\ rest[k].lockedUntil = failures[k].lockedUntil
    BY <3>1, KeptRows DEF Without
  <3>3. failures' = rest /\ attempts' = [attempts EXCEPT ![client] = <<>>] /\ time' = time
    BY <1>1, <1>4
  <3> HIDE DEF rest, client
  <3>4. Cardinality(DOMAIN rest) <= MaxTracked
   <4>1. IsFiniteSet(DOMAIN failures) /\ Cardinality(DOMAIN failures) \in Nat
     BY <3>1, ClientsAreFinite, FS_Subset, FS_CardinalityType DEF RowsAre
   <4> QED BY <3>1, <4>1, Limits, FS_Subset, FS_CardinalityType, <3>2
  <3>5. /\ attempts = [k \in Clients |-> attempts[k]]
        /\ \A k \in Clients : attempts[k] \in Seq(Nat)
        /\ \A k \in DOMAIN failures : Accounts(failures[k], attempts[k], time)
        /\ \A k \in Clients \ DOMAIN failures : Recent(attempts[k], time) = {}
    BY <3>1 DEF Accounted
  <3>6. /\ attempts' = [k \in Clients |-> attempts'[k]] /\ attempts'[client] = <<>>
        /\ \A k \in Clients : k # client => attempts'[k] = attempts[k]
    BY <3>1, <3>3, <3>5
  <3>7. \A k \in Clients : attempts'[k] \in Seq(Nat)
   <4>1. <<>> \in Seq(Nat)  OBVIOUS
   <4> QED BY <3>5, <3>6, <4>1
  <3>8. ASSUME NEW k \in DOMAIN rest PROVE Accounts(rest[k], attempts'[k], time)
   <4>1. k \in DOMAIN failures \ {client} /\ k \in Clients  BY <3>1, <3>2, <3>8 DEF RowsAre
   <4> QED BY <3>2, <4>1, <3>5, <3>6 DEF Accounts
  <3>9. ASSUME NEW k \in Clients \ DOMAIN rest PROVE Recent(attempts'[k], time) = {}
   <4>1. CASE k = client  BY <4>1, <3>6 DEF Recent
   <4>2. CASE k # client
    <5> QED BY <3>5, <3>6, <4>2, <3>2, <3>9
   <4> QED BY <4>1, <4>2
  <3> QED BY <3>2, <3>3, <3>4, <3>6, <3>7, <3>8, <3>9 DEF ThrottleInv, Accounted
 <2> QED BY <1>2, <2>1, <2>2 DEF PanelInv
<1> QED BY <1>3, <1>4 DEF LoginVerified

\* A hash is ready, or has failed.
LEMMA HashedKeeps == ASSUME PanelInv, NEW q \in Requests, Hashed(q) PROVE PanelInv'
<1>1. requests[q].stage = "hash" /\ Reply(q) /\ UNCHANGED time  BY DEF Hashed
<1>2. requests[q].kind \in {"setup", "login", "change"}
  BY <1>1 DEF PanelInv, RequestsInv, Sound, RequestSet
<1>3. CASE /\ hashing' = IF requests[q].kind = "change" THEN hashing ELSE hashing - 1
           /\ UNCHANGED <<users, sessions, failures, issued, attempts>>
 <2>1. requests' = [requests EXCEPT ![q] = Free]  BY <1>1 DEF Reply
 <2>4. SlotsInv'
  <3>1. CASE requests[q].kind = "change"
   <4> QED BY <2>1, UsersAre, FreeIsSound, SlotsKept, <1>3, <3>1 DEF PanelInv, InSlot
  <3>2. CASE requests[q].kind # "change"
   <4> QED BY <2>1, SlotReturned, <1>1, <1>2, <1>3, <3>2 DEF PanelInv, InSlot
  <3> QED BY <3>1, <3>2
 <2> QED BY <2>4, <1>1, <1>3, FewerSessions, ThrottleKept, <2>1, RequestFreed DEF PanelInv
<1>4. CASE CASE requests[q].kind = "setup"  -> SetupStored(q)
             [] requests[q].kind = "change" -> ChangeStored(q)
             [] requests[q].kind = "login"  -> LoginVerified(q)
  BY <1>1, <1>2, <1>4, SetupStoredKeeps, ChangeStoredKeeps, LoginVerifiedKeeps
<1> QED BY <1>3, <1>4 DEF Hashed

\* The panel starts again.
LEMMA RestartPanelKeeps == PanelInv /\ RestartPanel => PanelInv'
<1> SUFFICES ASSUME PanelInv, RestartPanel PROVE PanelInv'  OBVIOUS
<1>3. SlotsInv'
 <2> QED BY Limits, FS_EmptySet DEF SlotsInv, RestartPanel, SlotsComeBack, Free
<1>4. ThrottleInv'
 <2>1. DOMAIN failures' = {} /\ failures' = [k \in {} |-> failures'[k]]
   BY DEF RestartPanel, NoFailures
 <2>4. Accounted(failures', attempts', time')  BY <2>1 DEF RestartPanel, Accounted, Recent
 <2> QED BY <2>4, <2>1, FS_EmptySet, Limits DEF ThrottleInv, RowsAre
<1> QED
  BY <1>3, <1>4, FewerSessions, UsersAre, FreeIsSound DEF PanelInv,
    RestartPanel, Current, RequestsInv

\* Time passes, and what was recent may be so no longer.
LEMMA SessionsTickKeeps == PanelInv /\ SessionsTick => PanelInv'
<1> SUFFICES ASSUME PanelInv, SessionsTick PROVE PanelInv'  OBVIOUS
<1>1. /\ time' = time + 1 /\ time \in Nat
      /\ UNCHANGED <<users, sessions, failures, hashing, requests, issued, attempts>>
  BY DEF SessionsTick, PanelInv, AccountsInv
<1>3. ASSUME NEW k \in Clients
      PROVE  /\ IsFiniteSet(Recent(attempts[k], time))
             /\ Recent(attempts[k], time + 1) \subseteq Recent(attempts[k], time)
             /\ Cardinality(Recent(attempts[k], time + 1)) <= Cardinality(Recent(attempts[k], time))
             /\ Cardinality(Recent(attempts[k], time + 1)) \in Nat
             /\ Cardinality(Recent(attempts[k], time)) \in Nat
 <2>1. attempts[k] \in Seq(Nat)  BY DEF PanelInv, ThrottleInv, Accounted
 <2>3. Recent(attempts[k], time + 1) \subseteq Recent(attempts[k], time)
   BY <1>1, Limits, <2>1 DEF Recent
 <2> QED BY <2>3, FS_Subset, FS_CardinalityType, <1>1, <2>1, RecentGuess
<1>4. ASSUME NEW k \in DOMAIN failures PROVE Accounts(failures[k], attempts[k], time + 1)
 <2>1. k \in Clients /\ failures[k] \in RowSet /\ Accounts(failures[k], attempts[k], time)
   BY DEF PanelInv, ThrottleInv, RowsAre, Accounted
 <2>2. failures[k].lastAt \in Nat /\ failures[k].count \in Nat  BY <2>1 DEF RowSet
 <2> QED BY <2>1, <1>1, <2>2, <1>3 DEF Accounts
<1>5. Accounted(failures, attempts, time + 1)
  BY <1>3, <1>4 DEF PanelInv, ThrottleInv, Accounted
<1> QED
  BY <1>1, <1>5 DEF PanelInv, ThrottleInv, AccountsInv, RequestsInv, SlotsInv,
    SlotsComeBack

\* Every step keeps all of it.
LEMMA PanelStep == PanelInv /\ [SessionsNext]_sessionVars => PanelInv'
<1> SUFFICES ASSUME PanelInv, [SessionsNext]_sessionVars PROVE PanelInv'  OBVIOUS
<1>1. ASSUME NEW q \in Requests, Arrive(q) PROVE PanelInv'  BY <1>1, ArriveKeeps
<1>2. ASSUME NEW q \in Requests, Body(q) PROVE PanelInv'  BY <1>2, BodyKeeps
<1>3. ASSUME NEW q \in Requests, Hashed(q) PROVE PanelInv'  BY <1>3, HashedKeeps
<1>4. CASE RestartPanel  BY <1>4, RestartPanelKeeps
<1>5. CASE SessionsTick  BY <1>5, SessionsTickKeeps
<1>6. CASE UNCHANGED sessionVars
  BY <1>6 DEF sessionVars, PanelInv, AccountsInv, RequestsInv, SlotsInv, SlotsComeBack, ThrottleInv
<1> QED BY <1>1, <1>2, <1>3, <1>4, <1>5, <1>6 DEF SessionsNext

\* What the invariant says of the panel.
LEMMA PanelSays == PanelInv => PanelIsGuarded
<1> SUFFICES ASSUME PanelInv PROVE PanelIsGuarded  OBVIOUS
<1>1. SessionsTypeOK
 <2>1. \A u \in DOMAIN users : users[u].name \in Names /\ users[u].hash.secret \in Secrets
  <3>1. \A u \in DOMAIN users : users[u] \in UserSet  BY DEF PanelInv, AccountsInv
  <3> QED BY <3>1 DEF UserSet, HashSet
 <2>4. hashing \in 0..MaxHashes /\ Cardinality(DOMAIN failures) <= MaxTracked
   BY DEF PanelInv, SlotsInv, ThrottleInv
 <2> QED BY <2>1, <2>4 DEF SessionsTypeOK, PanelInv, AccountsInv, RequestsInv, Sound, RequestSet
<1>3. GuessesAreBounded
 <2>1. ASSUME NEW k \in Clients PROVE Cardinality(Recent(attempts[k], time)) <= MaxAttempts
  <3>1. CASE k \in DOMAIN failures
   <4>1. /\ failures[k].count \in Nat /\ failures[k].count <= MaxAttempts
         /\ Cardinality(Recent(attempts[k], time)) <= failures[k].count
     BY <3>1 DEF PanelInv, ThrottleInv, RowsAre, RowSet, Accounted, Accounts
   <4> QED BY <4>1, Limits, RecentGuess DEF PanelInv, AccountsInv, ThrottleInv, Accounted
  <3>2. CASE k \notin DOMAIN failures
   <4>2. Cardinality(Recent(attempts[k], time)) = 0
     BY FS_EmptySet, <3>2 DEF PanelInv, ThrottleInv, Accounted
   <4> QED BY <4>2, Limits
  <3> QED BY <3>1, <3>2
 <2> QED BY <2>1 DEF GuessesAreBounded, Recent
<1> QED
  BY <1>1, <1>3 DEF PanelIsGuarded, SessionsAreCurrent, SignInIsBounded,
    PanelInv, AccountsInv, OneAccount, SessionsOfCurrentPassword, SlotsInv

\* PanelIsGuarded (auth.ts): however the requests overlap, one account comes of the
\* setups, every session is one of the current password, a client guesses at most
\* MAX_FAILED_ATTEMPTS times within a lockout, and every hash slot comes back.
THEOREM PanelStaysGuarded == SessionsSpec => []PanelIsGuarded
<1>1. SessionsSpec => []PanelInv  BY PanelStarts, PanelStep, PTL DEF SessionsSpec
<1> QED BY <1>1, PanelSays, PTL

-----------------------------------------------------------------------------
(* Providers, models and the requests of the panel.                            *)

\* The names of a file are in that jar, and lead to credentials of its endpoints.
JarSound(c, held) == NamesOf(c) \subseteq DOMAIN held /\ AtHome(c, held)

\* A model with its level that a file has.
Works(c, settings) ==
    Refers(c, settings) /\ settings.level \in ModelEntryOf(c, settings).levels

\* A write that waits could be made: the names it has typed are its own, and with them
\* in the jar its file is sound; and it was checked for what it is.
AskedWrite(ask) ==
    /\ IsConfiguration(ask.next) /\ JarSound(ask.next, Stored(ask.typed))
    /\ \A n \in DOMAIN ask.typed : n \in KeyNames /\ n[1] <= asked /\ n \notin DOMAIN minted
    /\ ask.what \in {"delete", "vision", "unlist"} => NamesResolve(ask.next)
    /\ ask.what = "level" /\ (\A r \in DOMAIN ask.next.chats : ChatMayBe(ask.next.chats[r]))
       => NamesResolve(ask.next)
    /\ ask.what = "delete" => ask.next.chats = ask.revision.chats
    /\ ask.what = "delete" /\ ask.adoptable =>
          /\ VisionFits(ask.next)
          /\ \A r \in DOMAIN ask.departed : Works(ask.next, SettingsOf(ask.next, ask.departed[r]))

\* A switch that waits is of the agent or of a running chat.
AskedSwitch(ask) ==
    /\ ask.target = "agent" => ask.ref \in [provider : Aliases, model : ModelIds]
    /\ ask.target # "agent" =>
          /\ ask.target \in DOMAIN live.config.chats
          /\ ask.ref \in [provider : Aliases, model : ModelIds] \cup {Default}

IsWrite(ask) == ask.what \notin {"none", "switch"}

AsksInv ==
    /\ asks = [q \in Asks |-> asks[q]]
    /\ \A q \in Asks :
          (IsWrite(asks[q]) => AskedWrite(asks[q])) /\ (asks[q].what = "switch" => AskedSwitch(asks[q]))
    /\ \A q, p \in Asks :
          q # p /\ IsWrite(asks[q]) /\ IsWrite(asks[p]) =>
              DOMAIN asks[q].typed \cap DOMAIN asks[p].typed = {}

\* The file, the jar and the running process.
StoresInv ==
    /\ asked \in 0..AskBound
    /\ \A n \in DOMAIN minted : n \in KeyNames /\ n[1] <= asked
    /\ IsConfiguration(saved) /\ JarSound(saved, minted)
    /\ IsConfiguration(live.config) /\ JarSound(live.config, minted)
    /\ DOMAIN live.registry = DOMAIN live.config.providers
    /\ RegistryFollows /\ RunningIsUsable

\* The file of a switch has what was asked for.
SwitchWritten(ask, doc) ==
    /\ ask.target = "agent" =>
          doc.agent.provider = ask.ref.provider /\ doc.agent.model = ask.ref.model
    /\ ask.target # "agent" =>
          /\ ask.target \in DOMAIN doc.chats \cap DOMAIN live.config.chats
          /\ doc.chats[ask.target].provider = ask.ref.provider
          /\ doc.chats[ask.target].model = ask.ref.model

\* An apply that is under way.
ApplySound ==
    /\ applying = [stage |-> applying.stage, ask |-> applying.ask, wrote |-> applying.wrote,
                   loaded |-> applying.loaded, expected |-> applying.expected]
    /\ applying.stage \in {"load", "build"}
    /\ applying.stage = "build" =>
          /\ IsConfiguration(applying.loaded) /\ JarSound(applying.loaded, minted)
          /\ FileIsValid(CandidateOf(live.config, applying.loaded))
    /\ applying.ask.what = "delete" /\ applying.expected => Adoptable(live.config, applying.wrote)
    /\ applying.ask.what = "switch" => SwitchWritten(applying.ask, applying.wrote)

ApplyInv == applying = NoApply \/ ApplySound

ProviderInv ==
    /\ StoresInv /\ AsksInv /\ ApplyInv
    /\ DeletesAreAdopted /\ SwitchesTakeEffect

-----------------------------------------------------------------------------
(* Configurations and jars.                                                    *)

\* A provider's names are in the jar and lead to credentials of its endpoint.
ProviderSound(p, held) ==
    /\ p.key \in DOMAIN held /\ held[p.key].url = p.url
    /\ \A h \in DOMAIN p.headers : p.headers[h] \in DOMAIN held /\ held[p.headers[h]].url = p.url

\* A jar is sound for a file when it is for each provider.
LEMMA SoundEach ==
    ASSUME NEW c, NEW held
    PROVE  JarSound(c, held) <=> \A a \in DOMAIN c.providers : ProviderSound(c.providers[a], held)
<1>1. ASSUME JarSound(c, held), NEW a \in DOMAIN c.providers PROVE ProviderSound(c.providers[a], held)
 <2> QED BY <1>1 DEF JarSound, AtHome, ProviderSound, NamesOf
<1>2. ASSUME \A a \in DOMAIN c.providers : ProviderSound(c.providers[a], held) PROVE JarSound(c, held)
 <2>1. NamesOf(c) \subseteq DOMAIN held
  <3>1. ASSUME NEW a \in DOMAIN c.providers
        PROVE  {c.providers[a].key} \cup {c.providers[a].headers[h] : h \in DOMAIN c.providers[a].headers} \subseteq DOMAIN held
    BY <1>2 DEF ProviderSound
  <3> QED BY <3>1 DEF NamesOf
 <2> QED BY <2>1, <1>2 DEF JarSound, AtHome, ProviderSound
<1> QED BY <1>1, <1>2

\* Only the providers matter to a jar.
LEMMA SameProviders ==
    ASSUME NEW c, NEW d, NEW held, c.providers = d.providers, JarSound(d, held)
    PROVE  JarSound(c, held)
BY SoundEach

\* A jar that has grown is as sound as it was.
LEMMA GrownJar ==
    ASSUME NEW c, NEW held, NEW grown, JarSound(c, held),
           DOMAIN held \subseteq DOMAIN grown, \A n \in DOMAIN held : grown[n] = held[n]
    PROVE  JarSound(c, grown)
<1>1. ASSUME NEW a \in DOMAIN c.providers PROVE ProviderSound(c.providers[a], grown)
 <2> QED BY SoundEach DEF ProviderSound
<1> QED BY <1>1, SoundEach

\* What a file is with one part replaced.
LEMMA WithPart ==
    ASSUME NEW c, IsConfiguration(c), NEW x
    PROVE  /\ [c EXCEPT !.providers = x] = [providers |-> x, chats |-> c.chats, agent |-> c.agent, vision |-> c.vision]
           /\ [c EXCEPT !.chats = x] = [providers |-> c.providers, chats |-> x, agent |-> c.agent, vision |-> c.vision]
           /\ [c EXCEPT !.agent = x] = [providers |-> c.providers, chats |-> c.chats, agent |-> x, vision |-> c.vision]
           /\ [c EXCEPT !.vision = x] = [providers |-> c.providers, chats |-> c.chats, agent |-> c.agent, vision |-> x]
<1> QED BY DEF IsConfiguration

\* A set of providers as a file may hold it.
AreProviders(ps) ==
    /\ DOMAIN ps \subseteq Aliases /\ ps = [a \in DOMAIN ps |-> ps[a]]
    /\ \A a \in DOMAIN ps : IsProvider(ps[a])
ChatRows == [provider : Aliases \cup {Inherit}, model : ModelIds \cup {Inherit}, level : Levels]
AgentRows == [provider : Aliases, model : ModelIds, level : Levels]

\* A configuration with one part replaced.
LEMMA OtherProviders ==
    ASSUME NEW c, IsConfiguration(c), NEW x, AreProviders(x)
    PROVE  LET d == [c EXCEPT !.providers = x]
           IN  /\ IsConfiguration(d) /\ d.providers = x /\ d.chats = c.chats
               /\ d.agent = c.agent /\ d.vision = c.vision
<1> DEFINE d == [c EXCEPT !.providers = x]
<1>1. d = [providers |-> x, chats |-> c.chats, agent |-> c.agent, vision |-> c.vision]
  BY WithPart
<1> HIDE DEF d
<1> QED BY <1>1 DEF d, IsConfiguration, AreProviders

\* The same with another part: its chats.
LEMMA OtherChats ==
    ASSUME NEW c, IsConfiguration(c), NEW x, IsPartial(x, Rooms, ChatRows)
    PROVE  LET d == [c EXCEPT !.chats = x]
           IN  /\ IsConfiguration(d) /\ d.providers = c.providers /\ d.chats = x
               /\ d.agent = c.agent /\ d.vision = c.vision
<1> DEFINE d == [c EXCEPT !.chats = x]
<1>1. d = [providers |-> c.providers, chats |-> x, agent |-> c.agent, vision |-> c.vision]
  BY WithPart
<1> HIDE DEF d
<1> QED BY <1>1 DEF d, IsConfiguration, ChatRows

\* The same with another part: its settings of the agent.
LEMMA OtherAgent ==
    ASSUME NEW c, IsConfiguration(c), NEW x \in AgentRows
    PROVE  LET d == [c EXCEPT !.agent = x]
           IN  /\ IsConfiguration(d) /\ d.providers = c.providers /\ d.chats = c.chats
               /\ d.agent = x /\ d.vision = c.vision
<1> DEFINE d == [c EXCEPT !.agent = x]
<1>1. d = [providers |-> c.providers, chats |-> c.chats, agent |-> x, vision |-> c.vision]
  BY WithPart
<1> HIDE DEF d
<1> QED BY <1>1 DEF d, IsConfiguration, AgentRows

\* The same with another part: its model for vision.
LEMMA OtherVision ==
    ASSUME NEW c, IsConfiguration(c), NEW x \in [provider : Aliases, model : ModelIds]
    PROVE  LET d == [c EXCEPT !.vision = x]
           IN  /\ IsConfiguration(d) /\ d.providers = c.providers /\ d.chats = c.chats
               /\ d.agent = c.agent /\ d.vision = x
<1> DEFINE d == [c EXCEPT !.vision = x]
<1>1. d = [providers |-> c.providers, chats |-> c.chats, agent |-> c.agent, vision |-> x]
  BY WithPart
<1> HIDE DEF d
<1> QED BY <1>1 DEF d, IsConfiguration

\* What a running process makes of a file: all of the file but which chats there are.
LEMMA CandidateHas ==
    ASSUME NEW active, NEW doc, IsConfiguration(doc), IsConfiguration(active)
    PROVE  LET c == CandidateOf(active, doc)
           IN  /\ IsConfiguration(c) /\ c.providers = doc.providers
               /\ c.agent = doc.agent /\ c.vision = doc.vision
               /\ DOMAIN c.chats = DOMAIN active.chats
               /\ \A r \in DOMAIN active.chats :
                     c.chats[r] = IF r \in DOMAIN doc.chats THEN doc.chats[r] ELSE active.chats[r]
<1> DEFINE x == [r \in DOMAIN active.chats |->
                    IF r \in DOMAIN doc.chats THEN doc.chats[r] ELSE active.chats[r]]
<1>2. IsPartial(x, Rooms, ChatRows)  BY DEF IsPartial, IsConfiguration, ChatRows
<1>3. DOMAIN x = DOMAIN active.chats
      /\ \A r \in DOMAIN active.chats :
            x[r] = IF r \in DOMAIN doc.chats THEN doc.chats[r] ELSE active.chats[r]
  OBVIOUS
<1>4. CandidateOf(active, doc) = [doc EXCEPT !.chats = x]  BY DEF CandidateOf
<1> HIDE DEF x
<1>5. LET d == [doc EXCEPT !.chats = x]
      IN  /\ IsConfiguration(d) /\ d.providers = doc.providers /\ d.chats = x
          /\ d.agent = doc.agent /\ d.vision = doc.vision
  BY <1>2, OtherChats
<1> QED BY <1>3, <1>4, <1>5

\* Names resolve when the agent, each chat and vision do.
LEMMA ResolvesEach ==
    ASSUME NEW c
    PROVE  NamesResolve(c) <=>
             /\ Works(c, c.agent)
             /\ \A r \in DOMAIN c.chats : Works(c, SettingsOf(c, c.chats[r]))
             /\ Refers(c, c.vision) /\ ModelEntryOf(c, c.vision).image
BY DEF NamesResolve, AgentModels, Works

\* Settings follow the agent and the chat only.
LEMMA SettingsOfSame ==
    ASSUME NEW c, NEW d, c.agent = d.agent, NEW chat
    PROVE  SettingsOf(c, chat) = SettingsOf(d, chat)
BY DEF SettingsOf

-----------------------------------------------------------------------------
(* A request is asked.                                                         *)

\* What a request of the pages is checked for before it waits.
Askable(what, next, typed) ==
    /\ what \notin {"none", "switch"}
    /\ IsConfiguration(next) /\ JarSound(next, Stored(typed))
    /\ \A n \in DOMAIN typed : n \in KeyNames /\ n[1] = asked + 1
    /\ what \in {"delete", "vision", "unlist"} => NamesResolve(next)
    /\ what = "level" /\ (\A r \in DOMAIN next.chats : ChatMayBe(next.chats[r])) => NamesResolve(next)
    /\ what = "delete" => next.chats = saved.chats
    /\ what = "delete" /\ Adoptable(live.config, saved) =>
          /\ VisionFits(next)
          /\ \A r \in DOMAIN Departed : Works(next, SettingsOf(next, Departed[r]))

\* A request that waits stays what it is while the jar does.
LEMMA AskedStays ==
    ASSUME NEW q \in Asks, asks'[q] = asks[q], minted' = minted, asked \in Nat, asked' \in Nat,
           asked <= asked', AskedWrite(asks[q])
    PROVE  AskedWrite(asks[q])'
<1>2. ASSUME NEW n \in DOMAIN asks[q].typed PROVE n \in KeyNames /\ n[1] <= asked' /\ n \notin DOMAIN minted'
 <2> QED BY DEF KeyNames, AskedWrite
<1> QED BY <1>2 DEF AskedWrite, Stored

\* The stores do not change with a request that is asked.
LEMMA StoresStay ==
    ASSUME StoresInv, UNCHANGED <<saved, minted, live>>, asked' = asked + 1, asked < AskBound
    PROVE  StoresInv'
<1>1. asked \in 0..AskBound /\ AskBound \in Nat  BY ProviderAssumption DEF StoresInv
<1>3. ASSUME NEW n \in DOMAIN minted' PROVE n \in KeyNames /\ n[1] <= asked'
 <2> QED BY <1>1 DEF KeyNames, StoresInv
<1> QED BY <1>3, <1>1 DEF StoresInv, RegistryFollows, RunningIsUsable, Resolved

\* An apply does not see what is asked.
LEMMA ApplyStays ==
    ASSUME ApplyInv, UNCHANGED <<minted, live, applying>>
    PROVE  ApplyInv'
BY DEF ApplyInv, ApplySound, SwitchWritten

\* What became of a write stays.
LEMMA OutcomeStays ==
    ASSUME DeletesAreAdopted, SwitchesTakeEffect, UNCHANGED <<live, outcome>>
    PROVE  DeletesAreAdopted' /\ SwitchesTakeEffect'
BY DEF DeletesAreAdopted, SwitchesTakeEffect

\* A request that was checked waits and is sound.
LEMMA CheckedKeeps ==
    ASSUME ProviderInv, NEW what, NEW next, NEW typed,
           AskWrite(what, next, typed), Askable(what, next, typed)
    PROVE  ProviderInv'
<1>1. PICK q \in Asks :
        /\ asks[q] = NoAsk
        /\ asks' = [asks EXCEPT ![q] =
              [what |-> what, revision |-> saved, next |-> next, typed |-> typed,
               departed |-> Departed,
               adoptable |-> applying = NoApply /\ Adoptable(live.config, saved)]]
  BY DEF AskWrite
<1>2. /\ asked < AskBound /\ asked' = asked + 1
      /\ UNCHANGED <<saved, minted, live, applying, outcome>>
  BY DEF AskWrite
<1>5. DeletesAreAdopted' /\ SwitchesTakeEffect'  BY <1>2, OutcomeStays DEF ProviderInv
<1>6. asked \in Nat /\ asked' \in Nat /\ asked <= asked'  BY <1>2 DEF ProviderInv, StoresInv
<1> DEFINE may == applying = NoApply /\ Adoptable(live.config, saved)
           new == [what |-> what, revision |-> saved, next |-> next, typed |-> typed,
                   departed |-> Departed, adoptable |-> may]
<1>7. may \in BOOLEAN  OBVIOUS
<1>8. may => Adoptable(live.config, saved)  OBVIOUS
<1> HIDE DEF may
<1>9. /\ asks' = [p \in Asks |-> IF p = q THEN new ELSE asks[p]]
 <2> QED BY <1>1 DEF may, ProviderInv, AsksInv
<1>10. /\ new.what = what /\ new.next = next /\ new.typed = typed /\ new.revision = saved
       /\ new.departed = Departed /\ new.adoptable = may
  OBVIOUS
<1> HIDE DEF new
<1>11. asks'[q] = new /\ \A p \in Asks \ {q} : asks'[p] = asks[p]  BY <1>9
<1>13. AskedWrite(asks[q])'
 <2>2. ASSUME NEW n \in DOMAIN typed PROVE n \in KeyNames /\ n[1] <= asked' /\ n \notin DOMAIN minted'
  <3> QED BY <1>2, <1>6 DEF ProviderInv, StoresInv, Askable
 <2>4. /\ what \in {"delete", "vision", "unlist"} => NamesResolve(next)
       /\ what = "level" /\ (\A r \in DOMAIN next.chats : ChatMayBe(next.chats[r])) => NamesResolve(next)
       /\ what = "delete" => next.chats = saved.chats
   BY DEF Askable
 <2> DEFINE left == Departed
 <2> HIDE DEF left
 <2>6. new.departed = left /\ (what = "delete" /\ may =>
         /\ VisionFits(next)
         /\ \A r \in DOMAIN left : Works(next, SettingsOf(next, left[r])))
   BY <1>10, <1>8 DEF left, Askable
 <2> QED BY <1>10, <1>11, <2>2, <2>4, <2>6, <1>2 DEF AskedWrite, Stored, Askable
<1>14. ASSUME NEW p \in Asks, p # q, IsWrite(asks[p]) PROVE AskedWrite(asks[p])'
  BY <1>2, <1>6, <1>11, <1>14, AskedStays DEF ProviderInv, AsksInv
<1>15. ASSUME NEW p \in Asks, asks'[p].what = "switch" PROVE AskedSwitch(asks[p])'
 <2> QED BY <1>2, <1>11, <1>15, <1>10 DEF AskedSwitch, ProviderInv, AsksInv, Askable
<1>16. ASSUME NEW p \in Asks, p # q, IsWrite(asks[p])
       PROVE  DOMAIN asks[p].typed \cap DOMAIN typed = {}
 <2>1. ASSUME NEW n \in DOMAIN asks[p].typed, n \in DOMAIN typed PROVE FALSE
  <3> QED BY <1>6, <1>16, <2>1 DEF ProviderInv, AsksInv, AskedWrite, Askable
 <2> QED BY <2>1
<1>17. AsksInv'
 <2>2. ASSUME NEW a \in Asks, NEW p \in Asks, a # p, IsWrite(asks[a])', IsWrite(asks[p])'
       PROVE  DOMAIN asks'[a].typed \cap DOMAIN asks'[p].typed = {}
  <3>1. CASE a = q  BY <1>10, <1>11, <1>16, <2>2, <3>1 DEF IsWrite
  <3>2. CASE p = q  BY <1>10, <1>11, <1>16, <2>2, <3>2 DEF IsWrite
  <3>3. CASE a # q /\ p # q  BY <1>11, <2>2, <3>3 DEF IsWrite, ProviderInv, AsksInv
  <3> QED BY <3>1, <3>2, <3>3
 <2> QED BY <1>15, <2>2, <1>9, <1>11, <1>13, <1>14 DEF AsksInv, IsWrite
<1> QED BY <1>5, <1>17, <1>2, StoresStay, ApplyStays DEF ProviderInv

-----------------------------------------------------------------------------
(* The requests of the pages.                                                  *)

\* What is typed has names of its own and goes to the endpoint it is typed for.
LEMMA TypedIs ==
    ASSUME StoresInv, asked < AskBound, NEW alias \in Aliases, NEW fields \in SUBSET Fields,
           NEW url \in Endpoints
    PROVE  /\ \A n \in DOMAIN Typed(alias, fields, url) : n \in KeyNames /\ n[1] = asked + 1
           /\ \A f \in fields : /\ NameFor(alias, f) \in DOMAIN Typed(alias, fields, url)
                                /\ Typed(alias, fields, url)[NameFor(alias, f)].url = url
<1>2. ASSUME NEW f \in fields
      PROVE  NameFor(alias, f) \in KeyNames /\ NameFor(alias, f)[1] = asked + 1
  BY ProviderAssumption DEF NameFor, KeyNames, StoresInv
<1> QED BY <1>2 DEF Typed

\* New names overwrite no credential.
LEMMA StoredHas ==
    ASSUME StoresInv, NEW typed, \A n \in DOMAIN typed : n \in KeyNames /\ n[1] = asked + 1
    PROVE  /\ DOMAIN minted \subseteq DOMAIN Stored(typed) /\ DOMAIN typed \subseteq DOMAIN Stored(typed)
           /\ \A n \in DOMAIN minted : Stored(typed)[n] = minted[n]
           /\ \A n \in DOMAIN typed : Stored(typed)[n] = typed[n]
<1>1. ASSUME NEW n \in DOMAIN typed, n \in DOMAIN minted PROVE FALSE
 <2> QED BY <1>1 DEF StoresInv
<1> QED BY <1>1 DEF Stored

\* A provider of the file stays sound with what is typed.
LEMMA OldStaysSound ==
    ASSUME StoresInv, NEW typed, \A n \in DOMAIN typed : n \in KeyNames /\ n[1] = asked + 1
    PROVE  /\ JarSound(saved, Stored(typed))
           /\ \A a \in DOMAIN saved.providers : ProviderSound(saved.providers[a], Stored(typed))
<1>2. JarSound(saved, Stored(typed))
 <2> DEFINE held == Stored(typed)
 <2>1. DOMAIN minted \subseteq DOMAIN held /\ \A n \in DOMAIN minted : held[n] = minted[n]
   BY StoredHas
 <2> HIDE DEF held
 <2>2. JarSound(saved, held)  BY <2>1, GrownJar DEF StoresInv
 <2> QED BY <2>2 DEF held
<1> QED BY <1>2, SoundEach

\* Nothing is typed for a request that only moves what is there.
LEMMA NothingTyped ==
    ASSUME StoresInv
    PROVE  /\ \A n \in DOMAIN Unkeyed : n \in KeyNames /\ n[1] = asked + 1
           /\ JarSound(saved, Stored(Unkeyed))
<1> QED BY OldStaysSound DEF Unkeyed

\* A provider is created with all its fields typed.
LEMMA CreateProviderKeeps ==
    ASSUME ProviderInv, CreateProvider
    PROVE  ProviderInv'
<1>1. PICK alias \in Aliases \ DOMAIN saved.providers, url \in Endpoints,
           fields \in SUBSET HeaderNames, m \in ModelIds : \E e \in ModelEntries[m] :
        LET p == [url |-> url, key |-> NameFor(alias, "key"),
                  headers |-> [h \in fields |-> NameFor(alias, h)], models |-> [i \in {m} |-> e]]
        IN AskWrite("create",
               [saved EXCEPT !.providers =
                   [a \in DOMAIN @ \cup {alias} |-> IF a = alias THEN p ELSE @[a]]],
               Typed(alias, fields \cup {"key"}, url))
  BY DEF CreateProvider
<1>13. PICK e \in ModelEntries[m] :
        LET p == [url |-> url, key |-> NameFor(alias, "key"),
                  headers |-> [h \in fields |-> NameFor(alias, h)], models |-> [i \in {m} |-> e]]
        IN AskWrite("create",
               [saved EXCEPT !.providers =
                   [a \in DOMAIN @ \cup {alias} |-> IF a = alias THEN p ELSE @[a]]],
               Typed(alias, fields \cup {"key"}, url))
  BY <1>1
<1> DEFINE p == [url |-> url, key |-> NameFor(alias, "key"),
                 headers |-> [h \in fields |-> NameFor(alias, h)], models |-> [i \in {m} |-> e]]
           ps == [a \in DOMAIN saved.providers \cup {alias} |-> IF a = alias THEN p ELSE saved.providers[a]]
           typed == Typed(alias, fields \cup {"key"}, url)
           next == [saved EXCEPT !.providers = ps]
<1>2. AskWrite("create", next, typed)  BY <1>13
<1>3. asked < AskBound /\ StoresInv /\ IsConfiguration(saved)
  BY <1>2 DEF AskWrite, ProviderInv, StoresInv
<1>4. /\ p = [url |-> p.url, key |-> p.key, headers |-> p.headers, models |-> p.models]
      /\ p.url = url /\ p.key = NameFor(alias, "key")
      /\ p.headers = [h \in fields |-> NameFor(alias, h)] /\ p.models = [i \in {m} |-> e]
  OBVIOUS
<1>5. DOMAIN ps = DOMAIN saved.providers \cup {alias}
      /\ ps = [a \in DOMAIN ps |-> ps[a]] /\ ps[alias] = p
      /\ \A a \in DOMAIN saved.providers : ps[a] = saved.providers[a]
  OBVIOUS
<1> HIDE DEF p, ps
<1>6. fields \cup {"key"} \in SUBSET Fields  BY DEF Fields
<1>7. /\ \A n \in DOMAIN typed : n \in KeyNames /\ n[1] = asked + 1
      /\ \A f \in fields \cup {"key"} : NameFor(alias, f) \in DOMAIN typed /\ typed[NameFor(alias, f)].url = url
  BY <1>3, <1>6, TypedIs
<1> HIDE DEF typed
<1>8. IsProvider(p)
 <2>3. p.key \in KeyNames  BY <1>4, <1>7
 <2> QED BY <1>4, <2>3, <1>7 DEF IsProvider, IsPartial, Entries
<1>10. IsConfiguration(next) /\ next.providers = ps
  BY <1>3, OtherProviders, <1>5, <1>8 DEF AreProviders, IsConfiguration
<1> HIDE DEF next
<1>11. JarSound(next, Stored(typed))
 <2> DEFINE held == Stored(typed)
 <2>1. /\ DOMAIN typed \subseteq DOMAIN held /\ \A n \in DOMAIN typed : held[n] = typed[n]
       /\ \A a \in DOMAIN saved.providers : ProviderSound(saved.providers[a], held)
   BY <1>3, <1>7, StoredHas, OldStaysSound
 <2> HIDE DEF held
 <2>2. ProviderSound(p, held)
  <3>2. ASSUME NEW h \in DOMAIN p.headers
        PROVE  p.headers[h] \in DOMAIN held /\ held[p.headers[h]].url = p.url
   <4> QED BY <1>4, <1>7, <2>1
  <3> QED BY <3>2, <1>4, <1>7, <2>1 DEF ProviderSound
 <2> QED BY SoundEach, <1>5, <1>10, <2>1, <2>2 DEF held
<1> QED BY <1>2, CheckedKeeps, <1>7, <1>10, <1>11 DEF Askable

\* What a provider is with other connection fields.
LEMMA ProviderWith ==
    ASSUME NEW p, IsProvider(p), NEW u, NEW k, NEW hs
    PROVE  [p EXCEPT !.url = u, !.key = k, !.headers = hs]
           = [url |-> u, key |-> k, headers |-> hs, models |-> p.models]
<1>1. PICK x, y, z, m : p = [url |-> x, key |-> y, headers |-> z, models |-> m]
  BY DEF IsProvider
<1>2. p.models = m  BY <1>1
<1> DEFINE r == [p EXCEPT !.url = u]
           t == [r EXCEPT !.key = k]
<1>3. r = [url |-> u, key |-> y, headers |-> z, models |-> m]  BY <1>1
<1>4. [p EXCEPT !.url = u, !.key = k, !.headers = hs] = [t EXCEPT !.headers = hs]  OBVIOUS
<1> HIDE DEF r
<1>5. t = [url |-> u, key |-> k, headers |-> z, models |-> m]  BY <1>3
<1> HIDE DEF t
<1>6. [t EXCEPT !.headers = hs] = [url |-> u, key |-> k, headers |-> hs, models |-> m]  BY <1>5
<1> QED BY <1>2, <1>4, <1>6

\* A provider changes its endpoint only with every credential typed again.
LEMMA UpdateConnectionKeeps ==
    ASSUME ProviderInv, UpdateConnection
    PROVE  ProviderInv'
<1>1. PICK alias \in DOMAIN saved.providers, url \in Endpoints,
           fields \in SUBSET (HeaderNames \cup {"key"}), removed \in SUBSET HeaderNames :
        LET p == saved.providers[alias]
            kept == (DOMAIN p.headers \ removed) \cup (fields \ {"key"})
            next == [p EXCEPT
                !.url = url,
                !.key = IF "key" \in fields THEN NameFor(alias, "key") ELSE @,
                !.headers = [h \in kept |-> IF h \in fields THEN NameFor(alias, h) ELSE @[h]]]
        IN /\ removed \cap fields = {} /\ EndpointMayMove(p, url, fields)
           /\ AskWrite("update", [saved EXCEPT !.providers[alias] = next], Typed(alias, fields, url))
  BY DEF UpdateConnection
<1> DEFINE p == saved.providers[alias]
           kept == (DOMAIN p.headers \ removed) \cup (fields \ {"key"})
           q == [p EXCEPT
                !.url = url,
                !.key = IF "key" \in fields THEN NameFor(alias, "key") ELSE @,
                !.headers = [h \in kept |-> IF h \in fields THEN NameFor(alias, h) ELSE @[h]]]
           ps == [saved.providers EXCEPT ![alias] = q]
           typed == Typed(alias, fields, url)
           next == [saved EXCEPT !.providers = ps]
<1>2. /\ EndpointMayMove(p, url, fields)
      /\ AskWrite("update", [saved EXCEPT !.providers[alias] = q], typed)
  BY <1>1
<1>3. AskWrite("update", next, typed)  BY <1>2
<1>4. asked < AskBound /\ StoresInv /\ IsConfiguration(saved)
  BY <1>2 DEF AskWrite, ProviderInv, StoresInv
<1>5. IsProvider(p) /\ alias \in Aliases  BY <1>4 DEF IsConfiguration
<1>6. /\ q = [url |-> q.url, key |-> q.key, headers |-> q.headers, models |-> q.models]
      /\ q.url = url /\ q.key = IF "key" \in fields THEN NameFor(alias, "key") ELSE p.key
      /\ q.headers = [h \in kept |-> IF h \in fields THEN NameFor(alias, h) ELSE p.headers[h]]
      /\ q.models = p.models
 <2> DEFINE k == IF "key" \in fields THEN NameFor(alias, "key") ELSE p.key
            hs == [h \in kept |-> IF h \in fields THEN NameFor(alias, h) ELSE p.headers[h]]
 <2>1. q = [p EXCEPT !.url = url, !.key = k, !.headers = hs]  OBVIOUS
 <2> HIDE DEF p, kept, q, k, hs
 <2> QED BY <1>5, <2>1, ProviderWith DEF k, hs
<1> HIDE DEF q
<1>7. /\ DOMAIN ps = DOMAIN saved.providers /\ ps = [a \in DOMAIN ps |-> ps[a]] /\ ps[alias] = q
      /\ \A a \in DOMAIN saved.providers \ {alias} : ps[a] = saved.providers[a]
 <2> QED BY <1>4 DEF IsConfiguration
<1> HIDE DEF ps
<1>9. /\ \A n \in DOMAIN typed : n \in KeyNames /\ n[1] = asked + 1
      /\ \A f \in fields : NameFor(alias, f) \in DOMAIN typed /\ typed[NameFor(alias, f)].url = url
  BY <1>4, <1>5, TypedIs DEF Fields
<1> HIDE DEF typed, p
<1>10. IsProvider(q)
 <2>1. p.headers \in [DOMAIN p.headers -> KeyNames] /\ DOMAIN p.headers \subseteq HeaderNames
   BY <1>5 DEF IsProvider, IsPartial
 <2>2. kept \subseteq HeaderNames /\ \A h \in kept : h \notin fields => h \in DOMAIN p.headers
   BY <2>1
 <2> HIDE DEF kept
 <2> QED BY <1>5, <1>6, <1>9, <2>1, <2>2 DEF IsProvider, IsPartial
<1>12. IsConfiguration(next) /\ next.providers = ps
  BY <1>4, OtherProviders, <1>7, <1>10 DEF AreProviders, IsConfiguration
<1> HIDE DEF next
<1>13. JarSound(next, Stored(typed))
 <2> DEFINE held == Stored(typed)
 <2>1. /\ DOMAIN typed \subseteq DOMAIN held /\ \A n \in DOMAIN typed : held[n] = typed[n]
       /\ \A a \in DOMAIN saved.providers : ProviderSound(saved.providers[a], held)
   BY <1>4, <1>9, StoredHas, OldStaysSound
 <2> HIDE DEF held
 <2>2. ProviderSound(p, held)  BY <2>1 DEF p
 <2>3. ProviderSound(q, held)
  <3>1. q.key \in DOMAIN held /\ held[q.key].url = q.url
   <4>1. CASE "key" \in fields  BY <1>6, <1>9, <2>1, <4>1
   <4>2. CASE "key" \notin fields
    <5> QED BY <1>6, <2>2, <4>2, <1>2 DEF ProviderSound, EndpointMayMove
   <4> QED BY <4>1, <4>2
  <3>2. ASSUME NEW h \in DOMAIN q.headers
        PROVE  q.headers[h] \in DOMAIN held /\ held[q.headers[h]].url = q.url
   <4>1. h \in kept /\ q.headers[h] = IF h \in fields THEN NameFor(alias, h) ELSE p.headers[h]
     BY <1>6
   <4>2. CASE h \in fields  BY <1>6, <1>9, <2>1, <4>1, <4>2
   <4>3. CASE h \notin fields
    <5> QED BY <1>6, <2>2, <4>1, <4>3, <1>2 DEF ProviderSound, EndpointMayMove
   <4> QED BY <4>2, <4>3
  <3> QED BY <3>1, <3>2 DEF ProviderSound
 <2>4. ASSUME NEW a \in DOMAIN next.providers PROVE ProviderSound(next.providers[a], held)
  <3>1. CASE a = alias  BY <1>7, <1>12, <2>3, <3>1
  <3>2. CASE a # alias  BY <1>7, <1>12, <2>1, <3>2
  <3> QED BY <3>1, <3>2
 <2> QED BY <2>4, SoundEach DEF held
<1> QED BY <1>3, CheckedKeeps, <1>9, <1>12, <1>13 DEF Askable

\* A model of the file that the agent, vision, a chat of the file or a running chat that
\* left it refers to.
InUse(p, m) == \E ref \in References : ref.provider = p /\ ref.model = m

\* The models that are referred to are as they were.
UsesKept(next) ==
    \A p \in DOMAIN saved.providers : \A m \in DOMAIN saved.providers[p].models :
        InUse(p, m) => /\ p \in DOMAIN next.providers /\ m \in DOMAIN next.providers[p].models
                       /\ next.providers[p].models[m] = saved.providers[p].models[m]

\* What refers to a model that is in use works as before.
LEMMA UseWorks ==
    ASSUME NEW next, UsesKept(next), NEW x, Refers(saved, x), InUse(x.provider, x.model)
    PROVE  Refers(next, x) /\ ModelEntryOf(next, x) = ModelEntryOf(saved, x)
BY DEF UsesKept, Refers, ModelEntryOf

\* The settings of a chat are of its model or of the agent's.
LEMMA SettingsInUse ==
    ASSUME NEW chat, chat \in ReferencingChats
    PROVE  InUse(SettingsOf(saved, chat).provider, SettingsOf(saved, chat).model)
<1> QED BY DEF InUse, SettingsOf, References

\* A delete that spares what is referred to leaves a file whose names resolve, also
\* for the running chats that left it.
LEMMA DeleteIsChecked ==
    ASSUME IsConfiguration(saved), IsConfiguration(live.config), FileIsValid(saved),
           NEW next, UsesKept(next), next.agent = saved.agent,
           next.vision = saved.vision, next.chats = saved.chats
    PROVE  /\ NamesResolve(next)
           /\ Adoptable(live.config, saved) =>
                /\ VisionFits(next)
                /\ \A r \in DOMAIN Departed : Works(next, SettingsOf(next, Departed[r]))
<1>2. /\ Works(saved, saved.agent) /\ Refers(saved, saved.vision)
      /\ ModelEntryOf(saved, saved.vision).image
      /\ \A r \in DOMAIN saved.chats : Works(saved, SettingsOf(saved, saved.chats[r]))
  BY ResolvesEach DEF FileIsValid
<1>3. /\ InUse(saved.agent.provider, saved.agent.model)
      /\ InUse(saved.vision.provider, saved.vision.model)
  BY DEF InUse, References
<1>5. Refers(next, next.vision) /\ ModelEntryOf(next, next.vision) = ModelEntryOf(saved, saved.vision)
  BY <1>2, <1>3, UseWorks
<1>6. ASSUME NEW chat \in ReferencingChats, Works(saved, SettingsOf(saved, chat))
      PROVE  Works(next, SettingsOf(next, chat))
 <2> DEFINE s == SettingsOf(saved, chat)
 <2>1. InUse(s.provider, s.model)  BY SettingsInUse
 <2>2. s = SettingsOf(next, chat)  BY SettingsOfSame
 <2> HIDE DEF s
 <2>4. Works(next, s)  BY <2>1, UseWorks, <1>6 DEF Works, s
 <2> QED BY <2>2, <2>4
<1>7. NamesResolve(next)
 <2>1. ASSUME NEW r \in DOMAIN next.chats PROVE Works(next, SettingsOf(next, next.chats[r]))
  <3> QED BY <1>2, <1>6 DEF ReferencingChats
 <2> QED BY <1>2, <1>5, <2>1, ResolvesEach, <1>3, UseWorks DEF Works
<1>8. ASSUME Adoptable(live.config, saved)
      PROVE  /\ VisionFits(next)
             /\ \A r \in DOMAIN Departed : Works(next, SettingsOf(next, Departed[r]))
 <2> DEFINE c == CandidateOf(live.config, saved)
 <2>1. /\ c.providers = saved.providers /\ c.agent = saved.agent /\ c.vision = saved.vision
       /\ DOMAIN c.chats = DOMAIN live.config.chats
       /\ \A r \in DOMAIN live.config.chats :
             c.chats[r] = IF r \in DOMAIN saved.chats THEN saved.chats[r] ELSE live.config.chats[r]
   BY CandidateHas
 <2>2. NamesResolve(c) /\ VisionFits(c)  BY <1>8 DEF Adoptable, FileIsValid
 <2> HIDE DEF c
 <2>5. ASSUME NEW r \in DOMAIN Departed PROVE Works(next, SettingsOf(next, Departed[r]))
  <3>3. Works(c, SettingsOf(c, Departed[r]))  BY <2>1, <2>2, ResolvesEach DEF Departed
  <3> QED BY <1>6, <2>1, <3>3, SettingsOfSame DEF ReferencingChats, Works, Refers, ModelEntryOf
 <2> QED BY <2>5, <1>5, <2>1, <2>2 DEF VisionFits, ModelEntryOf
<1> QED BY <1>7, <1>8

\* A provider that nothing refers to is deleted.
LEMMA DeleteProviderKeeps ==
    ASSUME ProviderInv, DeleteProvider
    PROVE  ProviderInv'
<1>1. PICK alias \in DOMAIN saved.providers :
        /\ \A ref \in References : ref.provider # alias
        /\ AskWrite("delete",
               [saved EXCEPT !.providers = [a \in DOMAIN @ \ {alias} |-> @[a]]], Unkeyed)
  BY DEF DeleteProvider
<1> DEFINE ps == [a \in DOMAIN saved.providers \ {alias} |-> saved.providers[a]]
           next == [saved EXCEPT !.providers = ps]
<1>2. AskWrite("delete", next, Unkeyed)  BY <1>1
<1>3. FileIsValid(saved) /\ StoresInv /\ IsConfiguration(saved) /\ IsConfiguration(live.config)
  BY <1>2 DEF AskWrite, ProviderInv, StoresInv
<1>4. AreProviders(ps)  BY <1>3 DEF AreProviders, IsConfiguration
<1>5. DOMAIN ps = DOMAIN saved.providers \ {alias}
      /\ \A a \in DOMAIN ps : ps[a] = saved.providers[a]
  OBVIOUS
<1> HIDE DEF ps
<1>6. /\ IsConfiguration(next) /\ next.providers = ps /\ next.chats = saved.chats
      /\ next.agent = saved.agent /\ next.vision = saved.vision
  BY <1>3, <1>4, OtherProviders
<1> HIDE DEF next
<1>8. JarSound(next, Stored(Unkeyed))
 <2> DEFINE held == Stored(Unkeyed)
 <2>1. \A a \in DOMAIN saved.providers : ProviderSound(saved.providers[a], held)
   BY <1>3, NothingTyped, SoundEach
 <2> HIDE DEF held
 <2> QED BY <1>5, <1>6, <2>1, SoundEach DEF held
<1> QED
  BY <1>2, CheckedKeeps, <1>3, <1>6, <1>8, NothingTyped, DeleteIsChecked, <1>1,
    <1>5 DEF Askable, UsesKept, InUse

\* A provider with other models is as sound as before.
LEMMA WithModelsIs ==
    ASSUME StoresInv, NEW alias \in DOMAIN saved.providers, NEW models,
           IsPartial(models, ModelIds, Entries)
    PROVE  LET next == WithModels(alias, models)
           IN  /\ IsConfiguration(next) /\ JarSound(next, Stored(Unkeyed))
               /\ next.chats = saved.chats /\ next.agent = saved.agent /\ next.vision = saved.vision
               /\ DOMAIN next.providers = DOMAIN saved.providers
               /\ next.providers[alias].models = models
               /\ \A a \in DOMAIN saved.providers \ {alias} : next.providers[a] = saved.providers[a]
<1> DEFINE p == saved.providers[alias]
           q == [p EXCEPT !.models = models]
           ps == [saved.providers EXCEPT ![alias] = q]
           next == [saved EXCEPT !.providers = ps]
<1>1. WithModels(alias, models) = next  BY DEF WithModels
<1>2. IsConfiguration(saved) /\ IsProvider(p)  BY DEF StoresInv, IsConfiguration
<1>3. PICK x, y, z, m : p = [url |-> x, key |-> y, headers |-> z, models |-> m]
  BY <1>2 DEF IsProvider
<1> HIDE DEF p
<1>4. q = [url |-> x, key |-> y, headers |-> z, models |-> models]  BY <1>3
<1> HIDE DEF q
<1>5. /\ p.url = x /\ p.key = y /\ p.headers = z
      /\ q.url = x /\ q.key = y /\ q.headers = z /\ q.models = models
  BY <1>3, <1>4
<1>7. /\ DOMAIN ps = DOMAIN saved.providers /\ ps = [a \in DOMAIN ps |-> ps[a]] /\ ps[alias] = q
      /\ \A a \in DOMAIN saved.providers \ {alias} : ps[a] = saved.providers[a]
 <2> QED BY <1>2 DEF IsConfiguration
<1> HIDE DEF ps
<1>9. /\ IsConfiguration(next) /\ next.providers = ps /\ next.chats = saved.chats
      /\ next.agent = saved.agent /\ next.vision = saved.vision
  BY <1>2, OtherProviders, <1>7, <1>4, <1>5 DEF AreProviders, IsConfiguration,
    IsProvider
<1> HIDE DEF next
<1>10. JarSound(next, Stored(Unkeyed))
 <2> DEFINE held == Stored(Unkeyed)
 <2>1. \A a \in DOMAIN saved.providers : ProviderSound(saved.providers[a], held)
   BY NothingTyped, SoundEach
 <2> HIDE DEF held
 <2>2. ProviderSound(q, held)
  <3> QED BY <1>5, <2>1 DEF ProviderSound, p
 <2> QED BY SoundEach, <1>7, <1>9, <2>1, <2>2 DEF held
<1> QED BY <1>1, <1>5, <1>7, <1>9, <1>10

\* An entry is appended, replaced or, when nothing refers to it, deleted.
LEMMA EditModelsKeeps ==
    ASSUME ProviderInv, EditModels
    PROVE  ProviderInv'
<1>1. PICK alias \in DOMAIN saved.providers, m \in ModelIds :
        LET models == saved.providers[alias].models
        IN \/ \E e \in ModelEntries[m] :
                /\ m \notin DOMAIN models
                /\ AskWrite("append", WithModels(alias, [i \in DOMAIN models \cup {m} |->
                           IF i = m THEN e ELSE models[i]]), Unkeyed)
           \/ \E e \in ModelEntries[m] :
                /\ m \in DOMAIN models /\ e # models[m]
                /\ AskWrite("replace", WithModels(alias, [models EXCEPT ![m] = e]), Unkeyed)
           \/ /\ m \in DOMAIN models
              /\ \A ref \in References : ~(ref.provider = alias /\ ref.model = m)
              /\ AskWrite("delete", WithModels(alias, [i \in DOMAIN models \ {m} |-> models[i]]), Unkeyed)
  BY DEF EditModels
<1> DEFINE models == saved.providers[alias].models
<1>2. StoresInv /\ IsConfiguration(saved) /\ IsConfiguration(live.config)
  BY DEF ProviderInv, StoresInv
<1>3. IsPartial(models, ModelIds, Entries)  BY <1>2 DEF IsConfiguration, IsProvider
<1>4. CASE \E e \in ModelEntries[m] :
               /\ m \notin DOMAIN models
               /\ AskWrite("append", WithModels(alias, [i \in DOMAIN models \cup {m} |->
                           IF i = m THEN e ELSE models[i]]), Unkeyed)
 <2>1. PICK e \in ModelEntries[m] :
           AskWrite("append", WithModels(alias, [i \in DOMAIN models \cup {m} |->
                          IF i = m THEN e ELSE models[i]]), Unkeyed)
   BY <1>4
 <2> DEFINE ms == [i \in DOMAIN models \cup {m} |-> IF i = m THEN e ELSE models[i]]
            next == WithModels(alias, ms)
 <2>2. IsPartial(ms, ModelIds, Entries)
  <3> HIDE DEF models
  <3> QED BY <1>3 DEF IsPartial, Entries
 <2>3. AskWrite("append", next, Unkeyed)  BY <2>1
 <2> HIDE DEF ms
 <2>4. IsConfiguration(next) /\ JarSound(next, Stored(Unkeyed))  BY <1>2, <2>2, WithModelsIs
 <2> HIDE DEF next
 <2> QED BY <2>3, CheckedKeeps, <1>2, <2>4, NothingTyped DEF Askable
<1>5. CASE \E e \in ModelEntries[m] :
               /\ m \in DOMAIN models /\ e # models[m]
               /\ AskWrite("replace", WithModels(alias, [models EXCEPT ![m] = e]), Unkeyed)
 <2>1. PICK e \in ModelEntries[m] :
           AskWrite("replace", WithModels(alias, [models EXCEPT ![m] = e]), Unkeyed)
   BY <1>5
 <2> DEFINE ms == [models EXCEPT ![m] = e]
            next == WithModels(alias, ms)
 <2>2. IsPartial(ms, ModelIds, Entries)
  <3> HIDE DEF models
  <3> QED BY <1>3 DEF IsPartial, Entries
 <2>3. AskWrite("replace", next, Unkeyed)  BY <2>1
 <2> HIDE DEF ms
 <2>4. IsConfiguration(next) /\ JarSound(next, Stored(Unkeyed))  BY <1>2, <2>2, WithModelsIs
 <2> HIDE DEF next
 <2> QED BY <2>3, CheckedKeeps, <1>2, <2>4, NothingTyped DEF Askable
<1>6. CASE /\ \A ref \in References : ~(ref.provider = alias /\ ref.model = m)
           /\ AskWrite("delete", WithModels(alias, [i \in DOMAIN models \ {m} |-> models[i]]), Unkeyed)
 <2> DEFINE ms == [i \in DOMAIN models \ {m} |-> models[i]]
            next == WithModels(alias, ms)
 <2>1. IsPartial(ms, ModelIds, Entries)
  <3> HIDE DEF models
  <3> QED BY <1>3 DEF IsPartial
 <2>2. AskWrite("delete", next, Unkeyed)  BY <1>6
 <2>3. DOMAIN ms = DOMAIN models \ {m} /\ \A i \in DOMAIN ms : ms[i] = models[i]  OBVIOUS
 <2> HIDE DEF ms
 <2>4. /\ IsConfiguration(next) /\ JarSound(next, Stored(Unkeyed))
       /\ next.chats = saved.chats /\ next.agent = saved.agent /\ next.vision = saved.vision
       /\ DOMAIN next.providers = DOMAIN saved.providers
       /\ next.providers[alias].models = ms
       /\ \A a \in DOMAIN saved.providers \ {alias} : next.providers[a] = saved.providers[a]
   BY <1>2, <2>1, WithModelsIs
 <2> HIDE DEF next
 <2>5. UsesKept(next)
  <3>1. ASSUME NEW p \in DOMAIN saved.providers, NEW k \in DOMAIN saved.providers[p].models, InUse(p, k)
        PROVE  /\ p \in DOMAIN next.providers /\ k \in DOMAIN next.providers[p].models
               /\ next.providers[p].models[k] = saved.providers[p].models[k]
   <4>2. CASE p = alias  BY <2>3, <2>4, <4>2, <1>6, <3>1 DEF InUse
   <4>3. CASE p # alias  BY <2>4, <4>3
   <4> QED BY <4>2, <4>3
  <3> QED BY <3>1 DEF UsesKept
 <2>7. Askable("delete", next, Unkeyed)
   BY <1>2, <2>4, <2>5, NothingTyped, DeleteIsChecked, <2>2 DEF Askable,
     AskWrite
 <2> QED BY <2>2, <2>7, CheckedKeeps
<1> QED BY <1>1, <1>4, <1>5, <1>6

\* What is asked for without a credential and without touching the providers.
LEMMA AskOtherParts ==
    ASSUME ProviderInv, NEW what, NEW next, AskWrite(what, next, Unkeyed),
           what \notin {"none", "switch", "delete"},
           IsConfiguration(next), next.providers = saved.providers,
           what \in {"vision", "unlist"} => NamesResolve(next),
           what = "level" /\ (\A r \in DOMAIN next.chats : ChatMayBe(next.chats[r])) => NamesResolve(next)
    PROVE  ProviderInv'
<1>1. StoresInv  BY DEF ProviderInv
<1>2. JarSound(next, Stored(Unkeyed))
 <2> DEFINE held == Stored(Unkeyed)
 <2>1. JarSound(saved, held)  BY <1>1, NothingTyped
 <2> HIDE DEF held
 <2> QED BY <2>1, SameProviders DEF held
<1> QED BY CheckedKeeps, <1>1, <1>2, NothingTyped DEF Askable

\* Vision is given a model that sees.
LEMMA ChooseVisionKeeps ==
    ASSUME ProviderInv, ChooseVision
    PROVE  ProviderInv'
<1>1. PICK alias \in DOMAIN saved.providers : \E m \in DOMAIN saved.providers[alias].models :
        LET next == [saved EXCEPT !.vision = [provider |-> alias, model |-> m]]
        IN /\ ModelEntryOf(next, next.vision).image
           /\ AskWrite("vision", next, Unkeyed)
  BY DEF ChooseVision
<1>2. PICK m \in DOMAIN saved.providers[alias].models :
        LET next == [saved EXCEPT !.vision = [provider |-> alias, model |-> m]]
        IN /\ ModelEntryOf(next, next.vision).image
           /\ AskWrite("vision", next, Unkeyed)
  BY <1>1
<1> DEFINE ref == [provider |-> alias, model |-> m]
           next == [saved EXCEPT !.vision = ref]
<1>3. ModelEntryOf(next, next.vision).image /\ AskWrite("vision", next, Unkeyed)  BY <1>2
<1>4. IsConfiguration(saved) /\ NamesResolve(saved)
  BY <1>3 DEF AskWrite, FileIsValid, ProviderInv, StoresInv
<1>6. ref \in [provider : Aliases, model : ModelIds] /\ ref.provider = alias /\ ref.model = m
  BY <1>4 DEF IsConfiguration, IsProvider, IsPartial
<1> HIDE DEF ref
<1>7. /\ IsConfiguration(next) /\ next.providers = saved.providers /\ next.chats = saved.chats
      /\ next.agent = saved.agent /\ next.vision = ref
  BY <1>4, <1>6, OtherVision
<1> HIDE DEF next
<1>8. NamesResolve(next)
 <2>2. ASSUME NEW r \in DOMAIN next.chats PROVE Works(next, SettingsOf(next, next.chats[r]))
  <3>2. SettingsOf(next, next.chats[r]) = SettingsOf(saved, saved.chats[r])
    BY <1>7, SettingsOfSame
  <3> QED BY <1>7, <3>2, <1>4, ResolvesEach DEF Works, Refers, ModelEntryOf
 <2>3. Works(next, next.agent)
  <3> QED BY <1>7, <1>4, ResolvesEach DEF Works, Refers, ModelEntryOf
 <2> QED BY <1>3, <2>2, <2>3, ResolvesEach, <1>6, <1>7 DEF Refers
<1> QED BY <1>3, <1>7, <1>8, AskOtherParts

\* The level of the agent is one its model accepts.
LEMMA ChooseLevelKeeps ==
    ASSUME ProviderInv, ChooseLevel
    PROVE  ProviderInv'
<1>1. PICK level \in ModelEntryOf(saved, saved.agent).levels \ {saved.agent.level} :
        AskWrite("level", [saved EXCEPT !.agent.level = level], Unkeyed)
  BY DEF ChooseLevel
<1> DEFINE agent == [saved.agent EXCEPT !.level = level]
           next == [saved EXCEPT !.agent = agent]
<1>2. AskWrite("level", next, Unkeyed)  BY <1>1
<1>3. IsConfiguration(saved) /\ NamesResolve(saved)
  BY <1>2 DEF AskWrite, FileIsValid, ProviderInv, StoresInv
<1>4. Refers(saved, saved.agent)  BY DEF ChooseLevel
<1>5. ModelEntryOf(saved, saved.agent) \in Entries
 <2> QED BY <1>4, <1>3 DEF Refers, ModelEntryOf, IsProvider, IsPartial, IsConfiguration
<1>8. agent \in AgentRows /\ agent.provider = saved.agent.provider /\ agent.model = saved.agent.model
      /\ agent.level = level
  BY <1>5, <1>3 DEF AgentRows, Levels, IsConfiguration
<1> HIDE DEF agent
<1>9. /\ IsConfiguration(next) /\ next.providers = saved.providers /\ next.chats = saved.chats
      /\ next.agent = agent /\ next.vision = saved.vision
  BY <1>3, <1>8, OtherAgent
<1> HIDE DEF next
<1>10. ASSUME \A r \in DOMAIN next.chats : ChatMayBe(next.chats[r])
       PROVE  NamesResolve(next)
 <2>1. Works(next, next.agent)  BY <1>4, <1>8, <1>9 DEF Works, Refers, ModelEntryOf
 <2>2. ASSUME NEW r \in DOMAIN next.chats PROVE Works(next, SettingsOf(next, next.chats[r]))
  <3> DEFINE chat == saved.chats[r]
  <3>1. Works(saved, SettingsOf(saved, chat)) /\ next.chats[r] = chat
    BY <1>3, <1>9, ResolvesEach
  <3>2. ChatMayBe(chat)  BY <1>9, <1>10
  <3> HIDE DEF chat
  <3>4. CASE chat.level = NoLevel
   <4> QED BY <2>1, <3>1, <3>4, <3>2 DEF Works, Refers, ModelEntryOf, SettingsOf, ChatMayBe
  <3>5. CASE chat.level # NoLevel
   <4> QED BY <1>9, <3>1, <1>8, <3>5 DEF Works, Refers, ModelEntryOf, SettingsOf
  <3> QED BY <3>4, <3>5
 <2>3. Refers(next, next.vision) /\ ModelEntryOf(next, next.vision).image
  <3> QED BY <1>9, <1>3, ResolvesEach DEF Refers, ModelEntryOf
 <2> QED BY <2>1, <2>2, <2>3, ResolvesEach
<1> QED BY <1>2, <1>9, <1>10, AskOtherParts

\* What can be chosen for a chat.
LEMMA OptionIs ==
    ASSUME NEW ref \in ModelReferences \cup {Default}
    PROVE  ref.provider \in Aliases \cup {Inherit} /\ ref.model \in ModelIds \cup {Inherit}
BY DEF ModelReferences, Default

\* The settings of a chat of the file are edited.
LEMMA EditChatKeeps ==
    ASSUME ProviderInv, EditChat
    PROVE  ProviderInv'
<1>1. PICK r \in DOMAIN saved.chats, ref \in ModelReferences \cup {Default}, level \in Levels :
        AskWrite("chat", [saved EXCEPT !.chats[r] =
            [provider |-> ref.provider, model |-> ref.model, level |-> level]], Unkeyed)
  BY DEF EditChat
<1> DEFINE chat == [provider |-> ref.provider, model |-> ref.model, level |-> level]
           cs == [saved.chats EXCEPT ![r] = chat]
           next == [saved EXCEPT !.chats = cs]
<1>2. AskWrite("chat", next, Unkeyed)  BY <1>1
<1>3. IsConfiguration(saved)  BY DEF ProviderInv, StoresInv
<1>4. chat \in ChatRows  BY OptionIs DEF ChatRows
<1> HIDE DEF chat
<1>5. IsPartial(cs, Rooms, ChatRows)
 <2> QED BY <1>4, <1>3 DEF IsPartial, IsConfiguration, ChatRows
<1> HIDE DEF cs
<1>6. IsConfiguration(next) /\ next.providers = saved.providers  BY <1>3, <1>5, OtherChats
<1> HIDE DEF next
<1> QED BY <1>2, <1>6, AskOtherParts

\* A chat is added to the file.
LEMMA CreateChatKeeps ==
    ASSUME ProviderInv, CreateChat
    PROVE  ProviderInv'
<1>1. PICK r \in Rooms \ DOMAIN saved.chats, ref \in ModelReferences \cup {Default}, level \in Levels :
        LET chat == [provider |-> ref.provider, model |-> ref.model, level |-> level]
        IN AskWrite("chat", [saved EXCEPT !.chats =
                  [s \in DOMAIN @ \cup {r} |-> IF s = r THEN chat ELSE @[s]]], Unkeyed)
  BY DEF CreateChat
<1> DEFINE chat == [provider |-> ref.provider, model |-> ref.model, level |-> level]
           cs == [s \in DOMAIN saved.chats \cup {r} |-> IF s = r THEN chat ELSE saved.chats[s]]
           next == [saved EXCEPT !.chats = cs]
<1>2. AskWrite("chat", next, Unkeyed)  BY <1>1
<1>3. IsConfiguration(saved)  BY DEF ProviderInv, StoresInv
<1>4. chat \in ChatRows  BY OptionIs DEF ChatRows
<1> HIDE DEF chat
<1>5. IsPartial(cs, Rooms, ChatRows)
 <2> QED BY <1>4, <1>3 DEF IsPartial, IsConfiguration, ChatRows
<1> HIDE DEF cs
<1>6. IsConfiguration(next) /\ next.providers = saved.providers  BY <1>3, <1>5, OtherChats
<1> HIDE DEF next
<1> QED BY <1>2, <1>6, AskOtherParts

\* A chat leaves the file.
LEMMA DeleteChatKeeps ==
    ASSUME ProviderInv, DeleteChat
    PROVE  ProviderInv'
<1>1. PICK r \in DOMAIN saved.chats :
        AskWrite("unlist", [saved EXCEPT !.chats = [s \in DOMAIN @ \ {r} |-> @[s]]], Unkeyed)
  BY DEF DeleteChat
<1> DEFINE cs == [s \in DOMAIN saved.chats \ {r} |-> saved.chats[s]]
           next == [saved EXCEPT !.chats = cs]
<1>2. AskWrite("unlist", next, Unkeyed)  BY <1>1
<1>3. IsConfiguration(saved) /\ NamesResolve(saved)
  BY <1>2 DEF AskWrite, FileIsValid, ProviderInv, StoresInv
<1>4. IsPartial(cs, Rooms, ChatRows)
 <2> QED BY <1>3 DEF IsPartial, IsConfiguration, ChatRows
<1>5. DOMAIN cs \subseteq DOMAIN saved.chats /\ \A s \in DOMAIN cs : cs[s] = saved.chats[s]
  OBVIOUS
<1> HIDE DEF cs
<1>6. /\ IsConfiguration(next) /\ next.providers = saved.providers /\ next.chats = cs
      /\ next.agent = saved.agent /\ next.vision = saved.vision
  BY <1>3, <1>4, OtherChats
<1> HIDE DEF next
<1>7. NamesResolve(next)
 <2>1. ASSUME NEW s \in DOMAIN next.chats PROVE Works(next, SettingsOf(next, next.chats[s]))
  <3>1. Works(saved, SettingsOf(saved, saved.chats[s])) /\ next.chats[s] = saved.chats[s]
    BY <1>3, <1>5, <1>6, ResolvesEach
  <3> QED BY <1>6, <3>1, SettingsOfSame DEF Works, Refers, ModelEntryOf
 <2> QED BY <2>1, ResolvesEach, <1>6, <1>3 DEF Works, Refers, ModelEntryOf
<1> QED BY <1>2, <1>6, <1>7, AskOtherParts

-----------------------------------------------------------------------------
(* Under the lock.                                                             *)

\* A place that is free again takes no part in what the others are.
LEMMA AskLeaves ==
    ASSUME AsksInv, NEW q \in Asks, asks' = [asks EXCEPT ![q] = NoAsk],
           \A p \in Asks \ {q} : IsWrite(asks[p]) => AskedWrite(asks[p])',
           DOMAIN live'.config.chats = DOMAIN live.config.chats
    PROVE  AsksInv'
<1>3. /\ asks' = [p \in Asks |-> asks'[p]] /\ asks'[q] = NoAsk
      /\ \A p \in Asks \ {q} : asks'[p] = asks[p]
  BY DEF AsksInv
<1>4. ~IsWrite(NoAsk) /\ NoAsk.what # "switch"  BY DEF IsWrite, NoAsk
<1>5. ASSUME NEW p \in Asks
      PROVE  /\ IsWrite(asks'[p]) => AskedWrite(asks[p])'
             /\ asks'[p].what = "switch" => AskedSwitch(asks[p])'
 <2>1. CASE p = q  BY <1>3, <1>4, <2>1
 <2>2. CASE p # q
  <3> QED BY <2>2, <1>3 DEF AskedSwitch, AsksInv
 <2> QED BY <2>1, <2>2
<1>6. ASSUME NEW a \in Asks, NEW p \in Asks, a # p, IsWrite(asks'[a]), IsWrite(asks'[p])
      PROVE  DOMAIN asks'[a].typed \cap DOMAIN asks'[p].typed = {}
 <2> QED BY <1>6, <1>3, <1>4 DEF AsksInv
<1> QED BY <1>3, <1>5, <1>6 DEF AsksInv, IsWrite

\* A request that is dropped leaves everything else alone.
LEMMA DropKeeps ==
    ASSUME ProviderInv, NEW q \in Asks, asks' = [asks EXCEPT ![q] = NoAsk],
           UNCHANGED <<saved, minted, live, applying, outcome, asked>>
    PROVE  ProviderInv'
<1>1. asked \in Nat  BY DEF ProviderInv, StoresInv
<1>2. ASSUME NEW p \in Asks \ {q}, IsWrite(asks[p]) PROVE AskedWrite(asks[p])'
 <2>4. asked' \in Nat /\ asked <= asked'  BY <1>1
 <2> QED BY <1>1, <2>4, AskedStays, <1>2 DEF ProviderInv, AsksInv
<1>5. ApplyInv'  BY ApplyStays DEF ProviderInv
<1>6. DeletesAreAdopted' /\ SwitchesTakeEffect'  BY OutcomeStays DEF ProviderInv
<1> QED
  BY <1>5, <1>6, <1>2, AskLeaves DEF ProviderInv, StoresInv, RegistryFollows,
    RunningIsUsable, Resolved

\* A write that is made: its names are new in the jar, its file is sound there.
LEMMA StoresWritten ==
    ASSUME StoresInv, NEW next, NEW typed, IsConfiguration(next), JarSound(next, Stored(typed)),
           \A n \in DOMAIN typed : n \in KeyNames /\ n[1] <= asked /\ n \notin DOMAIN minted,
           saved' = next, minted' = Stored(typed), UNCHANGED <<live, asked>>
    PROVE  StoresInv'
<1> DEFINE held == Stored(typed)
<1>1. /\ DOMAIN held = DOMAIN minted \cup DOMAIN typed
      /\ \A n \in DOMAIN minted : held[n] = minted[n]
  BY DEF Stored
<1> HIDE DEF held
<1>2. minted' = held  BY DEF held
<1>3. JarSound(live.config, minted)  BY DEF StoresInv
<1>5. ASSUME NEW n \in DOMAIN held PROVE n \in KeyNames /\ n[1] <= asked  BY <1>1 DEF StoresInv
<1>6. RegistryFollows'
 <2>1. ASSUME NEW a \in DOMAIN live.config.providers
       PROVE  Resolved(live.config.providers[a])' = Resolved(live.config.providers[a])
  <3> DEFINE p == live.config.providers[a]
  <3>1. ProviderSound(p, minted)  BY <1>3, SoundEach
  <3>2. UNCHANGED p  OBVIOUS
  <3> HIDE DEF p
  <3>4. \A h \in DOMAIN p.headers : held[p.headers[h]] = minted[p.headers[h]]
    BY <1>1, <3>1 DEF ProviderSound
  <3>5. Resolved(p)' = Resolved(p)  BY <1>2, <3>2, <3>4, <1>1, <3>1 DEF Resolved, ProviderSound
  <3> QED BY <3>5 DEF p
 <2> QED BY <2>1 DEF StoresInv, RegistryFollows
<1>8. RunningIsUsable'  BY DEF StoresInv, RunningIsUsable
<1> QED BY <1>2, <1>5, <1>6, <1>8, <1>1, <1>3, GrownJar DEF StoresInv, held

\* The other requests that wait are not touched by the names of one that is written.
LEMMA AsksWritten ==
    ASSUME StoresInv, AsksInv, NEW q \in Asks, NEW typed,
           typed = Unkeyed \/ (IsWrite(asks[q]) /\ typed = asks[q].typed),
           asks' = [asks EXCEPT ![q] = NoAsk], minted' = Stored(typed), UNCHANGED <<live, asked>>
    PROVE  AsksInv'
<1>1. ASSUME NEW p \in Asks \ {q}, IsWrite(asks[p]) PROVE AskedWrite(asks[p])'
 <2> DEFINE ask == asks[p]
            held == Stored(ask.typed)
            grown == Stored(ask.typed)'
 <2>1. ask' = ask
  <3> QED BY DEF AsksInv
 <2>2. AskedWrite(ask)  BY <1>1 DEF AsksInv
 <2>3. DOMAIN ask.typed \cap DOMAIN typed = {}  BY <1>1 DEF AsksInv, Unkeyed
 <2>4. \A n \in DOMAIN typed : n \notin DOMAIN minted
  <3>1. CASE typed = Unkeyed  BY <3>1 DEF Unkeyed
  <3>2. CASE IsWrite(asks[q]) /\ typed = asks[q].typed  BY <3>2 DEF AsksInv, AskedWrite
  <3> QED BY <3>1, <3>2
 <2> HIDE DEF ask
 <2>5. /\ DOMAIN minted' = DOMAIN minted \cup DOMAIN typed
       /\ \A n \in DOMAIN minted : minted'[n] = minted[n]
   BY <2>4 DEF Stored
 <2>6. DOMAIN held \subseteq DOMAIN grown /\ \A n \in DOMAIN held : grown[n] = held[n]
   BY <2>1, <2>5 DEF Stored
 <2>7. JarSound(ask.next, held)  BY <2>2 DEF AskedWrite
 <2> HIDE DEF held, grown
 <2>8. JarSound(ask.next, grown)  BY <2>6, <2>7, GrownJar
 <2>10. ASSUME NEW n \in DOMAIN ask.typed PROVE n \in KeyNames /\ n[1] <= asked' /\ n \notin DOMAIN minted'
   BY <2>2, <2>3, <2>5 DEF AskedWrite
 <2> QED BY <2>1, <2>2, <2>10, <2>8 DEF ask, AskedWrite, grown
<1> QED BY <1>1, AskLeaves

\* A delete that is written as it was checked is one the process adopts.
LEMMA DeleteIsAdoptable ==
    ASSUME StoresInv, NEW ask, AskedWrite(ask), ask.what = "delete", ask.adoptable,
           ask.departed = Departed, saved = ask.revision, FileIsValid(ask.next)
    PROVE  Adoptable(live.config, ask.next)
<1> DEFINE next == ask.next
           c == CandidateOf(live.config, next)
<1>1. /\ IsConfiguration(next) /\ next.chats = saved.chats /\ VisionFits(next)
      /\ \A r \in DOMAIN Departed : Works(next, SettingsOf(next, Departed[r]))
  BY DEF AskedWrite
<1>2. IsConfiguration(live.config) /\ FileIsValid(live.config)
  BY DEF StoresInv, RunningIsUsable
<1>3. FileIsValid(next)  OBVIOUS
<1> HIDE DEF next
<1>4. /\ c.providers = next.providers /\ c.agent = next.agent /\ c.vision = next.vision
      /\ DOMAIN c.chats = DOMAIN live.config.chats
      /\ \A r \in DOMAIN live.config.chats :
            c.chats[r] = IF r \in DOMAIN next.chats THEN next.chats[r] ELSE live.config.chats[r]
  BY <1>1, <1>2, CandidateHas
<1> HIDE DEF c
<1>5. /\ Works(next, next.agent) /\ Refers(next, next.vision) /\ ModelEntryOf(next, next.vision).image
      /\ \A r \in DOMAIN next.chats : Works(next, SettingsOf(next, next.chats[r]))
  BY <1>3, ResolvesEach DEF FileIsValid
<1>6. ASSUME NEW s, Works(next, s) PROVE Works(c, s)
  BY <1>4, <1>6 DEF Works, Refers, ModelEntryOf
<1>7. ASSUME NEW r \in DOMAIN c.chats PROVE Works(c, SettingsOf(c, c.chats[r]))
 <2>1. SettingsOf(c, c.chats[r]) = SettingsOf(next, c.chats[r])  BY <1>4, SettingsOfSame
 <2>2. CASE r \in DOMAIN next.chats
  <3> QED BY <1>5, <1>6, <2>1, <2>2, <1>4
 <2>3. CASE r \notin DOMAIN next.chats
  <3> QED BY <1>6, <2>1, <1>1, <2>3, <1>4 DEF Departed
 <2> QED BY <2>2, <2>3
<1>8. NamesResolve(c)
 <2> QED BY <1>7, ResolvesEach, <1>4, <1>5, <1>6 DEF Refers, ModelEntryOf
<1> QED
  BY <1>3, <1>2, <1>4, <1>8, <1>1 DEF Adoptable, next, c, FileIsValid,
    VisionFits, ModelEntryOf

\* A request that is written, or refused because the file moved.
LEMMA ServeAskKeeps ==
    ASSUME ProviderInv, ServeAsk
    PROVE  ProviderInv'
<1>1. PICK q \in Asks :
        /\ asks[q].what \notin {"none", "switch"} /\ asks' = [asks EXCEPT ![q] = NoAsk]
        /\ IF saved = asks[q].revision /\ FileIsValid(asks[q].next)
           THEN Write(asks[q], asks[q].next, asks[q].typed,
                      asks[q].adoptable /\ asks[q].departed = Departed)
           ELSE UNCHANGED <<saved, minted, applying>>
  BY DEF ServeAsk
<1>2. UNCHANGED <<live, outcome, asked>> /\ applying = NoApply  BY DEF ServeAsk
<1> DEFINE ask == asks[q]
           expected == ask.adoptable /\ ask.departed = Departed
<1>3. IsWrite(ask) /\ AskedWrite(ask)  BY <1>1 DEF IsWrite, ProviderInv, AsksInv
<1>4. CASE saved = ask.revision /\ FileIsValid(ask.next)
 <2>2. /\ saved' = ask.next /\ minted' = Stored(ask.typed)
       /\ applying' = [stage |-> "load", ask |-> ask, wrote |-> ask.next, loaded |-> ask.next,
                       expected |-> expected]
   BY <1>1, <1>4 DEF Write
 <2>3. expected => ask.adoptable /\ ask.departed = Departed  OBVIOUS
 <2>4. AsksInv'  BY <1>1, <1>2, <1>3, <2>2, AsksWritten DEF ProviderInv
 <2> HIDE DEF ask, expected
 <2>8. ApplySound'
   BY <1>2, <1>3, <2>2, <1>4, <2>3, DeleteIsAdoptable DEF ApplySound, IsWrite,
     ProviderInv
 <2>9. DeletesAreAdopted' /\ SwitchesTakeEffect'  BY <1>2, OutcomeStays DEF ProviderInv
 <2> QED
   BY <2>4, <2>8, <2>9, <1>2, <1>3, <2>2, StoresWritten DEF ProviderInv,
     ApplyInv, AskedWrite
<1>5. CASE ~(saved = ask.revision /\ FileIsValid(ask.next))
 <2> QED BY <1>1, <1>2, DropKeeps, <1>5
<1> QED BY <1>4, <1>5

\* A switch that is asked for waits.
LEMMA AskSwitchKeeps ==
    ASSUME ProviderInv, NEW target, NEW ref, AskSwitch(target, ref),
           target = "agent" => ref \in [provider : Aliases, model : ModelIds],
           target # "agent" => /\ target \in DOMAIN live.config.chats
                               /\ ref \in [provider : Aliases, model : ModelIds] \cup {Default}
    PROVE  ProviderInv'
<1>1. PICK q \in Asks :
        asks' = [asks EXCEPT ![q] =
            [what |-> "switch", revision |-> saved, target |-> target, ref |-> ref]]
  BY DEF AskSwitch
<1>2. /\ asked < AskBound /\ asked' = asked + 1
      /\ UNCHANGED <<saved, minted, live, applying, outcome>>
  BY DEF AskSwitch
<1> DEFINE new == [what |-> "switch", revision |-> saved, target |-> target, ref |-> ref]
<1>3. new.what = "switch" /\ new.target = target /\ new.ref = ref  OBVIOUS
<1>4. asks' = [p \in Asks |-> IF p = q THEN new ELSE asks[p]]
 <2> QED BY <1>1 DEF ProviderInv, AsksInv
<1> HIDE DEF new
<1>5. /\ asks' = [p \in Asks |-> asks'[p]] /\ asks'[q] = new
      /\ \A p \in Asks \ {q} : asks'[p] = asks[p]
  BY <1>4
<1>7. ASSUME NEW p \in Asks
      PROVE  /\ IsWrite(asks'[p]) => AskedWrite(asks[p])'
             /\ asks'[p].what = "switch" => AskedSwitch(asks[p])'
 <2>1. CASE p = q
  <3> QED BY <1>2, <1>3, <1>5, <2>1 DEF AskedSwitch, IsWrite
 <2>2. CASE p # q
  <3>1. asks'[p] = asks[p]  BY <1>5, <2>2
  <3>2. /\ IsWrite(asks[p]) => AskedWrite(asks[p])
        /\ asks[p].what = "switch" => AskedSwitch(asks[p])
    BY DEF ProviderInv, AsksInv
  <3> QED BY <1>2, <3>1, <3>2, AskedStays DEF AskedSwitch, ProviderInv, StoresInv
 <2> QED BY <2>1, <2>2
<1>8. ASSUME NEW a \in Asks, NEW p \in Asks, a # p, IsWrite(asks'[a]), IsWrite(asks'[p])
      PROVE  DOMAIN asks'[a].typed \cap DOMAIN asks'[p].typed = {}
 <2> QED BY <1>8, <1>5, <1>3 DEF ProviderInv, AsksInv, IsWrite
<1>9. AsksInv'  BY <1>5, <1>7, <1>8 DEF AsksInv, IsWrite
<1>12. DeletesAreAdopted' /\ SwitchesTakeEffect'  BY <1>2, OutcomeStays DEF ProviderInv
<1> QED BY <1>9, <1>12, <1>2, StoresStay, ApplyStays DEF ProviderInv

\* /model in a chat and the panel's switch.
LEMMA PickModelKeeps ==
    ASSUME ProviderInv, PickModel \/ PutModel
    PROVE  ProviderInv'
<1>1. Options \subseteq [provider : Aliases, model : ModelIds]  BY DEF Options, ModelReferences
<1>2. CASE PickModel
 <2>1. PICK r \in DOMAIN live.config.chats, ref \in Options \cup {Default} : AskSwitch(r, ref)
   BY <1>2 DEF PickModel
 <2>2. r # "agent"  BY ProviderAssumption DEF ProviderInv, StoresInv, IsConfiguration, IsPartial
 <2> QED BY <1>1, <2>1, <2>2, AskSwitchKeeps
<1>3. CASE PutModel
 <2>1. PICK ref \in Options : AskSwitch("agent", ref)  BY <1>3 DEF PutModel
 <2> QED BY <2>1, AskSwitchKeeps, <1>1
<1> QED BY <1>2, <1>3

\* A set of numbers that is not empty has a least one.
LEMMA LeastLevel ==
    ASSUME NEW levels \in SUBSET Nat, levels # {}
    PROVE  Weakest(levels) \in levels
<1>1. PICK x \in levels : \A y \in levels : ~ (<<y, x>> \in OpToRel(<, Nat))
  BY WFMin, NatLessThanWellFounded
<1>2. \A y \in levels : ~ (y < x)  BY <1>1 DEF OpToRel
<1>3. \A y \in levels : x <= y  BY <1>2
<1> QED BY <1>3 DEF Weakest

\* What an option makes of the agent or of a chat.
LEMMA SwitchToIs ==
    ASSUME IsConfiguration(live.config), NEW ref \in Options \cup {Default}
    PROVE  /\ SwitchTo(ref) \in ChatRows
           /\ ref \in [provider : Aliases, model : ModelIds] => SwitchTo(ref) \in AgentRows
           /\ SwitchTo(ref).provider = ref.provider /\ SwitchTo(ref).model = ref.model
<1> DEFINE level == IF ref = Default THEN NoLevel ELSE Weakest(ModelEntryOf(live.config, ref).levels)
<1>1. SwitchTo(ref) = [provider |-> ref.provider, model |-> ref.model, level |-> level]
  BY DEF SwitchTo
<1>2. level \in Levels
 <2>1. CASE ref = Default  BY <2>1 DEF Levels
 <2>2. CASE ref # Default
  <3> DEFINE e == ModelEntryOf(live.config, ref)
  <3>2. e \in Entries
   <4> QED BY <2>2 DEF Refers, ModelEntryOf, IsProvider, IsPartial, IsConfiguration, Options,
          ModelReferences
  <3>3. level = Weakest(e.levels)  BY <2>2
  <3> HIDE DEF e
  <3> HIDE DEF level
  <3> QED BY <3>2, <3>3, LeastLevel, ProviderAssumption DEF Levels, Entries
 <2> QED BY <2>1, <2>2
<1> HIDE DEF level
<1>4. ref \in [provider : Aliases, model : ModelIds] => ref.provider \in Aliases /\ ref.model \in ModelIds
  OBVIOUS
<1> QED BY <1>1, <1>2, <1>4, OptionIs DEF ChatRows, AgentRows, Options

\* A switch that is written gives its target the model that was asked for.
LEMMA SwitchedIs ==
    ASSUME StoresInv, NEW q \in Asks, asks[q].what = "switch", AskedSwitch(asks[q]),
           asks[q].ref \in Options \cup {Default},
           asks[q].target # "agent" => asks[q].target \in DOMAIN saved.chats
    PROVE  LET next == Switched(asks[q])
           IN  /\ IsConfiguration(next) /\ next.providers = saved.providers
               /\ SwitchWritten(asks[q], next)
<1> DEFINE ask == asks[q]
           s == SwitchTo(ask.ref)
           next == Switched(ask)
<1>1. IsConfiguration(saved) /\ IsConfiguration(live.config)  BY DEF StoresInv
<1>2. /\ s \in ChatRows /\ s.provider = ask.ref.provider /\ s.model = ask.ref.model
      /\ ask.ref \in [provider : Aliases, model : ModelIds] => s \in AgentRows
  BY <1>1, SwitchToIs
<1>3. /\ ask.target = "agent" => ask.ref \in [provider : Aliases, model : ModelIds]
      /\ ask.target # "agent" => ask.target \in DOMAIN live.config.chats
  BY DEF AskedSwitch
<1>4. ask.target # "agent" => ask.target \in DOMAIN saved.chats  OBVIOUS
<1>5. next = IF ask.target = "agent" THEN [saved EXCEPT !.agent = s]
             ELSE [saved EXCEPT !.chats[ask.target] = s]
  BY DEF Switched
<1> HIDE DEF ask, s, next
<1>6. CASE ask.target = "agent"
 <2>3. IsConfiguration(next) /\ next.providers = saved.providers /\ next.agent = s
   BY <1>5, <1>6, <1>1, OtherAgent, <1>2, <1>3
 <2> QED BY <2>3, <1>2, <1>6 DEF next, ask, SwitchWritten
<1>7. CASE ask.target # "agent"
 <2> DEFINE cs == [saved.chats EXCEPT ![ask.target] = s]
 <2>2. /\ IsPartial(cs, Rooms, ChatRows) /\ ask.target \in DOMAIN cs /\ cs[ask.target] = s
   BY <1>2, <1>4, <1>7, <1>1 DEF IsPartial, IsConfiguration, ChatRows
 <2>3. next = [saved EXCEPT !.chats = cs]  BY <1>5, <1>7
 <2> HIDE DEF cs
 <2>5. IsConfiguration(next) /\ next.providers = saved.providers /\ next.chats = cs
   BY <2>3, <1>1, <2>2, OtherChats
 <2> QED BY <2>5, <1>2, <1>3, <1>7, <2>2 DEF next, ask, SwitchWritten
<1> QED BY <1>6, <1>7

\* A file without new names is as sound in the jar it is written with.
LEMMA NothingNew ==
    ASSUME StoresInv
    PROVE  /\ JarSound(saved, Stored(Unkeyed))
           /\ \A n \in DOMAIN Unkeyed : n \in KeyNames /\ n[1] <= asked /\ n \notin DOMAIN minted
<1> QED BY NothingTyped DEF Unkeyed

\* A switch is written, or refused because its option or its chat is gone.
LEMMA ServeSwitchKeeps ==
    ASSUME ProviderInv, ServeSwitch
    PROVE  ProviderInv'
<1>1. PICK q \in Asks :
        /\ asks[q].what = "switch" /\ asks' = [asks EXCEPT ![q] = NoAsk]
        /\ IF /\ asks[q].ref \in Options \cup {Default}
              /\ asks[q].target = "agent" => saved = asks[q].revision
              /\ asks[q].target # "agent" => asks[q].target \in DOMAIN saved.chats
              /\ FileIsValid(saved) /\ FileIsValid(Switched(asks[q]))
           THEN Write(asks[q], Switched(asks[q]), Unkeyed, FALSE)
           ELSE UNCHANGED <<saved, minted, applying>>
  BY DEF ServeSwitch
<1>2. UNCHANGED <<live, outcome, asked>> /\ applying = NoApply  BY DEF ServeSwitch
<1>3. CASE /\ asks[q].ref \in Options \cup {Default}
           /\ asks[q].target # "agent" => asks[q].target \in DOMAIN saved.chats
           /\ Write(asks[q], Switched(asks[q]), Unkeyed, FALSE)
 <2> DEFINE ask == asks[q]
            next == Switched(ask)
 <2>1. AskedSwitch(asks[q]) /\ StoresInv  BY <1>1 DEF ProviderInv, AsksInv
 <2>2. /\ IsConfiguration(next) /\ next.providers = saved.providers /\ SwitchWritten(ask, next)
   BY <1>1, <1>3, <2>1, SwitchedIs
 <2>3. /\ saved' = next /\ minted' = Stored(Unkeyed)
       /\ applying' = [stage |-> "load", ask |-> ask, wrote |-> next, loaded |-> next,
                       expected |-> FALSE]
   BY <1>3 DEF Write
 <2> HIDE DEF ask, next
 <2>6. JarSound(next, Stored(Unkeyed))
  <3> DEFINE held == Stored(Unkeyed)
  <3>1. JarSound(saved, held)  BY <2>1, NothingNew
  <3> HIDE DEF held
  <3> QED BY <2>2, <3>1, SameProviders DEF held
 <2>7. StoresInv'  BY <1>2, <2>1, <2>2, <2>3, <2>6, NothingNew, StoresWritten
 <2>10. ApplySound'  BY <2>2, <1>2, <1>1, <2>3 DEF ApplySound, SwitchWritten
 <2> QED
   BY <2>7, <2>10, <1>1, <1>2, <2>1, <2>3, AsksWritten, OutcomeStays DEF
     ProviderInv, ApplyInv
<1>4. CASE UNCHANGED <<saved, minted, applying>>  BY <1>1, <1>2, <1>4, DropKeeps
<1> QED BY <1>1, <1>3, <1>4

\* The requests that wait are left alone, and so are jar and running chats.
LEMMA AsksStay ==
    ASSUME AsksInv, asked \in Nat, UNCHANGED <<asks, minted, asked>>,
           DOMAIN live'.config.chats = DOMAIN live.config.chats
    PROVE  AsksInv'
<1>1. ASSUME NEW p \in Asks, IsWrite(asks[p]) PROVE AskedWrite(asks[p])'
 <2> QED BY AskedStays, <1>1 DEF AsksInv
<1>2. ASSUME NEW p \in Asks, asks[p].what = "switch" PROVE AskedSwitch(asks[p])'
  BY <1>2 DEF AsksInv, AskedSwitch
<1> QED BY <1>1, <1>2 DEF AsksInv, IsWrite

\* A reload takes the lock with nothing written.
LEMMA ReloadProvidersKeeps ==
    ASSUME ProviderInv, ReloadProviders
    PROVE  ProviderInv'
<1>1. /\ applying' = [stage |-> "load", ask |-> NoAsk, wrote |-> saved, loaded |-> saved,
                      expected |-> FALSE]
      /\ UNCHANGED <<saved, minted, live, asks, outcome, asked>>
  BY DEF ReloadProviders
<1>5. StoresInv'  BY <1>1 DEF ProviderInv, StoresInv, RegistryFollows, RunningIsUsable, Resolved
<1>6. DeletesAreAdopted' /\ SwitchesTakeEffect'  BY <1>1, OutcomeStays DEF ProviderInv
<1> QED BY <1>5, <1>6, <1>1, AsksStay DEF ProviderInv, ApplyInv, StoresInv, ApplySound, NoAsk

\* The file is loaded as it is by now, or refused.
LEMMA LoadKeeps ==
    ASSUME ProviderInv, LoadSaved
    PROVE  ProviderInv'
<1>1. applying.stage = "load" /\ UNCHANGED <<saved, minted, live, asks, asked>>
  BY DEF LoadSaved
<1>2. ApplySound  BY <1>1 DEF ProviderInv, ApplyInv, NoApply
<1>3. AsksInv'  BY <1>1, AsksStay DEF ProviderInv, StoresInv
<1>4. StoresInv'  BY <1>1 DEF ProviderInv, StoresInv, RegistryFollows, RunningIsUsable, Resolved
<1>5. CASE /\ FileIsValid(saved) /\ FileIsValid(CandidateOf(live.config, saved))
           /\ applying' = [applying EXCEPT !.stage = "build", !.loaded = saved]
           /\ UNCHANGED outcome
 <2>1. PICK t, a, w, l, e : applying = [stage |-> t, ask |-> a, wrote |-> w, loaded |-> l, expected |-> e]
   BY <1>2 DEF ApplySound
 <2> DEFINE r == [applying EXCEPT !.stage = "build"]
 <2>2. r = [stage |-> "build", ask |-> a, wrote |-> w, loaded |-> l, expected |-> e]  BY <2>1
 <2>3. applying' = [r EXCEPT !.loaded = saved]  BY <1>5
 <2> HIDE DEF r
 <2>4. applying' = [stage |-> "build", ask |-> a, wrote |-> w, loaded |-> saved, expected |-> e]
   BY <2>2, <2>3
 <2>7. ApplySound'
   BY <1>1, <1>2, <1>5, <2>1, <2>4 DEF ApplySound, SwitchWritten, ProviderInv,
     StoresInv
 <2> QED BY <1>3, <1>4, <2>7, <1>1, <1>5, OutcomeStays DEF ProviderInv, ApplyInv
<1>6. CASE /\ ~(FileIsValid(saved) /\ FileIsValid(CandidateOf(live.config, saved)))
           /\ Done(saved, FALSE)
 <2> DEFINE un == saved = applying.wrote
 <2>1. /\ applying' = NoApply
       /\ outcome' = [ask |-> applying.ask, ok |-> FALSE, undisturbed |-> un,
                      expected |-> applying.expected]
   BY <1>6 DEF Done
 <2>2. un => saved = applying.wrote  OBVIOUS
 <2> HIDE DEF un
 <2>3. outcome'.ask = applying.ask /\ outcome'.ok = FALSE /\ outcome'.undisturbed = un
       /\ outcome'.expected = applying.expected
   BY <2>1
 <2> QED
   BY <1>3, <1>4, <2>1, <2>3, <1>2, <1>6, <2>2 DEF ProviderInv, ApplyInv,
     SwitchesTakeEffect, DeletesAreAdopted, ApplySound, Adoptable
<1> QED BY <1>5, <1>6 DEF LoadSaved

\* All is published together, or nothing because vision may answer too much.
LEMMA PublishProvidersKeeps ==
    ASSUME ProviderInv, PublishProviders
    PROVE  ProviderInv'
<1> DEFINE c == CandidateOf(live.config, applying.loaded)
           reg == BuildRegistry(live.config, live.registry, c)
           ok == VisionFits(c)
           un == applying.loaded = applying.wrote
<1>1. /\ applying.stage = "build" /\ UNCHANGED <<saved, minted, asks, asked>>
      /\ live' = IF ok THEN [config |-> c, registry |-> reg] ELSE live
      /\ applying' = NoApply
      /\ outcome' = [ask |-> applying.ask, ok |-> ok, undisturbed |-> un,
                     expected |-> applying.expected]
  BY DEF PublishProviders, Done
<1>2. ApplySound  BY <1>1 DEF ProviderInv, ApplyInv, NoApply
<1>3. /\ IsConfiguration(applying.loaded) /\ JarSound(applying.loaded, minted)
      /\ FileIsValid(c)
  BY <1>1, <1>2 DEF ApplySound
<1>5. /\ IsConfiguration(c) /\ c.providers = applying.loaded.providers
      /\ c.agent = applying.loaded.agent /\ DOMAIN c.chats = DOMAIN live.config.chats
      /\ \A r \in DOMAIN live.config.chats :
            c.chats[r] = IF r \in DOMAIN applying.loaded.chats THEN applying.loaded.chats[r]
                         ELSE live.config.chats[r]
  BY <1>3, CandidateHas DEF ProviderInv, StoresInv
<1>6. applying.ask.what = "delete" /\ applying.expected /\ un => ok
  BY <1>2 DEF ApplySound, Adoptable
<1>7. ok <=> VisionFits(c)  OBVIOUS
<1>8. reg = [a \in DOMAIN c.providers |->
                IF a \in DOMAIN live.config.providers
                   /\ Connection(live.config.providers[a]) = Connection(c.providers[a])
                THEN live.registry[a] ELSE Resolved(c.providers[a])]
  BY DEF BuildRegistry
<1>10. un => applying.loaded = applying.wrote  OBVIOUS
<1> HIDE DEF c, reg, ok, un
<1>11. /\ outcome'.ask = applying.ask /\ outcome'.ok = ok /\ outcome'.undisturbed = un
       /\ outcome'.expected = applying.expected
  BY <1>1
<1>12. DeletesAreAdopted'  BY <1>6, <1>11 DEF DeletesAreAdopted
<1>14. ASSUME NEW a \in DOMAIN c.providers PROVE reg[a] = Resolved(c.providers[a])
 <2>1. CASE /\ a \in DOMAIN live.config.providers
            /\ Connection(live.config.providers[a]) = Connection(c.providers[a])
  <3> DEFINE p == live.config.providers[a]
             q == c.providers[a]
  <3>1. live.registry[a] = Resolved(p)  BY <2>1 DEF ProviderInv, StoresInv, RegistryFollows
  <3>2. Connection(p) = Connection(q)  BY <2>1
  <3> HIDE DEF p, q
  <3>5. Resolved(p) = Resolved(q)  BY <3>2 DEF Resolved, Connection
  <3> QED BY <3>1, <3>5, <1>8, <2>1 DEF q
 <2>2. CASE ~(/\ a \in DOMAIN live.config.providers
              /\ Connection(live.config.providers[a]) = Connection(c.providers[a]))
   BY <1>8, <2>2
 <2> QED BY <2>1, <2>2
<1>15. CASE ok
 <2>1. live'.config = c /\ live'.registry = reg  BY <1>1, <1>15
 <2>4. RunningIsUsable'  BY <1>3, <1>7, <1>15, <2>1 DEF RunningIsUsable
 <2>5. DOMAIN reg = DOMAIN c.providers  BY <1>8
 <2>6. StoresInv'
   BY <1>1, <1>5, <2>1, <2>4, <2>5, <1>3, SameProviders, <1>14 DEF ProviderInv,
     StoresInv, RegistryFollows, Resolved
 <2>7. SwitchesTakeEffect'
  <3>1. SUFFICES ASSUME applying.ask.what = "switch", un
                 PROVE  LET settings == IF applying.ask.target = "agent" THEN c.agent
                                        ELSE c.chats[applying.ask.target]
                        IN  /\ settings.provider = applying.ask.ref.provider
                            /\ settings.model = applying.ask.ref.model
    BY <1>11, <2>1 DEF SwitchesTakeEffect
  <3> QED BY <1>5, <1>2, <1>10, <3>1 DEF SwitchWritten, ApplySound
 <2> QED BY <1>1, <1>12, <2>6, <2>7, <1>5, <2>1, AsksStay DEF ProviderInv, ApplyInv, StoresInv
<1>16. CASE ~ok
 <2>1. live' = live  BY <1>1, <1>16
 <2>4. SwitchesTakeEffect'  BY <1>11, <1>16 DEF SwitchesTakeEffect, VisionFits
 <2> QED
   BY <1>1, <1>12, <2>4, <2>1, AsksStay DEF ProviderInv, ApplyInv, StoresInv,
     RegistryFollows, RunningIsUsable, Resolved
<1> QED BY <1>15, <1>16

\* An edit by hand is of chats or of the agent.
LEMMA EditByHandKeeps ==
    ASSUME ProviderInv, EditByHand
    PROVE  ProviderInv'
<1>1. UNCHANGED <<minted, live, asks, applying, outcome, asked>>  BY DEF EditByHand
<1>2. IsConfiguration(saved) /\ IsConfiguration(live.config)  BY DEF ProviderInv, StoresInv
<1>3. IsPartial(saved.chats, Rooms, ChatRows)  BY <1>2 DEF IsConfiguration, ChatRows
<1>4. IsConfiguration(saved') /\ saved'.providers = saved.providers
 <2>1. CASE \E r \in DOMAIN saved.chats :
              saved' = [saved EXCEPT !.chats = [s \in DOMAIN @ \ {r} |-> @[s]]]
  <3>1. PICK r \in DOMAIN saved.chats :
          saved' = [saved EXCEPT !.chats = [s \in DOMAIN saved.chats \ {r} |-> saved.chats[s]]]
    BY <2>1
  <3> DEFINE cs == [s \in DOMAIN saved.chats \ {r} |-> saved.chats[s]]
  <3>2. IsPartial(cs, Rooms, ChatRows)  BY <1>3 DEF IsPartial
  <3>3. saved' = [saved EXCEPT !.chats = cs]  BY <3>1
  <3> HIDE DEF cs
  <3> QED BY <3>3, <1>2, <3>2, OtherChats
 <2>2. CASE \E ref \in Options : saved' = [saved EXCEPT !.agent = SwitchTo(ref)]
  <3>1. PICK ref \in Options : saved' = [saved EXCEPT !.agent = SwitchTo(ref)]  BY <2>2
  <3> DEFINE s == SwitchTo(ref)
  <3>3. s \in AgentRows  BY <1>2, SwitchToIs DEF Options, ModelReferences
  <3>4. saved' = [saved EXCEPT !.agent = s]  BY <3>1
  <3> HIDE DEF s
  <3>5. LET d == [saved EXCEPT !.agent = s]
        IN  IsConfiguration(d) /\ d.providers = saved.providers
    BY <1>2, <3>3, OtherAgent
  <3> QED BY <3>4, <3>5
 <2>3. CASE \E ref \in Options \cup {Default}, r \in DOMAIN saved.chats :
              saved' = [saved EXCEPT !.chats[r] = SwitchTo(ref)]
  <3>1. PICK ref \in Options \cup {Default}, r \in DOMAIN saved.chats :
          saved' = [saved EXCEPT !.chats[r] = SwitchTo(ref)]
    BY <2>3
  <3> DEFINE s == SwitchTo(ref)
             cs == [saved.chats EXCEPT ![r] = s]
  <3>2. s \in ChatRows  BY <1>2, SwitchToIs
  <3>3. saved' = [saved EXCEPT !.chats = cs]  BY <3>1
  <3> HIDE DEF s
  <3>4. IsPartial(cs, Rooms, ChatRows)  BY <1>3, <3>2 DEF IsPartial
  <3> HIDE DEF cs
  <3>5. LET d == [saved EXCEPT !.chats = cs]
        IN  IsConfiguration(d) /\ d.providers = saved.providers
    BY <1>2, <3>4, OtherChats
  <3> QED BY <3>3, <3>5
 <2> QED BY <2>1, <2>2, <2>3 DEF EditByHand
<1>5. StoresInv'
 <2> QED
   BY <1>1, <1>4, SameProviders DEF ProviderInv, StoresInv, RegistryFollows,
     RunningIsUsable, Resolved
<1>8. DeletesAreAdopted' /\ SwitchesTakeEffect'  BY <1>1, OutcomeStays DEF ProviderInv
<1> QED BY <1>5, <1>8, <1>1, AsksStay, ApplyStays DEF ProviderInv, StoresInv

\* The process starts with a file it takes.
LEMMA ProviderStarts ==
    ASSUME ProviderInit
    PROVE  ProviderInv
<1>1. /\ IsConfiguration(saved) /\ FileIsValid(saved) /\ VisionFits(saved)
      /\ NamesOf(saved) \subseteq DOMAIN FirstJar /\ AtHome(saved, FirstJar)
  BY ProviderAssumption DEF ProviderInit
<1>2. minted = [n \in NamesOf(saved) |-> FirstJar[n]]  BY DEF ProviderInit
<1>3. JarSound(saved, minted)
 <2>1. ASSUME NEW a \in DOMAIN saved.providers PROVE ProviderSound(saved.providers[a], minted)
  <3>3. {saved.providers[a].key} \cup {saved.providers[a].headers[h] : h \in DOMAIN saved.providers[a].headers}
        \subseteq NamesOf(saved)
    BY DEF NamesOf
  <3> QED BY <1>2, <3>3, SoundEach, <1>1 DEF ProviderSound, JarSound
 <2> QED BY <2>1, SoundEach
<1>4. /\ live.config = saved
      /\ live.registry = [a \in DOMAIN saved.providers |-> Resolved(saved.providers[a])]
      /\ asks = [q \in Asks |-> NoAsk] /\ applying = NoApply /\ outcome = NoOutcome /\ asked = 0
  BY DEF ProviderInit
<1>5. ASSUME NEW n \in DOMAIN minted PROVE n \in KeyNames /\ n[1] <= asked
 <2> QED BY <1>4, <1>1, <1>2, ProviderAssumption DEF KeyNames
<1>8. StoresInv
  BY <1>1, <1>3, <1>4, <1>5, ProviderAssumption DEF StoresInv, RegistryFollows,
    RunningIsUsable
<1> QED
  BY <1>4, <1>8 DEF ProviderInv, ApplyInv, AsksInv, IsWrite, NoAsk,
    DeletesAreAdopted, SwitchesTakeEffect, NoOutcome

\* Every step keeps the invariant.
LEMMA ProviderStep == ProviderInv /\ [ProviderNext]_providerVars => ProviderInv'
<1> SUFFICES ASSUME ProviderInv, [ProviderNext]_providerVars PROVE ProviderInv'  OBVIOUS
<1>1. CASE UNCHANGED providerVars
 <2>1. UNCHANGED <<saved, minted, live, asks, applying, outcome, asked>>
   BY <1>1 DEF providerVars
 <2>4. ApplyInv' /\ DeletesAreAdopted' /\ SwitchesTakeEffect'
   BY <2>1, ApplyStays, OutcomeStays DEF ProviderInv
 <2> QED
   BY <2>4, <2>1, AsksStay DEF ProviderInv, StoresInv, RegistryFollows,
     RunningIsUsable, Resolved
<1>2. CASE ProviderNext
  BY <1>2, CreateProviderKeeps, UpdateConnectionKeeps, DeleteProviderKeeps, EditModelsKeeps,
     ChooseVisionKeeps, ChooseLevelKeeps, EditChatKeeps, CreateChatKeeps, DeleteChatKeeps,
     PickModelKeeps, ServeAskKeeps, ServeSwitchKeeps, ReloadProvidersKeeps, LoadKeeps, PublishProvidersKeeps,
     EditByHandKeeps DEF ProviderNext
<1> QED BY <1>1, <1>2

\* providers-admin.ts, #providerWrite, #applyFile: what the process sends is what the jar
\* holds under its names, and to the endpoint it was typed for; every model it may use is
\* registered; what was checked is not refused for something it never names, and a switch
\* that was answered with success is in force.
THEOREM ProvidersStayFaithful == ProviderSpec => []ProvidersKeepFaith
<1>1. ProviderInv => ProvidersKeepFaith
 <2> SUFFICES ASSUME ProviderInv PROVE ProvidersKeepFaith  OBVIOUS
 <2>2. CredentialsStay
  <3>1. ASSUME NEW a \in DOMAIN live.registry
        PROVE  /\ live.registry[a].key.url = live.registry[a].url
               /\ \A h \in DOMAIN live.registry[a].headers :
                     live.registry[a].headers[h].url = live.registry[a].url
   <4> DEFINE p == live.config.providers[a]
   <4>1. a \in DOMAIN live.config.providers  BY DEF ProviderInv, StoresInv
   <4>2. live.registry[a] = Resolved(p)  BY <4>1 DEF ProviderInv, StoresInv, RegistryFollows
   <4>3. ProviderSound(p, minted)  BY <4>1, SoundEach DEF ProviderInv, StoresInv
   <4> HIDE DEF p
   <4> QED BY <4>2, <4>3 DEF Resolved, ProviderSound
  <3> QED BY <3>1 DEF CredentialsStay
 <2>3. ChecksAreEnough
  <3>1. ASSUME NEW q \in Asks, asks[q].what \in {"delete", "vision", "level", "unlist"},
               asks[q].what = "level" =>
                  \A r \in DOMAIN asks[q].next.chats : ChatMayBe(asks[q].next.chats[r])
        PROVE  NamesResolve(asks[q].next)
   <4> QED BY <3>1 DEF AskedWrite, ProviderInv, AsksInv, IsWrite
  <3> QED BY <3>1 DEF ChecksAreEnough
 <2> QED BY <2>2, <2>3 DEF ProvidersKeepFaith, ProviderInv, StoresInv, JarSound, ProviderTypeOK
<1> QED BY <1>1, ProviderStarts, ProviderStep, PTL DEF ProviderSpec

-----------------------------------------------------------------------------
(* The panel's lists, the memories, the payload sweep and the operators.       *)

-----------------------------------------------------------------------------
(* Lists, memories and the sweep: the inductive invariant.                     *)

\* What rows a list can have, and the key it has them by.
RowSpace(list) == IF list = "contexts" THEN Contexts ELSE Nat
RowKey(list, r) == IF list = "contexts" THEN ContextKey(r) ELSE r

\* Memories are told apart by their id.
MemorySet == [id: MemoryIds, room: MemoryRooms, expires: Nat]
MemoriesAre(rows) ==
    /\ IsFiniteSet(rows) /\ rows \subseteq MemorySet
    /\ \A m, n \in rows : m.id = n.id => m = n

\* What the lists are read from; no conversation was active after now.
TablesAre ==
    /\ audit \in [AuditLists -> Seq(BOOLEAN)]
    /\ moment \in Nat /\ contexts \in [Contexts -> Nat]
    /\ \A c \in Contexts : contexts[c] <= moment
    /\ MemoriesAre(memories)

WalkSet == [list: Lists \cup {"none"}, cursor: Nat, steady: SUBSET Nat,
            listed: Seq(SUBSET Nat), ended: BOOLEAN]

\* No row is on two pages.
ApartIn(listed) ==
    \A m, n \in DOMAIN listed : \A r \in listed[m] : r \in listed[n] => m = n

\* The cursor has passed the row.
PassedBy(w, r) == w.ended \/ RowKey(w.list, r) >= w.cursor

\* What was listed is behind the cursor, and stays behind it.
ListedBehind(w) ==
    \A n \in DOMAIN w.listed : \A r \in w.listed[n] :
        r \in RowSpace(w.list) /\ PassedBy(w, r)

\* A row that kept its place is in the list, and was listed if the cursor has passed it.
SteadyIn(w, r) == r \in RowSpace(w.list) /\ RowKey(w.list, r) \in KeysOf(w.list)
SteadyListed(w, r) == PassedBy(w, r) => \E n \in DOMAIN w.listed : r \in w.listed[n]

WalkFits(w) ==
    /\ w \in WalkSet
    /\ w.list = "none" => w.listed = <<>> /\ w.cursor = 0 /\ ~w.ended /\ w.steady = {}
    /\ w.list # "none" => w.ended \/ w.cursor > 0
    /\ ApartIn(w.listed)
    /\ ListedBehind(w)
    /\ \A r \in w.steady : SteadyIn(w, r) /\ SteadyListed(w, r)

SweepSet == [upper: Nat, cursor: Nat, batches: Nat, owed: SUBSET Nat, running: BOOLEAN]

\* Of the calls a sweep owes to clear, those it has passed are cleared; a batch has
\* moved it by a whole batch, the last one excepted.
SweepFits ==
    /\ payloads \in Seq([payload: BOOLEAN, open: BOOLEAN]) /\ Len(payloads) <= RecordBound
    /\ sweep \in SweepSet
    /\ sweep.upper <= Len(payloads) /\ sweep.cursor <= sweep.upper
    /\ IF sweep.cursor < sweep.upper THEN sweep.batches * SweepBatch = sweep.cursor
       ELSE sweep.batches * SweepBatch < sweep.upper + SweepBatch
    /\ \A i \in sweep.owed :
          /\ i \in 1..sweep.upper /\ ~payloads[i].open
          /\ i <= sweep.cursor \/ ~sweep.running => ~payloads[i].payload

\* What ended, and who holds the bot.
OperatorsFit ==
    /\ gone = [memories |-> gone.memories, operators |-> gone.operators]
    /\ operators \subseteq Operators
    /\ MemoriesStayHome /\ SeedsKeepControl

RecordsInv == TablesAre /\ WalkFits(walk) /\ SweepFits /\ OperatorsFit


-----------------------------------------------------------------------------
(* Keys and pages.                                                             *)

\* A set of numbers has a smallest one.
LEMMA SmallestKey ==
    ASSUME NEW T \in SUBSET Nat, T # {}
    PROVE  \E x \in T : \A y \in T : x <= y
<1>1. PICK x \in T : \A y \in T : ~ (<<y, x>> \in OpToRel(<, Nat))
  BY WFMin, NatLessThanWellFounded
<1>2. \A y \in T : ~ (y < x)  BY <1>1 DEF OpToRel
<1> QED BY <1>2

\* What is above a member of a finite set of numbers is counted by a number.
LEMMA AboveIs ==
    ASSUME NEW T \in SUBSET Nat, IsFiniteSet(T), NEW k \in T
    PROVE  /\ IsFiniteSet({j \in T : j > k})
           /\ Cardinality({j \in T : j > k}) \in Nat
           /\ Cardinality({j \in T : j > k}) < Cardinality(T)
<1> DEFINE U == {j \in T : j > k}
<1>1. U \in SUBSET T /\ U # T
 <2>1. k \notin U  BY k \in Nat
 <2> QED BY <2>1
<1> HIDE DEF U
<1>2. IsFiniteSet(U) /\ Cardinality(U) <= Cardinality(T) /\ Cardinality(U) # Cardinality(T)
  BY <1>1, FS_Subset
<1>4. IsFiniteSet(U) /\ Cardinality(U) \in Nat /\ Cardinality(U) < Cardinality(T)
  BY <1>2, FS_CardinalityType
<1> QED BY <1>4 DEF U

\* The higher of two members has fewer above it.
LEMMA FewerAbove ==
    ASSUME NEW T \in SUBSET Nat, IsFiniteSet(T), NEW k \in T, NEW i \in T, k < i
    PROVE  Cardinality({j \in T : j > i}) < Cardinality({j \in T : j > k})
<1> DEFINE U == {j \in T : j > k}
<1>1. U \in SUBSET Nat /\ IsFiniteSet(U) /\ i \in U  BY AboveIs
<1>2. {j \in T : j > i} = {j \in U : j > i}
 <2>1. \A j \in T : j > i => j > k
  <3> SUFFICES ASSUME NEW j \in T, j > i PROVE j > k  OBVIOUS
  <3> QED OBVIOUS
 <2> QED BY <2>1
<1> HIDE DEF U
<1> QED BY <1>2, <1>1, AboveIs DEF U

\* A finite set of numbers has a largest one, with none above it.
LEMMA LargestKey ==
    ASSUME NEW T \in SUBSET Nat, IsFiniteSet(T), T # {}
    PROVE  \E x \in T : (\A y \in T : ~ (x < y)) /\ Cardinality({j \in T : j > x}) = 0
<1> DEFINE Above(k) == Cardinality({j \in T : j > k})
           F == {Above(k) : k \in T}
<1>0. \A k \in T : Above(k) \in Nat  BY AboveIs
<1>f. \A k \in T, i \in T : k < i => Above(i) < Above(k)  BY FewerAbove
<1> HIDE DEF Above
<1>1. F \in SUBSET Nat /\ F # {}  BY <1>0
<1>2. PICK n \in F : \A m \in F : n <= m
 <2> HIDE DEF F
 <2> QED BY <1>1, SmallestKey
<1>3. PICK x \in T : Above(x) = n  BY <1>2
<1>4. \A y \in T : ~ (x < y)
 <2> SUFFICES ASSUME NEW y \in T, x < y PROVE FALSE  OBVIOUS
 <2> QED BY <1>3, <1>2, <1>0, <1>f
<1> QED BY <1>4, FS_EmptySet

\* If there is a conversation, one has the highest id.
LEMMA LargestIs ==
    ASSUME NEW c \in Contexts
    PROVE  Max(Contexts) \in Nat
<1>1. \E x \in Contexts : \A y \in Contexts : x >= y
 <2>1. \E x \in Contexts : \A y \in Contexts : ~ (x < y)  BY RecordsAssumption, LargestKey
 <2> QED BY <2>1, RecordsAssumption
<1> QED BY RecordsAssumption, <1>1 DEF Max

\* The key of a conversation is a positive number.
LEMMA ContextKeyIs ==
    ASSUME NEW c \in Contexts, contexts \in [Contexts -> Nat]
    PROVE  ContextKey(c) \in Nat /\ ContextKey(c) > 0
<1>2. contexts[c] \in Nat /\ c \in Nat /\ c > 0  BY RecordsAssumption
<1> QED BY <1>2, LargestIs DEF ContextKey

\* What a page of a set of keys promises: all of them and no cursor, or the first
\* ones and the key of the last.
PageOf(keys) ==
    /\ Visible(keys) \subseteq keys
    /\ NextCursor(keys) \in Nat
    /\ NextCursor(keys) = 0 => Visible(keys) = keys
    /\ NextCursor(keys) > 0 =>
          /\ NextCursor(keys) \in keys
          /\ \A k \in Visible(keys) : k >= NextCursor(keys)
          /\ \A k \in keys \ Visible(keys) : k < NextCursor(keys)

\* A page leaves no gap.
LEMMA PageIs ==
    ASSUME NEW keys \in SUBSET (Nat \ {0}), IsFiniteSet(keys)
    PROVE  PageOf(keys)
<1> DEFINE Above(k) == Cardinality({j \in keys : j > k})
<1>0. keys \in SUBSET Nat  OBVIOUS
<1>1. \A k \in keys : Above(k) \in Nat /\ Above(k) < Cardinality(keys)  BY <1>0, AboveIs
<1>2. \A k \in keys, i \in keys : k < i => Above(i) < Above(k)  BY <1>0, FewerAbove
<1>3. Visible(keys) = {k \in keys : Above(k) < MemoryPage}  BY DEF Visible
<1>4. keys # {} => \E k \in keys : Above(k) = 0  BY <1>0, LargestKey
<1>5. Cardinality(keys) \in Nat /\ MemoryPage \in Nat /\ MemoryPage > 0
  BY FS_CardinalityType, RecordsAssumption
<1> HIDE DEF Above
<1>6. CASE ~ (Cardinality(keys) > MemoryPage)
 <2>1. Visible(keys) = keys
  <3>1. \A k \in keys : Above(k) < MemoryPage  BY <1>1, <1>5, <1>6
  <3> QED BY <1>3, <3>1
 <2> QED BY <2>1, <1>6 DEF PageOf, NextCursor
<1>7. CASE Cardinality(keys) > MemoryPage
 <2>1. keys # {}  BY <1>5, <1>7, FS_EmptySet
 <2>2. Visible(keys) # {} /\ Visible(keys) \in SUBSET Nat  BY <1>3, <1>4, <1>5, <2>1
 <2>3. PICK x \in Visible(keys) : \A y \in Visible(keys) : x <= y  BY <2>2, SmallestKey
 <2> DEFINE z == NextCursor(keys)
 <2>6. z \in keys /\ z \in Nat /\ z > 0 /\ Above(z) < MemoryPage /\ \A y \in Visible(keys) : y >= z
   BY <1>3, <2>2, <2>3, <1>7 DEF Min, NextCursor
 <2>7. ASSUME NEW k \in keys, k \notin Visible(keys) PROVE k < z
  <3>1. k \in Nat /\ k # z /\ ~ (Above(k) < MemoryPage)  BY <1>3, <2>6, <2>7
  <3> QED BY <2>6, <3>1, <1>1, <1>2, <1>5
 <2> HIDE DEF z
 <2> QED BY <1>3, <2>6, <2>7 DEF PageOf, z
<1> QED BY <1>6, <1>7

\* What a function takes a finite set to is finite.
LEMMA ValuesAreFinite ==
    ASSUME NEW T, IsFiniteSet(T), NEW g, DOMAIN g = T, g = [x \in T |-> g[x]]
    PROVE  IsFiniteSet({g[x] : x \in T})
<1> DEFINE V == {g[x] : x \in T}
<1>1. g \in Surjection(T, V)  BY DEF Surjection
<1> HIDE DEF V
<1> QED BY <1>1, FS_Surjection DEF V

\* Each list has finitely many keys, all positive.
LEMMA KeysAre ==
    ASSUME NEW list \in Lists, TablesAre
    PROVE  KeysOf(list) \in SUBSET (Nat \ {0}) /\ IsFiniteSet(KeysOf(list))
<1>1. CASE list = "contexts"
 <2>2. IsFiniteSet({ContextKey(c) : c \in Contexts})
  <3> DEFINE g == [c \in Contexts |-> ContextKey(c)]
  <3>1. DOMAIN g = Contexts /\ g = [c \in Contexts |-> g[c]]  OBVIOUS
  <3>2. {g[c] : c \in Contexts} = {ContextKey(c) : c \in Contexts}  OBVIOUS
  <3> HIDE DEF g
  <3> QED BY <3>2, <3>1, RecordsAssumption, ValuesAreFinite
 <2>3. \A c \in Contexts : ContextKey(c) \in Nat \ {0}
  <3> SUFFICES ASSUME NEW c \in Contexts PROVE ContextKey(c) \in Nat \ {0}  OBVIOUS
  <3> QED BY ContextKeyIs DEF TablesAre
 <2> QED BY <2>2, <2>3, <1>1 DEF KeysOf, ContextKeys
<1>2. CASE list = "memories"
 <2>2. IsFiniteSet({x \in memories : x.expires > moment})
   BY FS_Subset DEF TablesAre, MemoriesAre
 <2>3. IsFiniteSet({m.id : m \in {x \in memories : x.expires > moment}})
  <3> DEFINE T == {x \in memories : x.expires > moment}
             g == [m \in T |-> m.id]
  <3>1. DOMAIN g = T /\ g = [m \in T |-> g[m]]  OBVIOUS
  <3>2. {g[m] : m \in T} = {m.id : m \in T}  OBVIOUS
  <3> HIDE DEF g, T
  <3>3. IsFiniteSet({g[m] : m \in T})  BY <2>2, <3>1, ValuesAreFinite DEF T
  <3> QED BY <3>2, <3>3 DEF T
 <2> QED
   BY <2>3, <1>2, RecordsAssumption DEF KeysOf, MemoryKeys, TablesAre,
     MemoriesAre, MemorySet
<1>3. CASE list \in AuditLists
 <2>3. Len(audit[list]) \in Nat /\ DOMAIN audit[list] = 1..Len(audit[list])
   BY <1>3 DEF TablesAre
 <2>4. AuditKeys(list) \subseteq 1..Len(audit[list])  BY <2>3 DEF AuditKeys
 <2>5. IsFiniteSet(1..Len(audit[list]))  BY <2>3, FS_Interval
 <2> QED
   BY <2>3, <2>4, <1>3, <2>5, FS_Subset DEF KeysOf, InvocationKeys,
     MessageKeys, StickerKeys, AuditLists
<1> QED BY <1>1, <1>2, <1>3 DEF Lists

\* The rows of some keys are those whose key is among them.
LEMMA RowsAreOf ==
    ASSUME NEW list \in Lists, NEW keys \in SUBSET Nat, NEW r
    PROVE  r \in RowsOf(list, keys) <=> r \in RowSpace(list) /\ RowKey(list, r) \in keys
BY DEF RowsOf, RowSpace, RowKey

\* Rows are numbers, and so are their keys.
LEMMA RowsAreNumbers ==
    ASSUME NEW list \in Lists, TablesAre, NEW r \in RowSpace(list)
    PROVE  r \in Nat /\ RowKey(list, r) \in Nat
<1>1. CASE list = "contexts"
 <2> QED BY RecordsAssumption, ContextKeyIs, <1>1 DEF TablesAre, RowSpace, RowKey
<1>2. CASE list # "contexts"  BY <1>2 DEF RowSpace, RowKey
<1> QED BY <1>1, <1>2

-----------------------------------------------------------------------------
(* Turning a page.                                                             *)

\* The pages of an operator stay a walk through the list.
LEMMA TurnPageKeeps ==
    ASSUME RecordsInv, NEW list \in Lists, TurnPage(list)
    PROVE  WalkFits(walk)'
<1> DEFINE all == KeysOf(list)
           keys == Below(all, walk.cursor)
           next == NextCursor(keys)
           shown == RowsOf(list, Visible(keys))
           first == walk.list = "none"
           steady == IF first THEN RowsOf(list, keys) ELSE walk.steady
           w == [list |-> list, cursor |-> next, steady |-> steady,
                 listed |-> Append(walk.listed, shown), ended |-> next = 0]
<1>1. /\ ~walk.ended /\ walk.list \in {"none", list}
      /\ walk' = w
      /\ UNCHANGED <<audit, contexts, memories, moment>>
  BY DEF TurnPage
<1>2. all \in SUBSET (Nat \ {0}) /\ IsFiniteSet(all)  BY KeysAre DEF RecordsInv
<1>w. WalkFits(walk) /\ TablesAre  BY DEF RecordsInv
<1>3. walk.cursor \in Nat /\ walk.listed \in Seq(SUBSET Nat) /\ walk.steady \in SUBSET Nat
  BY <1>w DEF WalkSet, WalkFits
<1>4. /\ keys \subseteq all
      /\ \A k \in all : k \in keys <=> walk.cursor = 0 \/ k < walk.cursor
  BY DEF Below
<1>5. keys \in SUBSET (Nat \ {0}) /\ IsFiniteSet(keys)
 <2> HIDE DEF keys, all
 <2> QED BY <1>2, <1>4, FS_Subset
<1>6. PageOf(keys)
 <2> HIDE DEF keys
 <2> QED BY <1>5, PageIs
<1> HIDE DEF keys
<1>7. /\ Visible(keys) \subseteq keys
      /\ next \in Nat
      /\ next = 0 => Visible(keys) = keys
      /\ next > 0 => /\ next \in keys
                     /\ \A k \in Visible(keys) : k >= next
                     /\ \A k \in keys \ Visible(keys) : k < next
  BY <1>6 DEF PageOf
<1>8. Visible(keys) \in SUBSET Nat /\ keys \in SUBSET Nat  BY <1>5, <1>7
<1>9. \A r : r \in shown <=> r \in RowSpace(list) /\ RowKey(list, r) \in Visible(keys)
 <2> TAKE r
 <2> QED BY <1>8, RowsAreOf
<1>10. \A r : r \in RowsOf(list, keys) <=> r \in RowSpace(list) /\ RowKey(list, r) \in keys
 <2> TAKE r
 <2> QED BY <1>8, RowsAreOf
<1>11. \A r \in RowSpace(list) : r \in Nat /\ RowKey(list, r) \in Nat  BY <1>w, RowsAreNumbers
<1>12. walk.list = "none" => walk.listed = <<>> /\ walk.cursor = 0 /\ walk.steady = {}
  BY <1>w DEF WalkFits
<1>13. walk.list = list => walk.cursor > 0 /\ walk.list # "none"
 <2> QED BY <1>1, <1>w DEF WalkFits, Lists, AuditLists
\* What was listed is of this list, with keys from the cursor upward.
<1>14. \A n \in DOMAIN walk.listed : \A r \in walk.listed[n] :
          /\ walk.list = list /\ r \in RowSpace(list) /\ RowKey(list, r) >= walk.cursor
 <2>1. CASE walk.list = "none"
  <3> QED BY <1>12, <2>1
 <2>2. CASE walk.list = list  BY <1>1, <1>w, <2>2 DEF WalkFits, ListedBehind, PassedBy
 <2> QED BY <1>1, <2>1, <2>2
<1>15. \A r : r \in shown => \A n \in DOMAIN walk.listed : r \notin walk.listed[n]
 <2> SUFFICES ASSUME NEW r \in shown, NEW n \in DOMAIN walk.listed, r \in walk.listed[n]
              PROVE  FALSE
   OBVIOUS
 <2> HIDE DEF all
 <2>4. walk.cursor = 0 \/ RowKey(list, r) < walk.cursor  BY <1>4, <1>7, <1>9
 <2> QED BY <1>3, <2>4, <1>13, <1>11, <1>14
<1>16. shown \in SUBSET Nat /\ steady \in SUBSET Nat  BY <1>3, <1>9, <1>10, <1>11
<1> DEFINE more == Append(walk.listed, shown)
<1> HIDE DEF all, next, shown, steady
<1>17. /\ more \in Seq(SUBSET Nat)
       /\ DOMAIN more = 1..Len(walk.listed) + 1 /\ DOMAIN walk.listed = 1..Len(walk.listed)
       /\ Len(walk.listed) \in Nat
       /\ more[Len(walk.listed) + 1] = shown
       /\ \A n \in DOMAIN walk.listed : n \in DOMAIN more /\ more[n] = walk.listed[n]
       /\ \A n \in DOMAIN more : n \in DOMAIN walk.listed \/ n = Len(walk.listed) + 1
  BY <1>3, <1>16
<1> HIDE DEF more
<1>18. \A n \in DOMAIN more : \/ n \in DOMAIN walk.listed /\ more[n] = walk.listed[n]
                              \/ n \notin DOMAIN walk.listed /\ n = Len(walk.listed) + 1 /\ more[n] = shown
  BY <1>17
<1>19. ApartIn(more)
 <2> SUFFICES ASSUME NEW m \in DOMAIN more, NEW n \in DOMAIN more, NEW r \in more[m], r \in more[n]
              PROVE  m = n
   BY DEF ApartIn
 <2>2. CASE m \in DOMAIN walk.listed /\ n \in DOMAIN walk.listed
   BY <1>17, <2>2, <1>w DEF ApartIn, WalkFits
 <2>3. CASE m \notin DOMAIN walk.listed \/ n \notin DOMAIN walk.listed  BY <1>15, <1>18, <2>3
 <2> QED BY <2>2, <2>3
<1>20. w.list = list /\ w.cursor = next /\ w.steady = steady /\ w.ended = (next = 0)
       /\ w.listed = more
  BY DEF more
<1>21. w \in WalkSet  BY <1>7, <1>16, <1>17, <1>20 DEF WalkSet, next, more
<1> HIDE DEF w
<1>22. ListedBehind(w)
 <2> SUFFICES ASSUME NEW n \in DOMAIN more, NEW r \in more[n]
              PROVE  r \in RowSpace(list) /\ (next = 0 \/ RowKey(list, r) >= next)
   BY <1>20 DEF ListedBehind, PassedBy
 <2>1. CASE n \in DOMAIN walk.listed /\ more[n] = walk.listed[n]
  <3>1. walk.list = list /\ r \in RowSpace(list) /\ RowKey(list, r) >= walk.cursor
    BY <1>14, <2>1
  <3>3. next = 0 \/ walk.cursor > next
   <4> SUFFICES ASSUME next # 0 PROVE walk.cursor > next  OBVIOUS
   <4> HIDE DEF w
   <4>3. next < walk.cursor  BY <1>4, <1>13, <3>1, <1>7
   <4> QED BY <1>3, <1>7, <4>3
  <3> QED BY <1>3, <1>7, <3>1, <3>3, <1>11
 <2>2. CASE more[n] = shown
  <3> QED BY <1>7, <1>9, <2>2
 <2> QED BY <1>18, <2>1, <2>2
<1>23. ASSUME NEW r \in steady PROVE SteadyIn(w, r) /\ SteadyListed(w, r)
 <2>1. r \in RowSpace(list) /\ RowKey(list, r) \in all
  <3>1. CASE first  BY <1>4, <1>10, <1>23, <3>1 DEF steady
  <3>2. CASE ~first  BY <1>1, <1>23, <1>w, <3>2 DEF steady, WalkFits, SteadyIn, all
  <3> QED BY <3>1, <3>2
 <2>3. ASSUME next = 0 \/ RowKey(list, r) >= next
       PROVE  \E n \in DOMAIN more : r \in more[n]
  <3>1. CASE RowKey(list, r) \in keys
   <4>1. RowKey(list, r) \in Visible(keys)
    <5> QED BY <1>7, <2>3, <3>1, <1>11, <2>1
   <4> QED BY <1>17, <1>9, <2>1, <4>1
  <3>2. CASE RowKey(list, r) \notin keys
   <4>1. walk.cursor # 0 /\ ~ (RowKey(list, r) < walk.cursor)  BY <1>4, <2>1, <3>2
   <4>2. ~first /\ walk.list = list  BY <1>1, <1>12, <4>1
   <4>5. \E n \in DOMAIN walk.listed : r \in walk.listed[n]
     BY <4>2, <1>3, <1>11, <2>1, <4>1, <1>23, <1>w DEF SteadyListed, PassedBy,
       steady, WalkFits
   <4> QED BY <1>17, <4>5
  <3> QED BY <3>1, <3>2
 <2> QED BY <1>20, <2>1, <2>3 DEF SteadyIn, all, SteadyListed, PassedBy
<1>24. w.list # "none" /\ (w.ended \/ w.cursor > 0)
 <2>2. next = 0 \/ next > 0  BY <1>7
 <2> QED BY <1>20, <2>2 DEF Lists, AuditLists
<1>25. WalkFits(w)  BY <1>19, <1>20, <1>21, <1>22, <1>23, <1>24 DEF WalkFits
<1> QED BY <1>1, <1>25
         DEF WalkFits, WalkSet, ListedBehind, PassedBy, SteadyIn, SteadyListed, RowSpace, RowKey,
             KeysOf, ContextKeys, ContextKey, MemoryKeys, InvocationKeys, MessageKeys, StickerKeys,
             AuditKeys

-----------------------------------------------------------------------------
(* What the bot writes meanwhile.                                              *)

\* The walk stands while what the cursor has passed stays passed, and what is steady
\* keeps its key in the list.
LEMMA WalkStays ==
    ASSUME WalkFits(walk), NEW list, list = walk.list,
           walk' = [walk EXCEPT !.steady = walk'.steady], walk'.steady \subseteq walk.steady,
           \A r \in RowSpace(list) : RowKey(list, r) >= walk.cursor => RowKey(list, r)' >= walk.cursor,
           \A r \in walk'.steady : RowKey(list, r) = RowKey(list, r)' /\ RowKey(list, r)' \in KeysOf(list)'
    PROVE  WalkFits(walk)'
<1>1. /\ walk'.list = list /\ walk'.cursor = walk.cursor /\ walk'.listed = walk.listed
      /\ walk'.ended = walk.ended /\ walk' \in WalkSet /\ walk \in WalkSet
  BY DEF WalkFits, WalkSet
<1>2. /\ walk.list = "none" => walk.listed = <<>> /\ walk.cursor = 0 /\ ~walk.ended /\ walk.steady = {}
      /\ walk.list # "none" => walk.ended \/ walk.cursor > 0
      /\ ApartIn(walk.listed) /\ ListedBehind(walk)
      /\ \A r \in walk.steady : SteadyIn(walk, r) /\ SteadyListed(walk, r)
  BY DEF WalkFits
<1>5. ASSUME NEW r \in walk'.steady PROVE SteadyIn(walk, r)' /\ SteadyListed(walk, r)'
 <2>1. SteadyIn(walk, r) /\ SteadyListed(walk, r)  BY <1>2
 <2>3. SteadyListed(walk, r)'
  <3> QED BY <1>1, <2>1 DEF SteadyListed, PassedBy
 <2> QED BY <2>3, <1>1, <2>1 DEF SteadyIn, RowSpace
<1>6. walk'.list = "none" => walk'.listed = <<>> /\ walk'.cursor = 0 /\ ~walk'.ended /\ walk'.steady = {}
  BY <1>1, <1>2
<1> QED BY <1>1, <1>2, <1>5, <1>6 DEF WalkFits, ApartIn, ListedBehind, PassedBy, RowSpace

\* Nothing else has moved.
LEMMA RestStays ==
    ASSUME SweepFits, OperatorsFit
    PROVE  /\ UNCHANGED <<payloads, sweep>> => SweepFits'
           /\ UNCHANGED <<operators, gone>> => OperatorsFit'
<1> QED BY DEF SweepFits, OperatorsFit, MemoriesStayHome, SeedsKeepControl

\* A walk minds no keys that are new in a list.
LEMMA MoreKeys ==
    ASSUME WalkFits(walk), UNCHANGED <<contexts, walk>>,
           \A k \in Lists : KeysOf(k) \subseteq KeysOf(k)'
    PROVE  WalkFits(walk)'
<1> DEFINE list == walk.list
<1>2. \A r : RowKey(list, r) = RowKey(list, r)'  BY DEF RowKey, ContextKey
<1>3. \A r \in walk'.steady : RowKey(list, r)' \in KeysOf(list)'
 <2>1. CASE list = "none"  BY <2>1 DEF WalkFits
 <2>2. CASE list \in Lists  BY <1>2, <2>2 DEF WalkFits, SteadyIn
 <2> QED BY <2>1, <2>2 DEF WalkFits, WalkSet
<1> HIDE DEF list
<1> QED BY <1>2, <1>3, WalkStays DEF list, WalkFits, WalkSet

\* The tables of the lists and the walk are as they were.
LEMMA ListsStay ==
    ASSUME TablesAre, WalkFits(walk), UNCHANGED <<audit, contexts, memories, moment, walk>>
    PROVE  TablesAre' /\ WalkFits(walk)'
<1>1. TablesAre'  BY DEF TablesAre, MemoriesAre
<1>2. WalkFits(walk)'
 <2> QED
   BY MoreKeys DEF KeysOf, ContextKeys, ContextKey, MemoryKeys, InvocationKeys,
     MessageKeys, StickerKeys, AuditKeys
<1> QED BY <1>1, <1>2

\* A step of the operator keeps the invariant.
LEMMA TurnPageInv ==
    ASSUME RecordsInv, NEW list \in Lists, TurnPage(list)
    PROVE  RecordsInv'
<1> QED BY TurnPageKeeps, RestStays DEF RecordsInv, TablesAre, MemoriesAre, TurnPage

\* The keys of an audit list are its rows that pass the filter.
LEMMA AuditKeysAre ==
    ASSUME NEW l \in AuditLists
    PROVE  KeysOf(l) = AuditKeys(l) /\ KeysOf(l)' = AuditKeys(l)' /\ l # "contexts" /\ l \in Lists
BY DEF KeysOf, InvocationKeys, MessageKeys, StickerKeys, AuditLists, Lists

\* A row that comes is in nobody's way.
LEMMA NewRowKeeps ==
    ASSUME RecordsInv, NEW l \in AuditLists, NEW matches \in BOOLEAN, NewRow(l, matches)
    PROVE  RecordsInv'
<1>1. /\ audit' = [audit EXCEPT ![l] = Append(@, matches)]
      /\ UNCHANGED <<contexts, memories, moment, walk, payloads, sweep, operators, gone>>
      /\ audit \in [AuditLists -> Seq(BOOLEAN)] /\ WalkFits(walk)
  BY DEF NewRow, RecordsInv, TablesAre
<1>2. /\ audit' \in [AuditLists -> Seq(BOOLEAN)]
      /\ audit[l] \in Seq(BOOLEAN) /\ audit'[l] = Append(audit[l], matches)
      /\ \A k \in AuditLists : k # l => audit'[k] = audit[k]
  BY <1>1
<1>4. \A i \in DOMAIN audit[l] : i \in DOMAIN audit'[l] /\ audit'[l][i] = audit[l][i]  BY <1>2
<1>7. WalkFits(walk)'
  BY <1>1, MoreKeys, AuditKeysAre, <1>2, <1>4 DEF KeysOf, ContextKeys,
    ContextKey, MemoryKeys, Lists, AuditKeys
<1> QED BY <1>1, <1>7, RestStays, <1>2 DEF RecordsInv, TablesAre, MemoriesAre

\* What StillSteady does to a walk.
LEMMA StillSteadyIs ==
    ASSUME walk \in WalkSet, NEW rows, StillSteady(rows)
    PROVE  /\ walk'.steady = walk.steady \cap rows
           /\ walk' = [walk EXCEPT !.steady = walk'.steady]
BY DEF StillSteady, WalkSet

\* A row that comes into a list or leaves it is not steady any more.
LEMMA RowChangesKeeps ==
    ASSUME RecordsInv, NEW l \in AuditLists, NEW i \in DOMAIN audit[l], RowChanges(l, i)
    PROVE  RecordsInv'
<1>1. /\ audit' = [audit EXCEPT ![l][i] = ~@]
      /\ IF walk.list = l THEN StillSteady(AuditKeys(l) \ {i}) ELSE UNCHANGED walk
      /\ UNCHANGED <<contexts, memories, moment, payloads, sweep, operators, gone>>
      /\ audit \in [AuditLists -> Seq(BOOLEAN)] /\ WalkFits(walk) /\ walk \in WalkSet
  BY DEF RowChanges, RecordsInv, TablesAre, WalkFits
<1>2. /\ audit' \in [AuditLists -> Seq(BOOLEAN)]
      /\ DOMAIN audit'[l] = DOMAIN audit[l]
      /\ \A j \in DOMAIN audit[l] : j # i => audit'[l][j] = audit[l][j]
      /\ \A k \in AuditLists : k # l => audit'[k] = audit[k]
 <2>3. \A k \in AuditLists : k # l => audit'[k] = audit[k]  BY <1>1
 <2> QED BY <2>3, <1>1
<1>4. /\ AuditKeys(l) \ {i} \subseteq AuditKeys(l)'
      /\ \A k \in AuditLists : k # l => AuditKeys(k) = AuditKeys(k)'
  BY <1>2 DEF AuditKeys
<1>5. \A k \in Lists : k # l => KeysOf(k) = KeysOf(k)'
  BY <1>1, <1>4, AuditKeysAre DEF KeysOf, ContextKeys, ContextKey, MemoryKeys, Lists
<1>6. WalkFits(walk)'
 <2>1. \A k, r : RowKey(k, r) = RowKey(k, r)'  BY <1>1 DEF RowKey, ContextKey
 <2>2. CASE walk.list = l
  <3>1. walk'.steady = walk.steady \cap (AuditKeys(l) \ {i})
        /\ walk' = [walk EXCEPT !.steady = walk'.steady]
    BY <1>1, <2>2, StillSteadyIs
  <3> QED BY <1>1, <2>1, <2>2, <3>1, WalkStays, <1>4, AuditKeysAre DEF RowKey
 <2>3. CASE walk.list # l
  <3>0. PICK list : list = walk.list  OBVIOUS
  <3>1. walk' = [walk EXCEPT !.steady = walk'.steady] /\ walk'.steady = walk.steady
    BY <1>1, <2>3 DEF WalkSet
  <3>2. \A r \in walk'.steady : RowKey(list, r)' \in KeysOf(list)'
   <4>1. CASE list = "none"  BY <1>1, <3>0, <3>1, <4>1 DEF WalkFits
   <4>2. CASE list \in Lists  BY <1>1, <1>5, <2>1, <2>3, <3>0, <3>1, <4>2 DEF WalkFits, SteadyIn
   <4> QED BY <1>1, <3>0, <4>1, <4>2 DEF WalkSet
  <3> QED BY <1>1, <2>1, <3>0, <3>1, <3>2, WalkStays
 <2> QED BY <2>2, <2>3
<1> QED BY <1>1, <1>6, RestStays, <1>2 DEF RecordsInv, TablesAre, MemoriesAre

\* What a conversation's key becomes when it is active now.
LEMMA ActiveRises ==
    ASSUME TablesAre, NEW c \in Contexts, contexts' = [contexts EXCEPT ![c] = moment]
    PROVE  /\ contexts' \in [Contexts -> Nat]
           /\ \A d \in Contexts : d # c \/ contexts[c] = moment => ContextKey(d)' = ContextKey(d)
           /\ \A d \in Contexts : ContextKey(d) \in Nat /\ ContextKey(d)' \in Nat /\ ContextKey(d)' >= ContextKey(d)
<1>1. /\ contexts \in [Contexts -> Nat] /\ moment \in Nat /\ contexts[c] <= moment
      /\ contexts' \in [Contexts -> Nat] /\ contexts'[c] = moment
      /\ \A d \in Contexts : d # c => contexts'[d] = contexts[d]
  BY DEF TablesAre
<1>3. \A d \in Contexts : ContextKey(d) \in Nat  BY <1>1, ContextKeyIs
<1>4. ContextKey(c)' \in Nat /\ ContextKey(c)' >= ContextKey(c)
 <2> DEFINE k == Max(Contexts) + 1
 <2>2. k \in Nat /\ c \in Nat /\ contexts[c] \in Nat  BY <1>1, RecordsAssumption, LargestIs
 <2> HIDE DEF k
 <2>3. contexts[c] * k \in Nat /\ moment * k \in Nat /\ contexts[c] * k <= moment * k
  <3>1. PICK e \in Nat : moment = contexts[c] + e
   <4>1. moment - contexts[c] \in Nat /\ moment = contexts[c] + (moment - contexts[c])
     BY <1>1, <2>2
   <4> QED BY <4>1
  <3> QED BY <2>2, <3>1
 <2> QED BY <2>2, <2>3, <1>1 DEF ContextKey, k
<1> QED BY <1>1, <1>3, <1>4 DEF ContextKey

\* A conversation that is active now moves to the front of its list.
LEMMA ContextActiveKeeps ==
    ASSUME RecordsInv, NEW c \in Contexts, ContextActive(c)
    PROVE  RecordsInv'
<1>1. /\ contexts' = [contexts EXCEPT ![c] = moment]
      /\ IF walk.list = "contexts" /\ contexts[c] # moment
         THEN StillSteady(Contexts \ {c}) ELSE UNCHANGED walk
      /\ UNCHANGED <<audit, memories, moment, payloads, sweep, operators, gone>>
      /\ TablesAre /\ WalkFits(walk) /\ walk \in WalkSet
  BY DEF ContextActive, RecordsInv, WalkFits
<1>2. /\ contexts' \in [Contexts -> Nat]
      /\ \A d \in Contexts : d # c \/ contexts[c] = moment => ContextKey(d)' = ContextKey(d)
      /\ \A d \in Contexts : ContextKey(d) \in Nat /\ ContextKey(d)' \in Nat /\ ContextKey(d)' >= ContextKey(d)
  BY <1>1, ActiveRises
<1>4. \A k \in Lists : k # "contexts" => KeysOf(k) = KeysOf(k)'
  BY <1>1 DEF KeysOf, MemoryKeys, InvocationKeys, MessageKeys, StickerKeys, AuditKeys, Lists, AuditLists
<1>5. WalkFits(walk)'
 <2>1. CASE walk.list = "contexts"
  <3>1. /\ walk'.steady \subseteq walk.steady
        /\ walk' = [walk EXCEPT !.steady = walk'.steady]
        /\ \A d \in walk'.steady : d # c \/ contexts[c] = moment
   <4>1. CASE contexts[c] # moment  BY <1>1, <2>1, <4>1, StillSteadyIs
   <4>2. CASE contexts[c] = moment  BY <1>1, <2>1, <4>2 DEF WalkSet
   <4> QED BY <4>1, <4>2
  <3>2. \A d \in walk'.steady : d \in Contexts
    BY <1>1, <2>1, <3>1 DEF WalkFits, SteadyIn, RowSpace
  <3>5. \A d \in RowSpace("contexts") :
            RowKey("contexts", d) >= walk.cursor => RowKey("contexts", d)' >= walk.cursor
   <4> SUFFICES ASSUME NEW d \in Contexts, ContextKey(d) >= walk.cursor
                PROVE  ContextKey(d)' >= walk.cursor
     BY DEF RowSpace, RowKey
   <4> QED BY <1>2, <1>1 DEF WalkSet
  <3> QED BY <1>1, <2>1, <3>1, <3>5, WalkStays, <1>2, <3>2 DEF RowKey, KeysOf, ContextKeys
 <2>2. CASE walk.list # "contexts"
  <3>0. PICK list : list = walk.list  OBVIOUS
  <3>1. walk' = [walk EXCEPT !.steady = walk'.steady] /\ walk'.steady = walk.steady
    BY <1>1, <2>2 DEF WalkSet
  <3>2. \A r : RowKey(list, r) = r /\ RowKey(list, r)' = r  BY <2>2, <3>0 DEF RowKey
  <3>3. \A r \in walk'.steady : RowKey(list, r)' \in KeysOf(list)'
   <4>1. CASE list = "none"  BY <1>1, <3>0, <3>1, <4>1 DEF WalkFits
   <4>2. CASE list \in Lists  BY <1>1, <1>4, <2>2, <3>0, <3>1, <3>2, <4>2 DEF WalkFits, SteadyIn
   <4> QED BY <1>1, <3>0, <4>1, <4>2 DEF WalkSet
  <3> QED BY <1>1, <3>0, <3>1, <3>2, <3>3, WalkStays
 <2> QED BY <2>1, <2>2
<1> QED BY <1>1, <1>5, RestStays, <1>2 DEF RecordsInv, TablesAre, MemoriesAre

\* What is about to expire is not steady any more.
LEMMA RecordsTickKeeps ==
    ASSUME RecordsInv, RecordsTick
    PROVE  RecordsInv'
<1>1. /\ moment' = moment + 1
      /\ IF walk.list = "memories"
         THEN StillSteady({m.id : m \in {x \in memories : x.expires > moment + 1}}) ELSE UNCHANGED walk
      /\ UNCHANGED <<audit, contexts, memories, payloads, sweep, operators, gone>>
      /\ TablesAre /\ WalkFits(walk) /\ walk \in WalkSet
  BY DEF RecordsTick, RecordsInv, WalkFits
<1>3. \A r : \A k : RowKey(k, r) = RowKey(k, r)'  BY <1>1 DEF RowKey, ContextKey
<1>4. WalkFits(walk)'
 <2>1. CASE walk.list = "memories"
  <3>1. /\ walk'.steady = walk.steady \cap {m.id : m \in {x \in memories : x.expires > moment + 1}}
        /\ walk' = [walk EXCEPT !.steady = walk'.steady]
    BY <1>1, <2>1, StillSteadyIs
  <3>4. \A r \in walk'.steady : RowKey("memories", r)' \in KeysOf("memories")'
    BY <3>1, <1>1 DEF KeysOf, MemoryKeys, RowKey
  <3> QED BY <1>1, <1>3, <2>1, <3>1, <3>4, WalkStays
 <2>2. CASE walk.list # "memories"
  <3>0. PICK list : list = walk.list  OBVIOUS
  <3>1. walk' = [walk EXCEPT !.steady = walk'.steady] /\ walk'.steady = walk.steady
    BY <1>1, <2>2 DEF WalkSet
  <3>2. \A k \in Lists : k # "memories" => KeysOf(k) = KeysOf(k)'
    BY <1>1 DEF KeysOf, ContextKeys, ContextKey, InvocationKeys, MessageKeys, StickerKeys, AuditKeys,
                Lists, AuditLists
  <3>3. \A r \in walk'.steady : RowKey(list, r)' \in KeysOf(list)'
   <4>1. CASE list = "none"  BY <1>1, <3>0, <3>1, <4>1 DEF WalkFits
   <4>2. CASE list \in Lists  BY <1>1, <1>3, <2>2, <3>0, <3>1, <3>2, <4>2 DEF WalkFits, SteadyIn
   <4> QED BY <1>1, <3>0, <4>1, <4>2 DEF WalkSet
  <3> QED BY <1>1, <1>3, <3>0, <3>1, <3>3, WalkStays
 <2> QED BY <2>1, <2>2
<1> QED BY <1>1, <1>4, RestStays DEF RecordsInv, TablesAre, MemoriesAre

-----------------------------------------------------------------------------
(* Memories.                                                                   *)

\* The memories that have not expired stay, but for one that is deleted.
LEMMA KeepKeeps ==
    ASSUME RecordsInv, NEW rows, NEW ended, Keep(rows, ended), MemoriesAre(rows),
           \A m \in memories, n \in rows : n.id = m.id /\ m.expires > moment => n.expires > moment,
           \A m \in ended : m.by \in {"time", "panel", m.room}
    PROVE  RecordsInv'
<1>1. /\ memories' = rows
      /\ gone' = [gone EXCEPT !.memories = @ \cup ended]
      /\ IF walk.list = "memories" THEN StillSteady({m.id : m \in rows}) ELSE UNCHANGED walk
      /\ UNCHANGED <<audit, contexts, moment, payloads, sweep, operators>>
      /\ TablesAre /\ WalkFits(walk) /\ walk \in WalkSet /\ OperatorsFit /\ SweepFits
  BY DEF Keep, RecordsInv, WalkFits
<1>3. OperatorsFit'
 <2>1. /\ gone = [memories |-> gone.memories, operators |-> gone.operators]
       /\ operators \subseteq Operators
       /\ MemoriesStayHome /\ SeedsKeepControl
   BY <1>1 DEF OperatorsFit
 <2>2. gone' = [memories |-> gone.memories \cup ended, operators |-> gone.operators]
   BY <1>1, <2>1
 <2>3. gone'.memories = gone.memories \cup ended /\ gone'.operators = gone.operators  BY <2>2
 <2> QED BY <2>2, <2>3, <2>1, <1>1 DEF OperatorsFit, MemoriesStayHome, SeedsKeepControl
<1>4. \A r : \A k : RowKey(k, r) = RowKey(k, r)'  BY <1>1 DEF RowKey, ContextKey
<1>5. WalkFits(walk)'
 <2>1. CASE walk.list = "memories"
  <3>1. /\ walk'.steady = walk.steady \cap {m.id : m \in rows}
        /\ walk' = [walk EXCEPT !.steady = walk'.steady]
    BY <1>1, <2>1, StillSteadyIs
  <3>2. /\ KeysOf("memories") = {m.id : m \in {x \in memories : x.expires > moment}}
        /\ KeysOf("memories")' = {m.id : m \in {x \in rows : x.expires > moment}}
    BY <1>1 DEF KeysOf, MemoryKeys
  <3>3. \A r : RowKey("memories", r) = r /\ RowKey("memories", r)' = r  BY DEF RowKey
  <3>4. ASSUME NEW r \in walk'.steady PROVE RowKey("memories", r)' \in KeysOf("memories")'
   <4>2. PICK m \in memories : m.id = r /\ m.expires > moment
     BY <3>2, <1>1, <2>1, <3>1, <3>3 DEF WalkFits, SteadyIn
   <4>3. PICK n \in rows : n.id = r  BY <3>1
   <4> QED BY <3>2, <3>3, <4>3, <4>2
  <3> QED BY <1>1, <1>4, <2>1, <3>1, <3>4, WalkStays
 <2>2. CASE walk.list # "memories"
  <3>0. PICK list : list = walk.list  OBVIOUS
  <3>1. walk' = [walk EXCEPT !.steady = walk'.steady] /\ walk'.steady = walk.steady
    BY <1>1, <2>2 DEF WalkSet
  <3>2. \A k \in Lists : k # "memories" => KeysOf(k) = KeysOf(k)'
    BY <1>1 DEF KeysOf, ContextKeys, ContextKey, InvocationKeys, MessageKeys, StickerKeys, AuditKeys,
                Lists, AuditLists
  <3>3. \A r \in walk'.steady : RowKey(list, r)' \in KeysOf(list)'
   <4>1. CASE list = "none"  BY <1>1, <3>0, <3>1, <4>1 DEF WalkFits
   <4>2. CASE list \in Lists  BY <1>1, <1>4, <2>2, <3>0, <3>1, <3>2, <4>2 DEF WalkFits, SteadyIn
   <4> QED BY <1>1, <3>0, <4>1, <4>2 DEF WalkSet
  <3> QED BY <1>1, <1>4, <3>0, <3>1, <3>3, WalkStays
 <2> QED BY <2>1, <2>2
<1> QED BY <1>1, <1>3, <1>5, RestStays DEF RecordsInv, TablesAre, MemoriesAre

\* Some of the memories are memories.
LEMMA FewerMemories ==
    ASSUME NEW rows, MemoriesAre(rows), NEW left, left \subseteq rows
    PROVE  MemoriesAre(left)
<1> QED BY FS_Subset DEF MemoriesAre

\* One more memory, by an id of its own.
LEMMA OneMoreMemory ==
    ASSUME NEW rows, MemoriesAre(rows), NEW m \in MemorySet, \A n \in rows : n.id # m.id
    PROVE  MemoriesAre(rows \cup {m})
<1> QED BY FS_AddElement DEF MemoriesAre

\* What lapsed ended with time.
LEMMA LapsedInTime ==
    ASSUME NEW rows
    PROVE  \A m \in Lapsed(rows) : m.by = "time"
BY DEF Lapsed

\* A memory comes, and what has expired goes.
LEMMA AddMemoryKeeps ==
    ASSUME RecordsInv, NEW room \in MemoryRooms, NEW ttl \in 1..2, AddMemory(room, ttl)
    PROVE  RecordsInv'
<1>1. PICK id \in MemoryIds \ ({m.id : m \in memories} \cup {m.id : m \in gone.memories}) :
        Keep((memories \ Expired(memories)) \cup {[id |-> id, room |-> room, expires |-> moment + ttl]},
             Lapsed(Expired(memories)))
  BY DEF AddMemory
<1> DEFINE left == memories \ Expired(memories)
           new == [id |-> id, room |-> room, expires |-> moment + ttl]
           ended == Lapsed(Expired(memories))
<1>2. MemoriesAre(memories) /\ moment \in Nat  BY DEF RecordsInv, TablesAre
<1>4. new \in MemorySet /\ new.expires > moment /\ new.id = id  BY <1>2 DEF MemorySet
<1>6. MemoriesAre(left \cup {new})
 <2> HIDE DEF new
 <2> QED BY <1>4, OneMoreMemory, <1>2, FewerMemories, <1>1
<1>7. \A m \in memories, n \in left \cup {new} : n.id = m.id /\ m.expires > moment => n.expires > moment
 <2> HIDE DEF new
 <2> QED BY <1>2, <1>4 DEF MemoriesAre
<1>8. \A m \in ended : m.by \in {"time", "panel", m.room}  BY LapsedInTime
<1>9. Keep(left \cup {new}, ended)  BY <1>1
<1> HIDE DEF left, new, ended
<1> QED BY <1>6, <1>7, <1>8, <1>9, KeepKeeps

\* A run deletes a memory of its own conversation.
LEMMA RemoveMemoryKeeps ==
    ASSUME RecordsInv, NEW room \in MemoryRooms, NEW id \in MemoryIds, RemoveMemory(room, id)
    PROVE  RecordsInv'
<1> DEFINE left == memories \ Expired(memories)
           mine == {m \in left : m.id = id /\ m.room = room}
           ended == Lapsed(Expired(memories))
                        \cup {[id |-> m.id, room |-> m.room, by |-> room] : m \in mine}
<1>1. Keep(left \ mine, ended)  BY DEF RemoveMemory
<1>2. MemoriesAre(memories)  BY DEF RecordsInv, TablesAre
<1>3. MemoriesAre(left \ mine)  BY <1>2, FewerMemories
<1>4. \A m \in memories, n \in left \ mine : n.id = m.id /\ m.expires > moment => n.expires > moment
  BY <1>2 DEF MemoriesAre
<1>5. \A m \in ended : m.by \in {"time", "panel", m.room}
 <2>1. \A m \in mine : m.room = room  OBVIOUS
 <2> HIDE DEF mine
 <2> QED BY <2>1, LapsedInTime
<1> HIDE DEF left, mine, ended
<1> QED BY <1>1, <1>3, <1>4, <1>5, KeepKeeps

\* The panel gives a memory a new time to live.
LEMMA UpdateMemoryKeeps ==
    ASSUME RecordsInv, NEW id \in MemoryIds, NEW ttl \in 1..2, UpdateMemory(id, ttl)
    PROVE  RecordsInv'
<1>1. PICK m \in memories :
        m.id = id /\ Keep((memories \ {m}) \cup {[m EXCEPT !.expires = moment + ttl]}, {})
  BY DEF UpdateMemory
<1> DEFINE new == [m EXCEPT !.expires = moment + ttl]
           left == memories \ {m}
<1>2. MemoriesAre(memories) /\ moment \in Nat  BY DEF RecordsInv, TablesAre
<1>5. new \in MemorySet /\ new.id = m.id /\ new.expires > moment
  BY <1>2 DEF MemorySet, MemoriesAre
<1> HIDE DEF new
<1>7. MemoriesAre(left \cup {new})  BY <1>5, OneMoreMemory, <1>2, FewerMemories DEF MemoriesAre
<1>8. \A x \in memories, n \in left \cup {new} : n.id = x.id /\ x.expires > moment => n.expires > moment
  BY <1>2, <1>5 DEF MemoriesAre
<1>9. Keep(left \cup {new}, {})  BY <1>1 DEF new
<1> HIDE DEF left
<1> QED BY <1>7, <1>8, <1>9, KeepKeeps

\* The panel deletes a memory.
LEMMA DeleteMemoryKeeps ==
    ASSUME RecordsInv, NEW id \in MemoryIds, DeleteMemory(id)
    PROVE  RecordsInv'
<1>1. PICK m \in memories :
        Keep(memories \ {m}, {[id |-> m.id, room |-> m.room, by |-> "panel"]})
  BY DEF DeleteMemory
<1> DEFINE left == memories \ {m}
           ended == {[id |-> m.id, room |-> m.room, by |-> "panel"]}
<1>2. MemoriesAre(memories)  BY DEF RecordsInv, TablesAre
<1>3. MemoriesAre(left)  BY <1>2, FewerMemories
<1>4. \A x \in memories, n \in left : n.id = x.id /\ x.expires > moment => n.expires > moment
  BY <1>2 DEF MemoriesAre
<1>5. \A x \in ended : x.by \in {"time", "panel", x.room}  OBVIOUS
<1>6. Keep(left, ended)  BY <1>1
<1> HIDE DEF left, ended
<1> QED BY <1>3, <1>4, <1>5, <1>6, KeepKeeps

-----------------------------------------------------------------------------
(* The sweep.                                                                  *)

\* What the sweep owes for one call.
OwedFits(i) ==
    /\ i \in 1..sweep.upper /\ ~payloads[i].open
    /\ i <= sweep.cursor \/ ~sweep.running => ~payloads[i].payload

\* The calls recorded, one by one.
CallSet == [payload: BOOLEAN, open: BOOLEAN]

\* The sweep, in parts.
LEMMA SweepParts ==
    SweepFits <=>
        /\ payloads \in Seq(CallSet) /\ Len(payloads) <= RecordBound
        /\ sweep \in SweepSet
        /\ sweep.upper <= Len(payloads) /\ sweep.cursor <= sweep.upper
        /\ IF sweep.cursor < sweep.upper THEN sweep.batches * SweepBatch = sweep.cursor
           ELSE sweep.batches * SweepBatch < sweep.upper + SweepBatch
        /\ \A i \in sweep.owed : OwedFits(i)
BY DEF SweepFits, OwedFits, CallSet

\* The sweep stands while the calls it owes stay closed and cleared.
LEMMA SweepStands ==
    ASSUME SweepFits, sweep' = sweep, payloads' \in Seq(CallSet), Len(payloads') <= RecordBound,
           Len(payloads') >= Len(payloads),
           \A i \in DOMAIN payloads : ~payloads[i].open => payloads'[i] = payloads[i]
    PROVE  SweepFits'
<1>1. /\ payloads \in Seq(CallSet) /\ sweep \in SweepSet
      /\ sweep.upper <= Len(payloads) /\ sweep.cursor <= sweep.upper
      /\ IF sweep.cursor < sweep.upper THEN sweep.batches * SweepBatch = sweep.cursor
         ELSE sweep.batches * SweepBatch < sweep.upper + SweepBatch
      /\ \A i \in sweep.owed : OwedFits(i)
  BY SweepParts
<1>2. /\ sweep.upper \in Nat /\ Len(payloads) \in Nat /\ Len(payloads') \in Nat
      /\ DOMAIN payloads = 1..Len(payloads)
  BY <1>1 DEF SweepSet
<1>4. \A i \in sweep.owed : OwedFits(i)'
 <2> SUFFICES ASSUME NEW i \in sweep.owed PROVE OwedFits(i)'  OBVIOUS
 <2>1. OwedFits(i)  BY <1>1
 <2> QED BY <2>1, <1>1, <1>2 DEF OwedFits
<1> QED BY <1>1, <1>4, <1>2 DEF SweepFits, OwedFits, CallSet

\* A call that is recorded meanwhile is not the sweep's.
LEMMA StartModelCallKeeps ==
    ASSUME RecordsInv, NEW recorded \in BOOLEAN, StartModelCall(recorded)
    PROVE  RecordsInv'
<1>1. /\ Len(payloads) < RecordBound
      /\ payloads' = Append(payloads, [payload |-> recorded, open |-> TRUE])
      /\ UNCHANGED <<audit, contexts, memories, moment, walk, sweep, operators, gone>>
      /\ SweepFits
  BY DEF StartModelCall, RecordsInv
<1>5. SweepFits'  BY <1>1, SweepStands, RecordsAssumption, SweepParts DEF CallSet
<1> QED BY <1>1, <1>5, ListsStay, RestStays DEF RecordsInv

\* A call that the sweep owes was over when it began.
LEMMA FinishModelCallKeeps ==
    ASSUME RecordsInv, NEW recorded \in BOOLEAN, NEW i \in DOMAIN payloads, FinishModelCall(i, recorded)
    PROVE  RecordsInv'
<1> DEFINE new == [payload |-> payloads[i].payload \/ recorded, open |-> FALSE]
<1>1. /\ payloads[i].open
      /\ payloads' = [payloads EXCEPT ![i] = new]
      /\ UNCHANGED <<audit, contexts, memories, moment, walk, sweep, operators, gone>>
      /\ SweepFits
  BY DEF FinishModelCall, RecordsInv
<1>2. payloads \in Seq(CallSet) /\ Len(payloads) <= RecordBound  BY <1>1, SweepParts
<1>3. new \in CallSet
 <2> QED BY <1>2 DEF CallSet
<1> HIDE DEF new
<1>6. SweepFits'  BY <1>1, <1>2, SweepStands, <1>3
<1> QED BY <1>1, <1>6, ListsStay, RestStays DEF RecordsInv

\* A sweep begins with all of the calls before it.
LEMMA StartSweepKeeps ==
    ASSUME RecordsInv, StartSweep
    PROVE  RecordsInv'
<1> DEFINE owed == {i \in DOMAIN payloads : ~payloads[i].open}
           new == [upper |-> Len(payloads), cursor |-> 0, batches |-> 0, owed |-> owed,
                   running |-> payloads # <<>>]
<1>1. /\ sweep' = new
      /\ UNCHANGED <<audit, contexts, memories, moment, walk, payloads, operators, gone>>
      /\ SweepFits
  BY DEF StartSweep, RecordsInv
<1>2. payloads \in Seq(CallSet) /\ Len(payloads) <= RecordBound  BY <1>1, SweepParts
<1>3. Len(payloads) \in Nat /\ DOMAIN payloads = 1..Len(payloads)  BY <1>2
<1>4. owed \in SUBSET Nat /\ \A i \in owed : i \in 1..Len(payloads) /\ ~payloads[i].open
  BY <1>3
<1> HIDE DEF owed
<1>7. /\ sweep'.upper = Len(payloads) /\ sweep'.cursor = 0 /\ sweep'.batches = 0
      /\ sweep'.owed = owed /\ sweep'.running = (payloads # <<>>) /\ payloads' = payloads
  BY <1>1
<1>9. \A i \in owed : OwedFits(i)'
 <2> SUFFICES ASSUME NEW i \in owed PROVE OwedFits(i)'  OBVIOUS
 <2>1. i \in 1..Len(payloads) /\ ~payloads[i].open /\ payloads # <<>>  BY <1>4, <1>3
 <2>2. ~ (i <= 0)  BY <2>1
 <2> QED BY <1>7, <2>1, <2>2 DEF OwedFits
<1>11. sweep'.upper <= Len(payloads') /\ sweep'.cursor <= sweep'.upper /\ sweep' \in SweepSet
  BY <1>1, <1>3, <1>7, <1>4 DEF SweepSet
<1>12. SweepFits'
  BY <1>2, <1>7, <1>9, <1>11, <1>3, RecordsAssumption DEF SweepFits, OwedFits,
    CallSet
<1> QED BY <1>1, <1>12, ListsStay, RestStays DEF RecordsInv

\* A batch clears what it passes, and moves by a whole batch unless it is the last.
LEMMA ClearBatchKeeps ==
    ASSUME RecordsInv, ClearBatch
    PROVE  RecordsInv'
<1> DEFINE last == IF sweep.cursor + SweepBatch < sweep.upper THEN sweep.cursor + SweepBatch
                   ELSE sweep.upper
<1>1. /\ sweep.running /\ sweep.cursor < sweep.upper
      /\ payloads' = [i \in DOMAIN payloads |->
                        IF i \in sweep.cursor + 1..last THEN [payloads[i] EXCEPT !.payload = FALSE]
                        ELSE payloads[i]]
      /\ sweep' = [sweep EXCEPT !.cursor = last, !.batches = @ + 1]
      /\ UNCHANGED <<audit, contexts, memories, moment, walk, operators, gone>>
      /\ SweepFits
  BY DEF ClearBatch, SweepLimit, RecordsInv
<1>2. /\ payloads \in Seq(CallSet) /\ Len(payloads) <= RecordBound
      /\ sweep \in SweepSet
      /\ sweep.upper <= Len(payloads) /\ sweep.cursor <= sweep.upper
      /\ sweep.batches * SweepBatch = sweep.cursor
      /\ \A i \in sweep.owed : OwedFits(i)
  BY <1>1, SweepParts
<1>3. /\ sweep.upper \in Nat /\ sweep.cursor \in Nat /\ sweep.batches \in Nat
      /\ Len(payloads) \in Nat /\ DOMAIN payloads = 1..Len(payloads)
      /\ SweepBatch \in Nat /\ SweepBatch > 0
  BY <1>2, RecordsAssumption DEF SweepSet
<1>4. /\ last \in Nat /\ last <= sweep.upper /\ sweep.cursor <= last
      /\ last < sweep.upper => last = sweep.cursor + SweepBatch
  BY <1>1, <1>3
<1> HIDE DEF last
<1>5. /\ sweep'.upper = sweep.upper /\ sweep'.cursor = last /\ sweep'.batches = sweep.batches + 1
      /\ sweep'.owed = sweep.owed /\ sweep'.running = sweep.running /\ sweep' \in SweepSet
 <2>1. sweep = [upper |-> sweep.upper, cursor |-> sweep.cursor, batches |-> sweep.batches,
                owed |-> sweep.owed, running |-> sweep.running]
       /\ sweep.owed \in SUBSET Nat /\ sweep.running \in BOOLEAN
   BY <1>2 DEF SweepSet
 <2>2. sweep' = [upper |-> sweep.upper, cursor |-> last, batches |-> sweep.batches + 1,
                 owed |-> sweep.owed, running |-> sweep.running]
   BY <1>1, <2>1
 <2> QED BY <2>2, <1>3, <1>4, <2>1 DEF SweepSet
<1>6. (sweep.batches + 1) * SweepBatch = sweep.cursor + SweepBatch  BY <1>2, <1>3
<1>7. IF last < sweep.upper THEN (sweep.batches + 1) * SweepBatch = last
      ELSE (sweep.batches + 1) * SweepBatch < sweep.upper + SweepBatch
  BY <1>1, <1>3, <1>4, <1>6
<1>8. \A i \in DOMAIN payloads :
          /\ payloads[i] \in CallSet /\ payloads'[i] \in CallSet
          /\ payloads'[i].open = payloads[i].open
          /\ i \in sweep.cursor + 1..last => ~payloads'[i].payload
          /\ i \notin sweep.cursor + 1..last => payloads'[i] = payloads[i]
 <2> SUFFICES ASSUME NEW i \in DOMAIN payloads
              PROVE  /\ payloads[i] \in CallSet /\ payloads'[i] \in CallSet
                     /\ payloads'[i].open = payloads[i].open
                     /\ i \in sweep.cursor + 1..last => ~payloads'[i].payload
                     /\ i \notin sweep.cursor + 1..last => payloads'[i] = payloads[i]
   OBVIOUS
 <2>1. payloads[i] \in CallSet  BY <1>2
 <2> QED BY <2>1, <1>1 DEF CallSet
<1>9. DOMAIN payloads' = 1..Len(payloads)  BY <1>1, <1>3
<1>10. payloads' \in Seq(CallSet) /\ Len(payloads') = Len(payloads)
 <2>3. payloads' \in [1..Len(payloads) -> CallSet]  BY <1>1, <1>3, <1>8
 <2> QED BY <1>3, <2>3, SeqDef, LenProperties
<1>11. \A i \in sweep.owed : OwedFits(i)'
 <2> SUFFICES ASSUME NEW i \in sweep.owed PROVE OwedFits(i)'  OBVIOUS
 <2>1. OwedFits(i) /\ i \in 1..sweep.upper /\ ~payloads[i].open  BY <1>2 DEF OwedFits
 <2>2. i \in DOMAIN payloads /\ i \in Nat /\ i > 0  BY <1>2, <1>3, <2>1
 <2>4. ASSUME i <= last PROVE ~payloads'[i].payload
  <3>1. CASE i <= sweep.cursor
   <4> QED BY <1>8, <2>2, <1>3, <3>1, <2>1 DEF OwedFits
  <3>2. CASE ~ (i <= sweep.cursor)
   <4> QED BY <1>8, <2>2, <1>3, <1>4, <2>4, <3>2
  <3> QED BY <3>1, <3>2
 <2> QED BY <1>1, <1>5, <2>4, <1>8, <2>1, <2>2 DEF OwedFits
<1>12. SweepFits'  BY <1>2, <1>4, <1>5, <1>7, <1>10, <1>11 DEF SweepFits, OwedFits, CallSet
<1> QED BY <1>1, <1>12, ListsStay, RestStays DEF RecordsInv

\* A sweep that is through owes nothing.
LEMMA SweepEndsKeeps ==
    ASSUME RecordsInv, SweepEnds
    PROVE  RecordsInv'
<1>1. /\ sweep.cursor >= sweep.upper
      /\ sweep' = [sweep EXCEPT !.running = FALSE]
      /\ UNCHANGED <<audit, contexts, memories, moment, walk, payloads, operators, gone>>
      /\ SweepFits
  BY DEF SweepEnds, SweepLimit, RecordsInv
<1>2. /\ payloads \in Seq(CallSet) /\ Len(payloads) <= RecordBound
      /\ sweep \in SweepSet
      /\ sweep.upper <= Len(payloads) /\ sweep.cursor <= sweep.upper
      /\ IF sweep.cursor < sweep.upper THEN sweep.batches * SweepBatch = sweep.cursor
         ELSE sweep.batches * SweepBatch < sweep.upper + SweepBatch
      /\ \A i \in sweep.owed : OwedFits(i)
  BY <1>1, SweepParts
<1>3. /\ sweep'.upper = sweep.upper /\ sweep'.cursor = sweep.cursor /\ sweep'.batches = sweep.batches
      /\ sweep'.owed = sweep.owed /\ sweep' \in SweepSet
      /\ sweep.upper \in Nat /\ sweep.cursor \in Nat
  BY <1>1, <1>2 DEF SweepSet
<1>4. \A i \in sweep.owed : OwedFits(i)'
 <2> SUFFICES ASSUME NEW i \in sweep.owed PROVE OwedFits(i)'  OBVIOUS
 <2>1. OwedFits(i)  BY <1>2
 <2> QED BY <1>1, <1>3, <2>1 DEF OwedFits
<1>5. SweepFits'  BY <1>1, <1>2, <1>3, <1>4 DEF SweepFits, OwedFits, CallSet
<1> QED BY <1>1, <1>5, ListsStay, RestStays DEF RecordsInv

-----------------------------------------------------------------------------
(* The operators of the bot.                                                   *)

\* Who is removed is remembered, and who comes is not any more.
LEMMA WithOperatorsKeeps ==
    ASSUME RecordsInv, NEW rows \in SUBSET Operators, NEW removed, WithOperators(rows, removed),
           Seeds \subseteq rows \cup removed, SweepFits'
    PROVE  RecordsInv'
<1>1. /\ operators' = rows /\ gone' = [gone EXCEPT !.operators = removed]
      /\ UNCHANGED <<audit, contexts, memories, moment, walk, payloads>>
  BY DEF WithOperators
<1>2. /\ gone = [memories |-> gone.memories, operators |-> gone.operators]
      /\ MemoriesStayHome
  BY DEF RecordsInv, OperatorsFit
<1>5. OperatorsFit'  BY <1>1, <1>2 DEF OperatorsFit, MemoriesStayHome, SeedsKeepControl
<1> QED BY <1>1, <1>5, ListsStay DEF RecordsInv

\* The panel adds an operator, or removes one.
LEMMA OperatorsKeep ==
    ASSUME RecordsInv, NEW u \in Operators, AddOperator(u) \/ RemoveOperator(u)
    PROVE  RecordsInv'
<1>1. operators \subseteq Operators /\ SeedsKeepControl /\ SweepFits
  BY DEF RecordsInv, OperatorsFit
<1>2. CASE AddOperator(u)
 <2>3. Seeds \subseteq (operators \cup {u}) \cup (gone.operators \ {u})
   BY <1>1 DEF SeedsKeepControl
 <2>4. operators \cup {u} \in SUBSET Operators  BY <1>1
 <2> QED BY <2>3, <2>4, WithOperatorsKeeps, <1>1, <1>2 DEF WithOperators, SweepFits, AddOperator
<1>3. CASE RemoveOperator(u)
 <2>3. Seeds \subseteq (operators \ {u}) \cup (gone.operators \cup {u})
   BY <1>1 DEF SeedsKeepControl
 <2>4. operators \ {u} \in SUBSET Operators  BY <1>1
 <2> QED
   BY <2>3, <2>4, WithOperatorsKeeps, <1>1, <1>3 DEF WithOperators, SweepFits,
     RemoveOperator
<1> QED BY <1>2, <1>3

\* A start adds those of the file, and forgets the sweep.
LEMMA RestartBotKeeps ==
    ASSUME RecordsInv, RestartBot
    PROVE  RecordsInv'
<1>1. /\ WithOperators(operators \cup Seeds, gone.operators \ Seeds)
      /\ sweep' = [sweep EXCEPT !.running = FALSE, !.owed = {}]
      /\ payloads' = payloads /\ SweepFits
      /\ operators \subseteq Operators
  BY DEF RestartBot, WithOperators, RecordsInv, OperatorsFit
<1>4. SweepFits'  BY <1>1, SweepParts DEF SweepFits, CallSet, SweepSet
<1> QED BY <1>1, <1>4, WithOperatorsKeeps, RecordsAssumption

-----------------------------------------------------------------------------
(* Lists, memories and the sweep: the theorem.                                 *)

\* The invariant holds before anything has come.
LEMMA RecordsStart ==
    ASSUME RecordsInit
    PROVE  RecordsInv
<1>1. TablesAre  BY FS_EmptySet DEF RecordsInit, TablesAre, MemoriesAre
<1>2. WalkFits(walk)
 <2>2. <<>> \in Seq(SUBSET Nat) /\ DOMAIN <<>> = {}  OBVIOUS
 <2> QED BY <2>2 DEF WalkFits, ApartIn, ListedBehind, NoWalk, WalkSet, RecordsInit
<1>3. SweepFits
 <2> QED BY RecordsAssumption DEF RecordsInit, NoSweep, SweepFits, SweepSet
<1>4. OperatorsFit
  BY RecordsAssumption DEF RecordsInit, OperatorsFit, MemoriesStayHome, SeedsKeepControl
<1> QED BY <1>1, <1>2, <1>3, <1>4 DEF RecordsInv

\* Every step keeps the invariant.
LEMMA RecordsStep ==
    ASSUME RecordsInv, [RecordsNext]_recordVars
    PROVE  RecordsInv'
<1>1. CASE \E l \in Lists : TurnPage(l)  BY <1>1, TurnPageInv
<1>2. CASE \E l \in AuditLists : \E matches \in BOOLEAN : NewRow(l, matches)
  BY <1>2, NewRowKeeps
<1>3. CASE \E l \in AuditLists : \E i \in DOMAIN audit[l] : RowChanges(l, i)
  BY <1>3, RowChangesKeeps
<1>4. CASE \E c \in Contexts : ContextActive(c)  BY <1>4, ContextActiveKeeps
<1>5. CASE \E room \in MemoryRooms : \E ttl \in 1..2 : AddMemoryTool(room, ttl) \/ CreateMemory(room, ttl)
  BY <1>5, AddMemoryKeeps DEF AddMemoryTool, CreateMemory
<1>6. CASE \E room \in MemoryRooms : \E id \in MemoryIds : DeleteMemoryTool(room, id)
  BY <1>6, RemoveMemoryKeeps DEF DeleteMemoryTool
<1>7. CASE \E id \in MemoryIds : DeleteMemory(id) \/ \E ttl \in 1..2 : UpdateMemory(id, ttl)
  BY <1>7, DeleteMemoryKeeps, UpdateMemoryKeeps
<1>8. CASE \E recorded \in BOOLEAN : \/ StartModelCall(recorded)
                                     \/ \E i \in DOMAIN payloads : FinishModelCall(i, recorded)
  BY <1>8, StartModelCallKeeps, FinishModelCallKeeps
<1>9. CASE StartSweep \/ ClearBatch \/ SweepEnds
  BY <1>9, StartSweepKeeps, ClearBatchKeeps, SweepEndsKeeps
<1>10. CASE \E u \in Operators : AddOperator(u) \/ RemoveOperator(u)  BY <1>10, OperatorsKeep
<1>11. CASE RestartBot  BY <1>11, RestartBotKeeps
<1>12. CASE RecordsTick  BY <1>12, RecordsTickKeeps
<1>13. CASE UNCHANGED recordVars
 <2> QED BY ListsStay, RestStays, <1>13 DEF RecordsInv, recordVars
<1> QED BY <1>1, <1>2, <1>3, <1>4, <1>5, <1>6, <1>7, <1>8, <1>9, <1>10, <1>11, <1>12, <1>13
        DEF RecordsNext

\* Memories are as many as their ids.
LEMMA IdsAreCounted ==
    ASSUME NEW rows, MemoriesAre(rows)
    PROVE  Cardinality({m.id : m \in rows}) = Cardinality(rows)
<1> DEFINE ids == {m.id : m \in rows}
           g == [m \in rows |-> m.id]
<1>1. g \in Bijection(rows, ids)
  BY DEF Bijection, Injection, Surjection, IsInjective, MemoriesAre
<1> HIDE DEF ids, g
<1> QED BY FS_Bijection, <1>1 DEF ids, MemoriesAre, ExistsBijection

\* A row that is on one page only is listed once.
LEMMA OncePerRow ==
    ASSUME ApartIn(walk.listed), NEW n \in DOMAIN walk.listed, NEW r \in walk.listed[n]
    PROVE  TimesListed(r) = 1
<1> QED BY FS_Singleton DEF TimesListed, ApartIn

\* What the invariant says of the property.
LEMMA RecordsHold ==
    ASSUME RecordsInv
    PROVE  RecordsAreFaithful
<1>1. RecordsTypeOK
 <2>1. MemoriesAre(memories)  BY DEF RecordsInv, TablesAre
 <2>4. sweep.cursor \in 0..RecordBound
  <3> QED BY RecordsAssumption DEF RecordsInv, SweepFits, SweepSet
 <2> QED
   BY <2>4, <2>1, IdsAreCounted DEF RecordsTypeOK, RecordsInv, OperatorsFit,
     MemoriesAre, MemorySet
<1>2. PagesAreStable
 <2>1. WalkFits(walk) /\ ApartIn(walk.listed)  BY DEF RecordsInv, WalkFits
 <2> QED BY <2>1, OncePerRow DEF PagesAreStable, WalkFits, SteadyListed, PassedBy
<1>3. SweepEndsClean
 <2>1. sweep.batches * SweepBatch < sweep.upper + SweepBatch
  <3> QED BY RecordsAssumption DEF RecordsInv, SweepFits, SweepSet
 <2> QED BY <2>1 DEF SweepEndsClean, RecordsInv, SweepFits
<1> QED BY <1>1, <1>2, <1>3 DEF RecordsAreFaithful, RecordsInv, OperatorsFit

\* An operator who turns the pages of a list sees no row twice and misses none that
\* kept its place, a memory ends at home, a sweep ends and leaves nothing it owed, and
\* only the panel takes the bot from an operator of the file (audit.ts, memory.ts,
\* developer-admin.ts, admins.ts).
THEOREM RecordsStayFaithful == RecordsSpec => []RecordsAreFaithful
<1>1. RecordsInit => RecordsInv  BY RecordsStart
<1>2. RecordsInv /\ [RecordsNext]_recordVars => RecordsInv'  BY RecordsStep
<1>3. RecordsInv => RecordsAreFaithful  BY RecordsHold
<1> QED BY <1>1, <1>2, <1>3, PTL DEF RecordsSpec

=============================================================================
