------------------------- MODULE ModelDiscoveryProofs -------------------------
(* How a model gets into the configuration, for every provider's listing, every   *)
(* catalogue, every limit and any number of requests that share the catalogue.    *)
(* DiscoveryInv is the inductive invariant: what a listing, a draft, the dialog   *)
(* and the file may hold while the connection is moved under them.  Its heart is  *)
(* DraftFits: a draft that needs no look knows only what the provider, or the     *)
(* catalogue under the provider's own name, says of exactly that model.           *)
EXTENDS ModelDiscovery, FiniteSetTheorems, SequenceTheorems, TLAPS

-----------------------------------------------------------------------------
(* The inductive invariant.                                                   *)

\* A value for each field of a draft
IsValues(v) == v = [f \in DraftFields |-> v[f]]

\* The fields that a model must have are there.
IsComplete(v) == \A f \in DraftFields \ OptionalFields : v[f] # Missing

\* What of a model at that address comes from where it may.
IsKnown(m) == \A f \in DraftFields \ {"name"} : m.values[f] \in SaidOf(m, f) \cup {Missing}

\* A model of a listing: of a page, or one of which nothing is said.
ModelListed(m) ==
    /\ m.id \in ModelNames
    /\ m.entry = AllMissing \/ m \in UNION {ToSet(page) : page \in Offers}
IdsDiffer(set) == \A m, n \in set : m.id = n.id => m = n
ListFits(listed) ==
    /\ IsFiniteSet(listed) /\ Cardinality(listed) <= MaxModels
    /\ \A m \in listed : ModelListed(m)
    /\ IdsDiffer(listed)

\* A draft for a model at that address: what is not known needs a look.
IsDraft(x) == x.id \in ModelNames /\ IsValues(x.values)
DraftFits(x, url) ==
    /\ IsDraft(x)
    /\ x.needs = {} => IsKnown([id |-> x.id, url |-> url, values |-> x.values])
DraftsFit(drafts, url) ==
    /\ IsFiniteSet(drafts)
    /\ \A x \in drafts : DraftFits(x, url)
    /\ IdsDiffer(drafts)

\* A request, at that time, with a download under way or not, and what has been entered
Stages == {"idle", "pages", "listed", "catalogue", "drafted", "done"}
RequestFields ==
    {"stage", "url", "secrets", "page", "bytes", "listed", "asked", "drafts", "read"}
RequestIs(r) == DOMAIN r = RequestFields /\ r = [f \in RequestFields |-> r[f]]
RequestFits(r, now, loading, entered) ==
    /\ RequestIs(r)
    /\ r.stage \in Stages /\ r.url \in Urls
    /\ r.page \in 0..MaxPages /\ r.bytes \in 0..MaxBytes
    /\ ListFits(r.listed) /\ DraftsFit(r.drafts, r.url)
    /\ r.asked \in 0..now
    /\ r.stage = "pages" => r.page < MaxPages /\ r.secrets # {}
    /\ r.stage \in {"listed", "catalogue"} /\ r.secrets = {} => r.listed # {}
    /\ r.stage = "catalogue" => loading
    /\ r.stage = "drafted" => /\ r.read \in Nat /\ r.read + CatalogueTicks > r.asked
                              /\ r.secrets = {} => r.drafts # {}
    /\ {r.url} \X r.secrets \subseteq entered
RequestsFit ==
    /\ discoveries = [d \in Discoveries |-> discoveries[d]]
    /\ \A d \in Discoveries : RequestFits(discoveries[d], clock, pending, chosen)

\* What is cached is what was read, until it expires.
CatalogueFits ==
    /\ clock \in Nat \ {0} /\ pending \in BOOLEAN
    /\ catalogue.models \in Catalogues \cup {NoCatalogue.models}
    /\ catalogue.read \in Nat
    /\ catalogue.until \in {0, catalogue.read + CatalogueTicks}

\* The dialog
ResolvedFits(resolved) ==
    /\ DOMAIN resolved = ModelNames
    /\ resolved = [m \in ModelNames |-> resolved[m]]
    /\ \A m \in ModelNames : resolved[m] # Unresolved => IsComplete(resolved[m])
DialogFields == {"open", "waits", "seen", "url", "drafts", "selected", "resolved", "editing"}
DialogIs(p) == DOMAIN p = DialogFields /\ p = [f \in DialogFields |-> p[f]]
DialogFits(p) ==
    /\ DialogIs(p)
    /\ p.url \in Urls /\ DraftsFit(p.drafts, p.url)
    /\ ResolvedFits(p.resolved)
    /\ p.editing = NoDraft \/ IsDraft(p.editing)
PickerFits == DialogFits(picker)

\* The models that are written
ModelFits(m) ==
    /\ ValidForm(m.values) /\ ModelIsAllowed(m.values)
    /\ ~m.confirmed => IsKnown(m)
IsSequence(s) == s \in Seq({s[i] : i \in DOMAIN s})
SequenceFits(s) ==
    /\ IsSequence(s)
    /\ \A i \in DOMAIN s : ModelFits(s[i])
    /\ \A i, j \in DOMAIN s : s[i].id = s[j].id => i = j
ModelsFit == SequenceFits(models)

\* The connections; a provider has a key.
ConnectionIs(c) ==
    /\ c = [url |-> c.url, key |-> c.key, header |-> c.header]
    /\ c.url \in Urls /\ c.key \in Nat \ {0} /\ c.header \in Nat
ConnectionsFit ==
    /\ ConnectionIs(connection) /\ ConnectionIs(running)
    /\ SecretsAt(connection) \subseteq chosen /\ SecretsAt(running) \subseteq chosen
    /\ IsFiniteSet(chosen)

DiscoveryInv ==
    CatalogueFits /\ ConnectionsFit /\ PickerFits /\ ModelsFit /\ RequestsFit

-----------------------------------------------------------------------------
(* Sets and sequences.                                                        *)

\* The values of a function with a finite domain are finitely many.
LEMMA ValuesAreFew ==
    ASSUME NEW T, IsFiniteSet(T), NEW g, DOMAIN g = T, g = [x \in T |-> g[x]]
    PROVE  IsFiniteSet({g[x] : x \in T})
<1> DEFINE V == {g[x] : x \in T}
<1>1. g \in Surjection(T, V)  BY DEF Surjection
<1> HIDE DEF V
<1>2. IsFiniteSet(V)  BY <1>1, FS_Surjection
<1> QED BY <1>2 DEF V

\* An element of a set is an element of its sequence, once.
LEMMA SetToSeqIs ==
    ASSUME NEW S, IsFiniteSet(S)
    PROVE  /\ SetToSeq(S) \in [1..Cardinality(S) -> S]
           /\ \A i, j \in 1..Cardinality(S) : SetToSeq(S)[i] = SetToSeq(S)[j] => i = j
           /\ Cardinality(S) \in Nat
<1>1. Cardinality(S) \in Nat /\ ExistsBijection(1..Cardinality(S), S)  BY FS_CardinalityType
<1>2. PICK f : f \in Bijection(1..Cardinality(S), S)  BY <1>1 DEF ExistsBijection
<1>3. f \in [1..Cardinality(S) -> S] /\ IsInjective(f)
  BY <1>2 DEF Bijection, Injection, Surjection
<1> QED BY <1>1, <1>3 DEF SetToSeq, IsInjective

-----------------------------------------------------------------------------
(* What a draft knows.                                                        *)

\* What a listing says of a model is what its provider has said of it.
LEMMA OwnIsSaid ==
    ASSUME NEW m, ModelListed(m), NEW url \in Urls, NEW f \in DraftFields, NEW values,
           ReadExtension(PlanOf[url].format, m.entry)[f] # Missing
    PROVE  ReadExtension(PlanOf[url].format, m.entry)[f]
               \in SaidOf([id |-> m.id, url |-> url, values |-> values], f)
<1>1. m.entry # AllMissing
 <2> SUFFICES ASSUME m.entry = AllMissing PROVE FALSE  OBVIOUS
 <2>1. \A g \in DraftFields : m.entry[g] = Missing  BY DEF AllMissing
 <2> QED BY <2>1 DEF ReadExtension
<1>2. m \in UNION {ToSet(page) : page \in Offers}  BY <1>1 DEF ModelListed
<1> DEFINE known == [id |-> m.id, url |-> url, values |-> values]
<1>3. known.id = m.id /\ known.url = url  OBVIOUS
<1> HIDE DEF known
<1>4. ReadExtension(PlanOf[url].format, m.entry)[f] \in SaidOf(known, f)
  BY <1>2, <1>3 DEF SaidOf
<1> QED BY <1>4 DEF known

\* What the catalogue has under the provider's own name is what it says of the model.
LEMMA ExactIsSaid ==
    ASSUME NEW c \in Catalogues \cup {NoCatalogue.models}, NEW id \in ModelNames, NEW url \in Urls,
           NEW f \in DraftFields, NEW values, DiscoveryAssumption,
           MatchModelsDev(c, HintOf[url], id).confidence = "exact"
    PROVE  MatchModelsDev(c, HintOf[url], id).entry[f]
               \in SaidOf([id |-> id, url |-> url, values |-> values], f)
<1> DEFINE hint == HintOf[url]
<1>1. hint \in 1..Providers /\ Has(c[hint], id)
      /\ MatchModelsDev(c, hint, id).entry = FindModel(c[hint], id)
  BY DEF MatchModelsDev
<1>2. c # NoCatalogue.models
 <2> SUFFICES ASSUME c = NoCatalogue.models PROVE FALSE  OBVIOUS
 <2>1. c[hint] = <<>>  BY <1>1 DEF NoCatalogue
 <2> QED BY <1>1, <2>1 DEF Has
<1>3. c \in Catalogues  BY <1>2
<1> DEFINE known == [id |-> id, url |-> url, values |-> values]
<1>4. known.id = id /\ known.url = url  OBVIOUS
<1>5. hint # 0  BY <1>1 DEF DiscoveryAssumption
<1> HIDE DEF known
<1>6. FindModel(c[hint], id)[f] \in SaidOf(known, f)  BY <1>1, <1>3, <1>4, <1>5 DEF SaidOf
<1> QED BY <1>1, <1>6 DEF known

\* A draft that needs no look knows of each field what its provider or the catalogue
\* says of exactly that model, the name apart.
LEMMA DraftIsKnown ==
    ASSUME NEW c \in Catalogues \cup {NoCatalogue.models}, NEW url \in Urls, NEW m, ModelListed(m),
           DiscoveryAssumption
    PROVE  LET own == ReadExtension(PlanOf[url].format, m.entry)
               x == ResolveModelDraft(m.id, own, MatchModelsDev(c, HintOf[url], m.id))
           IN  x.id = m.id /\ DraftFits(x, url)
<1> DEFINE own == ReadExtension(PlanOf[url].format, m.entry)
           match == MatchModelsDev(c, HintOf[url], m.id)
           x == ResolveModelDraft(m.id, own, match)
           known == [id |-> m.id, url |-> url, values |-> x.values]
<1>0. m.id \in ModelNames  BY DEF ModelListed
<1>1. \A f \in DraftFields : own[f] # Missing => own[f] \in SaidOf(known, f)
 <2> SUFFICES ASSUME NEW f \in DraftFields, own[f] # Missing PROVE own[f] \in SaidOf(known, f)
   OBVIOUS
 <2> HIDE DEF x
 <2> QED BY OwnIsSaid
<1>2. match.confidence = "exact" => \A f \in DraftFields : match.entry[f] \in SaidOf(known, f)
 <2> SUFFICES ASSUME match.confidence = "exact", NEW f \in DraftFields
              PROVE  match.entry[f] \in SaidOf(known, f)
   OBVIOUS
 <2> HIDE DEF x
 <2> QED BY <1>0, ExactIsSaid
<1>3. \/ match.confidence = "exact"
      \/ match.confidence \in GuessedMatches
      \/ match.confidence = "missing" /\ \A f \in DraftFields : match.entry[f] = Missing
  BY DEF MatchModelsDev, GuessedMatches, AllMissing
<1> HIDE DEF own, match
<1> DEFINE filled == [f \in DraftFields |-> IF own[f] # Missing THEN own[f] ELSE match.entry[f]]
           values == [filled EXCEPT !["thinking_levels"] =
                          IF filled["reasoning"] = Yes THEN @ ELSE Missing]
           guessed == {f \in DraftFields : own[f] = Missing /\ match.confidence \in GuessedMatches}
           unsure == {f \in DraftFields : IF values[f] = Missing THEN f # "thinking_levels"
                                          ELSE f \in guessed \ {"name"}}
<1>4. x.id = m.id /\ x.values = values /\ unsure \subseteq x.needs  BY DEF ResolveModelDraft
<1>5. DOMAIN values = DraftFields /\ values = [f \in DraftFields |-> values[f]]
      /\ \A f \in DraftFields : \/ values[f] = Missing
                                \/ own[f] # Missing /\ values[f] = own[f]
                                \/ own[f] = Missing /\ values[f] = match.entry[f]
  BY DEF DraftFields
<1> DEFINE free == [id |-> m.id, url |-> url, values |-> values]
<1>6. known = free  BY <1>4
<1> HIDE DEF x, known, values, filled
<1>7. x.needs = {} => \A f \in DraftFields \ {"name"} : values[f] \in SaidOf(known, f) \cup {Missing}
 <2> SUFFICES ASSUME x.needs = {}, NEW f \in DraftFields \ {"name"}, values[f] # Missing
              PROVE  values[f] \in SaidOf(known, f)
   OBVIOUS
 <2>1. f \notin guessed  BY <1>4
 <2>2. CASE own[f] # Missing  BY <1>1, <1>5, <2>2
 <2>3. CASE own[f] = Missing
  <3>1. match.confidence \notin GuessedMatches  BY <2>1, <2>3
  <3>2. values[f] = match.entry[f]  BY <1>5, <2>3
  <3> QED BY <1>2, <1>3, <3>1, <3>2
 <2> QED BY <2>2, <2>3
<1>8. IsDraft(x)  BY <1>0, <1>4, <1>5 DEF IsDraft, IsValues
<1>9. x.needs = {} => IsKnown(known)
 <2>1. known.values = values  BY <1>6
 <2> QED BY <1>7, <2>1 DEF IsKnown
<1>10. DraftFits(x, url)  BY <1>4, <1>8, <1>9 DEF DraftFits, known
<1> QED BY <1>4, <1>10 DEF x, own, match

\* The drafts of a listing are good.
LEMMA DraftsAreKnown ==
    ASSUME NEW c \in Catalogues \cup {NoCatalogue.models}, NEW url \in Urls, NEW listed, ListFits(listed),
           DiscoveryAssumption
    PROVE  /\ DraftsFit(ResolveModelDrafts(listed, url, c), url)
           /\ listed # {} => ResolveModelDrafts(listed, url, c) # {}
<1> DEFINE g == [m \in listed |-> ResolveModelDraft(m.id, ReadExtension(PlanOf[url].format, m.entry),
                                       MatchModelsDev(c, HintOf[url], m.id))]
<1>1. ResolveModelDrafts(listed, url, c) = {g[m] : m \in listed}  BY DEF ResolveModelDrafts
<1>2. \A m \in listed : g[m].id = m.id /\ DraftFits(g[m], url)
 <2> SUFFICES ASSUME NEW m \in listed PROVE g[m].id = m.id /\ DraftFits(g[m], url)  OBVIOUS
 <2>1. ModelListed(m)  BY DEF ListFits
 <2> QED BY <2>1, DraftIsKnown
<1>3. DOMAIN g = listed /\ g = [m \in listed |-> g[m]]  OBVIOUS
<1> HIDE DEF g
<1>4. IsFiniteSet({g[m] : m \in listed})  BY <1>3, ValuesAreFew DEF ListFits
<1>5. IdsDiffer({g[m] : m \in listed})  BY <1>2 DEF IdsDiffer, ListFits
<1>6. \A x \in {g[m] : m \in listed} : DraftFits(x, url)  BY <1>2
<1> QED BY <1>1, <1>4, <1>5, <1>6 DEF DraftsFit

-----------------------------------------------------------------------------
(* Listings and requests.                                                     *)

\* What a page adds to a listing is finite.
LEMMA CollectedIsFinite ==
    ASSUME NEW listed, IsFiniteSet(listed), NEW page \in Offers, NEW format, DiscoveryAssumption
    PROVE  IsFiniteSet(CollectModels(listed, page, ParsePage(format, page)))
<1> DEFINE kept == ParsePage(format, page)
           taken == {j \in kept : /\ \A m \in listed : m.id # page[j].id
                                  /\ \A k \in kept : k < j => page[k].id # page[j].id}
           new == {page[i] : i \in taken}
           g == [i \in taken |-> page[i]]
<1>1. DOMAIN page = 1..Len(page) /\ Len(page) \in Nat  BY DEF DiscoveryAssumption
<1>2. kept \subseteq 1..Len(page)  BY <1>1 DEF ParsePage
<1> HIDE DEF kept
<1>3. CollectModels(listed, page, kept) = listed \cup new  BY DEF CollectModels
<1>4. taken \subseteq 1..Len(page)  BY <1>2
<1>5. IsFiniteSet(taken)
 <2> HIDE DEF taken
 <2>1. IsFiniteSet(1..Len(page))  BY <1>1, FS_Interval
 <2> QED BY <1>4, <2>1, FS_Subset
<1>6. new = {g[i] : i \in taken}  OBVIOUS
<1>7. DOMAIN g = taken /\ g = [i \in taken |-> g[i]]  OBVIOUS
<1> HIDE DEF taken, g, new
<1>8. IsFiniteSet(new)
 <2>1. IsFiniteSet({g[i] : i \in taken})  BY <1>5, <1>7, ValuesAreFew
 <2> QED BY <1>6, <2>1
<1> QED BY <1>3, <1>8, FS_Union DEF kept

\* A page adds to a listing, of each id, at most one model of its own.
LEMMA ListGrows ==
    ASSUME NEW listed, ListFits(listed), NEW page \in Offers, NEW format, DiscoveryAssumption,
           Cardinality(CollectModels(listed, page, ParsePage(format, page))) <= MaxModels
    PROVE  ListFits(CollectModels(listed, page, ParsePage(format, page)))
<1> DEFINE kept == ParsePage(format, page)
           taken == {j \in kept : /\ \A m \in listed : m.id # page[j].id
                                  /\ \A k \in kept : k < j => page[k].id # page[j].id}
           new == {page[i] : i \in taken}
<1>1. DOMAIN page = 1..Len(page) /\ Len(page) \in Nat /\ \A i \in DOMAIN page : page[i].id \in ModelNames
  BY DEF DiscoveryAssumption
<1>2. kept \subseteq DOMAIN page  BY DEF ParsePage
<1> HIDE DEF kept
<1>3. CollectModels(listed, page, kept) = listed \cup new  BY DEF CollectModels
<1>4. taken \subseteq 1..Len(page)  BY <1>1, <1>2
<1>5. IsFiniteSet(listed \cup new)
 <2>1. IsFiniteSet(CollectModels(listed, page, kept))  BY CollectedIsFinite DEF ListFits, kept
 <2> QED BY <1>3, <2>1
<1>6. \A m \in new : ModelListed(m)
 <2> SUFFICES ASSUME NEW i \in taken PROVE ModelListed(page[i])  OBVIOUS
 <2>1. i \in DOMAIN page  BY <1>2
 <2>2. page[i] \in ToSet(page)  BY <2>1 DEF ToSet
 <2> QED BY <1>1, <2>1, <2>2 DEF ModelListed
<1>7. \A m \in new : \A n \in listed : m.id # n.id  OBVIOUS
<1>8. \A m, n \in new : m.id = n.id => m = n
 <2> SUFFICES ASSUME NEW i \in taken, NEW j \in taken, page[i].id = page[j].id PROVE i = j
   OBVIOUS
 <2>1. i \in Int /\ j \in Int  BY <1>4
 <2>2. ~(i < j) /\ ~(j < i)  OBVIOUS
 <2> QED BY <2>1, <2>2
<1>9. IdsDiffer(listed \cup new)
 <2> HIDE DEF new
 <2> QED BY <1>7, <1>8 DEF IdsDiffer, ListFits
<1>10. \A m \in listed \cup new : ModelListed(m)  BY <1>6 DEF ListFits
<1>11. Cardinality(listed \cup new) <= MaxModels  BY <1>3 DEF kept
<1> HIDE DEF new
<1>12. ListFits(listed \cup new)  BY <1>5, <1>9, <1>10, <1>11 DEF ListFits
<1> QED BY <1>3, <1>12 DEF kept

\* A listing with nothing in it, and drafts of nothing, are good.
LEMMA NothingFits ==
    ASSUME NEW url, DiscoveryAssumption
    PROVE  ListFits({}) /\ DraftsFit({}, url)
BY FS_EmptySet DEF ListFits, DraftsFit, IdsDiffer, DiscoveryAssumption

\* A request stays good as time passes and more is entered.
LEMMA RequestStays ==
    ASSUME NEW r, NEW now \in Nat, NEW then \in Nat, now <= then, NEW loading, NEW busy, loading => busy,
           NEW entered, NEW more, entered \subseteq more, RequestFits(r, now, loading, entered)
    PROVE  RequestFits(r, then, busy, more)
<1>1. r.asked \in 0..then  BY DEF RequestFits
<1> QED BY <1>1 DEF RequestFits

\* A request before it is made
LEMMA NoRequestIs ==
    ASSUME Urls # {}
    PROVE  /\ RequestIs(NoDiscovery)
           /\ NoDiscovery.stage = "idle" /\ NoDiscovery.secrets = {} /\ NoDiscovery.page = 0
           /\ NoDiscovery.bytes = 0 /\ NoDiscovery.listed = {} /\ NoDiscovery.asked = 0
           /\ NoDiscovery.drafts = {} /\ NoDiscovery.url \in Urls
<1>1. RequestIs(NoDiscovery)  BY DEF RequestIs, RequestFields, NoDiscovery
<1> QED BY <1>1 DEF NoDiscovery

\* A request that has been answered, or has not been made
LEMMA NoRequestFits ==
    ASSUME NEW now \in Nat, NEW loading, NEW entered, Urls # {}, DiscoveryAssumption
    PROVE  RequestFits(NoDiscovery, now, loading, entered) /\ RequestFits(Answered, now, loading, entered)
<1>1. RequestIs(NoDiscovery)  BY NoRequestIs
<1>2. /\ NoDiscovery.stage = "idle" /\ NoDiscovery.secrets = {} /\ NoDiscovery.page = 0
      /\ NoDiscovery.bytes = 0 /\ NoDiscovery.listed = {} /\ NoDiscovery.asked = 0
      /\ NoDiscovery.drafts = {} /\ NoDiscovery.url \in Urls
  BY NoRequestIs
<1>3. LET r == [NoDiscovery EXCEPT !.stage = "done"]
      IN  RequestIs(r) /\ r.stage = "done" /\ \A f \in RequestFields \ {"stage"} : r[f] = NoDiscovery[f]
  BY <1>1 DEF RequestIs, RequestFields
<1>4. RequestIs(Answered) /\ Answered.stage = "done"
      /\ \A f \in RequestFields \ {"stage"} : Answered[f] = NoDiscovery[f]
  BY <1>3 DEF Answered
<1>5. /\ Answered.secrets = {} /\ Answered.page = 0 /\ Answered.bytes = 0 /\ Answered.listed = {}
      /\ Answered.asked = 0 /\ Answered.drafts = {} /\ Answered.url \in Urls
  BY <1>2, <1>4 DEF RequestFields
<1>6. MaxPages \in Nat /\ MaxBytes \in Nat  BY DEF DiscoveryAssumption
<1> QED BY <1>1, <1>2, <1>4, <1>5, <1>6, NothingFits DEF RequestFits, Stages

\* A request that is drafted
LEMMA DraftedFits ==
    ASSUME NEW r, NEW now \in Nat, NEW loading, NEW entered, RequestFits(r, now, loading, entered),
           r.stage \in {"listed", "catalogue"},
           NEW c \in Catalogues \cup {NoCatalogue.models}, NEW read \in Nat,
           read + CatalogueTicks > r.asked, DiscoveryAssumption, NEW busy
    PROVE  RequestFits(Drafted(r, c, read), now, busy, entered)
<1> DEFINE drafts == ResolveModelDrafts(r.listed, r.url, c)
<1> DEFINE x == Drafted(r, c, read)
<1>1. /\ RequestIs(x) /\ x.stage = "drafted" /\ x.drafts = drafts /\ x.read = read
      /\ \A f \in RequestFields \ {"stage", "drafts", "read"} : x[f] = r[f]
 <2>1. RequestIs(r)  BY DEF RequestFits
 <2> HIDE DEF drafts
 <2>2. LET y == [r EXCEPT !.stage = "drafted", !.drafts = drafts, !.read = read]
       IN  /\ RequestIs(y) /\ y.stage = "drafted" /\ y.drafts = drafts /\ y.read = read
           /\ \A f \in RequestFields \ {"stage", "drafts", "read"} : y[f] = r[f]
   BY <2>1 DEF RequestIs, RequestFields
 <2> QED BY <2>2 DEF Drafted, drafts
<1>2. DraftsFit(drafts, r.url) /\ (r.listed # {} => drafts # {})
  BY DraftsAreKnown DEF RequestFits
<1>3. /\ x.url = r.url /\ x.secrets = r.secrets /\ x.page = r.page /\ x.bytes = r.bytes
      /\ x.listed = r.listed /\ x.asked = r.asked
  BY <1>1 DEF RequestFields
<1> HIDE DEF drafts, x
<1>4. RequestFits(x, now, busy, entered)  BY <1>1, <1>2, <1>3 DEF RequestFits, Stages
<1> QED BY <1>4 DEF x

\* One request changes, the others stay good.
LEMMA OthersStay ==
    ASSUME NEW d \in Discoveries, NEW r, RequestsFit, SetDiscovery(d, r),
           clock \in Nat, clock' \in Nat, clock <= clock', pending => pending', chosen \subseteq chosen',
           RequestFits(r, clock', pending', chosen')
    PROVE  RequestsFit'
<1>1. discoveries' = [discoveries EXCEPT ![d] = r] /\ discoveries = [e \in Discoveries |-> discoveries[e]]
  BY DEF SetDiscovery, RequestsFit
<1>2. discoveries' = [e \in Discoveries |-> discoveries'[e]]  BY <1>1
<1>3. ASSUME NEW e \in Discoveries PROVE RequestFits(discoveries'[e], clock', pending', chosen')
 <2>1. CASE e = d  BY <1>1, <2>1
 <2>2. CASE e # d
  <3>1. discoveries'[e] = discoveries[e] /\ RequestFits(discoveries[e], clock, pending, chosen)
    BY <1>1, <2>2 DEF RequestsFit
  <3> QED BY <3>1, RequestStays
 <2> QED BY <2>1, <2>2
<1> QED BY <1>2, <1>3 DEF RequestsFit

\* No request changes.
LEMMA AllStay ==
    ASSUME RequestsFit, UNCHANGED discoveries,
           clock \in Nat, clock' \in Nat, clock <= clock', pending => pending', chosen \subseteq chosen'
    PROVE  RequestsFit'
<1>1. ASSUME NEW e \in Discoveries PROVE RequestFits(discoveries[e], clock', pending', chosen')
 <2>1. RequestFits(discoveries[e], clock, pending, chosen)  BY DEF RequestsFit
 <2> QED BY <2>1, RequestStays
<1> QED BY <1>1 DEF RequestsFit

-----------------------------------------------------------------------------
(* What a step leaves alone.                                                  *)

\* The catalogue stays.
LEMMA CatalogueStays ==
    ASSUME CatalogueFits, UNCHANGED <<clock, pending, catalogue>>
    PROVE  CatalogueFits'
BY DEF CatalogueFits, NoCatalogue

\* The connections stay, and more may have been entered.
LEMMA ConnectionsStay ==
    ASSUME ConnectionsFit, UNCHANGED <<connection, running>>, chosen \subseteq chosen', IsFiniteSet(chosen')
    PROVE  ConnectionsFit'
BY DEF ConnectionsFit, ConnectionIs, SecretsAt

\* The models stay.
LEMMA ModelsStay ==
    ASSUME ModelsFit, UNCHANGED models
    PROVE  ModelsFit'
BY DEF ModelsFit

\* The dialog stays.
LEMMA PickerStays ==
    ASSUME PickerFits, UNCHANGED picker
    PROVE  PickerFits'
BY DEF PickerFits

\* The dialog has another one instead.
LEMMA PickerBecomes ==
    ASSUME NEW p, DialogFits(p), picker' = p
    PROVE  PickerFits'
BY DEF PickerFits

\* The dialog only waits for another answer, or was opened with another revision.
LEMMA WaitsElse ==
    ASSUME NEW p, DialogFits(p), NEW w
    PROVE  DialogFits([p EXCEPT !.waits = w]) /\ DialogFits([p EXCEPT !.seen = w])
<1>1. DialogIs(p)  BY DEF DialogFits
<1>2. LET q == [p EXCEPT !.waits = w]
      IN  /\ DialogIs(q) /\ q.url = p.url /\ q.drafts = p.drafts /\ q.resolved = p.resolved
          /\ q.editing = p.editing
  BY <1>1 DEF DialogIs, DialogFields
<1>3. LET q == [p EXCEPT !.seen = w]
      IN  /\ DialogIs(q) /\ q.url = p.url /\ q.drafts = p.drafts /\ q.resolved = p.resolved
          /\ q.editing = p.editing
  BY <1>1 DEF DialogIs, DialogFields
<1>4. DialogFits([p EXCEPT !.waits = w])
 <2> DEFINE q == [p EXCEPT !.waits = w]
 <2>1. /\ DialogIs(q) /\ q.url = p.url /\ q.drafts = p.drafts /\ q.resolved = p.resolved
       /\ q.editing = p.editing
   BY <1>2
 <2> HIDE DEF q
 <2>2. DialogFits(q)  BY <2>1 DEF DialogFits
 <2> QED BY <2>2 DEF q
<1>5. DialogFits([p EXCEPT !.seen = w])
 <2> DEFINE q == [p EXCEPT !.seen = w]
 <2>1. /\ DialogIs(q) /\ q.url = p.url /\ q.drafts = p.drafts /\ q.resolved = p.resolved
       /\ q.editing = p.editing
   BY <1>3
 <2> HIDE DEF q
 <2>2. DialogFits(q)  BY <2>1 DEF DialogFits
 <2> QED BY <2>2 DEF q
<1> QED BY <1>4, <1>5

\* A dialog that has just been opened, or is closed.
LEMMA ClosedFits ==
    ASSUME Urls # {}, DiscoveryAssumption
    PROVE  DialogFits(Closed) /\ \A n : DialogFits([Closed EXCEPT !.open = TRUE, !.seen = n])
<1>1. /\ DialogIs(Closed) /\ Closed.url \in Urls /\ Closed.drafts = {}
      /\ Closed.resolved = [m \in ModelNames |-> Unresolved] /\ Closed.editing = NoDraft
  BY DEF Closed, DialogIs, DialogFields
<1>2. ResolvedFits(Closed.resolved)  BY <1>1 DEF ResolvedFits
<1>3. DialogFits(Closed)  BY <1>1, <1>2, NothingFits DEF DialogFits
<1>4. ASSUME NEW n PROVE DialogFits([Closed EXCEPT !.open = TRUE, !.seen = n])
 <2> DEFINE q == [Closed EXCEPT !.open = TRUE, !.seen = n]
 <2>1. /\ DialogIs(q) /\ q.url = Closed.url /\ q.drafts = Closed.drafts
       /\ q.resolved = Closed.resolved /\ q.editing = Closed.editing
   BY <1>1 DEF DialogIs, DialogFields
 <2> HIDE DEF q
 <2>2. DialogFits(q)  BY <1>3, <2>1 DEF DialogFits
 <2> QED BY <2>2 DEF q
<1> QED BY <1>3, <1>4

-----------------------------------------------------------------------------
(* The requests move.                                                         *)

\* There is an address.
LEMMA SomeUrl ==
    ASSUME ConnectionsFit
    PROVE  Urls # {}
BY DEF ConnectionsFit, ConnectionIs

\* BeginDiscover keeps the invariant.
LEMMA BeginDiscoverKeeps ==
    ASSUME DiscoveryInv, NEW d \in Discoveries, BeginDiscover(d), DiscoveryAssumption
    PROVE  DiscoveryInv'
<1> USE DEF DiscoveryInv
<1>1. UNCHANGED <<connection, running, models, catalogue, pending, clock>>  BY DEF BeginDiscover
<1> DEFINE Begun(url, secrets) ==
               /\ SetDiscovery(d, [NoDiscovery EXCEPT !.stage = "pages", !.url = url, !.secrets = secrets])
               /\ secrets # {} /\ {url} \X secrets \subseteq chosen'
               /\ chosen \subseteq chosen' /\ IsFiniteSet(chosen')
<1>2. \E url \in Urls : \E secrets : Begun(url, secrets)
 <2>1. CASE /\ SetDiscovery(d, [NoDiscovery EXCEPT !.stage = "pages", !.url = running.url,
                                    !.secrets = {running.key, running.header} \ {0}])
            /\ UNCHANGED chosen
  <3>1. {running.key, running.header} \ {0} # {}  BY DEF ConnectionsFit, ConnectionIs
  <3>2. {running.url} \X ({running.key, running.header} \ {0}) \subseteq chosen
    BY DEF ConnectionsFit, SecretsAt
  <3>3. Begun(running.url, {running.key, running.header} \ {0})
    BY <2>1, <3>1, <3>2 DEF ConnectionsFit
  <3>4. running.url \in Urls  BY DEF ConnectionsFit, ConnectionIs
  <3> HIDE DEF Begun
  <3> QED BY <3>3, <3>4
 <2>2. CASE /\ SetDiscovery(d, [NoDiscovery EXCEPT !.stage = "pages", !.url = connection.url,
                                    !.secrets = {NewSecret}])
            /\ chosen' = chosen \cup {<<connection.url, NewSecret>>}
  <3>1. {connection.url} \X {NewSecret} \subseteq chosen'  BY <2>2
  <3>2. IsFiniteSet(chosen')  BY <2>2, FS_AddElement DEF ConnectionsFit
  <3>3. Begun(connection.url, {NewSecret})  BY <2>2, <3>1, <3>2
  <3>4. connection.url \in Urls  BY DEF ConnectionsFit, ConnectionIs
  <3> HIDE DEF Begun
  <3> QED BY <3>3, <3>4
 <2> QED BY <2>1, <2>2 DEF BeginDiscover
<1> PICK url \in Urls : \E secrets : Begun(url, secrets)  BY <1>2
<1> PICK secrets : Begun(url, secrets)  OBVIOUS
<1> DEFINE r == [NoDiscovery EXCEPT !.stage = "pages", !.url = url, !.secrets = secrets]
<1>3. /\ RequestIs(r) /\ r.stage = "pages" /\ r.url = url /\ r.secrets = secrets
      /\ r.page = 0 /\ r.bytes = 0 /\ r.listed = {} /\ r.asked = 0 /\ r.drafts = {}
  BY NoRequestIs DEF RequestIs, RequestFields
<1>9. SetDiscovery(d, r)  OBVIOUS
<1> HIDE DEF r
<1>4. clock \in Nat /\ MaxPages \in Nat \ {0} /\ MaxBytes \in Nat
  BY DEF CatalogueFits, DiscoveryAssumption
<1>5. RequestFits(r, clock', pending', chosen')
  BY <1>1, <1>3, <1>4, NothingFits DEF RequestFits, Stages
<1>6. RequestsFit'  BY <1>1, <1>9, <1>4, <1>5, OthersStay
<1>7. PickerFits'
 <2>1. picker' = [picker EXCEPT !.waits = d]  BY DEF BeginDiscover
 <2> QED BY <2>1, WaitsElse, PickerBecomes DEF PickerFits
<1> QED BY <1>1, <1>6, <1>7, CatalogueStays, ConnectionsStay, ModelsStay

\* BeginLookup keeps the invariant.
LEMMA BeginLookupKeeps ==
    ASSUME DiscoveryInv, NEW d \in Discoveries, NEW id \in ModelNames, BeginLookup(d, id), DiscoveryAssumption
    PROVE  DiscoveryInv'
<1> USE DEF DiscoveryInv
<1>1. UNCHANGED <<connection, running, models, catalogue, pending, clock, chosen>>
  BY DEF BeginLookup
<1> DEFINE m == [id |-> id, entry |-> AllMissing, generates |-> TRUE]
           r == [NoDiscovery EXCEPT !.stage = "listed", !.url = connection.url, !.listed = {m}]
<1>2. SetDiscovery(d, r)  BY DEF BeginLookup
<1>3. ListFits({m})
 <2>1. IsFiniteSet({m}) /\ Cardinality({m}) = 1  BY FS_Singleton
 <2>2. ModelListed(m)  BY DEF ModelListed
 <2>3. IdsDiffer({m})  BY DEF IdsDiffer
 <2> HIDE DEF m
 <2> QED BY <2>1, <2>2, <2>3 DEF ListFits, DiscoveryAssumption
<1> HIDE DEF m
<1>4. /\ RequestIs(r) /\ r.stage = "listed" /\ r.url = connection.url /\ r.secrets = {}
      /\ r.page = 0 /\ r.bytes = 0 /\ r.listed = {m} /\ r.asked = 0 /\ r.drafts = {}
  BY SomeUrl, NoRequestIs DEF RequestIs, RequestFields
<1> HIDE DEF r
<1>5. clock \in Nat /\ MaxPages \in Nat \ {0} /\ MaxBytes \in Nat /\ connection.url \in Urls
  BY DEF CatalogueFits, DiscoveryAssumption, ConnectionsFit, ConnectionIs
<1>6. RequestFits(r, clock', pending', chosen')
  BY <1>1, <1>3, <1>4, <1>5, NothingFits DEF RequestFits, Stages
<1>7. RequestsFit'  BY <1>1, <1>2, <1>5, <1>6, OthersStay
<1>8. PickerFits'
 <2>1. picker' = [picker EXCEPT !.waits = d]  BY DEF BeginLookup
 <2> QED BY <2>1, WaitsElse, PickerBecomes DEF PickerFits
<1>9. IsFiniteSet(chosen')  BY <1>1 DEF ConnectionsFit
<1> QED BY <1>1, <1>7, <1>8, <1>9, CatalogueStays, ConnectionsStay, ModelsStay

\* A request that fails
LEMMA FailKeeps ==
    ASSUME DiscoveryInv, NEW d \in Discoveries, FailDiscovery(d), DiscoveryAssumption,
           UNCHANGED <<connection, running, models, catalogue, pending, clock, chosen>>
    PROVE  DiscoveryInv'
<1> USE DEF DiscoveryInv
<1>1. clock \in Nat  BY DEF CatalogueFits
<1>2. RequestFits(Answered, clock', pending', chosen')  BY <1>1, SomeUrl, NoRequestFits
<1>3. RequestsFit'  BY <1>1, <1>2, OthersStay DEF FailDiscovery
<1>4. PickerFits'  BY WaitsElse, PickerBecomes DEF FailDiscovery, PickerFits
<1>5. IsFiniteSet(chosen')  BY DEF ConnectionsFit
<1> QED BY <1>3, <1>4, <1>5, CatalogueStays, ConnectionsStay, ModelsStay

\* PageFails keeps the invariant.
LEMMA PageFailsKeeps ==
    ASSUME DiscoveryInv, NEW d \in Discoveries, PageFails(d), DiscoveryAssumption
    PROVE  DiscoveryInv'
BY FailKeeps DEF PageFails

\* PageArrives keeps the invariant.
LEMMA PageArrivesKeeps ==
    ASSUME DiscoveryInv, NEW d \in Discoveries, NEW page \in Offers, NEW size \in 1..2,
           NEW more \in BOOLEAN, PageArrives(d, page, size, more), DiscoveryAssumption
    PROVE  DiscoveryInv'
<1> DEFINE r == discoveries[d]
           plan == PlanOf[r.url]
           listed == CollectModels(r.listed, page, ParsePage(plan.format, page))
           stage == IF more /\ plan.paginated /\ r.page + 1 < MaxPages THEN "pages" ELSE "listed"
           next == [r EXCEPT !.page = @ + 1, !.bytes = @ + size, !.listed = listed, !.stage = stage]
<1>1. UNCHANGED <<connection, running, models, catalogue, pending, clock, chosen>> /\ r.stage = "pages"
  BY DEF PageArrives
<1>2. CASE FailDiscovery(d)  BY <1>1, <1>2, FailKeeps
<1>3. CASE /\ ~(r.bytes + size > MaxBytes) /\ ~(Cardinality(listed) > MaxModels)
           /\ SetDiscovery(d, next) /\ UNCHANGED picker
 <2> USE DEF DiscoveryInv
 <2>1. RequestFits(r, clock, pending, chosen)  BY DEF RequestsFit
 <2>2. IsFiniteSet(listed)
  <3>1. IsFiniteSet(r.listed)  BY <2>1 DEF RequestFits, ListFits
  <3> HIDE DEF r
  <3> QED BY <3>1, CollectedIsFinite
 <2>3. Cardinality(listed) <= MaxModels
   BY <1>3, <2>2, FS_CardinalityType DEF DiscoveryAssumption
 <2>4. ListFits(listed)  BY <2>1, <2>3, ListGrows DEF RequestFits
 <2>5. /\ RequestIs(r) /\ r.page \in Nat /\ r.page < MaxPages /\ r.bytes \in Nat
       /\ r.secrets # {} /\ r.url \in Urls /\ DraftsFit(r.drafts, r.url) /\ r.asked \in 0..clock
       /\ {r.url} \X r.secrets \subseteq chosen
   BY <1>1, <2>1 DEF RequestFits, DiscoveryAssumption
 <2> HIDE DEF listed, stage, r
 <2>6. /\ RequestIs(next) /\ next.page = r.page + 1 /\ next.bytes = r.bytes + size
       /\ next.listed = listed /\ next.stage = stage
       /\ next.url = r.url /\ next.secrets = r.secrets /\ next.asked = r.asked
       /\ next.drafts = r.drafts
   BY <2>5 DEF RequestIs, RequestFields
 <2>7. stage \in {"pages", "listed"} /\ (stage = "pages" => r.page + 1 < MaxPages)  BY DEF stage
 <2> HIDE DEF next
 <2>8. next.page \in 0..MaxPages /\ next.bytes \in 0..MaxBytes
  <3>1. MaxPages \in Nat /\ MaxBytes \in Nat  BY DEF DiscoveryAssumption
  <3>2. ~(r.bytes + size > MaxBytes)  BY <1>3
  <3>3. r.page + 1 \in 0..MaxPages  BY <2>5, <3>1
  <3>4. r.bytes + size \in 0..MaxBytes  BY <2>5, <3>1, <3>2
  <3> QED BY <2>6, <3>3, <3>4
 <2>9. RequestFits(next, clock, pending, chosen)
   BY <2>4, <2>5, <2>6, <2>7, <2>8 DEF RequestFits, Stages
 <2>10. RequestsFit'  BY <1>1, <1>3, <2>9, OthersStay DEF CatalogueFits
 <2>11. IsFiniteSet(chosen')  BY <1>1 DEF ConnectionsFit
 <2> QED BY <1>1, <1>3, <2>10, <2>11, CatalogueStays, ConnectionsStay, ModelsStay, PickerStays
<1> QED BY <1>2, <1>3 DEF PageArrives

-----------------------------------------------------------------------------
(* The catalogue is read and the drafts are delivered.                        *)

\* AskCatalogue keeps the invariant.
LEMMA AskCatalogueKeeps ==
    ASSUME DiscoveryInv, NEW d \in Discoveries, AskCatalogue(d), DiscoveryAssumption
    PROVE  DiscoveryInv'
<1> USE DEF DiscoveryInv
<1> DEFINE old == discoveries[d]
           r == [old EXCEPT !.asked = clock]
           waits == [r EXCEPT !.stage = "catalogue"]
<1>1. UNCHANGED <<connection, running, models, catalogue, picker, clock, chosen>> /\ r.stage = "listed"
  BY DEF AskCatalogue
<1>2. RequestFits(old, clock, pending, chosen) /\ clock \in Nat \ {0} /\ pending \in BOOLEAN
  BY DEF RequestsFit, CatalogueFits
<1>3. RequestIs(old)  BY <1>2 DEF RequestFits
<1> HIDE DEF old
<1>4. /\ RequestIs(r) /\ r.asked = clock /\ r.stage = old.stage /\ r.url = old.url
      /\ r.secrets = old.secrets /\ r.page = old.page /\ r.bytes = old.bytes
      /\ r.listed = old.listed /\ r.drafts = old.drafts /\ r.read = old.read
  BY <1>3 DEF RequestIs, RequestFields
<1> HIDE DEF r
<1>5. /\ RequestIs(waits) /\ waits.asked = clock /\ waits.stage = "catalogue" /\ waits.url = old.url
      /\ waits.secrets = old.secrets /\ waits.page = old.page /\ waits.bytes = old.bytes
      /\ waits.listed = old.listed /\ waits.drafts = old.drafts /\ waits.read = old.read
  BY <1>4 DEF RequestIs, RequestFields
<1> HIDE DEF waits
<1>6. RequestFits(r, clock, pending, chosen)  BY <1>1, <1>2, <1>4 DEF RequestFits
<1>7. ASSUME NEW loading, loading PROVE RequestFits(waits, clock, loading, chosen)
  BY <1>1, <1>2, <1>4, <1>5, <1>7 DEF RequestFits, Stages
<1>8. RequestsFit' /\ pending' \in BOOLEAN
 <2>1. CASE /\ catalogue.until > clock
            /\ SetDiscovery(d, Drafted(r, catalogue.models, catalogue.read)) /\ UNCHANGED pending
  <3> DEFINE x == Drafted(r, catalogue.models, catalogue.read)
  <3>1. catalogue.read \in Nat /\ catalogue.read + CatalogueTicks > r.asked
    BY <1>2, <1>4, <2>1 DEF CatalogueFits, DiscoveryAssumption
  <3>2. RequestFits(x, clock, pending, chosen)
    BY <1>1, <1>2, <1>6, <3>1, DraftedFits DEF CatalogueFits
  <3>3. SetDiscovery(d, x)  BY <2>1
  <3> HIDE DEF x
  <3> QED BY <1>1, <1>2, <2>1, <3>2, <3>3, OthersStay
 <2>2. CASE SetDiscovery(d, waits) /\ pending' = TRUE
  <3>1. pending'  BY <2>2
  <3>2. RequestFits(waits, clock', pending', chosen')  BY <1>1, <1>7, <3>1
  <3>3. clock \in Nat /\ clock' \in Nat /\ clock <= clock' /\ chosen \subseteq chosen'
    BY <1>1, <1>2
  <3>4. pending' \in BOOLEAN  BY <2>2
  <3> QED BY <2>2, <3>1, <3>2, <3>3, <3>4, OthersStay, Zenon
 <2> QED BY <2>1, <2>2 DEF AskCatalogue, old, r, waits
<1>9. CatalogueFits'  BY <1>1, <1>8 DEF CatalogueFits, NoCatalogue
<1>10. IsFiniteSet(chosen')  BY <1>1 DEF ConnectionsFit
<1> QED BY <1>1, <1>8, <1>9, <1>10, ConnectionsStay, ModelsStay, PickerStays

\* All that share a download get what it has brought.
LEMMA AllAreServed ==
    ASSUME RequestsFit, CatalogueFits, DiscoveryAssumption, NEW c \in Catalogues \cup {NoCatalogue.models},
           discoveries' = [d \in Discoveries |->
               IF d \in Waiting THEN Drafted(discoveries[d], c, clock) ELSE discoveries[d]],
           UNCHANGED <<clock, chosen>>
    PROVE  RequestsFit'
<1>1. clock \in Nat /\ CatalogueTicks \in Nat \ {0}  BY DEF CatalogueFits, DiscoveryAssumption
<1>2. ASSUME NEW d \in Discoveries PROVE RequestFits(discoveries'[d], clock, pending', chosen)
 <2> DEFINE r == discoveries[d]
 <2>1. RequestFits(r, clock, pending, chosen)  BY DEF RequestsFit
 <2>2. CASE r.stage = "catalogue"
  <3>1. discoveries'[d] = Drafted(r, c, clock)  BY <2>2 DEF Waiting
  <3>2. clock + CatalogueTicks > r.asked  BY <1>1, <2>1 DEF RequestFits
  <3> HIDE DEF r
  <3>3. RequestFits(Drafted(r, c, clock), clock, pending', chosen)
    BY <1>1, <2>1, <2>2, <3>2, DraftedFits
  <3> QED BY <3>1, <3>3
 <2>3. CASE r.stage # "catalogue"
  <3>1. discoveries'[d] = r  BY <2>3 DEF Waiting
  <3> HIDE DEF r
  <3>2. RequestFits(r, clock, pending', chosen)  BY <2>1, <2>3 DEF RequestFits
  <3> QED BY <3>1, <3>2
 <2> QED BY <2>2, <2>3
<1>3. discoveries' = [d \in Discoveries |-> discoveries'[d]]  OBVIOUS
<1> QED BY <1>2, <1>3 DEF RequestsFit

\* CatalogueArrives keeps the invariant.
LEMMA CatalogueArrivesKeeps ==
    ASSUME DiscoveryInv, NEW c \in Catalogues, CatalogueArrives(c), DiscoveryAssumption
    PROVE  DiscoveryInv'
<1> USE DEF DiscoveryInv
<1>1. RequestsFit'  BY AllAreServed DEF CatalogueArrives
<1>2. CatalogueFits'
 <2>1. /\ catalogue' = [models |-> c, read |-> clock, until |-> clock + CatalogueTicks]
       /\ clock' = clock /\ pending' = FALSE
   BY DEF CatalogueArrives
 <2> QED BY <2>1 DEF CatalogueFits
<1>3. UNCHANGED <<connection, running, models, picker, chosen>>  BY DEF CatalogueArrives
<1>4. IsFiniteSet(chosen')  BY <1>3 DEF ConnectionsFit
<1> QED BY <1>1, <1>2, <1>3, <1>4, ConnectionsStay, ModelsStay, PickerStays

\* CatalogueFails keeps the invariant.
LEMMA CatalogueFailsKeeps ==
    ASSUME DiscoveryInv, CatalogueFails, DiscoveryAssumption
    PROVE  DiscoveryInv'
<1> USE DEF DiscoveryInv
<1>1. RequestsFit'  BY AllAreServed DEF CatalogueFails
<1>2. UNCHANGED <<connection, running, models, catalogue, picker, clock, chosen>> /\ pending' = FALSE
  BY DEF CatalogueFails
<1>3. CatalogueFits'  BY <1>2 DEF CatalogueFits, NoCatalogue
<1>4. IsFiniteSet(chosen')  BY <1>2 DEF ConnectionsFit
<1> QED BY <1>1, <1>2, <1>3, <1>4, ConnectionsStay, ModelsStay, PickerStays

\* Deliver keeps the invariant.
LEMMA DeliverKeeps ==
    ASSUME DiscoveryInv, NEW d \in Discoveries, Deliver(d), DiscoveryAssumption
    PROVE  DiscoveryInv'
<1> USE DEF DiscoveryInv
<1> DEFINE r == discoveries[d]
           typed == r.secrets = {}
           editing == IF typed THEN CHOOSE x \in r.drafts : TRUE ELSE picker.editing
           resolved == [m \in ModelNames |-> Unresolved]
           p == [picker EXCEPT !.waits = "nothing", !.url = r.url, !.drafts = r.drafts,
                     !.selected = {}, !.resolved = resolved, !.editing = editing]
<1>1. UNCHANGED <<connection, running, models, catalogue, pending, clock, chosen>>
      /\ r.stage = "drafted" /\ SetDiscovery(d, Answered)
  BY DEF Deliver
<1>2. clock \in Nat  BY DEF CatalogueFits
<1>3. RequestsFit'
 <2>1. RequestFits(Answered, clock', pending', chosen')  BY <1>1, <1>2, SomeUrl, NoRequestFits
 <2> QED BY <1>1, <1>2, <2>1, OthersStay
<1>4. DialogFits(p)
 <2>1. RequestFits(r, clock, pending, chosen) /\ DialogFits(picker)
   BY DEF RequestsFit, PickerFits
 <2>2. r.url \in Urls /\ DraftsFit(r.drafts, r.url) /\ (typed => r.drafts # {})
   BY <1>1, <2>1 DEF RequestFits
 <2>3. editing = NoDraft \/ IsDraft(editing)
  <3>1. CASE typed
   <4>1. editing \in r.drafts  BY <2>2, <3>1
   <4>2. \A x \in r.drafts : IsDraft(x)  BY <2>2 DEF DraftsFit, DraftFits
   <4> HIDE DEF editing
   <4> QED BY <4>1, <4>2
  <3>2. CASE ~typed  BY <2>1, <3>2 DEF DialogFits
  <3> QED BY <3>1, <3>2
 <2> HIDE DEF r, editing
 <2>4. ResolvedFits(resolved)  BY DEF ResolvedFits
 <2> HIDE DEF resolved
 <2>5. DialogIs(p) /\ p.url = r.url /\ p.drafts = r.drafts /\ p.resolved = resolved /\ p.editing = editing
   BY <2>1 DEF DialogFits, DialogIs, DialogFields
 <2> HIDE DEF p
 <2> QED BY <2>2, <2>3, <2>4, <2>5 DEF DialogFits
<1>5. PickerFits'
 <2>1. CASE picker.waits # d
  <3>1. UNCHANGED picker  BY <2>1 DEF Deliver
  <3> QED BY <3>1, PickerStays
 <2>2. CASE picker.waits = d
  <3>1. picker' = p  BY <2>2 DEF Deliver
  <3> HIDE DEF p
  <3> QED BY <1>4, <3>1, PickerBecomes
 <2> QED BY <2>1, <2>2
<1>6. IsFiniteSet(chosen')  BY <1>1 DEF ConnectionsFit
<1> QED BY <1>1, <1>3, <1>5, <1>6, CatalogueStays, ConnectionsStay, ModelsStay

-----------------------------------------------------------------------------
(* The operator works on the dialog.                                          *)

\* Only the dialog changes.
LEMMA DialogKeeps ==
    ASSUME DiscoveryInv, NEW p, DialogFits(p), picker' = p,
           UNCHANGED <<connection, running, models, discoveries, catalogue, pending, clock, chosen>>
    PROVE  DiscoveryInv'
<1> USE DEF DiscoveryInv
<1>1. RequestsFit'  BY AllStay DEF CatalogueFits
<1>2. PickerFits'  BY PickerBecomes
<1>3. IsFiniteSet(chosen')  BY DEF ConnectionsFit
<1> QED BY <1>1, <1>2, <1>3, CatalogueStays, ConnectionsStay, ModelsStay

\* OpenPicker and ClosePicker keep the invariant.
LEMMA OpenCloseKeep ==
    ASSUME DiscoveryInv, OpenPicker \/ ClosePicker, DiscoveryAssumption
    PROVE  DiscoveryInv'
<1>1. Urls # {}  BY SomeUrl DEF DiscoveryInv
<1>2. PICK p : DialogFits(p) /\ picker' = p  BY <1>1, ClosedFits DEF OpenPicker, ClosePicker
<1>3. UNCHANGED <<connection, running, models, discoveries, catalogue, pending, clock, chosen>>
  BY DEF OpenPicker, ClosePicker
<1> QED BY <1>2, <1>3, DialogKeeps

\* Toggle keeps the invariant.
LEMMA ToggleKeeps ==
    ASSUME DiscoveryInv, NEW id \in ModelNames, Toggle(id)
    PROVE  DiscoveryInv'
<1> DEFINE selected == IF id \in picker.selected THEN picker.selected \ {id} ELSE picker.selected \cup {id}
           p == [picker EXCEPT !.selected = selected]
<1>1. picker' = p /\ UNCHANGED <<connection, running, models, discoveries, catalogue, pending, clock, chosen>>
  BY DEF Toggle, Touch
<1>2. DialogFits(picker)  BY DEF DiscoveryInv, PickerFits
<1> HIDE DEF selected
<1>3. /\ DialogIs(p) /\ p.url = picker.url /\ p.drafts = picker.drafts /\ p.resolved = picker.resolved
      /\ p.editing = picker.editing
  BY <1>2 DEF DialogFits, DialogIs, DialogFields
<1> HIDE DEF p
<1>4. DialogFits(p)  BY <1>2, <1>3 DEF DialogFits
<1> QED BY <1>1, <1>4, DialogKeeps

\* Edit keeps the invariant.
LEMMA EditKeeps ==
    ASSUME DiscoveryInv, NEW x \in picker.drafts, Edit(x)
    PROVE  DiscoveryInv'
<1> DEFINE p == [picker EXCEPT !.editing = x]
<1>1. picker' = p /\ UNCHANGED <<connection, running, models, discoveries, catalogue, pending, clock, chosen>>
  BY DEF Edit, Touch
<1>2. DialogFits(picker)  BY DEF DiscoveryInv, PickerFits
<1>3. IsDraft(x)  BY <1>2 DEF DialogFits, DraftsFit, DraftFits
<1>4. /\ DialogIs(p) /\ p.url = picker.url /\ p.drafts = picker.drafts /\ p.resolved = picker.resolved
      /\ p.editing = x
  BY <1>2 DEF DialogFits, DialogIs, DialogFields
<1> HIDE DEF p
<1>5. DialogFits(p)  BY <1>2, <1>3, <1>4 DEF DialogFits
<1> QED BY <1>1, <1>5, DialogKeeps

\* A form that can be submitted is complete, and what is complete and allowed is a form.
LEMMA FormIsComplete ==
    ASSUME NEW v
    PROVE  /\ ValidForm(v) => IsComplete(v)
           /\ IsComplete(v) /\ ModelIsAllowed(v) => ValidForm(v)
           /\ Missing \notin {v[f] : f \in DraftFields \ OptionalFields} => IsComplete(v)
BY DEF ValidForm, IsComplete, ModelIsAllowed

\* ConfirmEdited keeps the invariant.
LEMMA ConfirmEditedKeeps ==
    ASSUME DiscoveryInv, NEW window \in Sizes, NEW tokens \in Sizes, NEW reasoning \in {No, Yes},
           ConfirmEdited(window, tokens, reasoning)
    PROVE  DiscoveryInv'
<1> DEFINE x == picker.editing
           form == [f \in DraftFields |->
                      CASE f = "context_window" -> window
                        [] f = "max_tokens" -> tokens
                        [] f = "reasoning" -> reasoning
                        [] f = "thinking_levels" -> IF reasoning = Yes THEN x.values[f] ELSE Missing
                        [] f \in {"input", "cost"} /\ x.values[f] = Missing -> Yes
                        [] OTHER -> x.values[f]]
           p == [picker EXCEPT !.editing = NoDraft, !.resolved[x.id] = form,
                               !.selected = @ \cup {x.id}]
           resolved == [picker.resolved EXCEPT ![x.id] = form]
<1>1. /\ picker' = p /\ x # NoDraft /\ ValidForm(form)
      /\ UNCHANGED <<connection, running, models, discoveries, catalogue, pending, clock, chosen>>
  BY DEF ConfirmEdited, Touch
<1> HIDE DEF form
<1>2. DialogFits(picker)  BY DEF DiscoveryInv, PickerFits
<1>3. x.id \in ModelNames  BY <1>1, <1>2 DEF DialogFits, IsDraft
<1>4. ResolvedFits(resolved)
 <2>1. ResolvedFits(picker.resolved) /\ IsComplete(form)
   BY <1>1, <1>2, FormIsComplete DEF DialogFits
 <2> HIDE DEF x
 <2> QED BY <1>3, <2>1 DEF ResolvedFits
<1> HIDE DEF x
<1>5. /\ DialogIs(p) /\ p.url = picker.url /\ p.drafts = picker.drafts /\ p.resolved = resolved
      /\ p.editing = NoDraft
  BY <1>2 DEF DialogFits, DialogIs, DialogFields
<1> HIDE DEF p, resolved
<1>6. DialogFits(p)  BY <1>2, <1>4, <1>5 DEF DialogFits
<1> QED BY <1>1, <1>6, DialogKeeps

\* ConfirmSelected keeps the invariant.
LEMMA ConfirmSelectedKeeps ==
    ASSUME DiscoveryInv, ConfirmSelected
    PROVE  DiscoveryInv'
<1> DEFINE taken == {x \in Unsettled : Convertible(x)}
           resolved == [m \in ModelNames |-> IF \E x \in taken : x.id = m
                                             THEN (CHOOSE x \in taken : x.id = m).values
                                             ELSE picker.resolved[m]]
           p == [picker EXCEPT !.resolved = resolved]
<1>1. picker' = p /\ UNCHANGED <<connection, running, models, discoveries, catalogue, pending, clock, chosen>>
  BY DEF ConfirmSelected, Touch
<1>2. DialogFits(picker)  BY DEF DiscoveryInv, PickerFits
<1>3. \A x \in taken : IsComplete(x.values)  BY FormIsComplete DEF Convertible
<1> HIDE DEF taken
<1>4. ResolvedFits(resolved)
 <2>1. ASSUME NEW m \in ModelNames, resolved[m] # Unresolved PROVE IsComplete(resolved[m])
  <3>1. CASE \E x \in taken : x.id = m
   <4>1. PICK x \in taken : x = CHOOSE y \in taken : y.id = m  BY <3>1
   <4>2. resolved[m] = x.values  BY <3>1, <4>1
   <4> HIDE DEF resolved
   <4> QED BY <1>3, <4>2
  <3>2. CASE ~\E x \in taken : x.id = m
   <4>1. resolved[m] = picker.resolved[m]  BY <3>2
   <4> HIDE DEF resolved
   <4> QED BY <1>2, <2>1, <4>1 DEF DialogFits, ResolvedFits
  <3> QED BY <3>1, <3>2
 <2> QED BY <2>1 DEF ResolvedFits
<1> HIDE DEF resolved
<1>5. /\ DialogIs(p) /\ p.url = picker.url /\ p.drafts = picker.drafts /\ p.resolved = resolved
      /\ p.editing = picker.editing
  BY <1>2 DEF DialogFits, DialogIs, DialogFields
<1> HIDE DEF p
<1>6. DialogFits(p)  BY <1>2, <1>4, <1>5 DEF DialogFits
<1> QED BY <1>1, <1>6, DialogKeeps

-----------------------------------------------------------------------------
(* What is written.                                                           *)

\* A sequence is one of its own elements.
LEMMA SequenceOfItself ==
    ASSUME NEW S, NEW s \in Seq(S)
    PROVE  IsSequence(s) /\ DOMAIN s = 1..Len(s) /\ Len(s) \in Nat
<1>1. Len(s) \in Nat /\ s \in [1..Len(s) -> S] /\ DOMAIN s = 1..Len(s)  BY LenProperties
<1> DEFINE T == {s[i] : i \in DOMAIN s}
<1>2. s \in [1..Len(s) -> T]  BY <1>1
<1> HIDE DEF T
<1>3. s \in Seq(T)  BY <1>1, <1>2
<1> QED BY <1>1, <1>3 DEF IsSequence, T

\* What is said of a model is of its id and its address.
LEMMA SaidOfIs ==
    ASSUME NEW m, NEW n, m.id = n.id, m.url = n.url, m.values = n.values, IsKnown(n)
    PROVE  IsKnown(m)
BY DEF IsKnown, SaidOf

\* New models may follow those that are there.
LEMMA AppendedFit ==
    ASSUME NEW s, SequenceFits(s), NEW new, IsFiniteSet(new), IdsDiffer(new),
           \A m \in new : ModelFits(m) /\ m.id \notin {s[i].id : i \in DOMAIN s}
    PROVE  SequenceFits(s \o SetToSeq(new))
<1> DEFINE q == SetToSeq(new)
           n == Cardinality(new)
           S == {s[i] : i \in DOMAIN s} \cup new
           t == s \o q
<1>1. n \in Nat /\ q \in [1..n -> new] /\ \A i, j \in 1..n : q[i] = q[j] => i = j  BY SetToSeqIs
<1> HIDE DEF q, n
<1>2. q \in Seq(new) /\ Len(q) = n  BY <1>1
<1>3. s \in Seq({s[i] : i \in DOMAIN s})  BY DEF SequenceFits, IsSequence
<1>4. s \in Seq(S) /\ q \in Seq(S)  BY <1>2, <1>3
<1>5. DOMAIN s = 1..Len(s) /\ Len(s) \in Nat  BY <1>3, SequenceOfItself
<1>6. /\ t \in Seq(S) /\ Len(t) = Len(s) + n
      /\ \A i \in 1..Len(s) + n : t[i] = IF i <= Len(s) THEN s[i] ELSE q[i - Len(s)]
 <2> HIDE DEF S
 <2> QED BY <1>2, <1>4, ConcatProperties
<1> HIDE DEF t, S
<1>7. IsSequence(t) /\ DOMAIN t = 1..Len(s) + n  BY <1>6, SequenceOfItself
<1>8. ASSUME NEW i \in DOMAIN t
      PROVE  \/ i \in DOMAIN s /\ t[i] = s[i]
             \/ i - Len(s) \in 1..n /\ t[i] = q[i - Len(s)] /\ q[i - Len(s)] \in new
 <2>1. i \in 1..Len(s) + n  BY <1>7
 <2>2. CASE i <= Len(s)  BY <1>1, <1>5, <1>6, <2>1, <2>2
 <2>3. CASE ~(i <= Len(s))
  <3>1. i - Len(s) \in 1..n  BY <1>1, <1>5, <2>1, <2>3
  <3> QED BY <1>1, <1>6, <2>1, <2>3, <3>1
 <2> QED BY <2>2, <2>3
<1>9. \A i \in DOMAIN t : ModelFits(t[i])  BY <1>8 DEF SequenceFits
<1>10. ASSUME NEW i \in DOMAIN t, NEW j \in DOMAIN t, t[i].id = t[j].id PROVE i = j
 <2>1. i \in Int /\ j \in Int  BY <1>1, <1>5, <1>7
 <2>2. CASE i \in DOMAIN s /\ t[i] = s[i]
  <3>1. CASE j \in DOMAIN s /\ t[j] = s[j]  BY <1>10, <2>2, <3>1 DEF SequenceFits
  <3>2. CASE t[j] \in new  BY <1>10, <2>2, <3>2
  <3> QED BY <1>8, <3>1, <3>2
 <2>3. CASE i - Len(s) \in 1..n /\ t[i] = q[i - Len(s)] /\ q[i - Len(s)] \in new
  <3>1. CASE j \in DOMAIN s /\ t[j] = s[j]  BY <1>10, <2>3, <3>1
  <3>2. CASE j - Len(s) \in 1..n /\ t[j] = q[j - Len(s)] /\ q[j - Len(s)] \in new
   <4>1. q[i - Len(s)] = q[j - Len(s)]  BY <1>10, <2>3, <3>2 DEF IdsDiffer
   <4>2. i - Len(s) = j - Len(s)  BY <1>1, <2>3, <3>2, <4>1
   <4> QED BY <1>5, <2>1, <4>2
  <3> QED BY <1>8, <3>1, <3>2
 <2> QED BY <1>8, <2>2, <2>3
<1>11. SequenceFits(t)  BY <1>7, <1>9, <1>10 DEF SequenceFits
<1> QED BY <1>11 DEF t, q

\* What is left without one of them
LEMMA RemovedFits ==
    ASSUME NEW s, SequenceFits(s), NEW k \in DOMAIN s
    PROVE  SequenceFits(RemoveAt(s, k))
<1> DEFINE S == {s[i] : i \in DOMAIN s}
           a == SubSeq(s, 1, k - 1)
           b == SubSeq(s, k + 1, Len(s))
           t == a \o b
<1>1. s \in Seq(S)  BY DEF SequenceFits, IsSequence
<1>2. DOMAIN s = 1..Len(s) /\ Len(s) \in Nat /\ k \in 1..Len(s)  BY <1>1, SequenceOfItself
<1>3. \A i \in 1..Len(s) : s[i] \in S  BY <1>2
<1> HIDE DEF S
<1>4. a \in Seq(S) /\ Len(a) = k - 1 /\ \A i \in 1..k - 1 : a[i] = s[i]
 <2>1. \A i \in 1..k - 1 : s[i] \in S  BY <1>2, <1>3
 <2>2. k - 1 \in Int /\ 1 \in Int  BY <1>2
 <2> QED BY <1>2, <2>1, <2>2, SubSeqProperties
<1>5. b \in Seq(S) /\ Len(b) = Len(s) - k /\ \A i \in 1..Len(s) - k : b[i] = s[k + i]
 <2>1. \A i \in k + 1..Len(s) : s[i] \in S  BY <1>2, <1>3
 <2>2. k + 1 \in Int /\ Len(s) \in Int  BY <1>2
 <2> QED BY <1>2, <2>1, <2>2, SubSeqProperties
<1> HIDE DEF a, b
<1>6. /\ t \in Seq(S) /\ Len(t) = Len(s) - 1
      /\ \A i \in 1..Len(s) - 1 : t[i] = IF i <= k - 1 THEN a[i] ELSE b[i - (k - 1)]
 <2>1. /\ t \in Seq(S) /\ Len(t) = Len(a) + Len(b)
       /\ \A i \in 1..Len(a) + Len(b) : t[i] = IF i <= Len(a) THEN a[i] ELSE b[i - Len(a)]
   BY <1>4, <1>5, ConcatProperties
 <2>2. Len(a) + Len(b) = Len(s) - 1  BY <1>2, <1>4, <1>5
 <2> HIDE DEF t
 <2> QED BY <1>4, <2>1, <2>2
<1> HIDE DEF t
<1>7. IsSequence(t) /\ DOMAIN t = 1..Len(s) - 1  BY <1>6, SequenceOfItself
<1> DEFINE of(i) == IF i <= k - 1 THEN i ELSE i + 1
<1>8. ASSUME NEW i \in DOMAIN t PROVE of(i) \in DOMAIN s /\ t[i] = s[of(i)]
 <2>1. i \in 1..Len(s) - 1  BY <1>7
 <2>2. CASE i <= k - 1  BY <1>2, <1>4, <1>6, <2>1, <2>2
 <2>3. CASE ~(i <= k - 1)
  <3>1. i - (k - 1) \in 1..Len(s) - k /\ k + (i - (k - 1)) = i + 1  BY <1>2, <2>1, <2>3
  <3>2. t[i] = b[i - (k - 1)]  BY <1>6, <2>1, <2>3
  <3>3. t[i] = s[i + 1]  BY <1>5, <3>1, <3>2
  <3> QED BY <1>2, <2>1, <2>3, <3>3
 <2> QED BY <2>2, <2>3
<1>9. \A i, j \in DOMAIN t : of(i) = of(j) => i = j  BY <1>2, <1>7
<1> HIDE DEF of
<1>10. SequenceFits(t)  BY <1>7, <1>8, <1>9 DEF SequenceFits
<1> QED BY <1>10 DEF RemoveAt, t, a, b

\* The models that the dialog submits are finitely many, and of different ids.
LEMMA BuiltIs ==
    ASSUME PickerFits
    PROVE  /\ IsFiniteSet(Built) /\ IdsDiffer(Built)
           /\ \A m \in Built : \E x \in Picked :
                 /\ m.id = x.id /\ m.url = picker.url
                 /\ m.confirmed = (picker.resolved[x.id] # Unresolved)
                 /\ m.values = IF picker.resolved[x.id] # Unresolved THEN picker.resolved[x.id]
                                                                     ELSE x.values
<1> DEFINE g == [x \in Picked |->
                   [id |-> x.id, url |-> picker.url, confirmed |-> picker.resolved[x.id] # Unresolved,
                    values |-> IF picker.resolved[x.id] # Unresolved THEN picker.resolved[x.id]
                                                                     ELSE x.values]]
<1>1. Built = {g[x] : x \in Picked} /\ DOMAIN g = Picked /\ g = [x \in Picked |-> g[x]]
  BY DEF Built
<1>2. \A x \in Picked :
         /\ g[x].id = x.id /\ g[x].url = picker.url
         /\ g[x].confirmed = (picker.resolved[x.id] # Unresolved)
         /\ g[x].values = IF picker.resolved[x.id] # Unresolved THEN picker.resolved[x.id]
                                                                ELSE x.values
  OBVIOUS
<1> HIDE DEF g
<1>3. Picked \subseteq picker.drafts /\ IsFiniteSet(picker.drafts) /\ IdsDiffer(picker.drafts)
  BY DEF Picked, PickerFits, DialogFits, DraftsFit
<1>4. IsFiniteSet(Picked)  BY <1>3, FS_Subset
<1>5. IsFiniteSet(Built)  BY <1>1, <1>4, ValuesAreFew
<1>6. IdsDiffer(Built)  BY <1>1, <1>2, <1>3 DEF IdsDiffer
<1> QED BY <1>1, <1>2, <1>5, <1>6

\* SubmitModels keeps the invariant.
LEMMA SubmitModelsKeeps ==
    ASSUME DiscoveryInv, SubmitModels, DiscoveryAssumption
    PROVE  DiscoveryInv'
<1> USE DEF DiscoveryInv
<1>1. UNCHANGED <<connection, running, discoveries, catalogue, pending, clock, chosen>>
  BY DEF SubmitModels
<1>2. DialogFits(picker) /\ Urls # {}  BY SomeUrl DEF PickerFits
<1>3. PickerFits'
 <2>1. picker' \in {Closed, [picker EXCEPT !.seen = revision], [picker EXCEPT !.seen = revision']}
   BY DEF SubmitModels
 <2>2. DialogFits(Closed)  BY <1>2, ClosedFits
 <2>3. \A n : DialogFits([picker EXCEPT !.seen = n])  BY <1>2, WaitsElse
 <2>4. DialogFits(picker')  BY <2>1, <2>2, <2>3
 <2> QED BY <2>4 DEF PickerFits
<1>4. ModelsFit'
 <2>1. CASE UNCHANGED models  BY <2>1, ModelsStay
 <2>2. CASE /\ ~\E m \in Built : m.id \in Ids \/ ~ModelIsAllowed(m.values)
            /\ models' = models \o SetToSeq(Built)
  <3>1. ASSUME NEW m \in Built
        PROVE  ModelFits(m) /\ m.id \notin {models[i].id : i \in DOMAIN models}
   <4>1. PICK x \in Picked :
            /\ m.id = x.id /\ m.url = picker.url
            /\ m.confirmed = (picker.resolved[x.id] # Unresolved)
            /\ m.values = IF picker.resolved[x.id] # Unresolved THEN picker.resolved[x.id]
                                                                ELSE x.values
     BY BuiltIs
   <4>2. DraftFits(x, picker.url) /\ x.id \in ModelNames
     BY <1>2 DEF DialogFits, DraftsFit, DraftFits, IsDraft, Picked
   <4>3. m.id \notin Ids /\ ModelIsAllowed(m.values)  BY <2>2
   <4>4. CASE picker.resolved[x.id] # Unresolved
    <5>1. IsComplete(m.values)  BY <1>2, <4>1, <4>2, <4>4 DEF DialogFits, ResolvedFits
    <5>2. m.confirmed  BY <4>1, <4>4, Zenon
    <5> QED BY <4>3, <5>1, <5>2, FormIsComplete DEF ModelFits, Ids
   <4>5. CASE picker.resolved[x.id] = Unresolved
    <5>1. m.values = x.values  BY <4>1, <4>5
    <5>2. Convertible(x) /\ x.needs = {}  BY <4>5 DEF SubmitModels, Unsettled
    <5>3. IsComplete(m.values)  BY <5>1, <5>2, FormIsComplete DEF Convertible
    <5>4. IsKnown([id |-> x.id, url |-> picker.url, values |-> x.values])
      BY <4>2, <5>2 DEF DraftFits
    <5> DEFINE k == [id |-> x.id, url |-> picker.url, values |-> x.values]
    <5>5. k.id = m.id /\ k.url = m.url /\ k.values = m.values /\ IsKnown(k)  BY <4>1, <5>1, <5>4
    <5> HIDE DEF k
    <5>6. IsKnown(m)  BY <5>5, SaidOfIs
    <5> QED BY <4>3, <5>3, <5>6, FormIsComplete DEF ModelFits, Ids
   <4> QED BY <4>4, <4>5
  <3>2. SequenceFits(models \o SetToSeq(Built))  BY <3>1, BuiltIs, AppendedFit DEF ModelsFit
  <3> QED BY <2>2, <3>2 DEF ModelsFit
 <2> QED BY <2>1, <2>2 DEF SubmitModels
<1>5. RequestsFit'  BY <1>1, AllStay DEF CatalogueFits
<1>6. IsFiniteSet(chosen')  BY <1>1 DEF ConnectionsFit
<1> QED BY <1>1, <1>3, <1>4, <1>5, <1>6, CatalogueStays, ConnectionsStay

\* RemoveModel keeps the invariant.
LEMMA RemoveModelKeeps ==
    ASSUME DiscoveryInv, NEW i \in DOMAIN models, RemoveModel(i)
    PROVE  DiscoveryInv'
<1> USE DEF DiscoveryInv
<1>1. UNCHANGED <<connection, running, discoveries, catalogue, pending, picker, clock, chosen>>
      /\ models' = RemoveAt(models, i)
  BY DEF RemoveModel
<1>2. SequenceFits(RemoveAt(models, i))  BY RemovedFits DEF ModelsFit
<1>3. ModelsFit'  BY <1>1, <1>2 DEF ModelsFit
<1>4. RequestsFit'  BY <1>1, AllStay DEF CatalogueFits
<1>5. IsFiniteSet(chosen')  BY <1>1 DEF ConnectionsFit
<1> QED BY <1>1, <1>3, <1>4, <1>5, CatalogueStays, ConnectionsStay, PickerStays

-----------------------------------------------------------------------------
(* The connections move.                                                      *)

\* Only the connections change.
LEMMA MovesKeep ==
    ASSUME DiscoveryInv, ConnectionIs(connection'), ConnectionIs(running'),
           SecretsAt(connection') \subseteq chosen', SecretsAt(running') \subseteq chosen',
           chosen \subseteq chosen', IsFiniteSet(chosen'),
           UNCHANGED <<models, discoveries, catalogue, pending, picker, clock>>
    PROVE  DiscoveryInv'
<1> USE DEF DiscoveryInv
<1>1. RequestsFit'  BY AllStay DEF CatalogueFits
<1>2. ConnectionsFit'  BY DEF ConnectionsFit
<1> QED BY <1>1, <1>2, CatalogueStays, PickerStays, ModelsStay

\* The next secret is a number that was never one.
LEMMA NewSecretIs ==
    ASSUME IsFiniteSet(chosen)
    PROVE  NewSecret \in Nat \ {0}
<1> DEFINE g == [c \in chosen |-> c[2]]
<1>1. {c[2] : c \in chosen} = {g[c] : c \in chosen} /\ DOMAIN g = chosen /\ g = [c \in chosen |-> g[c]]
  OBVIOUS
<1> HIDE DEF g
<1>2. IsFiniteSet({c[2] : c \in chosen})
 <2>1. IsFiniteSet({g[c] : c \in chosen})  BY <1>1, ValuesAreFew
 <2> QED BY <1>1, <2>1, Zenon
<1>3. Cardinality({c[2] : c \in chosen}) \in Nat  BY <1>2, FS_CardinalityType
<1> QED BY <1>3 DEF NewSecret

\* UpdateProvider keeps the invariant: what goes to a new address was typed for it.
LEMMA UpdateProviderKeeps ==
    ASSUME DiscoveryInv, NEW url \in Urls, NEW key \in Nat, NEW header \in Nat \cup {Removed},
           UpdateProvider(url, key, header)
    PROVE  DiscoveryInv'
<1> USE DEF DiscoveryInv
<1> DEFINE typed == {key, header} \ {0, Removed}
           newKey == IF key # 0 THEN key ELSE connection.key
           newHeader == CASE header = Removed -> 0 [] header = 0 -> connection.header [] OTHER -> header
           new == [url |-> url, key |-> newKey, header |-> newHeader]
<1>1. /\ MayMove(url, key, header) /\ connection' = new /\ running' \in {running, new}
      /\ chosen' = chosen \cup {<<url, s>> : s \in typed}
      /\ UNCHANGED <<models, discoveries, catalogue, pending, picker, clock>>
  BY DEF UpdateProvider
<1>2. /\ ConnectionIs(connection) /\ ConnectionIs(running) /\ IsFiniteSet(chosen)
      /\ SecretsAt(connection) \subseteq chosen /\ SecretsAt(running) \subseteq chosen
  BY DEF ConnectionsFit
<1>3. newKey \in Nat \ {0} /\ newHeader \in Nat  BY <1>2 DEF ConnectionIs, Removed
<1>4. newKey \in typed \/ (newKey = connection.key /\ url = connection.url)
 <2>1. CASE key # 0  BY <2>1 DEF Removed
 <2>2. CASE key = 0
  <3>1. url = connection.url  BY <1>1, <2>2 DEF MayMove
  <3> QED BY <2>2, <3>1
 <2> QED BY <2>1, <2>2
<1>5. newHeader = 0 \/ newHeader \in typed \/ (newHeader = connection.header /\ url = connection.url)
 <2>1. CASE header = Removed
  <3>1. header # 0  BY <2>1 DEF Removed
  <3>2. newHeader = 0  BY <2>1, <3>1
  <3> QED BY <3>2
 <2>2. CASE header = 0
  <3>1. newHeader = connection.header  BY <2>2 DEF Removed
  <3>2. CASE url = connection.url  BY <3>1, <3>2
  <3>3. CASE url # connection.url
   <4>1. connection.header = 0  BY <1>1, <2>2, <3>3 DEF MayMove
   <4> QED BY <3>1, <4>1
  <3> QED BY <3>2, <3>3
 <2>3. CASE header # Removed /\ header # 0
  <3>1. newHeader = header  BY <2>3
  <3>2. header \in typed  BY <2>3
  <3> QED BY <3>1, <3>2
 <2> QED BY <2>1, <2>2, <2>3
<1>6. connection.key # 0 => <<connection.url, connection.key>> \in chosen  BY <1>2 DEF SecretsAt
<1>7. connection.header # 0 => <<connection.url, connection.header>> \in chosen
  BY <1>2 DEF SecretsAt
<1>8. IsFiniteSet({<<url, s>> : s \in typed})
 <2>1. IsFiniteSet({<<url, key>>} \cup {<<url, header>>})  BY FS_Singleton, FS_Union
 <2>2. {<<url, s>> : s \in typed} \subseteq {<<url, key>>} \cup {<<url, header>>}  OBVIOUS
 <2> HIDE DEF typed
 <2> QED BY <2>1, <2>2, FS_Subset
<1> HIDE DEF typed, newKey, newHeader
<1>9. IsFiniteSet(chosen') /\ chosen \subseteq chosen'  BY <1>1, <1>2, <1>8, FS_Union
<1>10. SecretsAt(new) \subseteq chosen'
 <2>1. <<url, newKey>> \in chosen'  BY <1>1, <1>3, <1>4, <1>6
 <2>2. newHeader # 0 => <<url, newHeader>> \in chosen'  BY <1>1, <1>5, <1>7
 <2>3. new.url = url /\ new.key = newKey /\ new.header = newHeader  OBVIOUS
 <2> HIDE DEF new
 <2> QED BY <2>1, <2>2, <2>3 DEF SecretsAt
<1>11. ConnectionIs(new)  BY <1>3 DEF ConnectionIs
<1> HIDE DEF new
<1>12. SecretsAt(connection') \subseteq chosen' /\ ConnectionIs(connection')
  BY <1>1, <1>10, <1>11
<1>13. SecretsAt(running') \subseteq chosen' /\ ConnectionIs(running')
 <2>1. CASE running' = running  BY <1>2, <1>9, <2>1
 <2>2. CASE running' = new  BY <1>10, <1>11, <2>2
 <2> QED BY <1>1, <2>1, <2>2
<1> QED BY <1>1, <1>9, <1>12, <1>13, MovesKeep

\* MoveByHand keeps the invariant.
LEMMA MoveByHandKeeps ==
    ASSUME DiscoveryInv, NEW url \in Urls, MoveByHand(url)
    PROVE  DiscoveryInv'
<1> USE DEF DiscoveryInv
<1> DEFINE new == [connection EXCEPT !.url = url]
<1>1. /\ connection' = new /\ chosen' = chosen \cup SecretsAt(connection')
      /\ UNCHANGED <<running, models, discoveries, catalogue, pending, picker, clock>>
  BY DEF MoveByHand
<1>2. /\ ConnectionIs(connection) /\ ConnectionIs(running) /\ IsFiniteSet(chosen)
      /\ SecretsAt(running) \subseteq chosen
  BY DEF ConnectionsFit
<1>3. new = [url |-> url, key |-> connection.key, header |-> connection.header]
  BY <1>2 DEF ConnectionIs
<1>4. ConnectionIs(new)  BY <1>2, <1>3 DEF ConnectionIs
<1> HIDE DEF new
<1>5. IsFiniteSet(SecretsAt(connection'))
 <2> DEFINE c == connection'
 <2>1. IsFiniteSet({<<c.url, c.key>>} \cup {<<c.url, c.header>>})  BY FS_Singleton, FS_Union
 <2>2. SecretsAt(c) \subseteq {<<c.url, c.key>>} \cup {<<c.url, c.header>>}  BY DEF SecretsAt
 <2> HIDE DEF c
 <2>3. IsFiniteSet(SecretsAt(c))  BY <2>1, <2>2, FS_Subset
 <2> QED BY <2>3 DEF c
<1>6. IsFiniteSet(chosen') /\ chosen \subseteq chosen'  BY <1>1, <1>2, <1>5, FS_Union
<1>7. SecretsAt(running') \subseteq chosen' /\ ConnectionIs(running') /\ ConnectionIs(connection')
      /\ SecretsAt(connection') \subseteq chosen'
  BY <1>1, <1>2, <1>4, <1>6
<1> QED BY <1>1, <1>6, <1>7, MovesKeep

\* AdoptFile keeps the invariant.
LEMMA AdoptFileKeeps ==
    ASSUME DiscoveryInv, AdoptFile
    PROVE  DiscoveryInv'
<1>1. /\ running' = connection /\ connection' = connection /\ chosen' = chosen
      /\ UNCHANGED <<models, discoveries, catalogue, pending, picker, clock>>
  BY DEF AdoptFile
<1>2. /\ ConnectionIs(connection) /\ IsFiniteSet(chosen) /\ SecretsAt(connection) \subseteq chosen
  BY DEF DiscoveryInv, ConnectionsFit
<1>3. ConnectionIs(connection') /\ ConnectionIs(running')
      /\ SecretsAt(connection') \subseteq chosen' /\ SecretsAt(running') \subseteq chosen'
      /\ chosen \subseteq chosen' /\ IsFiniteSet(chosen')
  BY <1>1, <1>2
<1> QED BY <1>1, <1>3, MovesKeep

\* DiscoveryTick keeps the invariant.
LEMMA DiscoveryTickKeeps ==
    ASSUME DiscoveryInv, DiscoveryTick
    PROVE  DiscoveryInv'
<1> USE DEF DiscoveryInv
<1>1. clock' = clock + 1
      /\ UNCHANGED <<connection, running, models, discoveries, catalogue, pending, picker, chosen>>
  BY DEF DiscoveryTick
<1>2. CatalogueFits'  BY <1>1 DEF CatalogueFits, NoCatalogue
<1>3. RequestsFit'  BY <1>1, AllStay DEF CatalogueFits
<1>4. IsFiniteSet(chosen')  BY <1>1 DEF ConnectionsFit
<1> QED BY <1>1, <1>2, <1>3, <1>4, ConnectionsStay, ModelsStay, PickerStays

-----------------------------------------------------------------------------
(* The theorem.                                                               *)

\* The invariant holds at first.
LEMMA DiscoveryInvInit ==
    ASSUME DiscoveryInit, DiscoveryAssumption
    PROVE  DiscoveryInv
<1>1. PICK url \in Urls, header \in {0, 2} : connection = [url |-> url, key |-> 1, header |-> header]
  BY DEF DiscoveryInit
<1>2. ConnectionIs(connection) /\ running = connection  BY <1>1 DEF DiscoveryInit, ConnectionIs
<1>3. ConnectionsFit
 <2>1. chosen = SecretsAt(connection)  BY DEF DiscoveryInit
 <2>2. IsFiniteSet({<<url, 1>>} \cup {<<url, header>>})  BY FS_Singleton, FS_Union
 <2>3. SecretsAt(connection) \subseteq {<<url, 1>>} \cup {<<url, header>>}
   BY <1>1 DEF SecretsAt
 <2>4. IsFiniteSet(chosen)  BY <2>1, <2>2, <2>3, FS_Subset
 <2> QED BY <1>2, <2>1, <2>4 DEF ConnectionsFit
<1>4. CatalogueFits
 <2>1. catalogue = NoCatalogue /\ clock = 1 /\ pending = FALSE  BY DEF DiscoveryInit
 <2>2. NoCatalogue.read = 0 /\ NoCatalogue.until = 0  BY DEF NoCatalogue
 <2>3. pending \in BOOLEAN  BY <2>1
 <2>4. catalogue.models \in Catalogues \cup {NoCatalogue.models} /\ clock \in Nat \ {0}  BY <2>1
 <2>5. catalogue.read = 0 /\ catalogue.until = 0  BY <2>1, <2>2
 <2> QED BY <2>3, <2>4, <2>5 DEF CatalogueFits
<1>5. Urls # {}  BY <1>1
<1>6. PickerFits  BY <1>5, ClosedFits DEF DiscoveryInit, PickerFits
<1>7. ModelsFit  BY DEF DiscoveryInit, ModelsFit, SequenceFits, IsSequence
<1>8. RequestsFit
 <2>1. discoveries = [d \in Discoveries |-> NoDiscovery] /\ clock = 1  BY DEF DiscoveryInit
 <2>2. RequestFits(NoDiscovery, clock, pending, chosen)  BY <1>5, <2>1, NoRequestFits
 <2> QED BY <2>1, <2>2 DEF RequestsFit
<1> QED BY <1>3, <1>4, <1>6, <1>7, <1>8 DEF DiscoveryInv

\* Every step keeps the invariant.
LEMMA DiscoveryInvNext ==
    ASSUME DiscoveryInv, [DiscoveryNext]_discoveryVars, DiscoveryAssumption
    PROVE  DiscoveryInv'
<1>1. CASE OpenPicker \/ ClosePicker  BY <1>1, OpenCloseKeep
<1>2. CASE ConfirmSelected  BY <1>2, ConfirmSelectedKeeps
<1>3. CASE SubmitModels  BY <1>3, SubmitModelsKeeps
<1>4. ASSUME NEW d \in Discoveries,
             \/ BeginDiscover(d) \/ PageFails(d) \/ AskCatalogue(d) \/ Deliver(d)
             \/ \E id \in ModelNames : BeginLookup(d, id)
             \/ \E page \in Offers, size \in 1..2, more \in BOOLEAN : PageArrives(d, page, size, more)
      PROVE  DiscoveryInv'
  BY <1>4, BeginDiscoverKeeps, PageFailsKeeps, AskCatalogueKeeps, DeliverKeeps, BeginLookupKeeps,
     PageArrivesKeeps
<1>5. CASE CatalogueFails \/ \E c \in Catalogues : CatalogueArrives(c)
  BY <1>5, CatalogueFailsKeeps, CatalogueArrivesKeeps
<1>6. CASE \E id \in ModelNames : Toggle(id)  BY <1>6, ToggleKeeps
<1>7. CASE \E x \in picker.drafts : Edit(x)  BY <1>7, EditKeeps
<1>8. CASE \E w, t \in Sizes, r \in {No, Yes} : ConfirmEdited(w, t, r)
  BY <1>8, ConfirmEditedKeeps
<1>9. CASE \E u \in Urls, k \in {0, NewSecret} :
             \E h \in {0, Removed, IF k = 0 THEN NewSecret ELSE NewSecret + 1} : UpdateProvider(u, k, h)
 <2>1. NewSecret \in Nat  BY NewSecretIs DEF DiscoveryInv, ConnectionsFit
 <2>2. PICK u \in Urls, k \in {0, NewSecret} :
          \E h \in {0, Removed, IF k = 0 THEN NewSecret ELSE NewSecret + 1} : UpdateProvider(u, k, h)
   BY <1>9
 <2>3. PICK h \in {0, Removed, IF k = 0 THEN NewSecret ELSE NewSecret + 1} : UpdateProvider(u, k, h)
   BY <2>2
 <2>4. k \in Nat /\ h \in Nat \cup {Removed}  BY <2>1
 <2> QED BY <2>3, <2>4, UpdateProviderKeeps
<1>10. CASE \E u \in Urls : MoveByHand(u)  BY <1>10, MoveByHandKeeps
<1>11. CASE \E i \in DOMAIN models : RemoveModel(i)  BY <1>11, RemoveModelKeeps
<1>12. CASE AdoptFile  BY <1>12, AdoptFileKeeps
<1>13. CASE DiscoveryTick  BY <1>13, DiscoveryTickKeeps
<1>14. CASE UNCHANGED discoveryVars
 <2>1. /\ UNCHANGED <<connection, running, models, catalogue, pending, picker, clock, chosen>>
       /\ UNCHANGED discoveries
   BY <1>14 DEF discoveryVars
 <2>2. RequestsFit'  BY <2>1, AllStay DEF DiscoveryInv, CatalogueFits
 <2>3. IsFiniteSet(chosen')  BY <2>1 DEF DiscoveryInv, ConnectionsFit
 <2> QED BY <2>1, <2>2, <2>3, CatalogueStays, ConnectionsStay, PickerStays, ModelsStay DEF DiscoveryInv
<1> QED BY <1>1, <1>2, <1>3, <1>4, <1>5, <1>6, <1>7, <1>8, <1>9, <1>10, <1>11, <1>12, <1>13, <1>14
        DEF DiscoveryNext

\* What the invariant says of the models, the keys and the requests.
LEMMA DiscoveryInvHonest ==
    ASSUME DiscoveryInv, DiscoveryAssumption
    PROVE  ModelsAreHonest
<1>1. ModelsAreKnown
 <2>1. IsInjective([i \in DOMAIN models |-> models[i].id])
   BY DEF DiscoveryInv, ModelsFit, SequenceFits, IsInjective
 <2>2. \A i \in DOMAIN models : ModelFits(models[i])
   BY DEF DiscoveryInv, ModelsFit, SequenceFits
 <2> QED BY <2>1, <2>2 DEF ModelsAreKnown, ModelFits, IsKnown
<1>2. KeysStayHome
 <2>1. \A d \in Discoveries : {discoveries[d].url} \X discoveries[d].secrets \subseteq chosen
   BY DEF DiscoveryInv, RequestsFit, RequestFits
 <2>2. SecretsAt(running) \subseteq chosen /\ SecretsAt(connection) \subseteq chosen
   BY DEF DiscoveryInv, ConnectionsFit
 <2>3. UNION {{discoveries[d].url} \X discoveries[d].secrets : d \in Discoveries} \subseteq chosen
   BY <2>1
 <2> QED BY <2>2, <2>3 DEF KeysStayHome
<1>3. RequestsAreServed
 <2> SUFFICES ASSUME NEW d \in Discoveries
              PROVE  LET r == discoveries[d] IN
                     /\ r.stage = "catalogue" => pending
                     /\ r.stage = "drafted" => r.read + CatalogueTicks > r.asked
                     /\ r.page <= MaxPages /\ r.bytes <= MaxBytes /\ Cardinality(r.listed) <= MaxModels
                     /\ \A m, n \in r.listed : m.id = n.id => m = n
   BY DEF RequestsAreServed
 <2> DEFINE r == discoveries[d]
 <2>1. RequestFits(r, clock, pending, chosen)  BY DEF DiscoveryInv, RequestsFit
 <2> HIDE DEF r
 <2>2. /\ r.stage = "catalogue" => pending
       /\ r.stage = "drafted" => r.read + CatalogueTicks > r.asked
       /\ r.page \in 0..MaxPages /\ r.bytes \in 0..MaxBytes
   BY <2>1 DEF RequestFits
 <2>3. Cardinality(r.listed) <= MaxModels /\ \A m, n \in r.listed : m.id = n.id => m = n
   BY <2>1 DEF RequestFits, ListFits, IdsDiffer
 <2> QED BY <2>2, <2>3 DEF DiscoveryAssumption, r
<1> QED BY <1>1, <1>2, <1>3 DEF ModelsAreHonest

(* What is written of a model that nobody looked at is what its provider or the  *)
(* catalogue says of exactly that model; a key goes only where it was entered    *)
(* for; and requests that share a download are all served, within the limits     *)
(* (resolveModelDraft, updateProvider, loadModelsDevCatalog).                    *)
THEOREM ModelsStayHonest == DiscoverySpec => []ModelsAreHonest
<1>1. DiscoveryInit => DiscoveryInv  BY DiscoveryAssumption, DiscoveryInvInit
<1>2. DiscoveryInv /\ [DiscoveryNext]_discoveryVars => DiscoveryInv'
  BY DiscoveryAssumption, DiscoveryInvNext
<1>3. DiscoveryInv => ModelsAreHonest  BY DiscoveryAssumption, DiscoveryInvHonest
<1> QED BY <1>1, <1>2, <1>3, PTL DEF DiscoverySpec

=============================================================================
