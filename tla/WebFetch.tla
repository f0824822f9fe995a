------------------------------- MODULE WebFetch -------------------------------
(* One call of web_fetch (src/src/plugins/web-fetch/web-fetch.ts): every hop is  *)
(* parsed, resolved and checked before its request goes out, the body is read up *)
(* to a budget and cut between two characters, and the audit row ends with what  *)
(* the model is told.  The network is external: a name resolves to any           *)
(* addresses, and a server answers with any response in chunks of any size.      *)
EXTENDS Naturals, Sequences, FiniteSets

CONSTANTS
    Urls,          \* what a call or a redirect may name
    KindOf,        \* [Urls -> "bad", "name", or the class of a literal address]
    MaxRedirects,
    Texts,         \* what a page or its Markdown may be, byte by byte
    Budgets,       \* bytes left for the body after the header lines
    HtmlBudget     \* bytes of HTML that are read

Classes == {"public", "private", "synthetic"}

\* A byte is the n-th of a character of w bytes; width 0 is no UTF-8 at all.
Bytes == [width : 0..4, nth : 1..4]
EndsCharacter(byte) == byte.nth >= byte.width
IsText(bytes) ==
    /\ bytes \in Seq(Bytes)
    /\ bytes # <<>> => bytes[1].nth = 1 /\ EndsCharacter(bytes[Len(bytes)])
    /\ \A b \in 1..Len(bytes) - 1 :
          IF EndsCharacter(bytes[b]) THEN bytes[b + 1].nth = 1
          ELSE bytes[b + 1] = [width |-> bytes[b].width, nth |-> bytes[b].nth + 1]

ASSUME FetchAssumption ==
    /\ KindOf \in [Urls -> {"bad", "name"} \cup Classes]
    /\ \A text \in Texts : IsText(text)
    /\ MaxRedirects \in Nat /\ HtmlBudget \in Nat /\ Budgets \subseteq Nat

VARIABLES policy,   \* [allowAll, allowSynthetic]: of the configuration
          fetch,    \* the call: where it is, its url and what it has read
          signals,  \* "aborted" and "late", once the run or the time has ended
          sent,     \* history: the policy class of the address of every request
          audit     \* the audit row

fetchVars == <<policy, fetch, signals, sent, audit>>

Prefix(bytes, n) == SubSeq(bytes, 1, n)

\* TextDecoder with `fatal', on the first bytes of a body.
Decodes(bytes) ==
    /\ \A b \in DOMAIN bytes : bytes[b].width # 0
    /\ bytes # <<>> => EndsCharacter(bytes[Len(bytes)])

NoResponse == [media |-> "text", text |-> <<>>]
Call(url, raw, stage) ==
    [stage |-> stage, url |-> url, raw |-> raw, hops |-> 0, answers |-> <<>>,
     response |-> NoResponse, budget |-> 0, read |-> 0, over |-> FALSE,
     page |-> <<>>, length |-> 0, cut |-> FALSE]

FetchInit ==
    /\ policy \in [allowAll : BOOLEAN, allowSynthetic : BOOLEAN]
    /\ \E url \in Urls, raw \in BOOLEAN : fetch = Call(url, raw, "parse")
    /\ signals = {} /\ sent = <<>> /\ audit = "running"

Fails(code) == fetch' = [fetch EXCEPT !.stage = "done"] /\ audit' = code

\* normalizeError, of an error that web_fetch did not throw itself.
NormalizeError ==
    IF "aborted" \in signals THEN "aborted"
    ELSE IF "late" \in signals THEN "timeout" ELSE "network_error"

-----------------------------------------------------------------------------

\* The deadline of the invocation has passed before the call does anything.
DeadlineReached ==
    /\ fetch.stage = "parse" /\ fetch.hops = 0 /\ "late" \in signals
    /\ Fails("invocation_timeout")
    /\ UNCHANGED <<policy, signals, sent>>

ParseUrl ==
    /\ fetch.stage = "parse" /\ (fetch.hops = 0 => "late" \notin signals)
    /\ IF KindOf[fetch.url] = "bad" THEN Fails("invalid_url")
       ELSE fetch' = [fetch EXCEPT !.stage = "resolve"] /\ audit' = audit
    /\ UNCHANGED <<policy, signals, sent>>

\* The lookup is not cut short by the signals; a literal address needs none.
ResolveHostname ==
    /\ fetch.stage = "resolve"
    /\ \/ \E answers \in (IF KindOf[fetch.url] = "name"
                          THEN UNION {[1..n -> Classes] : n \in 0..2}
                          ELSE {<<KindOf[fetch.url]>>}) :
             fetch' = [fetch EXCEPT !.stage = "check", !.answers = answers]
          /\ audit' = audit
       \/ KindOf[fetch.url] = "name" /\ Fails(NormalizeError)
    /\ UNCHANGED <<policy, signals, sent>>

\* One answer of a name that the policy does not allow spoils all of them.
Allowed(class) ==
    \/ policy.allowAll \/ class = "public"
    \/ policy.allowSynthetic /\ KindOf[fetch.url] = "name" /\ class = "synthetic"

ResolveAllowedAddress ==
    /\ fetch.stage = "check"
    /\ IF fetch.answers = <<>> THEN Fails("dns_error")
       ELSE IF \E i \in DOMAIN fetch.answers : ~Allowed(fetch.answers[i])
       THEN Fails("blocked_address")
       ELSE fetch' = [fetch EXCEPT !.stage = "request"] /\ audit' = audit
    /\ UNCHANGED <<policy, signals, sent>>

\* The request goes to the address that was checked; with a signal there is none.
RequestResolved ==
    /\ fetch.stage = "request"
    /\ IF signals # {} THEN Fails(NormalizeError) /\ sent' = sent
       ELSE /\ fetch' = [fetch EXCEPT !.stage = "headers", !.answers = <<>>]
            /\ sent' = Append(sent, [class |-> fetch.answers[1], url |-> fetch.url])
            /\ audit' = audit
    /\ UNCHANGED <<policy, signals>>

RequestFails ==
    /\ fetch.stage \in {"headers", "body"}
    /\ Fails(NormalizeError)
    /\ UNCHANGED <<policy, signals, sent>>

\* A redirect is followed by way of parseUrl; anything else must be text.
ReceiveHeaders ==
    /\ fetch.stage = "headers"
    /\ \/ \E to \in Urls :
             IF fetch.hops >= MaxRedirects THEN Fails("too_many_redirects")
             ELSE fetch' = [Call(to, fetch.raw, "parse") EXCEPT !.hops = fetch.hops + 1]
                  /\ audit' = audit
       \/ Fails("unsupported_content_type")
       \/ \E media \in {"html", "markdown", "text"}, text \in Texts, budget \in Budgets :
             /\ fetch' = [fetch EXCEPT !.stage = "body", !.budget = budget,
                              !.response = [media |-> media, text |-> text]]
             /\ audit' = audit
    /\ UNCHANGED <<policy, signals, sent>>

Converts == ~fetch.raw /\ fetch.response.media = "html"
BodyLimit == IF Converts THEN HtmlBudget ELSE fetch.budget
Body == fetch.response.text

\* readTextBody: the next chunk, of which only what is left of the limit is kept.
ReadChunk ==
    /\ fetch.stage = "body" /\ ~fetch.over
    /\ \E size \in 1..Len(Body) - fetch.read :
          LET available == BodyLimit - fetch.read IN
          fetch' = [fetch EXCEPT !.read = @ + (IF size > available THEN available ELSE size),
                                 !.over = size > available]
    /\ UNCHANGED <<policy, signals, sent, audit>>

\* Faulty: characters have at most two bytes.
AttemptsShort == IF fetch.over THEN 0..(IF fetch.read < 1 THEN fetch.read ELSE 1) ELSE {0}

\* How many bytes are dropped from the end of a cut body until it decodes.
Attempts == IF fetch.over THEN 0..(IF fetch.read < 3 THEN fetch.read ELSE 3) ELSE {0}
Decodable == {dropped \in Attempts : Decodes(Prefix(Body, fetch.read - dropped))}

\* truncateUtf8: the last place up to the budget where a character begins.
TruncateUtf8(bytes, budget) ==
    IF Len(bytes) <= budget THEN Len(bytes)
    ELSE CHOOSE end \in 0..budget :
            /\ bytes[end + 1].nth = 1
            /\ \A e \in end + 1..budget : bytes[e + 1].nth # 1

Succeed(page, length, cut) ==
    /\ fetch' = [fetch EXCEPT !.stage = "done", !.page = page, !.length = length, !.cut = cut]
    /\ audit' = "succeeded"

\* The body has ended or was cut.  HTML becomes any Markdown, or none.
EndBody ==
    /\ fetch.stage = "body" /\ (fetch.over \/ fetch.read = Len(Body))
    /\ IF Decodable = {} THEN Fails("invalid_text_encoding")
       ELSE LET dropped == CHOOSE d \in Decodable : \A e \in Decodable : d <= e IN
            IF ~Converts THEN Succeed(Body, fetch.read - dropped, fetch.over)
            ELSE \/ Fails("conversion_failed")
                 \/ \E markdown \in Texts :
                       LET length == TruncateUtf8(markdown, fetch.budget)
                       IN /\ Decodes(markdown)
                          /\ Succeed(markdown, length, fetch.over \/ length < Len(markdown))
    /\ UNCHANGED <<policy, signals, sent>>

\* The run is aborted, or the time of the fetch is over.
Signal ==
    /\ fetch.stage # "done"
    /\ \E s \in {"aborted", "late"} \ signals : signals' = signals \cup {s}
    /\ UNCHANGED <<policy, fetch, sent, audit>>

FetchNext ==
    \/ DeadlineReached \/ ParseUrl \/ ResolveHostname \/ ResolveAllowedAddress
    \/ RequestResolved \/ RequestFails \/ ReceiveHeaders \/ ReadChunk \/ EndBody \/ Signal

FetchSpec == FetchInit /\ [][FetchNext]_fetchVars

-----------------------------------------------------------------------------

FetchTypeOK ==
    /\ fetch.stage \in {"parse", "resolve", "check", "request", "headers", "body", "done"}
    /\ signals \subseteq {"aborted", "late"}
    /\ fetch.read \in Nat /\ fetch.read <= Len(Body)

\* The description the model is given ("private, local ... and unsafe redirect targets
\* are rejected"): whatever names resolve to and wherever redirects lead, no request
\* goes to an address that the policy does not allow, and their number is bounded.
RequestsAreAllowed ==
    /\ Len(sent) <= MaxRedirects + 1
    /\ \A i \in DOMAIN sent :
          \/ policy.allowAll \/ sent[i].class = "public"
          \/ policy.allowSynthetic /\ sent[i].class = "synthetic" /\ KindOf[sent[i].url] = "name"

\* What the model is given is whole characters of the page or of its Markdown, fits
\* the result, and is marked as cut exactly when something of the page is missing; a
\* page of valid text is never refused for the place where it was cut.
ResultIsFaithful ==
    /\ audit = "succeeded" =>
          /\ fetch.length <= fetch.budget
          /\ Decodes(Prefix(fetch.page, fetch.length))
          /\ fetch.cut <=> fetch.length < Len(fetch.page) \/ fetch.read < Len(Body)
    /\ audit = "invalid_text_encoding" => ~Decodes(Body)

\* The audit row ends with the call, and blames a signal only when it came.
AuditTellsOutcome ==
    /\ audit = "running" <=> fetch.stage # "done"
    /\ audit = "aborted" => "aborted" \in signals
    /\ audit \in {"timeout", "invocation_timeout"} => "late" \in signals
    /\ audit = "network_error" => signals = {}

\* Of one call, whatever the network answers and whenever it is cut short.
FetchIsFaithful ==
    FetchTypeOK /\ RequestsAreAllowed /\ ResultIsFaithful /\ AuditTellsOutcome
=============================================================================
