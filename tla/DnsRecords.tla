----------------------------- MODULE DnsRecords -----------------------------
(***************************************************************************)
(* What the DNS check says about the records of one domain                 *)
(* (app/services/dns_check.py, app/services/dmarc_record.py).              *)
(*                                                                         *)
(* Functions of their input without state.  A zone maps names to the       *)
(* sequence of their TXT, MX or address records, or to Failed when the     *)
(* lookup brings no answer or the time budget is used up; a missing name   *)
(* has no records.  A TXT record says which kind it is and holds what      *)
(* parsing it yields: a DMARC record its tags in order after v, each with  *)
(* a value or None, an SPF record its terms, a key its bytes.  A check is  *)
(* its key, its state, the name it looked at and the record it suggests;   *)
(* titles and texts are left out, and all keys of DKIM are one group.      *)
(***************************************************************************)
EXTENDS DmarcEvaluator

CONSTANTS
    None,         \* None
    Failed,       \* LookupFailed
    SpfLimit,     \* SPF_LOOKUP_LIMIT
    SpfDepth,     \* SPF_MAX_DEPTH
    MinBits,      \* DKIM_MIN_RSA_BITS
    GoodBits,     \* DNS_CHECK_DKIM_RECOMMENDED_BITS
    KeyBytes,     \* ED25519_KEY_BYTES
    ActiveDays,   \* DNS_CHECK_DKIM_ACTIVE_DAYS
    MaxSelectors  \* DNS_CHECK_DKIM_MAX_SELECTORS

ASSUME LimitsAreNumbers == {SpfLimit, SpfDepth, MinBits, GoodBits, KeyBytes, ActiveDays, MaxSelectors} \subseteq Nat

OK == "ok"
INFO == "info"
WARNING == "warning"
ERROR == "error"
UNKNOWN == "unknown"

DnsCheck(key, state, record, suggestion) == [key |-> key, state |-> state, record |-> record, suggestion |-> suggestion]

_failed(key, name) == DnsCheck(key, UNKNOWN, name, None)

\* Resolver: answers are kept for one check, so a name has the same records throughout
Answers(zone, name) == IF name \in DOMAIN zone THEN zone[name] ELSE <<>>

Texts(answers, kind) == SelectSeq(answers, LAMBDA text : text.kind = kind)

\* The worst state that asks for attention
status(checks) ==
    LET states == {checks[i].state : i \in DOMAIN checks}
    IN  CASE ERROR \in states -> ERROR [] WARNING \in states -> WARNING [] UNKNOWN \in states -> UNKNOWN [] OTHER -> OK

-----------------------------------------------------------------------------
(* Tags and addresses *)

\* The first occurrence with a value counts
Tag(pairs, key) ==
    LET at == {i \in DOMAIN pairs : pairs[i].key = key /\ pairs[i].value # None}
    IN  IF at = {} THEN None ELSE pairs[Min(at)].value

_uris(value) == IF value = None THEN <<>> ELSE value

_mailto(uri) == IF uri.scheme = "mailto" THEN uri.to ELSE None

Ours(uris, target) == {_mailto(uris[i]) : i \in DOMAIN uris} \cap target.addresses

Mail(address) == [scheme |-> "mailto", to |-> address]

\* Plausible slip: the address of this application replaces the others
OnlyOurs(value, target) == <<Mail(target.report_address)>>

_with_address(value, target) ==
    IF Ours(_uris(value), target) # {} THEN _uris(value) ELSE Append(_uris(value), Mail(target.report_address))

\* At the end if the anchor is not there; v stands before all pairs
_insert_after(pairs, anchor, key, value) ==
    LET at == {i \in DOMAIN pairs : pairs[i].key = anchor}
    IN  InsertAt(pairs, IF anchor = "v" THEN 1 ELSE IF at = {} THEN Len(pairs) + 1 ELSE Min(at) + 1, [key |-> key, value |-> value])

Dmarc(pairs) == [kind |-> "dmarc", exact |-> TRUE, pairs |-> pairs]

\* The live record with the report address in rua, and in ruf with fo=1 when wanted; every other tag stays
suggest_from_record(pairs, target, set) ==
    LET want_ruf == set.failure_reports /\ set.suggest_ruf
        Fixed(pair) ==
            CASE pair.key = "rua" \/ (pair.key = "ruf" /\ want_ruf) -> [pair EXCEPT !.value = _with_address(@, target)]
              [] pair.key = "fo" /\ want_ruf -> [pair EXCEPT !.value = <<"1">> \o SelectSeq(@, LAMBDA o : o \notin {"0", "1"})]
              [] OTHER -> pair
        Keys(tags) == {tags[i].key : i \in DOMAIN tags}
        kept == FoldLeft(LAMBDA tags, pair :
                           IF pair.value = None \/ pair.key \in Keys(tags) \cup {"v"} THEN tags ELSE Append(tags, Fixed(pair)), <<>>, pairs)
        Need(tags, wanted, anchor, key, value) == IF wanted /\ key \notin Keys(tags) THEN _insert_after(tags, anchor, key, value) ELSE tags
        p == Need(kept, TRUE, "v", "p", "none")
        rua == Need(p, TRUE, "end", "rua", <<Mail(target.report_address)>>)
        ruf == Need(rua, want_ruf, "rua", "ruf", <<Mail(target.report_address)>>)
    IN  IF target.report_address = None THEN None ELSE Dmarc(Need(ruf, want_ruf, "ruf", "fo", <<"1">>))

\* A record of its own for a domain that has none, from the policy of its last report
suggest_dmarc_record(domain, address, set) ==
    LET Pair(key, value, wanted) == IF wanted THEN <<[key |-> key, value |-> value]>> ELSE <<>>
        p == IF domain.p = None THEN "none" ELSE domain.p
        ruf == set.failure_reports /\ set.suggest_ruf
    IN  Dmarc(Pair("p", p, TRUE) \o Pair("sp", domain.sp, domain.sp # None /\ domain.sp # p) \o Pair("np", domain.np, domain.np # None)
              \o Pair("t", "y", domain.testing) \o Pair("pct", domain.pct, domain.pct # None /\ domain.pct < 100)
              \o Pair("rua", <<Mail(address)>>, TRUE) \o Pair("ruf", <<Mail(address)>>, ruf) \o Pair("fo", <<"1">>, ruf))

\* The first failing check shows the suggestion; the same one is not shown again
_one_suggestion(checks) ==
    LET Shown(i) == checks[i].suggestion # None /\ checks[i].state \in {ERROR, WARNING}
    IN  [i \in DOMAIN checks |->
            IF Shown(i) /\ \E j \in 1 .. i - 1 : /\ Shown(j) /\ (\A k \in 1 .. j - 1 : ~Shown(k))
                                                 /\ checks[j].suggestion = checks[i].suggestion
            THEN [checks[i] EXCEPT !.suggestion = None] ELSE checks[i]]

-----------------------------------------------------------------------------
(* DMARC *)

Policies == {"none", "quarantine", "reject"}

DmarcName(domain) == <<"_dmarc">> \o domain

\* The record of the domain or of its organizational domain; the text may still spell the version in another way
_find_dmarc(zone, domain) ==
    LET organizational == _organizational_domain(Name(domain))
        own == Answers(zone, DmarcName(domain))
        above == Answers(zone, DmarcName(organizational))
        Found(at, answers) == [domain |-> at, inherited |-> at # domain, records |-> answers]
    IN  CASE own = Failed -> Failed
          [] own # Failed /\ Texts(own, "dmarc") # <<>> -> Found(domain, Texts(own, "dmarc"))
          [] own # Failed /\ Texts(own, "dmarc") = <<>> ->
                IF organizational = domain THEN Found(domain, <<>>)
                ELSE IF above = Failed THEN Failed
                ELSE IF Texts(above, "dmarc") # <<>> THEN Found(organizational, Texts(above, "dmarc"))
                ELSE Found(domain, <<>>)

_check_dmarc_record(target, found, set) ==
    LET name == DmarcName(found.domain)
    IN  IF Len(found.records) # 1 THEN DnsCheck("dmarc", ERROR, name, target.dmarc_suggestion)
        ELSE IF ~found.records[1].exact
             THEN DnsCheck("dmarc", ERROR, name, suggest_from_record(found.records[1].pairs, target, set))
        ELSE DnsCheck("dmarc", IF found.inherited THEN INFO ELSE OK, name, None)

_check_dmarc_policy(found, pairs) ==
    LET policy == IF found.inherited /\ Tag(pairs, "sp") # None THEN Tag(pairs, "sp") ELSE Tag(pairs, "p")
        weakened == Tag(pairs, "t") = "y" \/ Tag(pairs, "pct") \in 0 .. 99
    IN  DnsCheck("policy", CASE Tag(pairs, "p") = None -> WARNING
                             [] Tag(pairs, "p") # None /\ policy \notin Policies -> ERROR
                             [] Tag(pairs, "p") # None /\ policy \in Policies -> IF policy = "none" \/ weakened THEN INFO ELSE OK,
                 DmarcName(found.domain), None)

\* What a tag may say; other tags take anything
Valid(key, value) ==
    CASE key \in {"sp", "np"} -> value \in Policies
      [] key = "t" -> value \in {"y", "n"}
      [] key = "pct" -> value \in 0 .. 100
      [] key = "fo" -> \A i \in DOMAIN value : value[i] \in {"0", "1", "d", "s"}
      [] key \in {"rua", "ruf"} -> \A i \in DOMAIN value : value[i].scheme \in {"mailto", "https"}
      [] OTHER -> TRUE

KnownTags == {"v", "p", "sp", "np", "t", "pct", "rua", "ruf", "fo"}

_check_dmarc_syntax(found, pairs) ==
    LET Twice == \E i, j \in DOMAIN pairs : pairs[i].key = "v" \/ (i # j /\ pairs[i].key = pairs[j].key)
        Odd == \E i \in DOMAIN pairs : pairs[i].value = None
        Wrong == \E key \in KnownTags \ {"p"} : Tag(pairs, key) # None /\ ~Valid(key, Tag(pairs, key))
        Strange == \E i \in DOMAIN pairs : pairs[i].value # None /\ pairs[i].key \notin KnownTags
    IN  DnsCheck("syntax", CASE Twice \/ Odd \/ Wrong -> WARNING [] ~(Twice \/ Odd \/ Wrong) -> IF Strange THEN INFO ELSE OK,
                 DmarcName(found.domain), None)

_check_rua(target, found, pairs, suggestion) ==
    IF Ours(_uris(Tag(pairs, "rua")), target) = {} THEN DnsCheck("rua", ERROR, DmarcName(found.domain), suggestion)
    ELSE DnsCheck("rua", OK, DmarcName(found.domain), None)

\* Only called with FAILURE_REPORTS_ENABLED
_check_ruf(target, found, pairs, suggestion, set) ==
    LET fo == IF Tag(pairs, "fo") = None THEN {"0"} ELSE ToSet(Tag(pairs, "fo"))
    IN  IF Ours(_uris(Tag(pairs, "ruf")), target) = {}
        THEN DnsCheck("ruf", IF set.suggest_ruf THEN WARNING ELSE INFO, DmarcName(found.domain), suggestion)
        ELSE DnsCheck("ruf", IF "1" \in fo THEN OK ELSE INFO, DmarcName(found.domain), None)

\* Domains of our addresses in rua and ruf that belong to somebody else than the domain of the record
ForeignDomains(target, found, pairs) ==
    {d \in {a.domain : a \in Ours(_uris(Tag(pairs, "rua")) \o _uris(Tag(pairs, "ruf")), target)} :
        _organizational_domain(Name(d)) # _organizational_domain(Name(found.domain))}

ConsentName(found, report_domain) == found.domain \o <<"_report", "_dmarc">> \o report_domain

\* One lookup without an answer leaves the check open
_check_consent(zone, target, found, pairs) ==
    LET names == {ConsentName(found, d) : d \in ForeignDomains(target, found, pairs)}
        missing == {n \in names : Answers(zone, n) # Failed /\ Texts(Answers(zone, n), "dmarc") = <<>>}
    IN  CASE \E n \in names : Answers(zone, n) = Failed -> _failed("consent", CHOOSE n \in names : Answers(zone, n) = Failed)
          [] \A n \in names : Answers(zone, n) # Failed ->
                IF missing = {} THEN DnsCheck("consent", OK, None, None)
                ELSE DnsCheck("consent", ERROR, CHOOSE n \in missing : TRUE, Dmarc(<<>>))

check_dmarc(zone, target, set) ==
    LET found == _find_dmarc(zone, target.domain)
        record == _check_dmarc_record(target, found, set)
        pairs == found.records[1].pairs
        suggestion == suggest_from_record(pairs, target, set)
    IN  IF found = Failed THEN <<_failed("dmarc", DmarcName(target.domain))>>
        ELSE IF record.state = ERROR THEN <<record>>
        ELSE _one_suggestion(<<record, _check_dmarc_policy(found, pairs), _check_dmarc_syntax(found, pairs),
                               _check_rua(target, found, pairs, suggestion)>>
                             \o (IF set.failure_reports THEN <<_check_ruf(target, found, pairs, suggestion, set)>> ELSE <<>>))
             \o (IF ForeignDomains(target, found, pairs) = {} THEN <<>> ELSE <<_check_consent(zone, target, found, pairs)>>)

-----------------------------------------------------------------------------
(* SPF *)

Counted == {"include", "a", "mx", "ptr", "exists"}

Mechanisms == Counted \cup {"all", "ip4", "ip6"}

\* Plausible slip: a record that redirects goes on although it ends with all
RedirectsAnyway(terms) == \E i \in DOMAIN terms : terms[i].name = "redirect"

\* RFC 7208, 6.1: with all the redirect is never followed
Redirects(terms) ==
    /\ \E i \in DOMAIN terms : terms[i].name = "redirect"
    /\ \A i \in DOMAIN terms : terms[i].name # "all"

\* The last redirect= counts
redirect(terms) == terms[Max({i \in DOMAIN terms : terms[i].name = "redirect"})].to

RECURSIVE _walk_spf(_, _, _, _)

\* host is None for a macro, which depends on the mail; a name on its own path is a loop
_follow(zone, host, walk, path) ==
    LET answers == Answers(zone, host)
        Bad == [walk EXCEPT !.errors = @ + 1]
    IN  IF host = None THEN walk
        ELSE IF host \in ToSet(path) THEN Bad
        ELSE IF Len(path) > SpfDepth \/ walk.lookups > SpfLimit THEN walk
        ELSE IF answers = Failed THEN [walk EXCEPT !.incomplete = TRUE]
        ELSE IF Len(Texts(answers, "spf")) # 1 THEN Bad
        ELSE _walk_spf(zone, Texts(answers, "spf")[1].terms, walk, Append(path, host))

\* Modifiers are redirect and exp; a redirect costs a lookup and is followed at the end
_walk_spf(zone, terms, walk, path) ==
    LET Term(w, term) ==
            LET counted == [w EXCEPT !.lookups = @ + (IF term.name \in Counted THEN 1 ELSE 0),
                                     !.warnings = @ + (IF term.name = "ptr" /\ Len(path) = 1 THEN 1 ELSE 0)]
            IN  CASE term.name \in {"redirect", "exp"} -> w
                  [] term.name = "include" -> _follow(zone, term.to, counted, path)
                  [] term.name \in Mechanisms \ {"include"} -> counted
                  [] OTHER -> [w EXCEPT !.errors = @ + 1]
        walked == FoldLeft(Term, walk, terms)
    IN  IF Redirects(terms) THEN _follow(zone, redirect(terms), [walked EXCEPT !.lookups = @ + 1], path) ELSE walked

\* The qualifier of the first all; a missing one is +
_closing_all(terms) ==
    LET at == {i \in DOMAIN terms : terms[i].name = "all"} IN IF at = {} THEN None ELSE terms[Min(at)].qualifier

check_spf(zone, target) ==
    LET answers == Answers(zone, target.domain)
        terms == Texts(answers, "spf")[1].terms
        walk == _walk_spf(zone, terms, [lookups |-> 0, errors |-> 0, warnings |-> 0, incomplete |-> FALSE], <<target.domain>>)
        closing == _closing_all(terms)
        Redirecting == \E i \in DOMAIN terms : terms[i].name = "redirect"
        State == CASE walk.errors > 0 \/ walk.lookups > SpfLimit \/ closing = "+" -> ERROR
                   [] OTHER -> IF walk.warnings > 0 \/ closing = "?" \/ (closing = None /\ ~Redirecting) THEN WARNING
                               ELSE IF walk.incomplete THEN UNKNOWN ELSE OK
    IN  IF answers = Failed THEN _failed("spf", target.domain)
        ELSE DnsCheck("spf", CASE Len(Texts(answers, "spf")) = 0 -> WARNING [] Len(Texts(answers, "spf")) = 1 -> State
                               [] Len(Texts(answers, "spf")) > 1 -> ERROR, target.domain, None)

-----------------------------------------------------------------------------
(* DKIM *)

\* Unsigned number of a sequence of bytes, the first one on top
from_bytes(bytes) == FoldLeft(LAMBDA n, b : n * 256 + b, 0, bytes)

\* Plausible slip: a long form may announce more bytes than there are
TlvUnbounded(data, pos) ==
    LET size == data[pos + 2] - 128
        length == IF data[pos + 2] >= 128 THEN from_bytes(SubSeq(data, pos + 3, pos + 2 + size)) ELSE data[pos + 2]
        start == pos + 2 + (IF data[pos + 2] >= 128 THEN size ELSE 0)
    IN  [tag |-> data[pos + 1], start |-> start, end |-> start + length]

\* Tag, start and end of the DER value at pos, counted from 0; None is the ValueError
_tlv(data, pos) ==
    LET long == data[pos + 2] >= 128
        size == data[pos + 2] - 128
        start == pos + 2 + (IF long THEN size ELSE 0)
        length == IF long THEN from_bytes(SubSeq(data, pos + 3, start)) ELSE data[pos + 2]
    IN  IF pos + 2 > Len(data) \/ (long /\ (size \notin 1 .. 4 \/ start > Len(data))) \/ start + length > Len(data) THEN None
        ELSE [tag |-> data[pos + 1], start |-> start, end |-> start + length]

bit_length(bytes) ==
    LET at == {i \in DOMAIN bytes : bytes[i] # 0}
        top == bytes[Min(at)]
    IN  IF at = {} THEN 0 ELSE 8 * (Len(bytes) - Min(at)) + Min({k \in 1 .. 8 : top < 2 ^ k})

\* The modulus of an RSAPublicKey: the INTEGER that comes first in the SEQUENCE
ModulusBits(der, first) ==
    IF bit_length(SubSeq(der, first.start + 1, first.end)) = 0 THEN None ELSE bit_length(SubSeq(der, first.start + 1, first.end))

\* Length of an RSA key, bare or once within a SubjectPublicKeyInfo (DER_MAX_DEPTH); None for anything else
RECURSIVE rsa_key_bits(_, _)
rsa_key_bits(der, depth) ==
    LET outer == _tlv(der, 0)
        first == _tlv(der, outer.start)
        bits == _tlv(der, first.end)
    IN  CASE depth >= 2 \/ outer = None -> None
          [] depth < 2 /\ outer # None ->
                IF outer.tag # 48 \/ first = None THEN None
                ELSE IF first.tag = 2 THEN ModulusBits(der, first)
                ELSE IF first.tag # 48 \/ bits = None THEN None
                ELSE IF bits.tag = 3 THEN rsa_key_bits(SubSeq(der, bits.start + 2, bits.end), depth + 1) ELSE None

\* A selector that no report shows passing counts as in use
_in_use(idle) == idle = None \/ idle <= ActiveDays

KeyName(selector, domain) == <<selector, "_domainkey">> \o domain

\* A key record holds p (None without one, else whether it is Base64 and its bytes), its kind and the test flag
KeyState(text) ==
    LET bits == rsa_key_bits(text.p.data, 0)
        Good == IF text.testing THEN INFO ELSE OK
    IN  IF text.p = None THEN ERROR
        ELSE IF text.p.base64 /\ text.p.data = <<>> THEN WARNING
        ELSE IF ~text.p.base64 THEN ERROR
        ELSE IF text.k = "ed25519" THEN IF Len(text.p.data) # KeyBytes THEN ERROR ELSE Good
        ELSE IF bits = None THEN ERROR
        ELSE IF bits < MinBits THEN ERROR
        ELSE IF bits < GoodBits THEN INFO ELSE Good

_check_selector(zone, target, selector) ==
    LET name == KeyName(selector, target.domain)
        answers == Answers(zone, name)
        records == Texts(answers, "key")
    IN  IF answers = Failed THEN _failed("dkim", name)
        ELSE DnsCheck("dkim",
                      CASE Len(records) = 0 -> IF _in_use(target.dkim_last_pass[selector]) THEN ERROR ELSE WARNING
                        [] Len(records) = 1 -> KeyState(records[1])
                        [] Len(records) > 1 -> WARNING, name, None)

check_dkim(zone, target) ==
    IF target.dkim_selectors = <<>> THEN <<DnsCheck("dkim", INFO, None, None)>>
    ELSE [i \in DOMAIN target.dkim_selectors |-> _check_selector(zone, target, target.dkim_selectors[i])]

-----------------------------------------------------------------------------
(* MX and TLS reporting *)

MxName(domain) == <<"MX">> \o domain

AddressesOf(zone, host) == Answers(zone, <<"A">> \o host)

\* The check and whether the domain receives mail; None when the lookup gave no answer.  A null MX names the host <<>>
check_mx(zone, target) ==
    LET hosts == Answers(zone, MxName(target.domain))
        Result(state, receives) == [check |-> DnsCheck("mx", state, target.domain, None), receives |-> receives]
    IN  IF hosts = Failed THEN Result(UNKNOWN, None)
        ELSE IF \A i \in DOMAIN hosts : hosts[i] = <<>> THEN Result(INFO, FALSE)
        ELSE IF \E i \in DOMAIN hosts : AddressesOf(zone, hosts[i]) = Failed THEN Result(UNKNOWN, TRUE)
        ELSE IF \E i \in DOMAIN hosts : AddressesOf(zone, hosts[i]) = <<>> THEN Result(WARNING, TRUE)
        ELSE Result(OK, TRUE)

TlsName(domain) == <<"_smtp", "_tls">> \o domain

suggest_tls_record(address) == [kind |-> "tls", exact |-> TRUE, pairs |-> <<[key |-> "rua", value |-> <<Mail(address)>>]>>]

\* Only called with TLS_REPORTS_ENABLED; records in the exact spelling hide those in another one
check_tls_reporting(zone, target, receives) ==
    LET name == TlsName(target.domain)
        candidates == Texts(Answers(zone, name), "tls")
        exact == SelectSeq(candidates, LAMBDA text : text.exact)
        records == IF exact # <<>> THEN exact ELSE candidates
        rua == Tag(records[1].pairs, "rua")
        fixed == IF target.report_address = None THEN None
                 ELSE [kind |-> "tls", exact |-> TRUE, pairs |-> <<[key |-> "rua", value |-> _with_address(rua, target)]>>]
        Result(state, suggestion) == DnsCheck("tlsrpt", state, name, suggestion)
    IN  IF receives = None THEN Result(UNKNOWN, None)
        ELSE IF ~receives THEN Result(INFO, None)
        ELSE IF Answers(zone, name) = Failed THEN Result(UNKNOWN, None)
        ELSE IF records = <<>> THEN Result(WARNING, target.tls_suggestion)
        ELSE IF Len(records) > 1 THEN Result(ERROR, target.tls_suggestion)
        ELSE IF ~records[1].exact THEN Result(ERROR, fixed)
        ELSE IF Ours(_uris(rua), target) = {} THEN Result(WARNING, fixed)
        ELSE Result(OK, None)

-----------------------------------------------------------------------------
(* One domain *)

\* A group in broken raised an error: its checks stay open and the others go on
check_domain(zone, target, set, broken) ==
    LET Group(key, checks) == IF key \in broken THEN <<_failed(key, None)>> ELSE checks
        receives == IF "mx" \in broken THEN None ELSE check_mx(zone, target).receives
    IN  Group("dmarc", check_dmarc(zone, target, set)) \o Group("spf", <<check_spf(zone, target)>>)
        \o Group("dkim", check_dkim(zone, target)) \o Group("mx", <<check_mx(zone, target).check>>)
        \o (IF set.tls_reports THEN Group("tlsrpt", <<check_tls_reporting(zone, target, receives)>>) ELSE <<>>)

\* Selectors of signatures that passed in recent reports, most used first, each with the age of its newest report.
\* A spelling is counted on its own; of two that differ in case the more used one gives the age
dkim_selectors(passed) ==
    LET Of(raw) == {r \in passed : r.raw = raw}
        Uses(raw) == Cardinality(Of(raw))
        sorted == SetToSortSeq({r.raw : r \in passed}, LAMBDA a, b : Uses(a) > Uses(b))
        Seen(found, name) == \E i \in DOMAIN found : found[i].selector = name
        Add(found, raw) == IF Seen(found, raw.lower) THEN found
                           ELSE Append(found, [selector |-> raw.lower, days |-> Min({r.days : r \in Of(raw)})])
    IN  FoldLeft(Add, <<>>, SubSeq(sorted, 1, Min({Len(sorted), MaxSelectors})))

\* What a check needs from the database; the address it suggests is one of the active ones, or there is none
gather_input(domain, addresses, report_address, set, passed) ==
    LET selectors == dkim_selectors(passed)
    IN  [domain |-> domain.name, addresses |-> addresses, report_address |-> report_address,
         dmarc_suggestion |-> IF report_address = None THEN None ELSE suggest_dmarc_record(domain, report_address, set),
         tls_suggestion |-> IF report_address = None THEN None ELSE suggest_tls_record(report_address),
         dkim_selectors |-> [i \in DOMAIN selectors |-> selectors[i].selector],
         dkim_last_pass |-> [s \in {selectors[i].selector : i \in DOMAIN selectors} |->
                                selectors[CHOOSE i \in DOMAIN selectors : selectors[i].selector = s].days]]
=============================================================================
