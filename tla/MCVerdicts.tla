----------------------------- MODULE MCVerdicts -----------------------------
(* Bounded inputs for DmarcEvaluator and DnsRecords, and what their results promise, for TLC.
   A result that is used several times is bound as the only member of a set, so that TLC computes it once. *)
EXTENDS DnsRecords

PublicNames == {<<"uk">>, <<"co", "uk">>}

-----------------------------------------------------------------------------
(* Alignment *)

Labels == {<<"uk">>, <<"co", "uk">>, <<"shop", "co", "uk">>, <<"mail", "shop", "co", "uk">>, <<"news", "co", "uk">>,
           <<"shop", "uk">>, <<"mail", "shop", "uk">>, <<"co", "shop", "uk">>, <<"shop">>}

Names == {Name(l) : l \in Labels} \cup {[labels |-> <<"shop", "uk">>, dot |-> TRUE], NoName}

\* The domain that is registered right below a public suffix holds the name, and no public suffix lies in between
Holds(owner, labels) ==
    /\ IsSuffix(owner, labels) /\ Len(owner) > 1
    /\ Tail(owner) \in Public
    /\ \A n \in Len(owner) .. Len(labels) : SubSeq(labels, Len(labels) - n + 1, Len(labels)) \notin Public

\* Relaxed alignment is one registered domain for both names, or the same name
SameOwner ==
    \A d1 \in Names \ {NoName}, d2 \in Names \ {NoName} :
        _domains_aligned(d1, d2, "r") <=>
            d1.labels = d2.labels \/ \E owner \in Labels : Holds(owner, d1.labels) /\ Holds(owner, d2.labels)

Results == [auth_type: {"dkim", "spf"}, domain: {Name(<<"mail", "shop", "uk">>), Name(<<"shop", "co", "uk">>)}, result: {"pass", "fail"}]

Rows == [header_from: Names, envelope_from: {NoName, Name(<<"shop", "uk">>)}, dkim_result: {"pass", "fail"},
         spf_result: {"pass", "fail"}, auth_results: {{}} \cup {{r} : r \in Results}]

Published == [domain: {Name(<<"shop", "uk">>)}, adkim: {"r"}, aspf: {"r"}, p: {"none", "reject"}, sp: {"", "none", "quarantine"},
              testing: BOOLEAN]

\* More evidence never turns a pass into a failure, nor does the strict mode a failure into a pass, and the policy of
\* the subdomains leaves the domain itself as it is
VerdictsAreMonotone ==
    \A item \in Rows, policy \in Published :
        LET verdict == evaluate_record(item, policy)
            strict == evaluate_record(item, [policy EXCEPT !.adkim = "s", !.aspf = "s"])
        IN  /\ strict.dmarc_pass => verdict.dmarc_pass
            /\ verdict.dmarc_pass => \A r \in Results : evaluate_record([item EXCEPT !.auth_results = @ \cup {r}], policy).dmarc_pass
            /\ item.header_from = policy.domain => verdict = evaluate_record(item, [policy EXCEPT !.sp = ""])

(* Names are aligned exactly if one owner holds both: hosts of a shop under a public suffix of two labels are, two
   shops under that suffix are not, nor is a shop with the suffix itself (_organizational_domain).  The verdict
   follows the evidence. *)
OwnersAreTold == SameOwner /\ VerdictsAreMonotone

-----------------------------------------------------------------------------
(* Suggestions *)

Box == <<"in", "box">>
OurAddress == [user |-> "ours", domain |-> Box]
Theirs == Mail([user |-> "theirs", domain |-> <<"shop", "uk">>])
Shop == <<"shop", "uk">>
Sub == <<"mail">> \o Shop

Pairs == {[key |-> "p", value |-> v] : v \in {"none", "bogus", None}}
         \cup {[key |-> "sp", value |-> "reject"], [key |-> "pct", value |-> 50]}
         \cup {[key |-> "rua", value |-> v] : v \in {<<>>, <<Theirs>>, <<Mail(OurAddress)>>}}
         \cup {[key |-> "ruf", value |-> v] : v \in {<<Theirs>>, <<Theirs, Mail(OurAddress)>>}}
         \cup {[key |-> "fo", value |-> v] : v \in {<<"0">>, <<"d", "1">>}}

Records == [kind: {"dmarc"}, exact: BOOLEAN, pairs: SeqOf(Pairs, 3)]

Switches == {s \in [failure_reports: BOOLEAN, suggest_ruf: BOOLEAN, tls_reports: {TRUE}] : s.suggest_ruf => s.failure_reports}

Row == [name |-> Sub, p |-> "reject", sp |-> "none", np |-> None, testing |-> FALSE, pct |-> 50]

Target(set) == gather_input(Row, {OurAddress}, OurAddress, set, {})

Urgent(check) == check.state \in {ERROR, WARNING}

\* The first finding with something to publish, if there is one
Shown(checks) == {i \in DOMAIN checks : checks[i].key # "consent" /\ Urgent(checks[i]) /\ checks[i].suggestion # None}
FirstShown(checks) == {checks[i] : i \in {k \in Shown(checks) : \A j \in Shown(checks) : k <= j}}

\* A record keeps the policy and the receivers of another one
Keeps(pairs, old) ==
    /\ \A key \in {"p", "sp", "pct"} : Tag(old, key) \in {None, Tag(pairs, key)}
    /\ \A key \in {"rua", "ruf"} : ToSet(_uris(Tag(old, key))) \subseteq ToSet(_uris(Tag(pairs, key)))

\* Whoever publishes what the first failing check suggests gets the reports, keeps the policy and the other receivers,
\* and is told nothing more to publish there
Repaired(zone, set) ==
    \A target \in {Target(set)} : \A first \in FirstShown(check_dmarc(zone, target, set)) :
        /\ \A repaired \in {(first.record :> <<first.suggestion>>) @@ zone} :
           \A check \in ToSet(check_dmarc(repaired, target, set)) :
              /\ check.key \in {"dmarc", "rua", "ruf"} => ~Urgent(check)
              /\ check.key # "consent" => ~(Urgent(check) /\ check.suggestion # None)
        /\ suggest_from_record(first.suggestion.pairs, target, set) = first.suggestion
        /\ first.record \in DOMAIN zone /\ Len(zone[first.record]) = 1 => Keeps(first.suggestion.pairs, zone[first.record][1].pairs)

SuggestionsRepair ==
    /\ \A record \in Records, at \in {Shop, Sub}, set \in Switches : Repaired(DmarcName(at) :> <<record>>, set)
    /\ \A set \in Switches : Repaired(<<>>, set)
    /\ \A set \in Switches : Repaired(DmarcName(Sub) :> <<Dmarc(<<>>), Dmarc(<<>>)>>, set)

-----------------------------------------------------------------------------
(* SPF *)

Hosts == {<<"root">>, <<"left">>, <<"right">>}

Term(name, target, qualifier) == [name |-> name, to |-> target, qualifier |-> qualifier]

Terms == {Term("include", h, "+") : h \in Hosts} \cup {Term("redirect", <<"right">>, "+"), Term("a", None, "+"), Term("all", None, "-")}

Spf(terms) == <<[kind |-> "spf", terms |-> terms]>>

\* The last name may have no record, or bring no answer
SpfZones == {(<<"root">> :> Spf(x)) @@ (<<"left">> :> Spf(y)) @@ (<<"right">> :> z) :
                x \in SeqOf(Terms, 2), y \in SeqOf(Terms, 2), z \in {Spf(t) : t \in SeqOf(Terms, 1)} \cup {<<>>, Failed}}

\* The names whose records an evaluation of this one needs
Needs(zone, host) ==
    IF zone[host] \in {<<>>, Failed} THEN {}
    ELSE LET terms == zone[host][1].terms
         IN  {terms[i].to : i \in {j \in DOMAIN terms : terms[j].name = "include" \/ (terms[j].name = "redirect" /\ Redirects(terms))}}

Walks(zone, n) == {w \in [1 .. n -> Hosts] : w[1] = <<"root">> /\ \A i \in 1 .. n - 1 : w[i + 1] \in Needs(zone, w[i])}

\* All lookups of an evaluation without limits, where no name needs itself
RECURSIVE Lookups(_, _)
Lookups(zone, host) ==
    IF zone[host] \in {<<>>, Failed} THEN 0
    ELSE LET terms == zone[host][1].terms
             Of(t) == (IF t.name \in Counted THEN 1 ELSE 0) + (IF t.name = "include" THEN Lookups(zone, t.to) ELSE 0)
         IN  FoldLeft(LAMBDA n, t : n + Of(t), 0, terms)
             + (IF Redirects(terms) THEN 1 + Lookups(zone, <<"right">>) ELSE 0)

\* The verdict on SPF is the one of an evaluation without limits: an error exactly for loops, missing records and too
\* many lookups, and never good when a lookup failed
LookupsAreCounted ==
    \A zone \in SpfZones :
        LET state == check_spf(zone, [domain |-> <<"root">>]).state
            loops == Walks(zone, 4) # {}
            reached == \E n \in 1 .. 3 : \E w \in Walks(zone, n) : w[n] = <<"right">>
        IN  /\ state = ERROR <=> loops \/ (reached /\ zone[<<"right">>] = <<>>) \/ Lookups(zone, <<"root">>) > SpfLimit
            /\ reached /\ zone[<<"right">>] = Failed => state # OK

-----------------------------------------------------------------------------
(* Keys *)

\* DER in the short form, and in the long ones from 128 and from 256 bytes on
Der(tag, content) ==
    LET n == Len(content)
    IN  <<tag>> \o (CASE n < 128 -> <<n>> [] n \in 128 .. 255 -> <<129, n>> [] n > 255 -> <<130, n \div 256, n % 256>>) \o content

Bare(modulus) == Der(48, Der(2, modulus) \o Der(2, <<3>>))

Wrap(key) == Der(48, Der(48, <<6, 0>>) \o Der(3, <<0>> \o key))

Zeros(n) == [i \in 1 .. n |-> 0]

Moduli == {Zeros(z) \o <<b>> \o Zeros(n) : z \in 0 .. 1, b \in {0, 1, 127, 255}, n \in {0, 1, 127, 256}}

\* A key has the length of its modulus, bare or wrapped; a key that is cut off before the end of the modulus has none
KeysAreMeasured ==
    \A m \in Moduli :
        LET bits == IF \A i \in DOMAIN m : m[i] = 0 THEN None ELSE bit_length(m)
        IN  /\ rsa_key_bits(Bare(m), 0) = bits /\ rsa_key_bits(Wrap(Bare(m)), 0) = bits
            /\ \A n \in {0, 1, 2, Len(m) + 3} : /\ rsa_key_bits(SubSeq(Bare(m), 1, n), 0) = None
                                                  /\ rsa_key_bits(SubSeq(Wrap(Bare(m)), 1, n), 0) = None
            /\ rsa_key_bits(Wrap(Wrap(Bare(m))), 0) = None

\* What the selectors of a domain get, with a key, without one and with one that cannot be read
Passed == {[raw |-> [lower |-> "s1", spelling |-> s], days |-> d, id |-> i] : s \in {"s1", "S1"}, d \in {1, 9}, i \in 1 .. 2}

KeyRecords == {[kind |-> "key", p |-> [base64 |-> b, data |-> d], k |-> k, testing |-> t] :
                 b \in BOOLEAN, d \in {<<>>, Bare(<<1>> \o Zeros(127)), Bare(<<255>> \o Zeros(200))}, k \in {"rsa"}, t \in {FALSE}}

\* One selector, the server for mail with its addresses, and the policy for TLS reports
GroupZones ==
    {(MxName(Sub) :> hosts) @@ (<<"A">> \o Box :> addresses) @@ (TlsName(Sub) :> tls) @@ (KeyName("s1", Sub) :> <<key>>) :
        key \in KeyRecords, hosts \in {<<>>, <<<<>>>>, <<Box>>, Failed}, addresses \in {<<>>, <<"ip">>, Failed},
        tls \in {<<>>, Failed} \cup {<<[kind |-> "tls", exact |-> e, pairs |-> <<[key |-> "rua", value |-> <<Theirs>>]>>]>> : e \in BOOLEAN}}

Plain == [failure_reports |-> FALSE, suggest_ruf |-> FALSE, tls_reports |-> TRUE]

Findings(checks) == {check \in ToSet(checks) : Urgent(check)}

\* The worst finding decides, and a group that breaks stays open without hiding the findings of the others
GroupsStandAlone ==
    \A passed \in {p \in SUBSET Passed : Cardinality(p) <= 1} :
       \A target \in {gather_input(Row, {OurAddress}, OurAddress, Plain, passed)}, zone \in GroupZones :
          \A checks \in {[broken \in SUBSET {"spf", "dkim", "mx"} |-> check_domain(zone, target, Plain, broken)]} :
             \A broken \in DOMAIN checks : \A all \in {Findings(checks[{}])}, some \in {Findings(checks[broken])} :
                /\ some \subseteq all
                /\ status(checks[broken]) = OK => broken = {}
                /\ \A c \in all \ some : c.key \in broken \/ (c.key = "tlsrpt" /\ "mx" \in broken)

(* The verdicts on the records of a domain are those an administrator can act on: publishing the suggestion repairs
   what it is about and nothing else, SPF is judged as by a receiver, and keys have their true length. *)
RecordsAreJudged == SuggestionsRepair /\ LookupsAreCounted /\ KeysAreMeasured /\ GroupsStandAlone
=============================================================================
