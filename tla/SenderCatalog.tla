---------------------------- MODULE SenderCatalog ----------------------------
(***************************************************************************)
(* What names a source address and what lists it: the catalog of senders   *)
(* and identify (app/services/senders.py), the lookups                     *)
(* (app/services/sender_lookup.py) and match of the source rules           *)
(* (app/services/source_rules.py).                                         *)
(*                                                                         *)
(* Functions of their input without state.  A domain or host name is the   *)
(* sequence of its labels, a label of a host the sequence of its words.    *)
(* A dict is the sequence of its entries in insertion order, which is the  *)
(* order identify walks through it.                                        *)
(***************************************************************************)
EXTENDS Integers, Sequences, SequencesExt

CONSTANTS
    Kind,        \* KINDS
    None         \* None, no answer, no sender

-----------------------------------------------------------------------------
(* The catalog *)

\* Plausible slip: the suffix may stand anywhere in the name
MatchAnywhere(name, suffixes) == \E suffix \in suffixes : \E i \in 0 .. Len(name) : IsPrefix(suffix, SubSeq(name, i + 1, Len(name)))

\* name == suffix or name.endswith("." + suffix), for any of the suffixes
_match(name, suffixes) == \E suffix \in suffixes : IsSuffix(suffix, name)

\* Values that are domains; a field that is no list has none
_suffixes(values) == IF values = None THEN {} ELSE {v \in values : v # None /\ Len(v) >= 2}

\* An entry without a proper key, name or kind is skipped
Usable(entry) == entry # None /\ entry.key # None /\ entry.name # None /\ entry.kind \in Kind

Known(senders, key) == {i \in DOMAIN senders : senders[i].key = key}

\* dict[key] = value: an entry replaces the earlier one in its place or is added at the end
Put(senders, s) ==
    IF Known(senders, s.key) = {} THEN Append(senders, s)
    ELSE [i \in DOMAIN senders |-> IF senders[i].key = s.key THEN s ELSE senders[i]]

SenderOf(entry) == [key |-> entry.key, rdns |-> _suffixes(entry.rdns), dkim |-> _suffixes(entry.dkim), spf |-> _suffixes(entry.spf)]

Add(senders, entry) == IF Usable(entry) THEN Put(senders, SenderOf(entry)) ELSE senders

\* A file that cannot be read or holds no list adds nothing
Fill(senders, entries) == IF entries = None THEN senders ELSE FoldLeft(Add, senders, entries)

parse_catalog(entries) == Fill(<<>>, entries)

\* The entries of SENDER_CATALOG_PATH are added to the built-in ones or replace them.  The dict of the one file is updated
\* with that of the other, which is what going on with the entries of the other comes to.
load_catalog(builtin, extra) == Fill(parse_catalog(builtin), extra)

\* The first sender of the catalog that claims the name
FirstOf(catalog, name, Claims(_)) ==
    LET hits == {i \in DOMAIN catalog : _match(name, Claims(catalog[i]))}
    IN  IF hits = {} THEN None ELSE catalog[CHOOSE i \in hits : \A j \in hits : i <= j].key

\* The first of the domains that any sender claims
FirstIn(catalog, domains, Claims(_)) ==
    LET hits == {i \in DOMAIN domains : FirstOf(catalog, domains[i], Claims) # None}
    IN  IF hits = {} THEN None ELSE FirstOf(catalog, domains[CHOOSE i \in hits : \A j \in hits : i <= j], Claims)

\* Plausible slip: a host name counts although it does not resolve back
identifyByAnyHost(catalog, host, confirmed, dkim, spf) ==
    LET byHost == IF host = None THEN None ELSE FirstOf(catalog, host, LAMBDA s : s.rdns)
        byDkim == FirstIn(catalog, dkim, LAMBDA s : s.dkim)
        bySpf == FirstIn(catalog, spf, LAMBDA s : s.spf)
    IN  IF byHost # None THEN byHost ELSE IF byDkim # None THEN byDkim ELSE bySpf

\* A confirmed host name counts before a DKIM signature, that before SPF
identify(catalog, host, confirmed, dkim, spf) ==
    LET byHost == IF host = None \/ ~confirmed THEN None ELSE FirstOf(catalog, host, LAMBDA s : s.rdns)
        byDkim == FirstIn(catalog, dkim, LAMBDA s : s.dkim)
        bySpf == FirstIn(catalog, spf, LAMBDA s : s.spf)
    IN  IF byHost # None THEN byHost ELSE IF byDkim # None THEN byDkim ELSE bySpf

-----------------------------------------------------------------------------
(* Lookups: ptr, forward and txt are what DNS answers, <<>> or None when it fails *)

\* The first PTR name, confirmed if one of the addresses it resolves to is the address itself
reverse_name(ip, ptr, forward) ==
    IF ptr = <<>> THEN [host |-> None, confirmed |-> FALSE]
    ELSE [host |-> Head(ptr), confirmed |-> ip \in forward[Head(ptr)]]

\* Number, operator and country; an answer without a number still names the country
network_operator(txt) ==
    IF txt = None THEN [asn |-> None, country |-> None]
    ELSE [asn |-> txt.asn, country |-> txt.country]

lookup(ip, enabled, valid, ptr, forward, txt) ==
    LET name == reverse_name(ip, ptr, forward)
        operator == network_operator(txt)
    IN  IF ~enabled \/ ~valid THEN [host |-> None, confirmed |-> FALSE, asn |-> None, country |-> None]
        ELSE [host |-> name.host, confirmed |-> name.confirmed, asn |-> operator.asn, country |-> operator.country]

\* A failed lookup keeps what an earlier one found
_update_lookup(source, found) ==
    [source EXCEPT !.host = IF found.host # None THEN found.host ELSE @,
                   !.confirmed = IF found.host # None THEN found.confirmed ELSE @,
                   !.asn = IF found.asn # None THEN found.asn ELSE @,
                   !.country = IF found.country # None THEN found.country ELSE @]

-----------------------------------------------------------------------------
(* Source rules *)

\* A pattern with a dot is a domain, one without is a word of the host name
_host_matches(host, pattern) ==
    IF pattern.dotted THEN IsSuffix(pattern.name, host)
    ELSE \E i \in DOMAIN host : \E j \in DOMAIN host[i] : host[i][j] = pattern.name

\* Which rule lists the source, None if no rule does
match(source, settings) ==
    IF ~settings.enabled \/ source.passed > settings.maxPassed THEN None
    ELSE IF source.asn # None /\ source.asn \in settings.asns THEN "network"
    ELSE IF source.country # None /\ source.country \in settings.countries THEN "country"
    ELSE IF source.host # None /\ \E p \in settings.patterns : _host_matches(source.host, p) THEN "host"
    ELSE None
=============================================================================
