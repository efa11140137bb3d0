------------------------------- MODULE Evidence -------------------------------
(***************************************************************************)
(* What the functions of SenderCatalog promise together, for any files,    *)
(* names and answers of DNS: the catalog says what the files say, a sender *)
(* is named by the strongest evidence (the module comment of               *)
(* app/services/senders.py), and the rules list an address by the last     *)
(* answers about it.                                                       *)
(***************************************************************************)
EXTENDS SenderCatalog

CONSTANTS
    Label,       \* labels of domain names
    Builtin,     \* what the built-in catalog may hold: a list of entries, or None
    Extra,       \* the same for SENDER_CATALOG_PATH
    HostName,    \* host names of an address, None without one
    Lists,       \* lists of domains with valid signatures, or with SPF
    Answer,      \* what DNS answers to one lookup: PTR names, and TXT
    Forward,     \* addresses that a PTR name resolves to
    Settings,    \* settings of the source rules
    Passed       \* messages of the address that passed DMARC

Domains(values) == values = None \/ values \subseteq Seq(Label) \cup {None}

ASSUME FilesAreLists ==
    \A file \in Builtin \cup Extra :
        file # None =>
            /\ file \in Seq(Range(file))
            /\ \A e \in Range(file) : e # None => Domains(e.rdns) /\ Domains(e.dkim) /\ Domains(e.spf)

ASSUME NamesAreDomains ==
    /\ HostName \subseteq Seq(Label) \cup {None}
    /\ Lists \subseteq Seq(Seq(Label))

ASSUME AnswersHaveNames ==
    /\ Passed \subseteq Nat /\ \A set \in Settings : set.maxPassed \in Nat /\ set.enabled \in BOOLEAN
    /\ None \notin {"network", "country", "host"}
    /\ \A a \in Answer : a.ptr # <<>> => a.ptr \in Seq(Range(a.ptr)) /\ Head(a.ptr) # None

-----------------------------------------------------------------------------
(* The catalog *)

Entries(file) == IF file = None THEN <<>> ELSE file

\* The entries of a file that are about a sender
About(file, key) == {i \in DOMAIN Entries(file) : Usable(Entries(file)[i]) /\ Entries(file)[i].key = key}

\* The last of them counts
Newest(file, key) == SenderOf(Entries(file)[Max(About(file, key))])

\* A sender is in the catalog once and as the extra file describes it, or else the built-in one; there are no others
SaysWhatFilesSay(catalog, builtin, extra) ==
    /\ \A i, j \in DOMAIN catalog : catalog[i].key = catalog[j].key => i = j
    /\ \A i \in DOMAIN catalog :
        \/ About(extra, catalog[i].key) # {} /\ catalog[i] = Newest(extra, catalog[i].key)
        \/ About(extra, catalog[i].key) = {} /\ About(builtin, catalog[i].key) # {} /\ catalog[i] = Newest(builtin, catalog[i].key)
    /\ \A file \in {builtin, extra} : \A e \in Range(Entries(file)) : Usable(e) => \E i \in DOMAIN catalog : catalog[i].key = e.key

RightCatalog == \A builtin \in Builtin, extra \in Extra : SaysWhatFilesSay(load_catalog(builtin, extra), builtin, extra)

-----------------------------------------------------------------------------
(* Senders *)

\* Names that speak for a sender come from a host name, from signatures or from SPF, the strongest first
Proof == 1 .. 3

\* The names of each kind: a host name that resolves back, domains of valid signatures, domains that passed SPF
Names(host, confirmed, dkim, spf) == <<IF confirmed /\ host # None THEN <<host>> ELSE <<>>, dkim, spf>>

\* The domains a sender has for a kind of evidence
Claimed(s, k) == IF k = 1 THEN s.rdns ELSE IF k = 2 THEN s.dkim ELSE s.spf

\* The name is the domain, or one below it
Below(name, domain) == \E i \in 0 .. Len(name) : SubSeq(name, i + 1, Len(name)) = domain

\* The senders a name speaks for
Owners(catalog, name, k) == {i \in DOMAIN catalog : \E domain \in Claimed(catalog[i], k) : Below(name, domain)}

\* The strongest evidence: its kind, then the place of the name, then the place of the sender in the catalog
Strongest(catalog, names, found) ==
    \E k \in Proof : \E n \in DOMAIN names[k] : \E i \in Owners(catalog, names[k][n], k) :
        /\ found = catalog[i].key /\ found # None
        /\ \A l \in Proof : \A m \in DOMAIN names[l] : \A j \in Owners(catalog, names[l][m], l) :
              k < l \/ (k = l /\ (n < m \/ (n = m /\ i <= j)))

NoEvidence(catalog, names) == \A k \in Proof : \A n \in DOMAIN names[k] : Owners(catalog, names[k][n], k) = {}

Catalogs == {load_catalog(builtin, extra) : builtin \in Builtin, extra \in Extra}

\* identify names the sender with the strongest evidence, and nobody without evidence
RightSender ==
    \A catalog \in Catalogs, host \in HostName, confirmed \in BOOLEAN, dkim \in Lists, spf \in Lists :
        LET names == Names(host, confirmed, dkim, spf)
            found == identify(catalog, host, confirmed, dkim, spf)
        IN  Strongest(catalog, names, found) \/ (found = None /\ NoEvidence(catalog, names))

-----------------------------------------------------------------------------
(* Rules *)

\* What an answer says of each thing the rules ask for
Said(a) == [network |-> IF a.txt = None THEN None ELSE a.txt.asn,
            country |-> IF a.txt = None THEN None ELSE a.txt.country,
            host |-> IF a.ptr = <<>> THEN None ELSE Head(a.ptr)]

\* The settings list it
IsListed(set, k, value) ==
    CASE k = "network" -> value \in set.asns
      [] k = "country" -> value \in set.countries
      [] k = "host"    -> \E p \in set.patterns : _host_matches(value, p)

Looked(source, a) == _update_lookup(source, lookup("ip", TRUE, TRUE, a.ptr, Forward, a.txt))

Blank(passed) == [host |-> None, confirmed |-> FALSE, asn |-> None, country |-> None, passed |-> passed]

\* The rules list an address exactly if the last answer of some kind is listed and it hardly passed DMARC, and its name
\* is confirmed exactly if the last one resolves back
FollowsAnswers(source, first, second) ==
    /\ \A set \in Settings :
         match(source, set) # None <=>
            /\ set.enabled /\ source.passed <= set.maxPassed
            /\ \E k \in {"network", "country", "host"} : \E a \in {first, second} :
                  /\ Said(a)[k] # None /\ IsListed(set, k, Said(a)[k])
                  /\ a = second \/ Said(second)[k] = None
    /\ source.confirmed <=> \E a \in {first, second} :
                  /\ a.ptr # <<>> /\ "ip" \in Forward[Head(a.ptr)]
                  /\ a = second \/ second.ptr = <<>>

\* After two lookups: the second takes nothing back that it does not know better
RightRule ==
    \A first \in Answer, second \in Answer, passed \in Passed :
        FollowsAnswers(Looked(Looked(Blank(passed), first), second), first, second)
===============================================================================
