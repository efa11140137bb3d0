------------------------------ MODULE MCSenders ------------------------------
(* Small instances of Senders, and bounded inputs for Evidence, for TLC. *)
EXTENDS Senders, Evidence

Org == <<"mail", "org">>
Bounce == <<"bounce">> \o Org
Other == <<"post", "net">>
Fake == Org \o Other

\* Every entry claims one domain as host and as signature; entries without a kind are skipped
OneEntry == {[key |-> k, name |-> "name", kind |-> d, rdns |-> {x}, dkim |-> {y}, spf |-> {x, <<"net">>}] :
               k \in {"one", "two"}, d \in {"esp", "none"}, x \in {Org, Other}, y \in {Org, Other}}

MCLabel == {"mail", "org", "bounce", "post", "net"}
MCBuiltin == {<<e, f>> : e \in OneEntry, f \in OneEntry}
MCExtra == {None, <<>>} \cup {<<e>> : e \in OneEntry}
MCHostName == {None, Bounce, Fake}
MCLists == {<<>>, <<Fake>>, <<Bounce>>, <<Other>>, <<Fake, Bounce>>, <<Other, Org>>}

\* The labels of a host are sequences of words
Host(n) == <<<<"dyn", n>>, <<"org">>>>

\* A name that resolves back, one that does not, or nothing; a number, a country alone, or nothing
MCAnswer == [ptr: {<<>>, <<Host("mine")>>, <<Host("yours")>>},
             txt: {None, [asn |-> "as1", country |-> None], [asn |-> None, country |-> "cc"]}]

MCForward == [n \in {Host("mine"), Host("yours")} |-> IF n = Host("mine") THEN {"ip"} ELSE {"elsewhere"}]

MCSettings == [enabled: BOOLEAN, maxPassed: {0, 1}, asns: {{}, {"as1"}}, countries: {{}, {"cc"}},
               patterns: {{}, {[dotted |-> FALSE, name |-> "yours"]}, {[dotted |-> TRUE, name |-> <<<<"org">>>>]}}]

(* An address gets the name and the listing its evidence deserves: a host name that does not resolve back is no
   evidence of a sender (the module comment of senders.py), nor is a domain that only contains the name of one; a
   failed lookup takes nothing back, and an address that passed DMARC too often is never listed.  The functions read no
   state, so it is enough to ask before anybody did anything. *)
EvidenceIsWeighed == orders = 0 /\ changes = 0 => RightCatalog /\ RightSender /\ RightRule
=============================================================================
