-------------------------------- MODULE Members --------------------------------
(***************************************************************************)
(* Who belongs to an organisation and what it may have: inviting and       *)
(* removing members (app/routers/users.py), API tokens                     *)
(* (app/routers/api_tokens.py), new domains (app/services/domains.py,      *)
(* app/routers/domains.py, app/routers/api/v1.py), the domains that        *)
(* imports of reports add (app/services/import_service.py) and the limits  *)
(* (app/org_limits.py).                                                    *)
(*                                                                         *)
(* A request reads what it decides on and commits later; no constraint of  *)
(* the database stands behind the limits, the memberships or the names of  *)
(* domains.  Imports ask nobody for a domain and know no limit, but what   *)
(* they add counts when a request asks.  The report address of a domain is *)
(* made in the same commit and left out.                                   *)
(***************************************************************************)
EXTENDS Integers, FiniteSets, Sequences, SequencesExt

CONSTANTS
    Handler,     \* threads that handle requests or import reports
    Person,
    Operator,    \* the one with is_superadmin, who creates organisations
    Role,        \* of INVITABLE_ROLES
    DomainName,  \* names of domains
    Limit,       \* values that app.org_limits sets
    MaxRows      \* MaxRows[k]: bound on the rows of a kind

ASSUME MembersAssumption ==
    /\ Operator \in Person /\ Role \subseteq {"org_admin", "manager", "analyst", "read_only"}
    /\ "org_admin" \in Role /\ Limit \subseteq Nat
    /\ IsFiniteSet(Handler) /\ Handler # {}

ROLE_LEVEL == [read_only |-> 0, analyst |-> 1, manager |-> 2, org_admin |-> 3]

Kind == {"members", "tokens", "domains"}

\* LIMITS: an organisation may be left without tokens, but not without members or domains
LIMITS == [members |-> 1, tokens |-> 0, domains |-> 1]

VARIABLES
    members,     \* OrganizationMembership rows: person, role and is_active
    tokens,      \* ApiToken rows: owner and is_active
    domains,     \* Domain rows
    accounts,    \* people with a User row
    limit,       \* limit[k]: max_users, max_api_tokens and max_domains
    task,        \* task[h]: what a request has read and is about to commit
    peak,        \* the highest limits so far (history)
    imported,    \* how many of the domains came by imports (history)
    raced,       \* people and names of domains that two requests took at the same time (history)
    demoted      \* requests under way whose author has ceased to be an administrator since he was let in (history)

memberVars == <<members, tokens, domains, accounts, limit, task, peak, imported, raced, demoted>>

Free == [do |-> "nothing"]

MembersTypeOK ==
    /\ members \in Seq([person: Person, role: Role, active: BOOLEAN])
    /\ tokens \in Seq([owner: Person, active: BOOLEAN]) /\ domains \in Seq(DomainName)
    /\ accounts \subseteq Person /\ {limit, peak} \subseteq [Kind -> Limit]
    /\ \A h \in Handler : task[h].do \in {"nothing", "invite", "remove", "token", "domain", "import"}
    /\ imported \in Nat /\ raced \subseteq Person \cup DomainName /\ demoted \subseteq Handler

\* org_create, and people that have an account from another organisation
MembersInit ==
    /\ members = <<[person |-> Operator, role |-> "org_admin", active |-> TRUE]>> /\ tokens = <<>> /\ domains = <<>>
    /\ accounts \in {A \in SUBSET Person : Operator \in A}
    /\ limit \in {l \in [Kind -> Limit] : \A k \in Kind : l[k] >= LIMITS[k]} /\ peak = limit
    /\ task = [h \in Handler |-> Free] /\ imported = 0 /\ raced = {} /\ demoted = {}

-----------------------------------------------------------------------------
(* Rights and limits *)

RowsOf(p) == {i \in DOMAIN members : members[i].person = p}

\* role_level: the operator may do everything; of two active rows the database returns any
May(u, minimum) ==
    u = Operator \/ \E i \in RowsOf(u) : members[i].active /\ ROLE_LEVEL[members[i].role] >= ROLE_LEVEL[minimum]

\* validate_api_token and _require_role
TokenMay(i) == tokens[i].active /\ May(tokens[i].owner, "manager")

Used(k) == CASE k = "members" -> Cardinality({i \in DOMAIN members : members[i].active})
             [] k = "tokens" -> Cardinality({i \in DOMAIN tokens : tokens[i].active})
             [] k = "domains" -> Len(domains)

\* Plausible slip: what is at its limit is still within it
UpToLimit(k) == Used(k) <= limit[k]

WithinLimit(k) == Used(k) < limit[k]

Underway(do) == {h \in Handler : task[h].do = do}

Take(h, t) == task[h] = Free /\ task' = [task EXCEPT ![h] = t]

Finish(h) == task' = [task EXCEPT ![h] = Free]

-----------------------------------------------------------------------------
(* Members *)

\* invite_user: a row of the invited person, or 0
invite_user(h, u, p, role) ==
    /\ May(u, "org_admin") /\ WithinLimit("members") /\ Len(members) + Cardinality(Underway("invite")) < MaxRows["members"]
    /\ \E i \in IF RowsOf(p) = {} THEN {0} ELSE RowsOf(p) :
          Take(h, [do |-> "invite", by |-> u, person |-> p, role |-> role, known |-> p \in accounts, row |-> i,
                    was |-> IF i = 0 THEN Free ELSE members[i]])
    /\ UNCHANGED <<members, tokens, domains, accounts, limit, peak, imported, raced, demoted>>

Administers(row) == row.active /\ row.role = "org_admin"

Admins == {u \in Person : \E i \in RowsOf(u) : Administers(members[i])}

\* Other requests whose author is not an administrator any more
Demoted(h) ==
    {g \in Handler \ {h} : g \in demoted \/ (task[g].do \in {"invite", "remove"} /\ task[g].by \in Admins \ Admins')}

\* The row changes in the columns that differ from what was read.  A new account fails on an address that has come meanwhile
InviteCommits(h) ==
    LET t == task[h]
    IN  /\ t.do = "invite" /\ Finish(h)
        /\ IF ~t.known /\ t.person \in accounts THEN UNCHANGED <<members, accounts>>
           ELSE /\ accounts' = accounts \cup {t.person}
                /\ members' = IF t.row = 0 THEN Append(members, [person |-> t.person, role |-> t.role, active |-> TRUE])
                              ELSE [members EXCEPT ![t.row].role = IF t.was.role = t.role THEN @ ELSE t.role,
                                                   ![t.row].active = @ \/ ~t.was.active]
        /\ raced' = raced \cup {p \in {t.person} : \E g \in Underway("invite") \ {h} : task[g].person = p}
        /\ demoted' = Demoted(h)
        /\ UNCHANGED <<tokens, domains, limit, peak, imported>>

\* Plausible slip: administrators can remove themselves
RemoveAnybody(h, u, i) ==
    /\ May(u, "org_admin") /\ Take(h, [do |-> "remove", by |-> u, row |-> i, was |-> members[i]])
    /\ UNCHANGED <<members, tokens, domains, accounts, limit, peak, imported, raced, demoted>>

\* remove_member: not oneself
remove_member(h, u, i) ==
    /\ May(u, "org_admin") /\ members[i].person # u
    /\ Take(h, [do |-> "remove", by |-> u, row |-> i, was |-> members[i]])
    /\ UNCHANGED <<members, tokens, domains, accounts, limit, peak, imported, raced, demoted>>

RemoveCommits(h) ==
    LET t == task[h]
    IN  /\ t.do = "remove" /\ Finish(h)
        /\ members' = [members EXCEPT ![t.row].active = @ /\ ~t.was.active]
        /\ demoted' = Demoted(h)
        /\ UNCHANGED <<tokens, domains, accounts, limit, peak, imported, raced>>

-----------------------------------------------------------------------------
(* Tokens, domains and limits *)

create_token(h, u) ==
    /\ May(u, "org_admin") /\ WithinLimit("tokens") /\ Len(tokens) + Cardinality(Underway("token")) < MaxRows["tokens"]
    /\ Take(h, [do |-> "token", by |-> u])
    /\ UNCHANGED <<members, tokens, domains, accounts, limit, peak, imported, raced, demoted>>

create_api_token(h) ==
    /\ task[h].do = "token" /\ Finish(h)
    /\ tokens' = Append(tokens, [owner |-> task[h].by, active |-> TRUE])
    /\ UNCHANGED <<members, domains, accounts, limit, peak, imported, raced, demoted>>

revoke_token(u, i) ==
    /\ May(u, "org_admin") /\ tokens' = [tokens EXCEPT ![i].active = FALSE]
    /\ UNCHANGED <<members, domains, accounts, limit, task, peak, imported, raced, demoted>>

\* Requests and imports that are about to add a domain
Naming == Underway("domain") \cup Underway("import")

DomainsLeft == Len(domains) + Cardinality(Naming) < MaxRows["domains"]

\* domain_create or create_domain_api: a domain that is there comes back unchanged
create_domain(h, n) ==
    /\ (\E u \in accounts : May(u, "manager")) \/ \E i \in DOMAIN tokens : TokenMay(i)
    /\ n \notin ToSet(domains) /\ WithinLimit("domains") /\ DomainsLeft
    /\ Take(h, [do |-> "domain", name |-> n])
    /\ UNCHANGED <<members, tokens, domains, accounts, limit, peak, imported, raced, demoted>>

\* get_or_create_domain of store_parsed_report: the policy domain of a report, whatever the limit and whoever sent it.
\* An import that brings several new ones is as many imports
import_domain(h, n) ==
    /\ n \notin ToSet(domains) /\ DomainsLeft
    /\ Take(h, [do |-> "import", name |-> n])
    /\ UNCHANGED <<members, tokens, domains, accounts, limit, peak, imported, raced, demoted>>

\* The commit of either
DomainCommits(h) ==
    /\ h \in Naming /\ Finish(h)
    /\ domains' = Append(domains, task[h].name)
    /\ imported' = IF task[h].do = "import" THEN imported + 1 ELSE imported
    /\ raced' = raced \cup {n \in {task[h].name} : \E g \in Naming \ {h} : task[g].name = n}
    /\ UNCHANGED <<members, tokens, accounts, limit, peak, demoted>>

\* A request or an import that fails is rolled back
RequestLost(h) ==
    /\ task[h] # Free /\ Finish(h) /\ demoted' = demoted \ {h}
    /\ UNCHANGED <<members, tokens, domains, accounts, limit, peak, imported, raced>>

\* app.org_limits: what is there stays
org_limits(k, v) ==
    /\ v >= LIMITS[k]
    /\ limit' = [limit EXCEPT ![k] = v] /\ peak' = [peak EXCEPT ![k] = IF v > @ THEN v ELSE @]
    /\ UNCHANGED <<members, tokens, domains, accounts, task, imported, raced, demoted>>

MembersNext ==
    \/ \E h \in Handler :
          \/ \E u \in Person :
                \/ \E p \in Person, r \in Role : invite_user(h, u, p, r)
                \/ \E i \in DOMAIN members : remove_member(h, u, i)
                \/ create_token(h, u)
          \/ \E n \in DomainName : create_domain(h, n) \/ import_domain(h, n)
          \/ InviteCommits(h) \/ RemoveCommits(h) \/ create_api_token(h) \/ DomainCommits(h) \/ RequestLost(h)
    \/ \E u \in Person, i \in DOMAIN tokens : revoke_token(u, i)
    \/ \E k \in Kind, v \in Limit : org_limits(k, v)

MembersSpec == MembersInit /\ [][MembersNext]_memberVars

-----------------------------------------------------------------------------
(* Properties *)

\* What requests have made of a kind and is still in use
Requested(k) == IF k = "domains" THEN Len(domains) - imported ELSE Used(k)

(* An organisation has no more members and tokens than its highest limit so far allowed, and no more domains that people or
   tokens asked for, up to requests that had counted at the same time (users.py, line 79, api_tokens.py, line 46, domains.py,
   line 63).  The domains of imports come on top: they know no limit (import_service.py, line 45). *)
LimitsHold == \A k \in Kind : Requested(k) < peak[k] + Cardinality(Handler)

(* A person has one membership and a name one domain, unless two requests or imports made them at the same time (users.py,
   line 91, domains.py, line 60, import_service.py, line 47): removing a member would leave the second row active. *)
RowsAreSingle ==
    /\ \A p \in Person : Cardinality(RowsOf(p)) <= 1 \/ p \in raced
    /\ \A n \in DomainName : Cardinality({i \in DOMAIN domains : domains[i] = n}) <= 1 \/ n \in raced

(* What a request asked the database before its insert is still true afterwards, since nothing but the question stands behind
   it: the limits and the single rows, up to requests that asked at the same time. *)
AnswersHold == LimitsHold /\ RowsAreSingle

(* Nobody can remove himself (users.py, line 117), so the last administrator goes only by the operator, by inviting himself
   with a lower role, or by somebody who has lost the role himself since his request was let in: two administrators who
   remove each other at the same time. *)
AdminRemains ==
    [][Admins # {} /\ Admins' = {} =>
         \E h \in Handler :
            /\ task[h].do \in {"invite", "remove"} /\ task'[h] = Free
            /\ \/ task[h].by = Operator \/ h \in demoted
               \/ task[h].do = "invite" /\ task[h].by = task[h].person]_memberVars
=============================================================================
