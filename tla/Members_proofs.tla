--------------------------- MODULE Members_proofs ---------------------------
(***************************************************************************)
(* Proofs about who may do what in an installation: FirstSetup for any     *)
(* requests and finitely many tools, Members for any people, roles, names  *)
(* and limits and finitely many requests, and Thresholds for any values,   *)
(* requests and rows.                                                      *)
(***************************************************************************)
EXTENDS FirstSetup, Members, Thresholds, FiniteSetTheorems, SequenceTheorems, TLAPS

-----------------------------------------------------------------------------
(* The first setup *)

\* Codes are numbered in the order in which they are made, and one is reserved for every tool that found none
Numbered == codes \subseteq 1 .. made /\ made + Cardinality(Inserting) <= MaxCodes

\* A request that has deleted a row without having committed keeps others from it
RowsGuarded ==
    /\ \A v \in Visitor : visit[v] = "won" => held[v] \in codes
    /\ \A v, w \in Visitor : visit[v] = "won" /\ visit[w] = "won" /\ held[v] = held[w] => v = w

\* As long as only one code was made at a time there is one code until there is an administrator, and then none
OneAtATime ==
    ~doubled =>
        /\ \A c, d \in codes : c = d
        /\ admins # {} => codes = {}
        /\ \A v, w \in admins : v = w

SetupInv == SetupTypeOK /\ Numbered /\ RowsGuarded /\ OneAtATime

LEMMA SetupStart == SetupInit => SetupInv
<1> SUFFICES ASSUME SetupInit PROVE SetupInv
  OBVIOUS
<1>1. Inserting = {}
  BY DEF SetupInit, Inserting
<1>2. Numbered
  BY <1>1, FS_EmptySet, SetupNumbers DEF SetupInit, Numbered
<1>3. SetupTypeOK
  <2>1. made \in 0 .. MaxCodes /\ lost \in 0 .. MaxLost
    BY SetupNumbers DEF SetupInit
  <2>2. held \in [Visitor -> Code \cup {0}]
    BY DEF SetupInit
  <2>3. /\ tool \in [Tool -> {"idle", "insert", "clear"}]
        /\ visit \in [Visitor -> {"none", "open", "matched", "won", "done"}]
    BY DEF SetupInit
  <2>4. codes \subseteq Code /\ admins \subseteq Visitor /\ doubled \in BOOLEAN
    BY DEF SetupInit
  <2>5. QED
    BY <2>1, <2>2, <2>3, <2>4 DEF SetupTypeOK
<1>4. RowsGuarded
  BY DEF SetupInit, RowsGuarded
<1>5. OneAtATime
  BY DEF SetupInit, OneAtATime
<1>6. QED
  BY <1>2, <1>3, <1>4, <1>5 DEF SetupInv

\* A step of a tool reserves a number, uses it up, or does neither
LEMMA ToolsCounted ==
    ASSUME SetupTypeOK, NEW t \in Tool, NEW here \in {"idle", "insert", "clear"}, NEW next \in {"idle", "insert", "clear"},
           ToolStep(t, here, next)
    PROVE  /\ Cardinality(Inserting) \in Nat
           /\ here # "insert" /\ next = "insert" => Cardinality(Inserting') = Cardinality(Inserting) + 1
           /\ here = "insert" /\ next # "insert" => Cardinality(Inserting') = Cardinality(Inserting) - 1
           /\ here # "insert" /\ next # "insert" => Cardinality(Inserting') = Cardinality(Inserting)
<1>1. IsFiniteSet(Inserting)
  BY FS_Subset, SetupNumbers DEF Inserting
<1>2. Cardinality(Inserting) \in Nat
  BY <1>1, FS_CardinalityType
<1>3. here # "insert" /\ next = "insert" => Inserting' = Inserting \cup {t} /\ t \notin Inserting
  BY DEF Inserting, ToolStep, SetupTypeOK
<1>4. here = "insert" /\ next # "insert" => Inserting' = Inserting \ {t} /\ t \in Inserting
  BY DEF Inserting, ToolStep, SetupTypeOK
<1>5. here # "insert" /\ next # "insert" => Inserting' = Inserting
  BY DEF Inserting, ToolStep, SetupTypeOK
<1>6. here # "insert" /\ next = "insert" => Cardinality(Inserting') = Cardinality(Inserting) + 1
  BY <1>1, <1>3, FS_AddElement
<1>7. here = "insert" /\ next # "insert" => Cardinality(Inserting') = Cardinality(Inserting) - 1
  BY <1>1, <1>4, FS_RemoveElement
<1>8. QED
  BY <1>2, <1>5, <1>6, <1>7

LEMMA SetupStep == SetupInv /\ [SetupNext]_setupVars => SetupInv'
<1> SUFFICES ASSUME SetupInv, [SetupNext]_setupVars PROVE SetupInv'
  OBVIOUS
<1> USE SetupNumbers DEF SetupInv, SetupTypeOK, Code
<1>1. ASSUME NEW t \in Tool, ensure_setup_code(t) PROVE SetupInv'
  <2>1. CASE ToolStep(t, "idle", "clear")
    <3>1. Cardinality(Inserting') = Cardinality(Inserting)
      BY <2>1, ToolsCounted
    <3>2. QED
      BY <1>1, <2>1, <3>1 DEF ensure_setup_code, ToolStep, Numbered, RowsGuarded, OneAtATime
  <2>2. CASE ToolStep(t, "idle", "insert") /\ made + Cardinality(Inserting) < MaxCodes
    <3>1. Cardinality(Inserting') = Cardinality(Inserting) + 1 /\ Cardinality(Inserting) \in Nat
      BY <2>2, ToolsCounted
    <3>2. QED
      BY <1>1, <2>2, <3>1 DEF ensure_setup_code, ToolStep, Numbered, RowsGuarded, OneAtATime
  <2>3. QED
    BY <1>1, <2>1, <2>2 DEF ensure_setup_code
<1>2. ASSUME NEW t \in Tool, CodeIsMade(t) PROVE SetupInv'
  <2>1. /\ Cardinality(Inserting') = Cardinality(Inserting) - 1
        /\ Cardinality(Inserting') \in Nat /\ Cardinality(Inserting) \in Nat
    <3>1. t \in Inserting /\ IsFiniteSet(Inserting') /\ ToolStep(t, "insert", "idle")
      BY <1>2, FS_Subset DEF CodeIsMade, ToolStep, Inserting
    <3>2. QED
      BY <3>1, ToolsCounted, FS_CardinalityType
  <2>2. made' = made + 1 /\ codes' = codes \cup {made + 1}
    BY <1>2 DEF CodeIsMade
  <2>3. Numbered' /\ made' \in 0 .. MaxCodes
    <3>1. made \in Nat /\ made + Cardinality(Inserting) <= MaxCodes /\ codes \subseteq 1 .. made
      BY DEF Numbered
    <3>2. made' + Cardinality(Inserting') <= MaxCodes /\ made' \in 0 .. MaxCodes
      BY <2>1, <2>2, <3>1
    <3>3. codes' \subseteq 1 .. made'
      BY <2>2, <3>1
    <3>4. QED
      BY <3>2, <3>3 DEF Numbered
  <2>4. codes' \subseteq 1 .. MaxCodes
    BY <2>3 DEF Numbered
  <2>5. RowsGuarded'
    BY <1>2 DEF CodeIsMade, RowsGuarded
  <2>6. OneAtATime'
    BY <1>2 DEF CodeIsMade, OneAtATime, admin_exists
  <2>7. tool' \in [Tool -> {"idle", "insert", "clear"}] /\ doubled' \in BOOLEAN
    BY <1>2 DEF CodeIsMade, ToolStep
  <2>8. UNCHANGED <<admins, visit, held, lost>>
    BY <1>2 DEF CodeIsMade
  <2>9. QED
    BY <2>3, <2>4, <2>5, <2>6, <2>7, <2>8
<1>3. ASSUME NEW t \in Tool, clear_setup_code(t) PROVE SetupInv'
  <2>1. Cardinality(Inserting') = Cardinality(Inserting)
    BY <1>3, ToolsCounted DEF clear_setup_code
  <2>2. QED
    BY <1>3, <2>1 DEF clear_setup_code, ToolStep, Deletable, Numbered, RowsGuarded, OneAtATime
<1>4. ASSUME NEW v \in Visitor, setup_submit(v) PROVE SetupInv'
  BY <1>4 DEF setup_submit, Visit, Inserting, Numbered, RowsGuarded, OneAtATime
<1>5. ASSUME NEW v \in Visitor, NEW c \in Code, _stored_code(v, c) PROVE SetupInv'
  <2>1. visit[v] = "open" /\ \A w \in Visitor : visit'[w] = "won" => visit[w] = "won" /\ held'[w] = held[w]
    BY <1>5 DEF _stored_code, Visit
  <2>2. RowsGuarded'
    BY <1>5, <2>1 DEF _stored_code, RowsGuarded
  <2>3. QED
    BY <1>5, <2>2 DEF _stored_code, Visit, Inserting, Numbered, OneAtATime
<1>6. ASSUME NEW v \in Visitor, consume_setup_code(v) PROVE SetupInv'
  <2>1. RowsGuarded'
    BY <1>6 DEF consume_setup_code, Visit, Deletable, RowsGuarded
  <2>2. QED
    BY <1>6, <2>1 DEF consume_setup_code, Visit, Inserting, Numbered, OneAtATime
<1>7. ASSUME NEW v \in Visitor, SetupCommits(v) PROVE SetupInv'
  <2>1. held[v] \in codes /\ visit[v] = "won"
    BY <1>7 DEF SetupCommits, Visit, RowsGuarded
  <2>2. RowsGuarded'
    BY <1>7, <2>1 DEF SetupCommits, Visit, RowsGuarded
  <2>3. OneAtATime'
    BY <1>7, <2>1 DEF SetupCommits, OneAtATime
  <2>4. QED
    BY <1>7, <2>2, <2>3 DEF SetupCommits, Visit, Inserting, Numbered
<1>8. ASSUME NEW v \in Visitor, SetupLost(v) PROVE SetupInv'
  BY <1>8 DEF SetupLost, Visit, Inserting, Numbered, RowsGuarded, OneAtATime
<1>9. CASE UNCHANGED setupVars
  BY <1>9 DEF setupVars, Inserting, Numbered, RowsGuarded, OneAtATime
<1>10. QED
  BY <1>1, <1>2, <1>3, <1>4, <1>5, <1>6, <1>7, <1>8, <1>9 DEF SetupNext

\* Only one request can use the code: there is one first administrator and no code is left once there is, unless two
\* codes were made at the same time.
THEOREM FirstAdminIsOne == SetupSpec => []OneFirstAdmin
<1>1. SetupInv => OneFirstAdmin
  <2> SUFFICES ASSUME SetupInv, ~doubled PROVE Cardinality(admins) <= 1 /\ (admin_exists => codes = {})
    BY DEF OneFirstAdmin
  <2>1. CASE admins = {}
    BY <2>1, FS_EmptySet DEF admin_exists
  <2>2. ASSUME NEW v \in admins PROVE Cardinality(admins) <= 1 /\ (admin_exists => codes = {})
    <3>1. admins = {v}
      BY <2>2 DEF SetupInv, OneAtATime
    <3>2. Cardinality({v}) = 1
      BY FS_Singleton
    <3>3. QED
      BY <3>1, <3>2 DEF SetupInv, OneAtATime
  <2>3. QED
    BY <2>1, <2>2
<1>2. QED
  BY <1>1, SetupStart, SetupStep, PTL DEF SetupSpec

\* The variables have their types.
THEOREM SetupTypeCorrect == SetupSpec => []SetupTypeOK
<1>1. SetupInv => SetupTypeOK
  BY DEF SetupInv
<1>2. QED
  BY <1>1, SetupStart, SetupStep, PTL DEF SetupSpec

-----------------------------------------------------------------------------
(* The members of an organisation *)

Membership == [person: Person, role: Role, active: BOOLEAN]

Task ==
    {Free} \cup [do: {"invite"}, by: Person, person: Person, role: Role, known: BOOLEAN, row: Nat, was: Membership \cup {Free}]
           \cup [do: {"remove"}, by: Person, row: Nat, was: Membership]
           \cup [do: {"token"}, by: Person] \cup [do: {"domain", "import"}, name: DomainName]

MembersTyped ==
    /\ members \in Seq(Membership)
    /\ tokens \in Seq([owner: Person, active: BOOLEAN]) /\ domains \in Seq(DomainName)
    /\ accounts \subseteq Person /\ limit \in [Kind -> Limit] /\ peak \in [Kind -> Limit]
    /\ task \in [Handler -> Task]
    /\ imported \in 0 .. Len(domains) /\ raced \subseteq Person \cup DomainName /\ demoted \subseteq Handler

\* The row a request is about is there and belongs to whom the request means
RowsMeant ==
    \A h \in Handler :
        /\ task[h].do = "invite" => task[h].row = 0 \/ (task[h].row \in DOMAIN members /\ members[task[h].row].person = task[h].person)
        /\ task[h].do = "remove" => task[h].row \in DOMAIN members /\ members[task[h].row].person # task[h].by

MembersInv == MembersTyped /\ RowsMeant

\* m with the row i changed, and not its person
Edited(n, m, i) ==
    /\ n \in Seq(Membership) /\ Len(n) = Len(m)
    /\ \A k \in DOMAIN m : n[k].person = m[k].person /\ (k # i => n[k] = m[k])

NewRow(t) == [person |-> t.person, role |-> t.role, active |-> TRUE]

LEMMA TaskFields ==
    ASSUME MembersTyped, NEW h \in Handler
    PROVE  /\ task[h].do = "invite" => /\ task[h].by \in Person /\ task[h].person \in Person /\ task[h].role \in Role
                                       /\ task[h].row \in Nat
           /\ task[h].do = "remove" => task[h].by \in Person /\ task[h].row \in Nat
           /\ task[h].do = "token" => task[h].by \in Person
           /\ task[h].do \in {"domain", "import"} => task[h].name \in DomainName
           /\ task[h].do \in {"nothing", "invite", "remove", "token", "domain", "import"}
<1>1. task[h] \in Task
  BY DEF MembersTyped
<1> QED
  BY <1>1 DEF Task, Free

LEMMA InviteWrites ==
    ASSUME MembersInv, NEW h \in Handler, InviteCommits(h)
    PROVE  \/ members' = members /\ accounts' = accounts
           \/ task[h].row = 0 /\ members' = Append(members, NewRow(task[h])) /\ NewRow(task[h]) \in Membership
           \/ task[h].row \in DOMAIN members /\ Edited(members', members, task[h].row)
<1> DEFINE t == task[h]
<1>1. t.do = "invite" /\ t.role \in Role /\ t.person \in Person
  BY TaskFields DEF InviteCommits, MembersInv
<1>2. members \in Seq(Membership)
  BY DEF MembersInv, MembersTyped
<1>3. CASE ~t.known /\ t.person \in accounts
  BY <1>3 DEF InviteCommits
<1>4. CASE ~(~t.known /\ t.person \in accounts) /\ t.row = 0
  BY <1>1, <1>4 DEF InviteCommits, NewRow, Membership
<1>5. CASE ~(~t.known /\ t.person \in accounts) /\ t.row # 0
  <2>1. t.row \in DOMAIN members
    BY <1>1, <1>5 DEF MembersInv, RowsMeant
  <2>2. members' = [members EXCEPT ![t.row].role = IF t.was.role = t.role THEN @ ELSE t.role,
                                   ![t.row].active = @ \/ ~t.was.active]
    BY <1>5 DEF InviteCommits
  <2> DEFINE r == members[t.row]
             q == [person |-> r.person, role |-> IF t.was.role = t.role THEN r.role ELSE t.role, active |-> r.active \/ ~t.was.active]
  <2>3. r \in Membership
    BY <1>2, <2>1
  <2>4. members' = [members EXCEPT ![t.row] = q]
    <3> DEFINE x == IF t.was.role = t.role THEN r.role ELSE t.role
               y == r.active \/ ~t.was.active
               s == [r EXCEPT !.role = x]
               m == [members EXCEPT ![t.row] = s]
    <3>1. s = [person |-> r.person, role |-> x, active |-> r.active]
      BY <2>3 DEF Membership
    <3>2. members' = [m EXCEPT ![t.row] = [s EXCEPT !.active = y]]
      BY <1>2, <2>1, <2>2, <3>1
    <3>3. [s EXCEPT !.active = y] = [person |-> r.person, role |-> x, active |-> y]
      <4> HIDE DEF x, y, s, r
      <4> QED
        BY <3>1
    <3>4. [s EXCEPT !.active = y] = q
      BY <3>3, Zenon
    <3> HIDE DEF s, q
    <3> QED
      BY <1>2, <2>1, <3>2, <3>4
  <2>5. q \in Membership /\ q.person = r.person
    BY <1>1, <2>3 DEF Membership
  <2>6. Edited(members', members, t.row)
    <3> HIDE DEF q, t
    <3> QED
      BY <1>2, <2>1, <2>3, <2>4, <2>5 DEF Edited
  <2> QED
    BY <2>1, <2>6
<1> QED
  BY <1>3, <1>4, <1>5

LEMMA RemoveWrites ==
    ASSUME MembersInv, NEW h \in Handler, RemoveCommits(h)
    PROVE  /\ task[h].row \in DOMAIN members /\ Edited(members', members, task[h].row)
           /\ \A k \in DOMAIN members : members'[k].active => members[k].active
<1> DEFINE t == task[h]
           r == members[t.row]
           q == [r EXCEPT !.active = @ /\ ~t.was.active]
<1>1. t.do = "remove" /\ t.row \in DOMAIN members
  BY DEF RemoveCommits, MembersInv, RowsMeant
<1>2. members \in Seq(Membership)
  BY DEF MembersInv, MembersTyped
<1>3. r \in Membership
  BY <1>1, <1>2
<1>4. members' = [members EXCEPT ![t.row] = q]
  BY <1>1, <1>2 DEF RemoveCommits
<1>5. q \in Membership /\ q.person = r.person /\ (q.active => r.active)
  BY <1>3 DEF Membership
<1> HIDE DEF q, t
<1> QED
  BY <1>1, <1>2, <1>3, <1>4, <1>5 DEF Edited, t

\* Rows keep their place and their person
RowsKept == \A i \in DOMAIN members : i \in DOMAIN members' /\ members'[i].person = members[i].person

LEMMA EditKeeps ==
    ASSUME members \in Seq(Membership), NEW i, Edited(members', members, i)
    PROVE  DOMAIN members' = DOMAIN members /\ RowsKept
BY DEF Edited, RowsKept

LEMMA AppendKeeps ==
    ASSUME members \in Seq(Membership), NEW r \in Membership, members' = Append(members, r)
    PROVE  /\ members' \in Seq(Membership) /\ RowsKept
           /\ DOMAIN members' = DOMAIN members \cup {Len(members) + 1} /\ members'[Len(members) + 1] = r
           /\ \A i \in DOMAIN members : members'[i] = members[i]
<1>1. Len(members) \in Nat /\ DOMAIN members = 1 .. Len(members) /\ Len(members') = Len(members) + 1
  OBVIOUS
<1>2. members' \in Seq(Membership) /\ DOMAIN members' = 1 .. Len(members) + 1
  OBVIOUS
<1>3. members'[Len(members) + 1] = r /\ \A i \in DOMAIN members : members'[i] = members[i]
  BY <1>1
<1> QED
  BY <1>1, <1>2, <1>3 DEF RowsKept

LEMMA MeantStays ==
    ASSUME RowsMeant, RowsKept, NEW h \in Handler, task'[h] = task[h] \/ task'[h] = Free
    PROVE  /\ task'[h].do = "invite" => task'[h].row = 0 \/ (task'[h].row \in DOMAIN members' /\ members'[task'[h].row].person = task'[h].person)
           /\ task'[h].do = "remove" => task'[h].row \in DOMAIN members' /\ members'[task'[h].row].person # task'[h].by
BY DEF RowsMeant, RowsKept, Free

LEMMA OneRow == ASSUME NEW S, NEW r \in S PROVE <<r>> \in Seq(S)
OBVIOUS

LEMMA MembersStart == MembersInit => MembersInv
<1> SUFFICES ASSUME MembersInit PROVE MembersInv
  OBVIOUS
<1> DEFINE r == [person |-> Operator, role |-> "org_admin", active |-> TRUE]
<1>1. r \in Membership
  BY MembersAssumption DEF Membership
<1>2. members \in Seq(Membership)
  <2>1. members = <<r>>
    BY DEF MembersInit
  <2>2. <<r>> \in Seq(Membership)
    BY <1>1, OneRow
  <2> QED
    BY <2>1, <2>2
<1>3. task \in [Handler -> Task] /\ \A h \in Handler : task[h].do = "nothing"
  BY DEF MembersInit, Task, Free
<1>4. tokens = <<>> /\ domains = <<>> /\ imported = 0 /\ raced = {} /\ demoted = {}
  BY DEF MembersInit
<1>5. accounts \subseteq Person /\ limit \in [Kind -> Limit] /\ peak \in [Kind -> Limit]
  BY DEF MembersInit
<1>6. MembersTyped
  <2>1. \A S : <<>> \in Seq(S)
    OBVIOUS
  <2>2. imported \in 0 .. Len(domains)
    BY <1>4
  <2> QED
    BY <1>2, <1>3, <1>4, <1>5, <2>1, <2>2, Zenon DEF MembersTyped
<1> QED
  BY <1>3, <1>6 DEF MembersInv, RowsMeant

LEMMA MembersStep == MembersInv /\ [MembersNext]_memberVars => MembersInv'
<1> SUFFICES ASSUME MembersInv, [MembersNext]_memberVars PROVE MembersInv'
  OBVIOUS
<1> USE DEF MembersInv
<1>0. members \in Seq(Membership) /\ task \in [Handler -> Task] /\ Free \in Task
  BY DEF MembersTyped, Task
<1>1. CASE UNCHANGED memberVars
  BY <1>1 DEF memberVars, MembersTyped, RowsMeant
<1>2. ASSUME NEW h \in Handler, NEW u \in Person, NEW p \in Person, NEW r \in Role, invite_user(h, u, p, r)
      PROVE  MembersInv'
  <2>1. PICK i \in IF RowsOf(p) = {} THEN {0} ELSE RowsOf(p) :
              Take(h, [do |-> "invite", by |-> u, person |-> p, role |-> r, known |-> p \in accounts, row |-> i,
                       was |-> IF i = 0 THEN Free ELSE members[i]])
    BY <1>2 DEF invite_user
  <2> DEFINE t == [do |-> "invite", by |-> u, person |-> p, role |-> r, known |-> p \in accounts, row |-> i,
                   was |-> IF i = 0 THEN Free ELSE members[i]]
  <2>2. i = 0 \/ (i \in DOMAIN members /\ members[i].person = p)
    BY <2>1 DEF RowsOf
  <2>3. i \in Nat /\ (i # 0 => members[i] \in Membership)
    BY <1>0, <2>2
  <2>4. t \in Task /\ t.do = "invite" /\ t.row = i /\ t.person = p
    BY <2>3 DEF Task
  <2> HIDE DEF t
  <2>5. task' = [task EXCEPT ![h] = t]
    BY <2>1 DEF Take, t
  <2>6. MembersTyped'
    BY <1>0, <1>2, <2>4, <2>5 DEF MembersTyped, invite_user
  <2>7. RowsMeant'
    BY <1>0, <1>2, <2>2, <2>4, <2>5 DEF RowsMeant, invite_user
  <2> QED
    BY <2>6, <2>7
<1>3. ASSUME NEW h \in Handler, NEW u \in Person, NEW i \in DOMAIN members, remove_member(h, u, i)
      PROVE  MembersInv'
  <2> DEFINE t == [do |-> "remove", by |-> u, row |-> i, was |-> members[i]]
  <2>1. t \in Task /\ t.do = "remove" /\ t.row = i /\ t.by = u
    BY <1>0 DEF Task
  <2>2. task' = [task EXCEPT ![h] = t] /\ members[i].person # u
    BY <1>3 DEF remove_member, Take
  <2> HIDE DEF t
  <2>3. MembersTyped'
    BY <1>0, <1>3, <2>1, <2>2 DEF MembersTyped, remove_member
  <2>4. RowsMeant'
    BY <1>0, <1>3, <2>1, <2>2 DEF RowsMeant, remove_member
  <2> QED
    BY <2>3, <2>4
<1>4. ASSUME NEW h \in Handler, NEW u \in Person, create_token(h, u) PROVE MembersInv'
  <2> DEFINE t == [do |-> "token", by |-> u]
  <2>1. t \in Task /\ t.do = "token"
    BY DEF Task
  <2>2. task' = [task EXCEPT ![h] = t]
    BY <1>4 DEF create_token, Take
  <2> HIDE DEF t
  <2> QED
    BY <1>0, <1>4, <2>1, <2>2 DEF MembersTyped, RowsMeant, create_token
<1>5. ASSUME NEW h \in Handler, NEW n \in DomainName, create_domain(h, n) \/ import_domain(h, n) PROVE MembersInv'
  <2>1. PICK do \in {"domain", "import"} : task' = [task EXCEPT ![h] = [do |-> do, name |-> n]]
    BY <1>5 DEF create_domain, import_domain, Take
  <2> DEFINE t == [do |-> do, name |-> n]
  <2>2. t \in Task /\ t.do \notin {"invite", "remove"}
    BY DEF Task
  <2>3. UNCHANGED <<members, tokens, domains, accounts, limit, peak, imported, raced, demoted>>
    BY <1>5 DEF create_domain, import_domain
  <2> HIDE DEF t
  <2>4. task' = [task EXCEPT ![h] = t]
    BY <2>1 DEF t
  <2> QED
    BY <1>0, <2>2, <2>3, <2>4 DEF MembersTyped, RowsMeant
<1>6. ASSUME NEW h \in Handler, InviteCommits(h) \/ RemoveCommits(h) PROVE MembersInv'
  <2>1. members' \in Seq(Membership) /\ RowsKept
    <3>1. CASE InviteCommits(h)
      BY <1>0, <3>1, InviteWrites, EditKeeps, AppendKeeps DEF Edited, RowsKept
    <3>2. CASE RemoveCommits(h)
      BY <1>0, <3>2, RemoveWrites, EditKeeps DEF Edited
    <3> QED
      BY <1>6, <3>1, <3>2
  <2>2. task' = [task EXCEPT ![h] = Free]
    BY <1>6 DEF InviteCommits, RemoveCommits, Finish
  <2>3. RowsMeant'
    BY <1>0, <2>1, <2>2, MeantStays DEF RowsMeant
  <2>4. accounts' \subseteq Person
    BY <1>6, TaskFields DEF InviteCommits, RemoveCommits, MembersTyped
  <2>5. raced' \subseteq Person \cup DomainName
    BY <1>6, TaskFields DEF InviteCommits, RemoveCommits, MembersTyped
  <2>6. demoted' \subseteq Handler
    BY <1>6 DEF InviteCommits, RemoveCommits, Demoted
  <2>7. UNCHANGED <<tokens, domains, limit, peak, imported>>
    BY <1>6 DEF InviteCommits, RemoveCommits
  <2> QED
    BY <1>0, <2>1, <2>2, <2>3, <2>4, <2>5, <2>6, <2>7 DEF MembersTyped
<1>7. ASSUME NEW h \in Handler, create_api_token(h) PROVE MembersInv'
  <2>1. tokens' \in Seq([owner: Person, active: BOOLEAN])
    BY <1>7, TaskFields DEF create_api_token, MembersTyped
  <2>2. UNCHANGED <<members, domains, accounts, limit, peak, imported, raced, demoted>> /\ task' = [task EXCEPT ![h] = Free]
    BY <1>7 DEF create_api_token, Finish
  <2> QED
    BY <1>0, <2>1, <2>2, MeantStays DEF MembersTyped, RowsMeant, RowsKept
<1>8. ASSUME NEW h \in Handler, DomainCommits(h) PROVE MembersInv'
  <2>1. task[h].name \in DomainName
    BY <1>8, TaskFields DEF DomainCommits, Naming, Underway
  <2>2. domains' \in Seq(DomainName) /\ imported' \in 0 .. Len(domains')
    <3>1. domains \in Seq(DomainName) /\ imported \in 0 .. Len(domains) /\ domains' = Append(domains, task[h].name)
      BY <1>8 DEF DomainCommits, MembersTyped
    <3>2. domains' \in Seq(DomainName) /\ Len(domains') = Len(domains) + 1 /\ Len(domains) \in Nat
      BY <2>1, <3>1
    <3>3. imported' \in {imported, imported + 1}
      BY <1>8 DEF DomainCommits
    <3> QED
      BY <3>1, <3>2, <3>3
  <2>3. raced' \subseteq Person \cup DomainName
    BY <1>8, <2>1 DEF DomainCommits, MembersTyped
  <2>4. UNCHANGED <<members, tokens, accounts, limit, peak, demoted>> /\ task' = [task EXCEPT ![h] = Free]
    BY <1>8 DEF DomainCommits, Finish
  <2> QED
    BY <1>0, <2>2, <2>3, <2>4, MeantStays DEF MembersTyped, RowsMeant, RowsKept
<1>9. ASSUME NEW u \in Person, NEW i \in DOMAIN tokens, revoke_token(u, i) PROVE MembersInv'
  <2>1. tokens' \in Seq([owner: Person, active: BOOLEAN])
    <3> DEFINE q == [tokens[i] EXCEPT !.active = FALSE]
               Token == [owner: Person, active: BOOLEAN]
    <3>0. tokens \in Seq(Token)
      BY DEF MembersTyped
    <3>1. tokens[i] \in Token
      <4> HIDE DEF Token
      <4> QED
        BY <3>0
    <3>2. q \in Token
      BY <3>1
    <3>3. tokens' = [tokens EXCEPT ![i] = q]
      BY <1>9, <3>0, <3>1 DEF revoke_token
    <3> HIDE DEF q, Token
    <3>4. tokens' \in Seq(Token)
      BY <3>0, <3>2, <3>3
    <3> QED
      BY <3>4 DEF Token
  <2> QED
    BY <1>9, <2>1 DEF revoke_token, MembersTyped, RowsMeant
<1>10. ASSUME NEW k \in Kind, NEW v \in Limit, org_limits(k, v) PROVE MembersInv'
  BY <1>10 DEF org_limits, MembersTyped, RowsMeant
<1>11. ASSUME NEW h \in Handler, RequestLost(h) PROVE MembersInv'
  <2>1. /\ UNCHANGED <<members, tokens, domains, accounts, limit, peak, imported, raced>>
        /\ task' = [task EXCEPT ![h] = Free] /\ demoted' \subseteq demoted
    BY <1>11 DEF RequestLost, Finish
  <2> QED
    BY <1>0, <2>1, MeantStays DEF MembersTyped, RowsMeant, RowsKept
<1> QED
  BY <1>1, <1>2, <1>3, <1>4, <1>5, <1>6, <1>7, <1>8, <1>9, <1>10, <1>11 DEF MembersNext

\* Whoever is about to change a membership administers the organisation, or has been demoted meanwhile
ActorsAdminister ==
    \A h \in Handler : task[h].do \in {"invite", "remove"} /\ task[h].by # Operator /\ h \notin demoted => task[h].by \in Admins

AdminInv == MembersInv /\ ActorsAdminister

LEMMA AdminsMay == ASSUME MembersInv, NEW u \in Person \ {Operator}, May(u, "org_admin") PROVE u \in Admins
<1>1. PICK i \in RowsOf(u) : members[i].active /\ ROLE_LEVEL[members[i].role] >= 3
  BY DEF May, ROLE_LEVEL
<1>2. members[i].role \in {"org_admin", "manager", "analyst", "read_only"}
  <2>1. members[i] \in Membership
    BY <1>1 DEF MembersInv, MembersTyped, RowsOf
  <2> QED
    BY <2>1, MembersAssumption DEF Membership
<1>3. members[i].role = "org_admin"
  BY <1>1, <1>2 DEF ROLE_LEVEL
<1> QED
  BY <1>1, <1>3 DEF Administers, Admins

\* A request changes nothing for those who are not in its row
LEMMA OthersStay ==
    ASSUME MembersInv, NEW h \in Handler, InviteCommits(h) \/ RemoveCommits(h), NEW u \in Admins,
           task[h].row \in DOMAIN members => members[task[h].row].person # u
    PROVE  u \in Admins'
<1>1. members \in Seq(Membership)
  BY DEF MembersInv, MembersTyped
<1>2. RowsKept /\ \A i \in DOMAIN members : i # task[h].row => members'[i] = members[i]
  <2>1. CASE InviteCommits(h)
    BY <1>1, <2>1, InviteWrites, EditKeeps, AppendKeeps DEF Edited, RowsKept
  <2>2. CASE RemoveCommits(h)
    BY <1>1, <2>2, RemoveWrites, EditKeeps DEF Edited
  <2> QED
    BY <2>1, <2>2
<1>3. PICK i \in RowsOf(u) : Administers(members[i])
  BY DEF Admins
<1>4. i \in DOMAIN members' /\ members'[i] = members[i] /\ members[i].person = u
  BY <1>2, <1>3 DEF RowsOf, RowsKept
<1> QED
  BY <1>3, <1>4 DEF Admins, RowsOf, Administers

LEMMA AdminStep == AdminInv /\ [MembersNext]_memberVars => AdminInv'
<1> SUFFICES ASSUME AdminInv, [MembersNext]_memberVars PROVE AdminInv'
  OBVIOUS
<1>1. MembersInv /\ MembersInv' /\ task \in [Handler -> Task] /\ ActorsAdminister
  BY MembersStep DEF AdminInv, MembersInv, MembersTyped
<1>2. ASSUME UNCHANGED members PROVE Admins' = Admins
  BY <1>2 DEF Admins, RowsOf, Administers
<1>3. CASE UNCHANGED memberVars
  BY <1>1, <1>2, <1>3 DEF memberVars, AdminInv, ActorsAdminister
<1>4. ASSUME NEW h \in Handler, NEW u \in Person,
             (\E p \in Person, r \in Role : invite_user(h, u, p, r)) \/ (\E i \in DOMAIN members : remove_member(h, u, i))
      PROVE  AdminInv'
  <2>1. /\ task'[h].by = u /\ \A g \in Handler \ {h} : task'[g] = task[g]
        /\ UNCHANGED <<members, demoted>> /\ May(u, "org_admin")
    BY <1>1, <1>4 DEF invite_user, remove_member, Take
  <2> QED
    BY <1>1, <1>2, <2>1, AdminsMay DEF AdminInv, ActorsAdminister
<1>5. ASSUME NEW h \in Handler,
             (\E u \in Person : create_token(h, u)) \/ (\E n \in DomainName : create_domain(h, n) \/ import_domain(h, n))
      PROVE  AdminInv'
  <2>1. /\ task'[h].do \in {"token", "domain", "import"} /\ \A g \in Handler \ {h} : task'[g] = task[g]
        /\ UNCHANGED <<members, demoted>>
    BY <1>1, <1>5 DEF create_token, create_domain, import_domain, Take
  <2> QED
    BY <1>1, <1>2, <2>1 DEF AdminInv, ActorsAdminister
<1>6. ASSUME NEW h \in Handler, InviteCommits(h) \/ RemoveCommits(h) PROVE AdminInv'
  <2>1. task' = [task EXCEPT ![h] = Free] /\ demoted' = Demoted(h)
    BY <1>6 DEF InviteCommits, RemoveCommits, Finish
  <2>2. task'[h].do = "nothing" /\ \A g \in Handler \ {h} : task'[g] = task[g]
    BY <1>1, <2>1 DEF Free
  <2> QED
    BY <1>1, <2>1, <2>2 DEF AdminInv, ActorsAdminister, Demoted
<1>7. ASSUME NEW h \in Handler, create_api_token(h) \/ DomainCommits(h) \/ RequestLost(h) PROVE AdminInv'
  <2>1. /\ task'[h].do = "nothing" /\ \A g \in Handler \ {h} : task'[g] = task[g]
        /\ UNCHANGED members /\ \A g \in Handler \ {h} : g \notin demoted' => g \notin demoted
    BY <1>1, <1>7 DEF create_api_token, DomainCommits, RequestLost, Finish, Free
  <2> QED
    BY <1>1, <1>2, <2>1 DEF AdminInv, ActorsAdminister
<1>8. CASE (\E u \in Person, i \in DOMAIN tokens : revoke_token(u, i)) \/ (\E k \in Kind, v \in Limit : org_limits(k, v))
  <2>1. UNCHANGED <<members, task, demoted>>
    BY <1>8 DEF revoke_token, org_limits
  <2> QED
    BY <1>1, <1>2, <2>1 DEF AdminInv, ActorsAdminister
<1> QED
  BY <1>3, <1>4, <1>5, <1>6, <1>7, <1>8 DEF MembersNext

\* How the last administrator goes
LEMMA LastGoes ==
    ASSUME AdminInv, [MembersNext]_memberVars, Admins # {}, Admins' = {}
    PROVE  \E h \in Handler :
              /\ task[h].do \in {"invite", "remove"} /\ task'[h] = Free
              /\ \/ task[h].by = Operator \/ h \in demoted
                 \/ task[h].do = "invite" /\ task[h].by = task[h].person
<1>1. MembersInv /\ task \in [Handler -> Task]
  BY DEF AdminInv, MembersInv, MembersTyped
<1>2. members' # members
  <2>1. members' = members => Admins' = Admins
    BY DEF Admins, RowsOf, Administers
  <2> QED
    BY <2>1
<1>3. PICK h \in Handler : InviteCommits(h) \/ RemoveCommits(h)
  BY <1>2 DEF MembersNext, memberVars, invite_user, remove_member, create_token, create_domain, import_domain,
              create_api_token, DomainCommits, RequestLost, revoke_token, org_limits
<1>4. task[h].do \in {"invite", "remove"} /\ task'[h] = Free
  BY <1>1, <1>3 DEF InviteCommits, RemoveCommits, Finish
<1>5. ASSUME task[h].by # Operator, h \notin demoted PROVE task[h].do = "invite" /\ task[h].by = task[h].person
  <2>1. task[h].by \in Admins
    BY <1>4, <1>5 DEF AdminInv, ActorsAdminister
  <2>2. task[h].row \in DOMAIN members /\ members[task[h].row].person = task[h].by
    BY <1>1, <1>3, <2>1, OthersStay
  <2>3. task[h].row # 0
    <3>1. members \in Seq(Membership)
      BY <1>1 DEF MembersInv, MembersTyped
    <3> QED
      BY <2>2, <3>1
  <2> QED
    BY <1>1, <1>4, <2>2, <2>3 DEF MembersInv, RowsMeant
<1> QED
  BY <1>4, <1>5

(* Nobody can remove himself (remove_member of app/routers/users.py): for any number of people and requests, the last
   administrator goes only by the operator, by inviting himself with a lower role, or by a request whose author has lost
   the role since he was let in. *)
THEOREM AnAdminRemains == MembersSpec => AdminRemains
<1>1. MembersInit => AdminInv
  <2> SUFFICES ASSUME MembersInit PROVE AdminInv
    OBVIOUS
  <2>1. ActorsAdminister
    BY DEF MembersInit, ActorsAdminister, Free
  <2> QED
    BY <2>1, MembersStart DEF AdminInv
<1>2. AdminInv /\ [MembersNext]_memberVars =>
        [Admins # {} /\ Admins' = {} =>
           \E h \in Handler :
              /\ task[h].do \in {"invite", "remove"} /\ task'[h] = Free
              /\ \/ task[h].by = Operator \/ h \in demoted
                 \/ task[h].do = "invite" /\ task[h].by = task[h].person]_memberVars
  BY LastGoes
<1> QED
  BY <1>1, <1>2, AdminStep, PTL DEF MembersSpec, AdminRemains

AtMostOne(S) == \A x, y \in S : x = y

LEMMA CountOne == ASSUME NEW S, AtMostOne(S) PROVE Cardinality(S) <= 1
<1>1. CASE S = {}
  BY <1>1, FS_EmptySet
<1>2. CASE S # {}
  <2>1. PICK x \in S : TRUE
    BY <1>2
  <2>2. S = {x}
    BY <2>1 DEF AtMostOne
  <2>3. Cardinality({x}) = 1
    BY FS_Singleton
  <2> QED
    BY <2>2, <2>3
<1> QED
  BY <1>1, <1>2

RowsOfName(n) == {i \in DOMAIN domains : domains[i] = n}

\* A person has one row, and none while a request is about to make it, unless two did at the same time
PersonSingle(p) ==
    /\ AtMostOne(RowsOf(p))
    /\ \A h \in Handler : task[h].do = "invite" /\ task[h].row = 0 /\ task[h].person = p => RowsOf(p) = {}

\* So has the name of a domain
NameSingle(n) ==
    /\ AtMostOne(RowsOfName(n))
    /\ \A h \in Naming : task[h].name = n => RowsOfName(n) = {}

SingleInv ==
    /\ MembersInv
    /\ \A p \in Person : p \in raced \/ PersonSingle(p)
    /\ \A n \in DomainName : n \in raced \/ NameSingle(n)

\* Requests about people, or about domains, that are there afterwards were there before
LEMMA SamePerson ==
    ASSUME UNCHANGED members, NEW p, PersonSingle(p),
           \A h \in Handler : task'[h].do = "invite" /\ task'[h].row = 0 /\ task'[h].person = p
                                 => task'[h] = task[h] \/ RowsOf(p) = {}
    PROVE  PersonSingle(p)'
BY DEF PersonSingle, RowsOf

LEMMA SameName ==
    ASSUME UNCHANGED domains, NEW n, NameSingle(n),
           \A h \in Naming' : task'[h].name = n => task'[h] = task[h] \/ RowsOfName(n) = {}
    PROVE  NameSingle(n)'
BY DEF NameSingle, RowsOfName, Naming, Underway

LEMMA InviteSingle ==
    ASSUME SingleInv, NEW h \in Handler, InviteCommits(h), NEW p \in Person, p \notin raced'
    PROVE  PersonSingle(p)'
<1> DEFINE t == task[h]
<1>1. t.do = "invite" /\ t.person \in Person /\ task' = [task EXCEPT ![h] = Free]
  BY TaskFields DEF InviteCommits, Finish, SingleInv, MembersInv
<1>2. p \notin raced /\ (t.person = p => \A g \in Handler \ {h} : task[g].do = "invite" => task[g].person # p)
  BY DEF InviteCommits, Underway
<1>3. PersonSingle(p) /\ MembersInv /\ members \in Seq(Membership) /\ task \in [Handler -> Task]
  BY <1>2 DEF SingleInv, MembersInv, MembersTyped
<1>4. \A g \in Handler : task'[g] = Free \/ (g # h /\ task'[g] = task[g])
  BY <1>1, <1>3
<1>5. Free.do # "invite"
  BY DEF Free
<1>6. CASE RowsOf(p)' = RowsOf(p)
  BY <1>3, <1>4, <1>5, <1>6 DEF PersonSingle
<1>7. CASE t.row = 0 /\ members' = Append(members, NewRow(t)) /\ NewRow(t) \in Membership
  <2>1. /\ DOMAIN members' = DOMAIN members \cup {Len(members) + 1} /\ members'[Len(members) + 1] = NewRow(t)
        /\ \A i \in DOMAIN members : members'[i] = members[i]
    BY <1>3, <1>7, AppendKeeps
  <2>2. CASE t.person = p
    <3>1. RowsOf(p) = {}
      BY <1>1, <1>3, <1>7, <2>2 DEF PersonSingle
    <3>2. RowsOf(p)' = {Len(members) + 1}
      BY <2>1, <2>2, <3>1 DEF RowsOf, NewRow
    <3>3. AtMostOne(RowsOf(p))'
      BY <3>2 DEF AtMostOne
    <3> QED
      BY <1>2, <1>4, <1>5, <2>2, <3>3 DEF PersonSingle
  <2>3. CASE t.person # p
    <3>1. RowsOf(p)' = RowsOf(p)
      BY <2>1, <2>3 DEF RowsOf, NewRow
    <3> QED
      BY <1>6, <3>1
  <2> QED
    BY <2>2, <2>3
<1>8. CASE t.row \in DOMAIN members /\ Edited(members', members, t.row)
  <2>1. DOMAIN members' = DOMAIN members /\ RowsKept
    BY <1>3, <1>8, EditKeeps
  <2>2. RowsOf(p)' = RowsOf(p)
    BY <2>1 DEF RowsOf, RowsKept
  <2> QED
    BY <1>6, <2>2
<1>9. CASE members' = members
  BY <1>6, <1>9 DEF RowsOf
<1> QED
  BY <1>3, <1>7, <1>8, <1>9, InviteWrites

LEMMA DomainSingle ==
    ASSUME SingleInv, NEW h \in Handler, DomainCommits(h), NEW n \in DomainName, n \notin raced'
    PROVE  NameSingle(n)'
<1> DEFINE t == task[h]
<1>1. h \in Naming /\ t.name \in DomainName /\ task' = [task EXCEPT ![h] = Free] /\ domains' = Append(domains, t.name)
  BY TaskFields DEF DomainCommits, Naming, Underway, Finish, SingleInv, MembersInv
<1>2. n \notin raced /\ (t.name = n => \A g \in Naming \ {h} : task[g].name # n)
  BY DEF DomainCommits
<1>3. NameSingle(n) /\ domains \in Seq(DomainName) /\ task \in [Handler -> Task]
  BY <1>2 DEF SingleInv, MembersInv, MembersTyped
<1>4. task'[h].do = "nothing" /\ \A g \in Handler \ {h} : task'[g] = task[g]
  BY <1>1, <1>3 DEF Free, Naming, Underway
<1>5. Naming' \subseteq Naming \ {h} /\ \A g \in Naming' : task'[g] = task[g]
  BY <1>4 DEF Naming, Underway
<1>6. /\ DOMAIN domains' = DOMAIN domains \cup {Len(domains) + 1} /\ domains'[Len(domains) + 1] = t.name
      /\ \A i \in DOMAIN domains : domains'[i] = domains[i]
  <2> HIDE DEF t
  <2>1. Len(domains) \in Nat /\ DOMAIN domains = 1 .. Len(domains) /\ Len(domains') = Len(domains) + 1
    BY <1>1, <1>3
  <2>2. DOMAIN domains' = 1 .. Len(domains) + 1
    BY <1>1, <1>3, <2>1
  <2> QED
    BY <1>1, <1>3, <2>1, <2>2
<1>7. CASE t.name = n
  <2>1. RowsOfName(n) = {}
    BY <1>1, <1>3, <1>7 DEF NameSingle
  <2>2. RowsOfName(n)' = {Len(domains) + 1}
    BY <1>6, <1>7, <2>1 DEF RowsOfName
  <2>3. AtMostOne(RowsOfName(n))'
    BY <2>2 DEF AtMostOne
  <2> QED
    BY <1>2, <1>5, <1>7, <2>3 DEF NameSingle
<1>8. CASE t.name # n
  <2>1. RowsOfName(n)' = RowsOfName(n)
    BY <1>6, <1>8 DEF RowsOfName
  <2> QED
    BY <1>3, <1>5, <2>1 DEF NameSingle
<1> QED
  BY <1>7, <1>8

LEMMA SingleStep == SingleInv /\ [MembersNext]_memberVars => SingleInv'
<1> SUFFICES ASSUME SingleInv, [MembersNext]_memberVars PROVE SingleInv'
  OBVIOUS
<1>1. MembersInv /\ MembersInv' /\ task \in [Handler -> Task]
  BY MembersStep DEF SingleInv, MembersInv, MembersTyped
<1>2. CASE \/ UNCHANGED memberVars
           \/ \E u \in Person, i \in DOMAIN tokens : revoke_token(u, i)
           \/ \E k \in Kind, v \in Limit : org_limits(k, v)
  <2>1. UNCHANGED <<members, domains, task, raced>>
    BY <1>2 DEF memberVars, revoke_token, org_limits
  <2> QED
    BY <1>1, <2>1, SamePerson, SameName DEF SingleInv, Naming, Underway
<1>3. ASSUME NEW h \in Handler, NEW u \in Person, NEW p \in Person, NEW r \in Role, invite_user(h, u, p, r)
      PROVE  SingleInv'
  <2>1. PICK i \in IF RowsOf(p) = {} THEN {0} ELSE RowsOf(p) :
              Take(h, [do |-> "invite", by |-> u, person |-> p, role |-> r, known |-> p \in accounts, row |-> i,
                       was |-> IF i = 0 THEN Free ELSE members[i]])
    BY <1>3 DEF invite_user
  <2>2. task'[h].do = "invite" /\ task'[h].row = i /\ task'[h].person = p /\ \A g \in Handler \ {h} : task'[g] = task[g]
    BY <1>1, <2>1 DEF Take
  <2>3. i = 0 => RowsOf(p) = {}
    <3>1. members \in Seq(Membership)
      BY <1>1 DEF MembersInv, MembersTyped
    <3>2. 0 \notin DOMAIN members
      BY <3>1
    <3> QED
      BY <2>1, <3>2 DEF RowsOf
  <2>4. UNCHANGED <<members, domains, raced>>
    BY <1>3 DEF invite_user
  <2> QED
    BY <1>1, <2>2, <2>3, <2>4, SamePerson, SameName DEF SingleInv, Naming, Underway
<1>4. ASSUME NEW h \in Handler, NEW u \in Person,
             (\E i \in DOMAIN members : remove_member(h, u, i)) \/ create_token(h, u)
      PROVE  SingleInv'
  <2>1. task'[h].do \in {"remove", "token"} /\ \A g \in Handler \ {h} : task'[g] = task[g]
    BY <1>1, <1>4 DEF remove_member, create_token, Take
  <2>2. UNCHANGED <<members, domains, raced>>
    BY <1>4 DEF remove_member, create_token
  <2> QED
    BY <1>1, <2>1, <2>2, SamePerson, SameName DEF SingleInv, Naming, Underway
<1>5. ASSUME NEW h \in Handler, NEW n \in DomainName, create_domain(h, n) \/ import_domain(h, n) PROVE SingleInv'
  <2>1. task'[h].do \in {"domain", "import"} /\ task'[h].name = n /\ \A g \in Handler \ {h} : task'[g] = task[g]
    BY <1>1, <1>5 DEF create_domain, import_domain, Take
  <2>2. RowsOfName(n) = {}
    BY <1>5 DEF create_domain, import_domain, RowsOfName, ToSet
  <2>3. UNCHANGED <<members, domains, raced>>
    BY <1>5 DEF create_domain, import_domain
  <2> QED
    BY <1>1, <2>1, <2>2, <2>3, SamePerson, SameName DEF SingleInv, Naming, Underway
<1>6. ASSUME NEW h \in Handler, InviteCommits(h) PROVE SingleInv'
  <2>1. UNCHANGED domains /\ raced \subseteq raced' /\ \A g \in Handler : task'[g] = Free \/ task'[g] = task[g]
    BY <1>1, <1>6 DEF InviteCommits, Finish
  <2>2. Free.do \notin {"domain", "import"}
    BY DEF Free
  <2> QED
    BY <1>1, <1>6, <2>1, <2>2, InviteSingle, SameName DEF SingleInv, Naming, Underway
<1>7. ASSUME NEW h \in Handler, RemoveCommits(h) PROVE SingleInv'
  <2>1. UNCHANGED <<domains, raced>> /\ \A g \in Handler : task'[g] = Free \/ task'[g] = task[g]
    BY <1>1, <1>7 DEF RemoveCommits, Finish
  <2>2. DOMAIN members' = DOMAIN members /\ RowsKept
    BY <1>1, <1>7, RemoveWrites, EditKeeps DEF MembersInv, MembersTyped
  <2>3. Free.do \notin {"domain", "import"} /\ Free.do # "invite"
    BY DEF Free
  <2>4. \A p \in Person : RowsOf(p)' = RowsOf(p)
    BY <2>2 DEF RowsOf, RowsKept
  <2>5. \A p \in Person : PersonSingle(p) => PersonSingle(p)'
    BY <2>1, <2>3, <2>4 DEF PersonSingle
  <2> QED
    BY <1>1, <2>1, <2>3, <2>5, SameName DEF SingleInv, Naming, Underway
<1>8. ASSUME NEW h \in Handler, create_api_token(h) \/ RequestLost(h) PROVE SingleInv'
  <2>1. UNCHANGED <<members, domains, raced>> /\ \A g \in Handler : task'[g] = Free \/ task'[g] = task[g]
    BY <1>1, <1>8 DEF create_api_token, RequestLost, Finish
  <2>2. Free.do \notin {"domain", "import"} /\ Free.do # "invite"
    BY DEF Free
  <2> QED
    BY <1>1, <2>1, <2>2, SamePerson, SameName DEF SingleInv, Naming, Underway
<1>9. ASSUME NEW h \in Handler, DomainCommits(h) PROVE SingleInv'
  <2>1. UNCHANGED members /\ raced \subseteq raced' /\ \A g \in Handler : task'[g] = Free \/ task'[g] = task[g]
    BY <1>1, <1>9 DEF DomainCommits, Finish
  <2>2. Free.do # "invite"
    BY DEF Free
  <2> QED
    BY <1>1, <1>9, <2>1, <2>2, DomainSingle, SamePerson DEF SingleInv
<1> QED
  BY <1>2, <1>3, <1>4, <1>5, <1>6, <1>7, <1>8, <1>9 DEF MembersNext

(* A person has one membership and a name one domain (invite_user, create_domain and get_or_create_domain look before they
   insert), for any number of requests and imports, unless two of them were under way for the same person or name. *)
THEOREM NobodyIsThereTwice == MembersSpec => []RowsAreSingle
<1>1. MembersInit => SingleInv
  <2> SUFFICES ASSUME MembersInit PROVE SingleInv
    OBVIOUS
  <2>1. DOMAIN members = {1} /\ domains = <<>> /\ \A h \in Handler : task[h].do = "nothing"
    BY DEF MembersInit, Free
  <2>2. \A p \in Person : PersonSingle(p)
    BY <2>1 DEF PersonSingle, RowsOf, AtMostOne
  <2>3. \A n \in DomainName : NameSingle(n)
    BY <2>1 DEF NameSingle, RowsOfName, AtMostOne, Naming, Underway
  <2> QED
    BY <2>2, <2>3, MembersStart DEF SingleInv
<1>2. SingleInv => RowsAreSingle
  BY CountOne DEF SingleInv, PersonSingle, NameSingle, RowsOfName, RowsAreSingle
<1> QED
  BY <1>1, <1>2, SingleStep, PTL DEF MembersSpec

ActiveRows(s) == {i \in DOMAIN s : s[i].active}

\* Requests that are about to use up something of the kind
Doing == [members |-> "invite", tokens |-> "token", domains |-> "domain"]
Users(k) == Underway(Doing[k])

\* What requests have made and are about to make, and the limit that was asked before
Balance(k) == Requested(k) + Cardinality(Users(k)) <= peak[k] - 1 + Cardinality(Handler)

LimitInv == MembersInv /\ \A k \in Kind : limit[k] <= peak[k] /\ Balance(k)

LEMMA CountActive ==
    ASSUME NEW S, NEW s \in Seq(S)
    PROVE  IsFiniteSet(ActiveRows(s)) /\ Cardinality(ActiveRows(s)) \in Nat
<1>1. DOMAIN s = 1 .. Len(s) /\ Len(s) \in Nat
  OBVIOUS
<1>2. IsFiniteSet(1 .. Len(s))
  BY <1>1, FS_Interval
<1>3. ActiveRows(s) \subseteq 1 .. Len(s)
  BY <1>1 DEF ActiveRows
<1> QED
  BY <1>2, <1>3, FS_Subset, FS_CardinalityType

LEMMA CountMore ==
    ASSUME NEW S, IsFiniteSet(S), NEW T, NEW x, T \subseteq S \cup {x}
    PROVE  Cardinality(T) <= Cardinality(S) + 1
<1>1. IsFiniteSet(S \cup {x}) /\ Cardinality(S \cup {x}) <= Cardinality(S) + 1 /\ Cardinality(S) \in Nat
  BY FS_AddElement, FS_CardinalityType
<1>2. IsFiniteSet(T) /\ Cardinality(T) <= Cardinality(S \cup {x})
  BY <1>1, FS_Subset
<1>3. Cardinality(T) \in Nat /\ Cardinality(S \cup {x}) \in Nat
  BY <1>1, <1>2, FS_CardinalityType
<1> QED
  BY <1>1, <1>2, <1>3

LEMMA RequestedCounts ==
    /\ Requested("members") = Cardinality(ActiveRows(members))
    /\ Requested("tokens") = Cardinality(ActiveRows(tokens))
    /\ Requested("domains") = Len(domains) - imported
BY DEF Requested, Used, ActiveRows

LEMMA RequestedTyped ==
    MembersInv => \A k \in Kind : Requested(k) \in Nat /\ Used(k) \in Nat /\ Requested(k) <= Used(k) /\ limit[k] \in Nat /\ peak[k] \in Nat
<1> SUFFICES ASSUME MembersInv, NEW k \in Kind
             PROVE  Requested(k) \in Nat /\ Used(k) \in Nat /\ Requested(k) <= Used(k) /\ limit[k] \in Nat /\ peak[k] \in Nat
  OBVIOUS
<1>1. /\ members \in Seq(Membership) /\ tokens \in Seq([owner: Person, active: BOOLEAN])
      /\ Len(domains) \in Nat /\ imported \in 0 .. Len(domains)
  BY DEF MembersInv, MembersTyped
<1>2. Requested("members") \in Nat /\ Requested("tokens") \in Nat /\ Requested("domains") \in Nat
  BY <1>1, CountActive, RequestedCounts
<1>3. /\ Used("members") = Requested("members") /\ Used("tokens") = Requested("tokens")
      /\ Used("domains") \in Nat /\ Requested("domains") <= Used("domains")
  BY <1>1 DEF Requested, Used
<1>4. limit[k] \in Nat /\ peak[k] \in Nat
  BY MembersAssumption DEF MembersInv, MembersTyped
<1> QED
  BY <1>2, <1>3, <1>4 DEF Kind

LEMMA RequestedThen == MembersInv' => \A k \in Kind : Requested(k)' \in Nat /\ peak'[k] \in Nat
<1>1. MembersInv' => (\A k \in Kind : Requested(k) \in Nat /\ Used(k) \in Nat /\ Requested(k) <= Used(k)
                                          /\ limit[k] \in Nat /\ peak[k] \in Nat)'
  BY RequestedTyped, PTL
<1> QED
  BY <1>1

LEMMA UsersCounted ==
    ASSUME NEW k
    PROVE  /\ IsFiniteSet(Users(k)) /\ Cardinality(Users(k)) \in Nat /\ Cardinality(Users(k)) <= Cardinality(Handler)
           /\ Cardinality(Handler) \in Nat \ {0}
<1>1. Users(k) \subseteq Handler
  BY DEF Users, Underway
<1>2. Cardinality(Handler) # 0 /\ Cardinality(Handler) \in Nat
  BY MembersAssumption, FS_EmptySet, FS_CardinalityType
<1> QED
  BY <1>1, <1>2, MembersAssumption, FS_Subset, FS_CardinalityType

LEMMA BalanceStays ==
    ASSUME MembersInv, MembersInv', NEW k \in Kind, Balance(k),
           peak[k] <= peak'[k], Requested(k)' <= Requested(k), Users(k)' \subseteq Users(k)
    PROVE  Balance(k)'
<1>1. Requested(k) \in Nat /\ Requested(k)' \in Nat /\ peak[k] \in Nat /\ peak'[k] \in Nat
  BY RequestedTyped, RequestedThen
<1>2. Cardinality(Users(k)') <= Cardinality(Users(k)) /\ Cardinality(Users(k)') \in Nat /\ Cardinality(Users(k)) \in Nat
  BY UsersCounted, FS_Subset, FS_CardinalityType
<1>3. Cardinality(Handler) \in Nat
  BY UsersCounted
<1> QED
  BY <1>1, <1>2, <1>3 DEF Balance

LEMMA BalanceWhenTaken ==
    ASSUME MembersInv, NEW k \in Kind, limit[k] <= peak[k], WithinLimit(k), peak' = peak, Requested(k)' = Requested(k)
    PROVE  Balance(k)'
<1>1. Requested(k) \in Nat /\ peak[k] \in Nat /\ limit[k] \in Nat /\ Requested(k) < limit[k]
  BY RequestedTyped DEF WithinLimit
<1>2. Users(k)' \subseteq Handler
  BY DEF Users, Underway
<1>3. Cardinality(Users(k)') \in Nat /\ Cardinality(Users(k)') <= Cardinality(Handler) /\ Cardinality(Handler) \in Nat
  BY <1>2, MembersAssumption, FS_Subset, FS_CardinalityType
<1> QED
  BY <1>1, <1>3 DEF Balance

LEMMA BalanceAtCommit ==
    ASSUME MembersInv, MembersInv', NEW k \in Kind, Balance(k), NEW h \in Users(k),
           peak' = peak, Requested(k)' <= Requested(k) + 1, Users(k)' = Users(k) \ {h}
    PROVE  Balance(k)'
<1>1. Requested(k) \in Nat /\ Requested(k)' \in Nat /\ peak[k] \in Nat
  BY RequestedTyped, RequestedThen
<1>2. Cardinality(Users(k)') = Cardinality(Users(k)) - 1 /\ Cardinality(Users(k)) \in Nat /\ Cardinality(Handler) \in Nat
  BY UsersCounted, FS_RemoveElement
<1> QED
  BY <1>1, <1>2 DEF Balance

\* Taking a request and finishing it changes who is at what as one would think
LEMMA UsersTake ==
    ASSUME task \in [Handler -> Task], NEW h \in Handler, NEW t, Take(h, t), NEW k \in Kind, t.do # Doing[k]
    PROVE  Users(k)' \subseteq Users(k)
BY DEF Take, Users, Underway

LEMMA UsersFinish ==
    ASSUME task \in [Handler -> Task], NEW h \in Handler, Finish(h), NEW k \in Kind
    PROVE  Users(k)' = Users(k) \ {h}
<1>1. Free.do # Doing[k]
  BY DEF Free, Doing, Kind
<1> QED
  BY <1>1 DEF Finish, Users, Underway

LEMMA LimitTaken ==
    ASSUME LimitInv, MembersInv', NEW h \in Handler, NEW t, Take(h, t), UNCHANGED <<members, tokens, domains, limit, peak, imported>>,
           \A k \in Kind : t.do = Doing[k] => WithinLimit(k)
    PROVE  LimitInv'
<1>1. MembersInv /\ task \in [Handler -> Task]
  BY DEF LimitInv, MembersInv, MembersTyped
<1>2. ASSUME NEW k \in Kind PROVE Balance(k)'
  <2>1. Requested(k)' = Requested(k) /\ limit[k] <= peak[k] /\ Balance(k) /\ peak'[k] = peak[k]
    BY DEF Requested, Used, LimitInv
  <2>2. CASE t.do = Doing[k]
    BY <1>1, <2>1, <2>2, BalanceWhenTaken
  <2>3. CASE t.do # Doing[k]
    <3>1. Users(k)' \subseteq Users(k)
      BY <1>1, <2>3, UsersTake
    <3>2. peak[k] <= peak'[k] /\ Requested(k)' <= Requested(k)
      BY <1>1, <2>1, RequestedTyped
    <3> QED
      BY <1>1, <2>1, <3>1, <3>2, BalanceStays
  <2> QED
    BY <2>2, <2>3
<1> QED
  BY <1>1, <1>2 DEF LimitInv

LEMMA LimitFinished ==
    ASSUME LimitInv, MembersInv', NEW h \in Handler, Finish(h), UNCHANGED <<limit, peak>>,
           \A k \in Kind : Requested(k)' <= Requested(k) \/ (h \in Users(k) /\ Requested(k)' <= Requested(k) + 1)
    PROVE  LimitInv'
<1>1. MembersInv /\ task \in [Handler -> Task]
  BY DEF LimitInv, MembersInv, MembersTyped
<1>2. ASSUME NEW k \in Kind PROVE Balance(k)'
  <2>1. Balance(k) /\ Users(k)' = Users(k) \ {h}
    BY <1>1, UsersFinish DEF LimitInv
  <2>2. CASE Requested(k)' <= Requested(k)
    <3>1. peak[k] <= peak'[k] /\ Users(k)' \subseteq Users(k)
      BY <1>1, <2>1, RequestedTyped
    <3> QED
      BY <1>1, <2>1, <2>2, <3>1, BalanceStays
  <2>3. CASE h \in Users(k) /\ Requested(k)' <= Requested(k) + 1
    BY <1>1, <2>1, <2>3, BalanceAtCommit
  <2> QED
    BY <2>2, <2>3
<1> QED
  BY <1>2 DEF LimitInv

LEMMA LimitStep == LimitInv /\ [MembersNext]_memberVars => LimitInv'
<1> SUFFICES ASSUME LimitInv, [MembersNext]_memberVars PROVE LimitInv'
  OBVIOUS
<1>1. MembersInv /\ MembersInv' /\ task \in [Handler -> Task] /\ members \in Seq(Membership)
  BY MembersStep DEF LimitInv, MembersInv, MembersTyped
<1>2. CASE UNCHANGED memberVars
  BY <1>1, <1>2 DEF memberVars, LimitInv, Balance, Requested, Used, Users, Underway
<1>3. ASSUME NEW h \in Handler, NEW u \in Person, NEW p \in Person, NEW r \in Role, invite_user(h, u, p, r)
      PROVE  LimitInv'
  <2>1. PICK i \in IF RowsOf(p) = {} THEN {0} ELSE RowsOf(p) :
              Take(h, [do |-> "invite", by |-> u, person |-> p, role |-> r, known |-> p \in accounts, row |-> i,
                       was |-> IF i = 0 THEN Free ELSE members[i]])
    BY <1>3 DEF invite_user
  <2> DEFINE t == [do |-> "invite", by |-> u, person |-> p, role |-> r, known |-> p \in accounts, row |-> i,
                   was |-> IF i = 0 THEN Free ELSE members[i]]
  <2>2. t.do = "invite" /\ Take(h, t)
    BY <2>1
  <2> HIDE DEF t
  <2>3. \A k \in Kind : t.do = Doing[k] => WithinLimit(k)
    BY <1>3, <2>2 DEF Kind, Doing, invite_user
  <2> QED
    BY <1>1, <1>3, <2>2, <2>3, LimitTaken DEF invite_user
<1>4. ASSUME NEW h \in Handler, NEW u \in Person, NEW i \in DOMAIN members, remove_member(h, u, i)
      PROVE  LimitInv'
  <2> DEFINE t == [do |-> "remove", by |-> u, row |-> i, was |-> members[i]]
  <2>1. t.do = "remove" /\ Take(h, t)
    BY <1>4 DEF remove_member
  <2> HIDE DEF t
  <2>2. \A k \in Kind : t.do # Doing[k]
    BY <2>1 DEF Kind, Doing
  <2> QED
    BY <1>1, <1>4, <2>1, <2>2, LimitTaken DEF remove_member
<1>5. ASSUME NEW h \in Handler, NEW u \in Person, create_token(h, u) PROVE LimitInv'
  <2> DEFINE t == [do |-> "token", by |-> u]
  <2>1. t.do = "token" /\ Take(h, t)
    BY <1>5 DEF create_token
  <2> HIDE DEF t
  <2>2. \A k \in Kind : t.do = Doing[k] => WithinLimit(k)
    BY <1>5, <2>1 DEF Kind, Doing, create_token
  <2> QED
    BY <1>1, <1>5, <2>1, <2>2, LimitTaken DEF create_token
<1>6. ASSUME NEW h \in Handler, NEW n \in DomainName, create_domain(h, n) PROVE LimitInv'
  <2> DEFINE t == [do |-> "domain", name |-> n]
  <2>1. t.do = "domain" /\ Take(h, t)
    BY <1>6 DEF create_domain
  <2> HIDE DEF t
  <2>2. \A k \in Kind : t.do = Doing[k] => WithinLimit(k)
    BY <1>6, <2>1 DEF Kind, Doing, create_domain
  <2> QED
    BY <1>1, <1>6, <2>1, <2>2, LimitTaken DEF create_domain
<1>7. ASSUME NEW h \in Handler, NEW n \in DomainName, import_domain(h, n) PROVE LimitInv'
  <2> DEFINE t == [do |-> "import", name |-> n]
  <2>1. t.do = "import" /\ Take(h, t)
    BY <1>7 DEF import_domain
  <2> HIDE DEF t
  <2>2. \A k \in Kind : t.do # Doing[k]
    BY <2>1 DEF Kind, Doing
  <2> QED
    BY <1>1, <1>7, <2>1, <2>2, LimitTaken DEF import_domain
<1>8. ASSUME NEW h \in Handler, InviteCommits(h) PROVE LimitInv'
  <2>1. Requested("tokens")' = Requested("tokens") /\ Requested("domains")' = Requested("domains") /\ Finish(h) /\ UNCHANGED <<limit, peak>>
    BY <1>8 DEF InviteCommits, Requested, Used
  <2>2. h \in Users("members")
    BY <1>8 DEF InviteCommits, Users, Doing, Underway
  <2>3. Requested("members")' <= Requested("members") + 1
    <3>1. IsFiniteSet(ActiveRows(members))
      BY <1>1, CountActive
    <3>2. \E x : ActiveRows(members') \subseteq ActiveRows(members) \cup {x}
      <4>1. CASE members' = members
        BY <4>1
      <4>2. CASE members' = Append(members, NewRow(task[h])) /\ NewRow(task[h]) \in Membership
        <5>1. ActiveRows(members') \subseteq ActiveRows(members) \cup {Len(members) + 1}
          BY <1>1, <4>2, AppendKeeps DEF ActiveRows
        <5> QED
          BY <5>1
      <4>3. CASE task[h].row \in DOMAIN members /\ Edited(members', members, task[h].row)
        <5>1. ActiveRows(members') \subseteq ActiveRows(members) \cup {task[h].row}
          BY <1>1, <4>3, EditKeeps DEF ActiveRows, Edited
        <5> QED
          BY <5>1
      <4> QED
        BY <1>1, <1>8, <4>1, <4>2, <4>3, InviteWrites
    <3>3. Requested("members")' = Cardinality(ActiveRows(members'))
      BY DEF Requested, Used, ActiveRows
    <3> QED
      BY <3>1, <3>2, <3>3, CountMore, RequestedCounts
  <2>4. \A k \in Kind : Requested(k)' <= Requested(k) \/ (h \in Users(k) /\ Requested(k)' <= Requested(k) + 1)
    BY <1>1, <2>1, <2>2, <2>3, RequestedTyped DEF Kind
  <2> QED
    BY <1>1, <2>1, <2>4, LimitFinished
<1>9. ASSUME NEW h \in Handler, RemoveCommits(h) PROVE LimitInv'
  <2>1. Requested("tokens")' = Requested("tokens") /\ Requested("domains")' = Requested("domains") /\ Finish(h) /\ UNCHANGED <<limit, peak>>
    BY <1>9 DEF RemoveCommits, Requested, Used
  <2>2. ActiveRows(members') \subseteq ActiveRows(members)
    BY <1>1, <1>9, RemoveWrites, EditKeeps DEF ActiveRows
  <2>3. Requested("members")' <= Requested("members")
    <3>1. IsFiniteSet(ActiveRows(members))
      BY <1>1, CountActive
    <3>2. Requested("members")' = Cardinality(ActiveRows(members'))
      BY DEF Requested, Used, ActiveRows
    <3> QED
      BY <2>2, <3>1, <3>2, FS_Subset, RequestedCounts
  <2>4. \A k \in Kind : Requested(k)' <= Requested(k)
    BY <1>1, <2>1, <2>3, RequestedTyped DEF Kind
  <2> QED
    BY <1>1, <2>1, <2>4, LimitFinished
<1>10. ASSUME NEW h \in Handler, create_api_token(h) PROVE LimitInv'
  <2>1. Requested("members")' = Requested("members") /\ Requested("domains")' = Requested("domains") /\ Finish(h) /\ UNCHANGED <<limit, peak>>
    BY <1>10 DEF create_api_token, Requested, Used
  <2>2. h \in Users("tokens")
    BY <1>10 DEF create_api_token, Users, Doing, Underway
  <2>3. Requested("tokens")' <= Requested("tokens") + 1
    <3> DEFINE Token == [owner: Person, active: BOOLEAN]
               r == [owner |-> task[h].by, active |-> TRUE]
    <3>1. tokens \in Seq(Token) /\ tokens' = Append(tokens, r)
      BY <1>1, <1>10 DEF create_api_token, MembersInv, MembersTyped
    <3>2. IsFiniteSet(ActiveRows(tokens))
      BY <3>1, CountActive
    <3>3. ActiveRows(tokens') \subseteq ActiveRows(tokens) \cup {Len(tokens) + 1}
      <4> HIDE DEF Token, r
      <4>1. DOMAIN tokens' = 1 .. Len(tokens) + 1 /\ DOMAIN tokens = 1 .. Len(tokens) /\ Len(tokens) \in Nat
        BY <3>1
      <4>2. \A i \in DOMAIN tokens : tokens'[i] = tokens[i]
        BY <3>1
      <4> QED
        BY <4>1, <4>2 DEF ActiveRows
    <3>4. Requested("tokens")' = Cardinality(ActiveRows(tokens'))
      BY DEF Requested, Used, ActiveRows
    <3> QED
      BY <3>2, <3>3, <3>4, CountMore, RequestedCounts
  <2>4. \A k \in Kind : Requested(k)' <= Requested(k) \/ (h \in Users(k) /\ Requested(k)' <= Requested(k) + 1)
    BY <1>1, <2>1, <2>2, <2>3, RequestedTyped DEF Kind
  <2> QED
    BY <1>1, <2>1, <2>4, LimitFinished
<1>11. ASSUME NEW h \in Handler, DomainCommits(h) PROVE LimitInv'
  <2>1. Requested("members")' = Requested("members") /\ Requested("tokens")' = Requested("tokens") /\ Finish(h) /\ UNCHANGED <<limit, peak>>
    BY <1>11 DEF DomainCommits, Requested, Used
  <2>2. /\ Len(domains') = Len(domains) + 1 /\ Len(domains) \in Nat /\ imported \in Nat
        /\ imported' = IF task[h].do = "import" THEN imported + 1 ELSE imported
    <3>1. domains \in Seq(DomainName) /\ imported \in 0 .. Len(domains) /\ domains' = Append(domains, task[h].name)
      BY <1>1, <1>11 DEF DomainCommits, MembersInv, MembersTyped
    <3>2. Len(domains') = Len(domains) + 1 /\ Len(domains) \in Nat
      BY <3>1
    <3> QED
      BY <1>11, <3>1, <3>2 DEF DomainCommits
  <2>3. Requested("domains")' <= Requested("domains") \/ (h \in Users("domains") /\ Requested("domains")' <= Requested("domains") + 1)
    <3>1. CASE task[h].do = "import"
      BY <2>2, <3>1 DEF Requested
    <3>2. CASE task[h].do = "domain"
      BY <2>2, <3>2 DEF Requested, Users, Doing, Underway
    <3> QED
      BY <1>11, <3>1, <3>2 DEF DomainCommits, Naming, Underway
  <2>4. \A k \in Kind : Requested(k)' <= Requested(k) \/ (h \in Users(k) /\ Requested(k)' <= Requested(k) + 1)
    BY <1>1, <2>1, <2>3, RequestedTyped DEF Kind
  <2> QED
    BY <1>1, <2>1, <2>4, LimitFinished
<1>12. ASSUME NEW h \in Handler, RequestLost(h) PROVE LimitInv'
  <2>1. UNCHANGED <<members, tokens, domains, imported, limit, peak>> /\ Finish(h)
    BY <1>12 DEF RequestLost
  <2>2. \A k \in Kind : Requested(k)' = Requested(k)
    BY <2>1 DEF Requested, Used
  <2> QED
    BY <1>1, <2>1, <2>2, RequestedTyped, LimitFinished
<1>13. ASSUME NEW u \in Person, NEW i \in DOMAIN tokens, revoke_token(u, i) PROVE LimitInv'
  <2>1. UNCHANGED <<members, domains, imported, task, limit, peak>> /\ tokens' = [tokens EXCEPT ![i].active = FALSE]
    BY <1>13 DEF revoke_token
  <2>2. ActiveRows(tokens') \subseteq ActiveRows(tokens)
    <3>1. tokens \in Seq([owner: Person, active: BOOLEAN])
      BY <1>1 DEF MembersInv, MembersTyped
    <3>2. DOMAIN tokens' = DOMAIN tokens /\ \A j \in DOMAIN tokens : j # i => tokens'[j] = tokens[j]
      BY <2>1, <3>1
    <3>3. tokens'[i].active = FALSE
      <4> DEFINE Token == [owner: Person, active: BOOLEAN]
      <4>1. tokens \in Seq(Token)
        BY <3>1
      <4>2. tokens[i] \in Token
        <5> HIDE DEF Token
        <5> QED
          BY <4>1
      <4> QED
        BY <2>1, <3>1, <4>2
    <3> QED
      BY <3>2, <3>3 DEF ActiveRows
  <2>3. Requested("tokens")' <= Requested("tokens")
    <3>1. tokens \in Seq([owner: Person, active: BOOLEAN])
      BY <1>1 DEF MembersInv, MembersTyped
    <3>2. Requested("tokens")' = Cardinality(ActiveRows(tokens'))
      BY DEF Requested, Used, ActiveRows
    <3> QED
      BY <2>2, <3>1, <3>2, CountActive, FS_Subset, RequestedCounts
  <2>4. Requested("members")' = Requested("members") /\ Requested("domains")' = Requested("domains")
    BY <2>1 DEF Requested, Used
  <2>5. ASSUME NEW k \in Kind PROVE Balance(k)'
    <3>1. Requested(k)' <= Requested(k)
      BY <1>1, <2>3, <2>4, RequestedTyped DEF Kind
    <3>2. Users(k)' \subseteq Users(k) /\ peak[k] <= peak'[k] /\ Balance(k)
      BY <1>1, <2>1, RequestedTyped DEF Users, Underway, LimitInv
    <3> QED
      BY <1>1, <3>1, <3>2, BalanceStays
  <2> QED
    BY <1>1, <2>1, <2>5 DEF LimitInv
<1>14. ASSUME NEW k \in Kind, NEW v \in Limit, org_limits(k, v) PROVE LimitInv'
  <2>1. limit \in [Kind -> Limit] /\ peak \in [Kind -> Limit] /\ Limit \subseteq Nat
    BY <1>1, MembersAssumption DEF MembersInv, MembersTyped
  <2>2. \A x \in Kind : limit'[x] <= peak'[x] /\ peak[x] <= peak'[x]
    <3> SUFFICES ASSUME NEW x \in Kind PROVE limit'[x] <= peak'[x] /\ peak[x] <= peak'[x]
      OBVIOUS
    <3>1. /\ limit[x] \in Nat /\ peak[x] \in Nat /\ limit[x] <= peak[x] /\ v \in Nat
          /\ limit'[x] = IF x = k THEN v ELSE limit[x]
          /\ peak'[x] = IF x = k THEN (IF v > peak[x] THEN v ELSE peak[x]) ELSE peak[x]
      BY <1>14, <2>1 DEF org_limits, LimitInv
    <3> QED
      BY <3>1
  <2>3. UNCHANGED <<members, tokens, domains, imported, task>>
    BY <1>14 DEF org_limits
  <2>4. ASSUME NEW x \in Kind PROVE Balance(x)'
    <3>1. Requested(x)' = Requested(x) /\ Users(x)' = Users(x) /\ Balance(x)
      BY <2>3 DEF Requested, Used, Users, Underway, LimitInv
    <3>2. Requested(x)' <= Requested(x)
      BY <1>1, <3>1, RequestedTyped
    <3> QED
      BY <1>1, <2>2, <3>1, <3>2, BalanceStays
  <2> QED
    BY <1>1, <2>2, <2>4 DEF LimitInv
<1> QED
  BY <1>2, <1>3, <1>4, <1>5, <1>6, <1>7, <1>8, <1>9, <1>10, <1>11, <1>12, <1>13, <1>14 DEF MembersNext

(* Members, tokens and domains are counted before a request inserts one (invite_user, create_token, create_domain): what
   requests have made is never more than the highest limit so far and the requests beyond one that counted at the same time,
   for any number of requests, any changes of the limits, limits of 0 included, and whatever domains imports add on top. *)
THEOREM LimitsAreKept == MembersSpec => []LimitsHold
<1>1. MembersInit => LimitInv
  <2> SUFFICES ASSUME MembersInit PROVE LimitInv
    OBVIOUS
  <2>1. MembersInv
    BY MembersStart
  <2>2. ASSUME NEW k \in Kind PROVE limit[k] <= peak[k] /\ Balance(k)
    <3>1. limit[k] = peak[k] /\ peak[k] \in Nat /\ peak[k] >= LIMITS[k]
      BY MembersAssumption DEF MembersInit
    <3>2. Requested(k) <= LIMITS[k] /\ Requested(k) \in Nat /\ LIMITS[k] \in Nat
      <4>1. Cardinality(ActiveRows(members)) <= 1
        <5>1. ActiveRows(members) \subseteq {1}
          BY DEF MembersInit, ActiveRows
        <5> QED
          BY <5>1, CountOne DEF AtMostOne
      <4>2. Cardinality(ActiveRows(tokens)) = 0
        <5>1. tokens = <<>>
          BY DEF MembersInit
        <5>2. ActiveRows(tokens) = {}
          BY <5>1 DEF ActiveRows
        <5> QED
          BY <5>2, FS_EmptySet
      <4>3. Len(domains) - imported = 0
        BY DEF MembersInit
      <4> QED
        BY <2>1, <4>1, <4>2, <4>3, RequestedCounts, RequestedTyped DEF Kind, LIMITS
    <3>3. Users(k) = {}
      BY DEF MembersInit, Users, Underway, Free, Doing, Kind
    <3>4. Cardinality(Users(k)) = 0 /\ Cardinality(Handler) \in Nat \ {0}
      BY <3>3, FS_EmptySet, UsersCounted
    <3> QED
      BY <3>1, <3>2, <3>4 DEF Balance
  <2> QED
    BY <2>1, <2>2 DEF LimitInv
<1>2. LimitInv => LimitsHold
  <2> SUFFICES ASSUME LimitInv, NEW k \in Kind PROVE Requested(k) < peak[k] + Cardinality(Handler)
    BY DEF LimitsHold
  <2>1. Requested(k) \in Nat /\ peak[k] \in Nat
    BY RequestedTyped DEF LimitInv
  <2>2. Cardinality(Users(k)) \in Nat /\ Cardinality(Handler) \in Nat
    BY UsersCounted
  <2> QED
    BY <2>1, <2>2 DEF LimitInv, Balance
<1> QED
  BY <1>1, <1>2, LimitStep, PTL DEF MembersSpec

(* What a request asked before its insert holds afterwards: the limits and the single rows together (users.py, domains.py,
   api_tokens.py). *)
THEOREM AnswersAreTrue == MembersSpec => []AnswersHold
BY LimitsAreKept, NobodyIsThereTwice, PTL DEF AnswersHold

(* The rows of an organisation keep their types, and requests name rows that are there. *)
THEOREM MembersTypeCorrect == MembersSpec => []MembersTypeOK
<1>1. MembersInv => MembersTypeOK
  BY TaskFields DEF MembersInv, MembersTyped, MembersTypeOK, Membership
<1> QED
  BY <1>1, MembersStart, MembersStep, PTL DEF MembersSpec

-----------------------------------------------------------------------------
(* The thresholds of an organisation: after a save that nothing got in between, the rows are what was saved *)

SettingsRow == [id : RowId, key : Field, value : Value]

RowsOfField(rows, k) == {r \in rows : r.key = k}

\* A row for each field that is set, with its value, and none for the others
Exactly(rows, wanted) ==
    \A k \in Field :
        /\ \A r, s \in RowsOfField(rows, k) : r = s
        /\ \A r \in RowsOfField(rows, k) : r.value = wanted[k]
        /\ RowsOfField(rows, k) = {} <=> wanted[k] = Unset

SetBoth(wanted) == wanted["lower"] # Unset /\ wanted["upper"] # Unset

IdsApart(rows) == \A r, s \in rows : r.id = s.id => r = s

PickApart(pick) ==
    /\ \A k \in Field : pick[k] # NoRow => pick[k] \in SettingsRow /\ pick[k].key = k
    /\ pick["lower"] # NoRow /\ pick["upper"] # NoRow => pick["lower"].id # pick["upper"].id

SavingInv(s) ==
    \/ s = No
    \/ /\ s # No /\ s = [wanted |-> s.wanted, pick |-> s.pick, late |-> s.late]
       /\ s.wanted \in Fields /\ s.late \in BOOLEAN
       /\ PickApart(s.pick)
       /\ Ordered(s.wanted) /\ (SetBoth(s.wanted) => _rate_order(s.wanted))
       /\ ~s.late => s.pick \in Picked(appSettings)

ThresholdsInv ==
    /\ appSettings \subseteq SettingsRow /\ IdsApart(appSettings)
    /\ dotenv \in [Field -> Value] /\ _rate_order(dotenv)
    /\ wish \in Fields /\ moved \in BOOLEAN /\ mixed \in BOOLEAN
    /\ DOMAIN saving = Editor /\ \A e \in Editor : SavingInv(saving[e])
    /\ SetBoth(wish) => _rate_order(wish)
    /\ ~moved => Ordered(wish)
    /\ ~mixed => Exactly(appSettings, wish)

LEMMA FieldsApart == Field = {"lower", "upper"} /\ "lower" # "upper"
BY DEF Field

LEMMA RowsAreNotNone == \A r \in SettingsRow : r # NoRow
BY DEF SettingsRow, NoRow

(* What people read, and in which order the pair is *)

LEMMA ReadsTheWish ==
    ASSUME appSettings \subseteq SettingsRow, wish \in Fields, Exactly(appSettings, wish)
    PROVE  own_values = {wish}
<1>1. ASSUME NEW k \in Field, NEW v
      PROVE  (IF RowsOfField(appSettings, k) = {} THEN v = Unset ELSE \E r \in RowsOfField(appSettings, k) : r.value = v)
                <=> v = wish[k]
  BY DEF Exactly
<1>2. \A values \in Fields :
        (\A k \in Field : LET mine == {r \in appSettings : r.key = k}
                          IN  IF mine = {} THEN values[k] = Unset ELSE \E r \in mine : r.value = values[k])
          <=> \A k \in Field : values[k] = wish[k]
  BY <1>1 DEF RowsOfField
<1>3. \A values \in Fields : (\A k \in Field : values[k] = wish[k]) <=> values = wish
  BY DEF Fields
<1> QED
  BY <1>2, <1>3 DEF own_values

LEMMA PairIsOrdered ==
    ASSUME ThresholdsInv, ~moved \/ (wish["lower"] = Unset <=> wish["upper"] = Unset)
    PROVE  _rate_order(Effective(wish))
<1>1. \A k \in Field : Effective(wish)[k] = IF wish[k] = Unset THEN dotenv[k] ELSE wish[k]
  BY DEF Effective
<1>2. CASE wish["lower"] = Unset /\ wish["upper"] = Unset
  BY <1>1, <1>2, FieldsApart DEF ThresholdsInv, _rate_order
<1>3. CASE SetBoth(wish)
  BY <1>1, <1>3, FieldsApart DEF ThresholdsInv, _rate_order, SetBoth
<1>4. CASE ~moved /\ \E k \in Field : wish[k] # Unset
  BY <1>4 DEF ThresholdsInv, Ordered
<1> QED
  BY <1>2, <1>3, <1>4, FieldsApart DEF SetBoth

(* A save of what was read from rows with different ids *)

LEMMA PickedApart == ASSUME ThresholdsInv, NEW pick \in Picked(appSettings) PROVE PickApart(pick)
<1>1. ASSUME NEW k \in Field, pick[k] # NoRow PROVE pick[k] \in appSettings /\ pick[k].key = k
  BY <1>1 DEF Picked
<1>2. pick["lower"] # NoRow /\ pick["upper"] # NoRow => pick["lower"].id # pick["upper"].id
  BY <1>1, FieldsApart DEF ThresholdsInv, IdsApart
<1> QED
  BY <1>1, <1>2 DEF PickApart, ThresholdsInv

\* The ids of new rows are nobody's
Unused(old, s, id) ==
    /\ \A k \in Added(s) : /\ id[k] \in RowId
                           /\ \A r \in old : r.id # id[k]
                           /\ \A l \in Field : s.pick[l] # NoRow => s.pick[l].id # id[k]
    /\ \A k, l \in Added(s) : k # l => id[k] # id[l]

\* The rows that Stored is made of
LEMMA StoredRows ==
    ASSUME NEW s, NEW id
    PROVE  /\ \A r \in Stored(s, id) : \/ r \in appSettings /\ \A k \in Gone(s) \cup Changed(s) : r.id # s.pick[k].id
                                       \/ \E k \in Changed(s) : r = [id |-> s.pick[k].id, key |-> k, value |-> s.wanted[k]]
                                       \/ \E k \in Added(s) : r = [id |-> id[k], key |-> k, value |-> s.wanted[k]]
           /\ \A r \in appSettings : (\A k \in Gone(s) \cup Changed(s) : r.id # s.pick[k].id) => r \in Stored(s, id)
           /\ \A k \in Changed(s) : [id |-> s.pick[k].id, key |-> k, value |-> s.wanted[k]] \in Stored(s, id)
           /\ \A k \in Added(s) : [id |-> id[k], key |-> k, value |-> s.wanted[k]] \in Stored(s, id)
BY DEF Stored

LEMMA StoredTyped ==
    ASSUME appSettings \subseteq SettingsRow, IdsApart(appSettings), NEW s, PickApart(s.pick), s.wanted \in Fields,
           NEW id, Unused(appSettings, s, id)
    PROVE  Stored(s, id) \subseteq SettingsRow /\ IdsApart(Stored(s, id))
<1> DEFINE New(k) == [id |-> id[k], key |-> k, value |-> s.wanted[k]]
           Other(k) == [id |-> s.pick[k].id, key |-> k, value |-> s.wanted[k]]
           changed == Changed(s)
           added == Added(s)
           new == Stored(s, id)
<1>1. \A r \in new : \/ r \in appSettings /\ \A k \in changed : r.id # s.pick[k].id
                     \/ \E k \in changed : r = Other(k)
                     \/ \E k \in added : r = New(k)
  BY StoredRows
<1>2. \A k \in changed : Other(k).id = s.pick[k].id /\ Other(k).key = k /\ Other(k) \in SettingsRow
  BY DEF Changed, PickApart, SettingsRow, Fields
<1>3. \A k \in added : New(k).id = id[k] /\ New(k).key = k /\ New(k) \in SettingsRow
  BY DEF Added, Unused, SettingsRow, Fields
<1>4. \A k, l \in changed : k # l => s.pick[k].id # s.pick[l].id
  BY FieldsApart DEF PickApart, Changed
<1>5. \A k \in added : (\A r \in appSettings : r.id # id[k]) /\ (\A l \in changed : s.pick[l].id # id[k])
  BY DEF Unused, Changed
<1>6. \A k, l \in added : k # l => id[k] # id[l]
  BY DEF Unused
<1> HIDE DEF Other, New, changed, added, new
<1>7. new \subseteq SettingsRow
  BY <1>1, <1>2, <1>3
<1>8. ASSUME NEW r \in new, NEW t \in new, r.id = t.id PROVE r = t
  <2>1. CASE r \in appSettings /\ \A k \in changed : r.id # s.pick[k].id
    BY <1>1, <1>2, <1>3, <1>5, <1>8, <2>1 DEF IdsApart
  <2>2. CASE \E k \in changed : r = Other(k)
    BY <1>1, <1>2, <1>3, <1>4, <1>5, <1>8, <2>2
  <2>3. CASE \E k \in added : r = New(k)
    BY <1>1, <1>2, <1>3, <1>5, <1>6, <1>8, <2>3
  <2> QED
    BY <1>1, <2>1, <2>2, <2>3
<1> QED
  BY <1>7, <1>8 DEF IdsApart, new

(* A save that has read the rows it changes, one for a field, leaves exactly what it wants. *)
LEMMA StoredExactly ==
    ASSUME appSettings \subseteq SettingsRow, IdsApart(appSettings), \A r, t \in appSettings : r.key = t.key => r = t,
           NEW s, s.pick \in Picked(appSettings), s.wanted \in Fields, NEW id, Unused(appSettings, s, id)
    PROVE  Exactly(Stored(s, id), s.wanted)
<1> DEFINE pick == s.pick
           wanted == s.wanted
           gone == Gone(s)
           changed == Changed(s)
           added == Added(s)
           Other(k) == [id |-> pick[k].id, key |-> k, value |-> wanted[k]]
           New(k) == [id |-> id[k], key |-> k, value |-> wanted[k]]
           new == Stored(s, id)
<1> SUFFICES ASSUME NEW k \in Field
             PROVE  /\ \A r, t \in RowsOfField(new, k) : r = t
                    /\ \A r \in RowsOfField(new, k) : r.value = wanted[k]
                    /\ RowsOfField(new, k) = {} <=> wanted[k] = Unset
  BY DEF Exactly
<1>1. \A l \in Field : pick[l] # NoRow => pick[l] \in appSettings /\ pick[l].key = l
  BY DEF Picked
<1>2. \A l \in Field : pick[l] = NoRow => \A r \in appSettings : r.key # l
  <2>1. ASSUME NEW l \in Field, NEW r \in appSettings, r.key = l PROVE pick[l] \in appSettings
    BY <2>1 DEF Picked
  <2> QED
    BY <2>1, RowsAreNotNone
<1>3. \A r \in new : \/ r \in appSettings /\ \A l \in gone \cup changed : r.id # pick[l].id
                     \/ \E l \in changed : r = Other(l)
                     \/ \E l \in added : r = New(l)
  BY StoredRows
<1>4. /\ \A r \in appSettings : (\A l \in gone \cup changed : r.id # pick[l].id) => r \in new
      /\ \A l \in changed : Other(l) \in new
      /\ \A l \in added : New(l) \in new
  BY StoredRows
<1>5. \A l : Other(l).key = l /\ Other(l).value = wanted[l] /\ New(l).key = l /\ New(l).value = wanted[l]
  OBVIOUS
<1>6. \A r \in appSettings : \A l \in Field : pick[l] # NoRow => (r.id = pick[l].id <=> r.key = l)
  BY <1>1 DEF IdsApart
<1>7. k \in gone <=> wanted[k] = Unset /\ pick[k] # NoRow
  BY DEF Gone
<1>8. k \in changed <=> wanted[k] # Unset /\ pick[k] # NoRow /\ pick[k].value # wanted[k]
  BY DEF Changed
<1>9. k \in added <=> wanted[k] # Unset /\ pick[k] = NoRow
  BY DEF Added
<1>10. \A l \in gone \cup changed : l \in Field /\ pick[l] # NoRow
  BY DEF Gone, Changed
<1> HIDE DEF Other, New, gone, changed, added, new, pick, wanted
<1>11. CASE wanted[k] = Unset
  <2>1. ASSUME NEW r \in new, r.key = k PROVE FALSE
    <3>1. r \in appSettings /\ \A l \in gone \cup changed : r.id # pick[l].id
      BY <1>3, <1>5, <1>8, <1>9, <1>11, <2>1
    <3>2. pick[k] # NoRow /\ r.id = pick[k].id
      BY <1>2, <1>6, <2>1, <3>1
    <3> QED
      BY <1>7, <1>11, <3>1, <3>2
  <2> QED
    BY <1>11, <2>1 DEF RowsOfField
<1>12. CASE k \in changed
  <2>1. ASSUME NEW r \in new, r.key = k PROVE r = Other(k)
    BY <1>3, <1>5, <1>6, <1>8, <1>9, <1>12, <2>1
  <2>2. Other(k) \in RowsOfField(new, k)
    BY <1>4, <1>5, <1>12 DEF RowsOfField
  <2> QED
    BY <1>5, <1>8, <1>12, <2>1, <2>2 DEF RowsOfField
<1>13. CASE k \in added
  <2>1. ASSUME NEW r \in new, r.key = k PROVE r = New(k)
    BY <1>2, <1>3, <1>5, <1>8, <1>9, <1>13, <2>1
  <2>2. New(k) \in RowsOfField(new, k)
    BY <1>4, <1>5, <1>13 DEF RowsOfField
  <2> QED
    BY <1>5, <1>9, <1>13, <2>1, <2>2 DEF RowsOfField
<1>14. CASE wanted[k] # Unset /\ pick[k] # NoRow /\ pick[k].value = wanted[k]
  <2>1. pick[k] \in new
    <3>1. \A l \in gone \cup changed : l # k
      BY <1>7, <1>8, <1>14
    <3> QED
      BY <1>1, <1>4, <1>6, <1>10, <1>14, <3>1
  <2>2. ASSUME NEW r \in new, r.key = k PROVE r = pick[k]
    <3>1. r \in appSettings
      BY <1>3, <1>5, <1>8, <1>9, <1>14, <2>2
    <3> QED
      BY <1>1, <1>14, <2>2, <3>1
  <2> QED
    BY <1>1, <1>14, <2>1, <2>2 DEF RowsOfField
<1> QED
  BY <1>8, <1>9, <1>11, <1>12, <1>13, <1>14

(* The steps *)

LEMMA SettingsStart == ThresholdsInit => ThresholdsInv
<1> SUFFICES ASSUME ThresholdsInit PROVE ThresholdsInv
  OBVIOUS
<1>1. wish \in Fields /\ \A k \in Field : wish[k] = Unset
  BY DEF ThresholdsInit, Fields
<1>2. Ordered(wish) /\ ~SetBoth(wish)
  BY <1>1, FieldsApart DEF Ordered, SetBoth
<1>3. Exactly(appSettings, wish)
  BY <1>1 DEF ThresholdsInit, Exactly, RowsOfField
<1> QED
  BY <1>1, <1>2, <1>3 DEF ThresholdsInit, ThresholdsInv, IdsApart, SavingInv

LEMMA SaveReads ==
    ASSUME ThresholdsInv, NEW e \in Editor, NEW wanted \in Fields, save_thresholds(e, wanted)
    PROVE  ThresholdsInv'
<1>1. PICK pick \in Picked(appSettings) :
        saving' = [saving EXCEPT ![e] = [wanted |-> wanted, pick |-> pick, late |-> FALSE]]
  BY DEF save_thresholds
<1>2. Ordered(wanted) /\ UNCHANGED <<appSettings, dotenv, wish, moved, mixed>> /\ PickApart(pick)
  BY PickedApart DEF save_thresholds
<1>3. SetBoth(wanted) => _rate_order(wanted)
  <2>1. SetBoth(wanted) => \A k \in Field : Effective(wanted)[k] = wanted[k]
    BY FieldsApart DEF Effective, SetBoth
  <2> QED
    BY <1>2, <2>1, FieldsApart DEF Ordered, SetBoth, _rate_order
<1> DEFINE s == [wanted |-> wanted, pick |-> pick, late |-> FALSE]
<1>4. SavingInv(s)
  BY <1>1, <1>2, <1>3 DEF SavingInv, No
<1> HIDE DEF s
<1>5. \A d \in Editor : SavingInv(saving'[d])
  BY <1>1, <1>4 DEF ThresholdsInv, s
<1>6. \A d \in Editor : SavingInv(saving[d])'
  BY <1>2, <1>5 DEF SavingInv, Ordered, Effective
<1> QED
  BY <1>1, <1>2, <1>6 DEF ThresholdsInv, Ordered, Effective

LEMMA LateRow ==
    ASSUME NEW w, NEW p, NEW l, NEW t, t = [wanted |-> w, pick |-> p, late |-> l]
    PROVE  Late(t) = [wanted |-> w, pick |-> p, late |-> TRUE]
<1>1. ASSUME NEW x PROVE [t EXCEPT !.late = x] = [wanted |-> w, pick |-> p, late |-> x]
  OBVIOUS
<1> QED
  BY <1>1, Zenon DEF Late

LEMMA SaveWrites == ASSUME ThresholdsInv, NEW e \in Editor, SaveCommits(e) PROVE ThresholdsInv'
<1> DEFINE s == saving[e]
<1>1. s # No /\ s.wanted \in Fields /\ PickApart(s.pick)
      /\ Ordered(s.wanted) /\ (SetBoth(s.wanted) => _rate_order(s.wanted)) /\ s.late \in BOOLEAN
      /\ (~s.late => s.pick \in Picked(appSettings))
  BY DEF SaveCommits, ThresholdsInv, SavingInv
<1>2. PICK id \in [Added(s) -> FreeIds] : (\A k, l \in Added(s) : k # l => id[k] # id[l]) /\ appSettings' = Stored(s, id)
  BY DEF SaveCommits
<1>3. wish' = s.wanted /\ moved' = FALSE /\ dotenv' = dotenv
      /\ saving' = [d \in Editor |-> IF d = e \/ saving[d] = No THEN No ELSE Late(saving[d])]
  BY DEF SaveCommits
<1>4. mixed' = (s.late \/ Doubles)
  BY DEF SaveCommits
<1>5. Unused(appSettings, s, id)
  <2>1. \A k \in Added(s) : id[k] \in FreeIds
    BY <1>2
  <2>2. \A i \in FreeIds : \A l \in Field : s.pick[l].id # i
    BY <1>1 DEF FreeIds
  <2>3. \A i \in FreeIds : i \in RowId /\ \A r \in appSettings : r.id # i
    BY DEF FreeIds
  <2> QED
    BY <1>2, <2>1, <2>2, <2>3 DEF Unused
<1> HIDE DEF s
<1>6. appSettings' \subseteq SettingsRow /\ IdsApart(appSettings')
  BY <1>1, <1>2, <1>5, StoredTyped DEF ThresholdsInv
<1>7. ASSUME ~mixed' PROVE Exactly(appSettings', wish')
  <2>1. \A late, doubles : mixed' = (late \/ doubles) => ~late /\ ~doubles
    BY <1>7
  <2>2. ~s.late /\ ~Doubles
    BY <1>4, <2>1
  <2>3. \A r, t \in appSettings : r.key = t.key => r = t
    BY <2>2 DEF Doubles, ThresholdsInv, IdsApart
  <2> QED
    BY <1>1, <1>2, <1>3, <1>5, <2>2, <2>3, StoredExactly DEF ThresholdsInv
<1>8. Ordered(wish)' /\ (SetBoth(wish)' => _rate_order(wish'))
  BY <1>1, <1>3 DEF Ordered, Effective, SetBoth
<1>9. ASSUME NEW d \in Editor PROVE SavingInv(saving[d])'
  <2>1. CASE d = e \/ saving[d] = No
    <3>1. saving'[d] = No
      BY <1>3, <2>1
    <3> QED
      BY <3>1 DEF SavingInv
  <2>2. CASE d # e /\ saving[d] # No
    <3> DEFINE t == saving[d]
               u == [wanted |-> t.wanted, pick |-> t.pick, late |-> TRUE]
    <3>1. saving'[d] = Late(t)
      BY <1>3, <2>2
    <3>2. SavingInv(t) /\ t # No
      BY <2>2 DEF ThresholdsInv
    <3>3. t = [wanted |-> t.wanted, pick |-> t.pick, late |-> t.late]
      BY <3>2 DEF SavingInv
    <3> HIDE DEF t
    <3>4. Late(t) = u
      BY <3>3, LateRow
    <3>5. u # No /\ u = [wanted |-> u.wanted, pick |-> u.pick, late |-> u.late] /\ u.late = TRUE
          /\ u.wanted = t.wanted /\ u.pick = t.pick
      BY DEF No
    <3> HIDE DEF u
    <3>6. u.wanted \in Fields /\ u.late \in BOOLEAN /\ PickApart(u.pick)
          /\ Ordered(u.wanted) /\ (SetBoth(u.wanted) => _rate_order(u.wanted))
      BY <3>2, <3>5 DEF SavingInv
    <3> QED
      BY <1>3, <3>1, <3>4, <3>5, <3>6 DEF SavingInv, Ordered, Effective
  <2> QED
    BY <2>1, <2>2
<1>10. mixed' \in BOOLEAN
  <2>1. \A late, doubles : (late \/ doubles) \in BOOLEAN
    OBVIOUS
  <2> QED
    BY <1>4, <2>1
<1>11. wish' \in Fields /\ moved' \in BOOLEAN /\ DOMAIN saving' = Editor
  BY <1>1, <1>3
<1> QED
  BY <1>3, <1>6, <1>7, <1>8, <1>9, <1>10, <1>11 DEF ThresholdsInv

LEMMA SaveIsLost == ASSUME ThresholdsInv, NEW e \in Editor, SaveFails(e) PROVE ThresholdsInv'
<1>1. \A d \in Editor : saving'[d] = No \/ saving'[d] = saving[d]
  BY DEF SaveFails, ThresholdsInv
<1>2. UNCHANGED <<appSettings, dotenv, wish, moved, mixed>> /\ DOMAIN saving' = Editor
  BY DEF SaveFails, ThresholdsInv
<1>3. \A d \in Editor : SavingInv(saving[d])'
  BY <1>1, <1>2 DEF ThresholdsInv, SavingInv, Ordered, Effective
<1> QED
  BY <1>2, <1>3 DEF ThresholdsInv, Ordered, Effective

LEMMA EnvComes == ASSUME ThresholdsInv, NewEnv PROVE ThresholdsInv'
BY DEF NewEnv, ThresholdsInv, SavingInv

LEMMA ThresholdsStep == ThresholdsInv /\ [ThresholdsNext]_thresholdVars => ThresholdsInv'
<1> SUFFICES ASSUME ThresholdsInv, [ThresholdsNext]_thresholdVars PROVE ThresholdsInv'
  OBVIOUS
<1>1. CASE UNCHANGED thresholdVars
  BY <1>1 DEF thresholdVars, ThresholdsInv, SavingInv, Ordered, Effective
<1> QED
  BY <1>1, SaveReads, SaveWrites, SaveIsLost, EnvComes DEF ThresholdsNext

(* For any values, requests and order of saves: unless another save was on its way or rows were double, what applies is what
   was saved last, and in order (own_values, thresholds_for, save_thresholds). *)
THEOREM LastSaveApplies == ThresholdsSpec => []SettingsHold
<1>1. ThresholdsInv => SettingsHold
  <2> SUFFICES ASSUME ThresholdsInv, ~mixed
               PROVE  /\ own_values = {wish}
                      /\ ~moved \/ (wish["lower"] = Unset <=> wish["upper"] = Unset) =>
                            \A values \in thresholds_for : _rate_order(values)
    BY DEF SettingsHold
  <2>1. own_values = {wish}
    BY ReadsTheWish DEF ThresholdsInv
  <2>2. thresholds_for = {Effective(wish)}
    BY <2>1 DEF thresholds_for
  <2> QED
    BY <2>1, <2>2, PairIsOrdered
<1> QED
  BY <1>1, SettingsStart, ThresholdsStep, PTL DEF ThresholdsSpec

(* The rows keep their types, and ids name one row, whatever saves overlap. *)
THEOREM ThresholdsTypeCorrect == ThresholdsSpec => []ThresholdsTypeOK
<1>1. ThresholdsInv => ThresholdsTypeOK
  BY DEF ThresholdsInv, ThresholdsTypeOK, SettingsRow, IdsApart
<1> QED
  BY <1>1, SettingsStart, ThresholdsStep, PTL DEF ThresholdsSpec
=============================================================================
