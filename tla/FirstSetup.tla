------------------------------ MODULE FirstSetup ------------------------------
(***************************************************************************)
(* The first administrator (app/services/setup.py, app/setup_code.py,      *)
(* setup_submit of app/routers/auth.py, _announce_setup of app/main.py).   *)
(*                                                                         *)
(* Two tools, the start of the application and the command line, may make  *)
(* the code at the same time; nothing in the database keeps them from      *)
(* making two.  The lock against guessing is that of Accounts and left     *)
(* out, as are forms that are refused for what they say.                   *)
(***************************************************************************)
EXTENDS Integers, FiniteSets

CONSTANTS
    Tool,        \* runs of ensure_setup_code
    Visitor,     \* requests to /auth/setup
    MaxCodes,    \* bound on codes
    MaxLost      \* bound on lost requests

ASSUME SetupNumbers == MaxCodes \in Nat /\ MaxLost \in Nat /\ IsFiniteSet(Tool)

Code == 1 .. MaxCodes

VARIABLES
    codes,       \* rows of AppSettings with the key setup_code
    made,        \* codes made so far
    admins,      \* administrators
    tool,        \* tool[t]: where it stands
    visit,       \* visit[v]: where it stands
    held,        \* held[v]: the row it has deleted and not yet committed, or the one it has read
    doubled,     \* a code was made although there was one, or an administrator (history)
    lost

setupVars == <<codes, made, admins, tool, visit, held, doubled, lost>>

SetupTypeOK ==
    /\ codes \subseteq Code /\ made \in 0 .. MaxCodes /\ admins \subseteq Visitor
    /\ tool \in [Tool -> {"idle", "insert", "clear"}]
    /\ visit \in [Visitor -> {"none", "open", "matched", "won", "done"}] /\ held \in [Visitor -> Code \cup {0}]
    /\ doubled \in BOOLEAN /\ lost \in 0 .. MaxLost

SetupInit ==
    /\ codes = {} /\ made = 0 /\ admins = {} /\ doubled = FALSE /\ lost = 0
    /\ tool = [t \in Tool |-> "idle"] /\ visit = [v \in Visitor |-> "none"] /\ held = [v \in Visitor |-> 0]

admin_exists == admins # {}

\* None of these requests is about to delete the row
Deletable(c, others) == \A w \in others : visit[w] = "won" => held[w] # c

ToolStep(t, here, next) == tool[t] = here /\ tool' = [tool EXCEPT ![t] = next]

\* Tools that found no code
Inserting == {t \in Tool : tool[t] = "insert"}

\* A code that is there is shown
ensure_setup_code(t) ==
    /\ \/ admin_exists /\ ToolStep(t, "idle", "clear")
       \/ ~admin_exists /\ codes = {} /\ ToolStep(t, "idle", "insert")
          /\ made + Cardinality(Inserting) < MaxCodes
    /\ UNCHANGED <<codes, made, admins, visit, held, doubled, lost>>

CodeIsMade(t) ==
    /\ ToolStep(t, "insert", "idle")
    /\ made' = made + 1 /\ codes' = codes \cup {made + 1}
    /\ doubled' = (doubled \/ codes # {} \/ admin_exists)
    /\ UNCHANGED <<admins, visit, held, lost>>

clear_setup_code(t) ==
    /\ ToolStep(t, "clear", "idle") /\ \A c \in codes : Deletable(c, Visitor)
    /\ codes' = {}
    /\ UNCHANGED <<made, admins, visit, held, doubled, lost>>

Visit(v, here, next) == visit[v] = here /\ visit' = [visit EXCEPT ![v] = next]

setup_submit(v) ==
    /\ Visit(v, "none", IF admin_exists THEN "done" ELSE "open")
    /\ UNCHANGED <<codes, made, admins, tool, held, doubled, lost>>

\* Any row is read; a code that is not its value is a failure, even if another row has it
_stored_code(v, typed) ==
    /\ \/ codes = {} /\ Visit(v, "open", "done") /\ UNCHANGED held
       \/ \E c \in codes : /\ Visit(v, "open", IF c = typed THEN "matched" ELSE "done")
                           /\ held' = IF c = typed THEN [held EXCEPT ![v] = c] ELSE held
    /\ UNCHANGED <<codes, made, admins, tool, doubled, lost>>

\* Plausible slip: the number of deleted rows is not looked at
ConsumeAnyway(v) ==
    /\ Visit(v, "matched", "won") /\ Deletable(held[v], Visitor \ {v})
    /\ UNCHANGED <<codes, made, admins, tool, held, doubled, lost>>

\* The DELETE waits for another one of the same row and finds it gone or still there
consume_setup_code(v) ==
    /\ Visit(v, "matched", IF held[v] \in codes THEN "won" ELSE "done") /\ Deletable(held[v], Visitor \ {v})
    /\ UNCHANGED <<codes, made, admins, tool, held, doubled, lost>>

SetupCommits(v) ==
    /\ Visit(v, "won", "done") /\ codes' = codes \ {held[v]} /\ admins' = admins \cup {v}
    /\ UNCHANGED <<made, tool, held, doubled, lost>>

\* The request is lost, and the code is back
SetupLost(v) ==
    /\ Visit(v, "won", "done") /\ lost < MaxLost /\ lost' = lost + 1
    /\ UNCHANGED <<codes, made, admins, tool, held, doubled>>

\* Everybody is done
SetupRests == (\A v \in Visitor : visit[v] = "done") /\ UNCHANGED setupVars

SetupNext ==
    \/ \E t \in Tool : ensure_setup_code(t) \/ CodeIsMade(t) \/ clear_setup_code(t)
    \/ \E v \in Visitor :
          \/ setup_submit(v) \/ consume_setup_code(v) \/ SetupCommits(v) \/ SetupLost(v)
          \/ \E c \in Code : _stored_code(v, c)

SetupSpec == SetupInit /\ [][SetupNext]_setupVars

-----------------------------------------------------------------------------
(* Properties *)

(* Only one request can use the code (consume_setup_code): there is one first administrator, and no code is left once
   there is, unless two codes were made because two tools looked for one at the same time, or one looked while the
   setup was committed (setup.py, lines 43 to 53). *)
OneFirstAdmin == doubled \/ (Cardinality(admins) <= 1 /\ (admin_exists => codes = {}))
=============================================================================
