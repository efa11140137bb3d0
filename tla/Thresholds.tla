------------------------------ MODULE Thresholds ------------------------------
(***************************************************************************)
(* The thresholds an organisation sets for itself                          *)
(* (app/services/org_settings.py) and a pair of them whose order the       *)
(* evaluation relies on.                                                   *)
(*                                                                         *)
(* A row holds one value; where there is none the .env applies.  The page  *)
(* saves both fields, empty ones remove their rows.  Nothing makes rows    *)
(* unique: a save changes those it has read, and two may do so at the same *)
(* time.  The .env is read at a start, which refuses a pair out of order.  *)
(***************************************************************************)
EXTENDS Integers, FiniteSets

CONSTANTS
    Editor,       \* requests of administrators
    Value,
    Unset,        \* an empty field
    RowId,        \* bound: rows
    MaxSaves      \* bound: saves

ASSUME ThresholdsAssumption == Value \subseteq Int /\ Unset \notin Int

Field == {"lower", "upper"}

VARIABLES
    appSettings,  \* the rows: id, key and value
    dotenv,       \* the values of the .env
    saving,       \* per request, the fields it wants and the rows it has read
    wish,         \* history: the fields of the last save
    moved,        \* history: there is another .env since
    mixed,        \* history: the last save had read rows of before another one, or met two rows for one field
    saves         \* for MaxSaves

thresholdVars == <<appSettings, dotenv, saving, wish, moved, mixed, saves>>

No == [late |-> FALSE]

\* _rate_order
_rate_order(values) == values["lower"] <= values["upper"]

Fields == [Field -> Value \cup {Unset}]

\* What a reader gets: of two rows for one field the one that the database hands out last
own_values ==
    {values \in Fields : \A k \in Field : LET mine == {r \in appSettings : r.key = k}
                                          IN  IF mine = {} THEN values[k] = Unset ELSE \E r \in mine : r.value = values[k]}

Effective(values) == [k \in Field |-> IF values[k] = Unset THEN dotenv[k] ELSE values[k]]

thresholds_for == {Effective(values) : values \in own_values}

Doubles == \E r, s \in appSettings : r.id # s.id /\ r.key = s.key

ThresholdsInit ==
    /\ appSettings = {} /\ mixed = FALSE /\ moved = FALSE /\ saves = 0
    /\ dotenv \in {e \in [Field -> Value] : _rate_order(e)}
    /\ saving = [e \in Editor |-> No]
    /\ wish = [k \in Field |-> Unset]

\* The row of a field that the request goes on with
NoRow == [id |-> 0]

Picked(read) == {pick \in [Field -> read \cup {NoRow}] :
                   \A k \in Field : LET mine == {r \in read : r.key = k} IN IF mine = {} THEN pick[k] = NoRow ELSE pick[k] \in mine}

\* Plausible slip: a field is not compared with the .env behind the other one
OrderedAlone(wanted) == (\A k \in Field : wanted[k] # Unset) => _rate_order(wanted)

Ordered(wanted) == (\E k \in Field : wanted[k] # Unset) => _rate_order(Effective(wanted))

save_thresholds(e, wanted) ==
    /\ saving[e] = No /\ Ordered(wanted) /\ saves < MaxSaves
    /\ saves' = saves + 1
    /\ \E pick \in Picked(appSettings) : saving' = [saving EXCEPT ![e] = [wanted |-> wanted, pick |-> pick, late |-> FALSE]]
    /\ UNCHANGED <<appSettings, dotenv, wish, moved, mixed>>

\* Of a save that has read, what its statements do.  An UPDATE of a row that is gone fails, a DELETE of one does not, and a
\* value that stays is not written
Gone(s) == {k \in Field : s.wanted[k] = Unset /\ s.pick[k] # NoRow}
Changed(s) == {k \in Field : s.wanted[k] # Unset /\ s.pick[k] # NoRow /\ s.pick[k].value # s.wanted[k]}
Added(s) == {k \in Field : s.wanted[k] # Unset /\ s.pick[k] = NoRow}

\* Ids that no row has, nor one that a request has read
FreeIds ==
    {i \in RowId : /\ \A r \in appSettings : r.id # i
                   /\ \A e \in Editor : saving[e] # No => \A k \in Field : saving[e].pick[k].id # i}

Stored(s, id) ==
    {r \in appSettings : \A k \in Gone(s) \cup Changed(s) : r.id # s.pick[k].id}
        \cup {[id |-> s.pick[k].id, key |-> k, value |-> s.wanted[k]] : k \in Changed(s)}
        \cup {[id |-> id[k], key |-> k, value |-> s.wanted[k]] : k \in Added(s)}

Late(s) == [s EXCEPT !.late = TRUE]

SaveCommits(e) ==
    LET s == saving[e]
    IN  /\ s # No
        /\ \A k \in Changed(s) : \E r \in appSettings : r.id = s.pick[k].id
        /\ \E id \in [Added(s) -> FreeIds] : (\A k, l \in Added(s) : k # l => id[k] # id[l]) /\ appSettings' = Stored(s, id)
        /\ wish' = s.wanted /\ moved' = FALSE /\ mixed' = (s.late \/ Doubles)
        /\ saving' = [d \in Editor |-> IF d = e \/ saving[d] = No THEN No ELSE Late(saving[d])]
        /\ UNCHANGED <<dotenv, saves>>

SaveFails(e) ==
    /\ saving[e] # No
    /\ saving' = [saving EXCEPT ![e] = No]
    /\ UNCHANGED <<appSettings, dotenv, wish, moved, mixed, saves>>

\* A start with another .env; requests are lost
NewEnv ==
    /\ dotenv' \in {e \in [Field -> Value] : e # dotenv /\ _rate_order(e)}
    /\ saving' = [e \in Editor |-> No]
    /\ moved' = TRUE
    /\ UNCHANGED <<appSettings, wish, mixed, saves>>

ThresholdsNext ==
    \/ \E e \in Editor : (\E wanted \in Fields : save_thresholds(e, wanted)) \/ SaveCommits(e) \/ SaveFails(e)
    \/ NewEnv

ThresholdsSpec == ThresholdsInit /\ [][ThresholdsNext]_thresholdVars

-----------------------------------------------------------------------------
(* Properties *)

ThresholdsTypeOK ==
    /\ appSettings \subseteq [id : RowId, key : Field, value : Value]
    /\ \A r, s \in appSettings : r.id = s.id => r = s
    /\ dotenv \in [Field -> Value] /\ wish \in Fields /\ {moved, mixed} \subseteq BOOLEAN

(* What applies is what was saved last, of both fields and whatever was saved before, unless another save was on its way or a
   race of two has left two rows for one field; and then the pair is in order, unless the .env has changed under an
   organisation that has set one of the two (save_thresholds). *)
SettingsHold ==
    ~mixed =>
        /\ own_values = {wish}
        /\ ~moved \/ (wish["lower"] = Unset <=> wish["upper"] = Unset) => \A values \in thresholds_for : _rate_order(values)
=============================================================================
