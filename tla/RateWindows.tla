----------------------------- MODULE RateWindows -----------------------------
(***************************************************************************)
(* The sliding windows of the SMTP receiver (smtp_inbound/validator.py).   *)
(*                                                                         *)
(* Each RCPT TO is judged in a thread of its own: the window of the        *)
(* sending address, the address in the database, then the window of the    *)
(* recipient.  A look into a window and its new entry are one step under   *)
(* the lock; between the steps others go on, and time passes.  The windows *)
(* live in memory and are empty after a restart.                           *)
(***************************************************************************)
EXTENDS Integers, Sequences, FiniteSets

CONSTANTS
    Connection,    \* threads that judge a recipient
    Peer, Mailbox,
    Known,         \* mailboxes that exist and are active
    PerPeer,       \* SMTP_INBOUND_RATE_LIMIT_PER_IP
    PerMailbox,    \* SMTP_INBOUND_RATE_LIMIT_PER_RECIPIENT
    Hour,          \* 3600 seconds
    MaxClock,      \* bound: time
    MaxCalls       \* bound: recipients that are judged

ASSUME RateAssumption == {PerPeer, PerMailbox, Hour, MaxClock, MaxCalls} \subseteq Nat

VARIABLES
    clock, calls,
    _ip_counts, _rcpt_counts,
    judged,        \* per thread, the call it is in
    log            \* history since the last restart: calls that came to a window, with the time and the answer there

rateVars == <<clock, calls, _ip_counts, _rcpt_counts, judged, log>>

Unused == [at |-> "idle"]

WindowsInit ==
    /\ clock = 0 /\ calls = 0 /\ log = {}
    /\ _ip_counts = [p \in Peer |-> <<>>]
    /\ _rcpt_counts = [m \in Mailbox |-> <<>>]
    /\ judged = [c \in Connection |-> Unused]

\* The loop takes entries off the left end until it meets one that is young enough
Popped(times, cutoff) ==
    LET n == CHOOSE i \in 0 .. Len(times) : /\ \A j \in 1 .. i : times[j] < cutoff
                                            /\ i = Len(times) \/ times[i + 1] >= cutoff
    IN  SubSeq(times, n + 1, Len(times))

\* Plausible slip: what is exactly an hour old no longer counts
YoungerThanHour(times) == Popped(times, clock - Hour + 1)

_count_within_window(times) == Popped(times, clock - Hour)

Answered(window, key, call, answer) == [window |-> window, key |-> key, at |-> clock, call |-> call.number, answer |-> answer]

RcptTo(c, p, m) ==
    /\ judged[c] = Unused /\ calls < MaxCalls
    /\ calls' = calls + 1
    /\ judged' = [judged EXCEPT ![c] = [at |-> "peer", peer |-> p, mailbox |-> m, number |-> calls']]
    /\ UNCHANGED <<clock, _ip_counts, _rcpt_counts, log>>

record_and_check_ip_rate(c) ==
    LET call == judged[c]
        times == _count_within_window(_ip_counts[call.peer])
        allowed == Len(times) < PerPeer
    IN  /\ call.at = "peer"
        /\ _ip_counts' = [_ip_counts EXCEPT ![call.peer] = IF allowed THEN Append(times, clock) ELSE times]
        /\ judged' = [judged EXCEPT ![c] = IF allowed THEN [@ EXCEPT !.at = "lookup"] ELSE Unused]
        /\ log' = log \cup {Answered("peer", call.peer, call, allowed)}
        /\ UNCHANGED <<clock, calls, _rcpt_counts>>

\* An unknown address leaves its entry in the window of the peer
validate_for_smtp(c) ==
    /\ judged[c].at = "lookup"
    /\ judged' = [judged EXCEPT ![c] = IF @.mailbox \in Known THEN [@ EXCEPT !.at = "mailbox"] ELSE Unused]
    /\ UNCHANGED <<clock, calls, _ip_counts, _rcpt_counts, log>>

record_and_check_recipient_rate(c) ==
    LET call == judged[c]
        times == _count_within_window(_rcpt_counts[call.mailbox])
        allowed == Len(times) < PerMailbox
    IN  /\ call.at = "mailbox"
        /\ _rcpt_counts' = [_rcpt_counts EXCEPT ![call.mailbox] = IF allowed THEN Append(times, clock) ELSE times]
        /\ judged' = [judged EXCEPT ![c] = Unused]
        /\ log' = log \cup {Answered("mailbox", call.mailbox, call, allowed)}
        /\ UNCHANGED <<clock, calls, _ip_counts>>

Seconds == clock < MaxClock /\ clock' = clock + 1 /\ UNCHANGED <<calls, _ip_counts, _rcpt_counts, judged, log>>

ReceiverRestarts ==
    /\ _ip_counts' = [p \in Peer |-> <<>>] /\ _rcpt_counts' = [m \in Mailbox |-> <<>>]
    /\ judged' = [c \in Connection |-> Unused] /\ log' = {}
    /\ UNCHANGED <<clock, calls>>

WindowsNext ==
    \/ \E c \in Connection, p \in Peer, m \in Mailbox : RcptTo(c, p, m)
    \/ \E c \in Connection : record_and_check_ip_rate(c) \/ validate_for_smtp(c) \/ record_and_check_recipient_rate(c)
    \/ Seconds \/ ReceiverRestarts

RateSpec == WindowsInit /\ [][WindowsNext]_rateVars

-----------------------------------------------------------------------------
(* Properties *)

WindowsTypeOK ==
    /\ clock \in 0 .. MaxClock /\ calls \in 0 .. MaxCalls
    /\ \A p \in Peer : _ip_counts[p] \in Seq(0 .. MaxClock)
    /\ \A m \in Mailbox : _rcpt_counts[m] \in Seq(0 .. MaxClock)
    /\ \A c \in Connection : judged[c].at \in {"idle", "peer", "lookup", "mailbox"}

LimitOf(window) == IF window = "peer" THEN PerPeer ELSE PerMailbox

Let(window, key, from, until) ==
    {e \in log : e.window = window /\ e.key = key /\ e.answer /\ from <= e.at /\ e.at <= until}

(* However the threads interleave, no hour has more entries of a peer or a mailbox than its limit, and nobody is put off before
   the limit is used up within the last hour: entries that are older, of others or of refused calls do not count.  What is
   accepted has passed both windows (_count_within_window, validate_recipient). *)
WindowsHold ==
    /\ \A e \in log : e.answer => Cardinality(Let(e.window, e.key, e.at, e.at + Hour)) <= LimitOf(e.window)
    /\ \A e \in log : ~e.answer => Cardinality(Let(e.window, e.key, e.at - Hour, e.at)) = LimitOf(e.window)
    /\ \A e \in log : e.window = "mailbox" => \E f \in log : f.window = "peer" /\ f.call = e.call /\ f.answer
=============================================================================
