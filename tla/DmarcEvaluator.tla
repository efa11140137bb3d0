--------------------------- MODULE DmarcEvaluator ---------------------------
(***************************************************************************)
(* The verdict on one row of an aggregate report                           *)
(* (app/services/dmarc_evaluator.py).                                      *)
(*                                                                         *)
(* Functions of their input without state.  A domain name is the sequence  *)
(* of its labels in lower case and says whether it was written with a dot  *)
(* at its end; NoName is a missing one.                                    *)
(***************************************************************************)
EXTENDS Integers, Sequences, SequencesExt, FiniteSetsExt

CONSTANT Public      \* names on the Public Suffix List

Name(labels) == [labels |-> labels, dot |-> FALSE]
NoName == Name(<<>>)

\* Plausible slip: every public suffix has one label
FlatSuffix(labels) == 1

\* Length of the public suffix of a name: the longest listed one; an unknown last label counts as one
suffix_length(labels) ==
    Max({1} \cup {n \in 1 .. Len(labels) : SubSeq(labels, Len(labels) - n + 1, Len(labels)) \in Public})

privatesuffix(labels) ==
    LET n == suffix_length(labels) + 1
    IN  IF Len(labels) < n THEN <<>> ELSE SubSeq(labels, Len(labels) - n + 1, Len(labels))

\* A name that is a public suffix itself stays as it is
_organizational_domain(name) ==
    IF name.labels = <<>> \/ privatesuffix(name.labels) = <<>> THEN name.labels ELSE privatesuffix(name.labels)

\* The strict mode takes names as they are written, a dot at the end included
_domains_aligned(d1, d2, mode) ==
    /\ d1 # NoName /\ d2 # NoName
    /\ IF mode = "s" THEN d1 = d2 ELSE _organizational_domain(d1) = _organizational_domain(d2)

\* Some result of this kind passed for an aligned domain
Authenticated(record, kind, mode) ==
    \E ar \in record.auth_results :
        ar.auth_type = kind /\ ar.result = "pass" /\ _domains_aligned(ar.domain, record.header_from, mode)

evaluate_record(record, policy) ==
    LET effective == IF record.header_from.labels # policy.domain.labels /\ policy.sp # "" THEN policy.sp ELSE policy.p
        dkim == Authenticated(record, "dkim", policy.adkim) \/ record.dkim_result = "pass"
        spf == \/ Authenticated(record, "spf", policy.aspf)
               \/ record.spf_result = "pass" /\ _domains_aligned(record.envelope_from, record.header_from, policy.aspf)
        pass == dkim \/ spf
    IN  [dmarc_pass |-> pass, spf_aligned |-> spf, dkim_aligned |-> dkim,
         policy_applied |-> ~pass /\ effective \in {"quarantine", "reject"} /\ ~policy.testing]
=============================================================================
