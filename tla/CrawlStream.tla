------------------------------ MODULE CrawlStream ------------------------------
(***************************************************************************)
(* What MagnetCrawler.crawl promises to its caller: each new magnet once,  *)
(* errors as they happen, and one report that says how many of each there  *)
(* were.                                                                   *)
(***************************************************************************)
EXTENDS Naturals, FiniteSets

CONSTANTS
    Hash,
    NoReport

VARIABLES
    told,           \* the magnets that the caller has been given
    complaints,     \* the errors it has been given
    late,           \* one of them says that the crawl took too long
    report          \* what the last event says, or NoReport

vars == <<told, complaints, late, report>>

Init ==
    /\ told = {} /\ complaints = 0 /\ late = FALSE
    /\ report = NoReport

\* A magnet that the caller has not been given.
Tell ==
    /\ report = NoReport /\ ~late
    /\ \E h \in Hash \ told : told' = told \cup {h}
    /\ UNCHANGED <<complaints, late, report>>

Complain ==
    /\ report = NoReport /\ ~late
    /\ complaints' = complaints + 1
    /\ UNCHANGED <<told, late, report>>

TakesTooLong ==
    /\ report = NoReport /\ ~late
    /\ late' = TRUE
    /\ complaints' = complaints + 1
    /\ UNCHANGED <<told, report>>

\* The report counts what the caller was given; one that comes late may count more.
Report ==
    /\ report = NoReport
    /\ report' \in [total : Nat, errors : Nat]
    /\ report'.total >= Cardinality(told) /\ report'.errors >= complaints
    /\ ~late => report'.total = Cardinality(told) /\ report'.errors = complaints
    /\ UNCHANGED <<told, complaints, late>>

Next == Tell \/ Complain \/ TakesTooLong \/ Report

Spec == Init /\ [][Next]_vars
=============================================================================
