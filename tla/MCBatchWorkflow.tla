--------------------------- MODULE MCBatchWorkflow ---------------------------
(***************************************************************************)
(* Instances of BatchWorkflow for TLC: the transport reports, plans,       *)
(* readings and task lists of its runs.                                    *)
(***************************************************************************)
EXTENDS BatchWorkflow, TLC

CONSTANTS T1, T2

People == Permutations(Person)

-----------------------------------------------------------------------------
(* Transport reports *)

Report(factors, disposition, dual) ==
    [factors |-> factors, exceeded |-> factors # {},
     measured |-> [factors |-> factors, exceeded |-> factors # {}],
     note |-> factors # {}, disposition |-> disposition,
     qualityApproved |-> FALSE, dualReviewed |-> dual]

Clean == Report({}, FALSE, FALSE)

\* Two factors: high risk, which asks for a dual review.
Warmed == Report({"high_exceeded_minutes", "max_deviation_c"}, FALSE, TRUE)

\* Three factors: critical risk, which asks for everything.
Thawed == Report({"high_exceeded_minutes", "max_deviation_c",
                  "exposure_degree_minutes"}, TRUE, TRUE)

\* The minutes below the range are the client's own total: the temperatures
\* it sends are within the range, and no note is asked for.
Totalled == [Clean EXCEPT !.factors = {"low_exceeded_minutes"}]

OneReport   == {Clean}
ManyReports == {Clean, Warmed, Thawed, Totalled}

-----------------------------------------------------------------------------
(* Plans and readings *)

OneStage   == {<<"cold">>}
ManyStages == {<<"cold", "warm">>, <<"cold", "cold", "cold">>}

ReadingOf(hold, offTarget, melt, abnormal) ==
    [hold |-> hold, offTarget |-> offTarget, meltHigh |-> melt,
     abnormal |-> abnormal, code |-> ""]

Good      == ReadingOf("omitted", FALSE, FALSE, FALSE)
Short     == ReadingOf("short", FALSE, FALSE, FALSE)
OffTarget == ReadingOf("full", TRUE, TRUE, FALSE)
Wet       == ReadingOf("full", FALSE, TRUE, TRUE)

GoodOrShort  == {Good, Short}
ManyReadings == {Good, Short, OffTarget, Wet}

\* Corrections sent along with a reading: none, or one that is clean as it was
\* sent, and one that nobody gave a code.
NoneSent == {}
Uncoded  == {Good, Wet}

-----------------------------------------------------------------------------
(* Remediation tasks *)

Draft(id, st, submitter, verifier) ==
    [id |-> id, status |-> st,
     submittedBy |-> submitter, verifiedBy |-> verifier]

Pending(id) == Draft(id, "pending", NoOne, NoOne)

OneTask == {<<>>, <<Pending(T1)>>}

\* A task with one that comes passed, submitted and verified by one person; and
\* one that comes submitted, with another behind it of the same id.
WithPassed == {<<Pending(T1), Draft(T2, "passed", p, p)>> : p \in Person}
WithHidden == {<<Draft(T1, "submitted", p, NoOne),
                 Draft(T1, "other", NoOne, NoOne)>> : p \in Person}

TwoTasks == {<<>>, <<Draft(T1, "", NoOne, NoOne)>>} \cup WithPassed \cup WithHidden

=============================================================================
