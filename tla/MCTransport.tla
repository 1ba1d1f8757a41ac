----------------------------- MODULE MCTransport -----------------------------
(***************************************************************************)
(* Instances of Transport for TLC: one client registers a report and sends *)
(* the request again, a second registers another one, a third reviews.     *)
(***************************************************************************)
EXTENDS Transport

CONSTANTS first, again, rival, reviewer, r1, r2, r3

Span(start, end, min, max) ==
    [start |-> start, end |-> end, min |-> min, max |-> max]

\* Around an allowed range of -40..0 degrees: inside it, below it, above it by
\* little, on both sides and by much; overlapping or touching.
Sound ==
    {Span(10, 40, -20, -10), Span(40, 70, -45, -10), Span(60, 100, -20, 2),
     Span(100, 220, -50, 5), Span(220, 221, -20, 15)}

\* Without a start, without a duration, beyond what a sensor gives.
Unsound == {Span(0, 10, -20, 2), Span(40, 40, -20, 2), Span(320, 330, -61, 0)}

Sequences ==
    {<<>>} \cup [1..1 -> Sound \cup Unsound] \cup [1..2 -> Sound]
        \cup {s \in [1..3 -> Sound] : s[1].end <= s[2].start
                                        /\ s[2].start <= s[3].start}

Plain(allowedMax, extremes, intervals, note) ==
    [allowedMin |-> -40, allowedMax |-> allowedMax,
     min |-> extremes[1], max |-> extremes[2],
     intervals |-> intervals, note |-> note,
     low |-> 0, high |-> 0, deviation |-> 0, exposure |-> 0,
     exceeded |-> FALSE, severity |-> "none", reviews |-> 0]

\* With totals of the client's own, above and below zero.
Claiming(t) == [t EXCEPT !.low = 120, !.deviation = 3, !.exposure = 7]

Denying(t) == [t EXCEPT !.low = -20, !.high = -30, !.deviation = -12, !.exposure = -7]

\* Extremes that were not sent, that cover the intervals, that are in the range,
\* that leave it by four degrees and by twelve.
Reports ==
    {Plain(0, <<-50, 15>>, s, TRUE) : s \in Sequences}
        \cup {Plain(0, <<-50, 5>>, <<s>>, TRUE) : s \in Sound}
        \cup {Plain(0, <<-20, -10>>, <<s>>, note) :
                 s \in Sound, note \in BOOLEAN}
        \cup {Claiming(Plain(0, <<-45, 2>>, <<s>>, TRUE)) : s \in Sound}
        \cup {Denying(Plain(0, <<-45, 2>>, <<s>>, TRUE)) : s \in Sound}
        \cup {Plain(0, e, <<>>, note) :
                 e \in {<<0, 0>>, <<-20, -10>>, <<-30, 4>>, <<-52, -10>>},
                 note \in BOOLEAN}
        \cup {Plain(-40, <<-50, 0>>, <<>>, TRUE)}

Send(id, expected, sends, t) ==
    [request |-> id, expected |-> expected, sends |-> sends, report |-> t,
     operator |-> FALSE, reason |-> FALSE]

Registration(id, t) == Send(id, 1, EvidenceFields, t)

\* A client that also says whether the range was exceeded.
Admission(id, t) ==
    Send(id, 1, ComparedFields, [t EXCEPT !.exceeded = TRUE])

Decision(id, expected, reason) ==
    [Send(id, expected, {}, Plain(0, <<0, 0>>, <<>>, FALSE)) EXCEPT
        !.operator = TRUE, !.reason = reason]

Rival ==
    Registration(r2, Plain(0, <<-30, 4>>, <<Span(10, 40, -20, 4)>>, TRUE))

\* All shapes of a report with one delivery each.
EveryReport ==
    {(first :> Registration(r1, t) @@ again :> Registration(r1, t)
      @@ rival :> Rival @@ reviewer :> Decision(r3, 2, FALSE)) : t \in Reports}

\* A few reports with more of what clients send with them.
Few == {Plain(0, <<-30, 4>>, <<Span(10, 40, -20, 4)>>, TRUE),
        Plain(0, <<-20, -10>>, <<>>, TRUE),
        Claiming(Plain(0, <<-20, -10>>, <<Span(10, 40, -20, -10)>>, TRUE))}

EveryBody ==
    {(first :> Registration(r1, t) @@ again :> Registration(r1, t)
      @@ rival :> b @@ reviewer :> d) :
        t \in Few,
        b \in {Registration(r2, u) : u \in Few}
                \cup {[Registration(r2, u) EXCEPT !.operator = TRUE, !.expected = 2]
                        : u \in Few},
        d \in {Decision(r3, 2, FALSE)}
                 \cup {Decision(r3, 3, reason) : reason \in BOOLEAN}}

EveryClaim ==
    {(first :> Admission(r1, t) @@ again :> Admission(r1, t)
      @@ rival :> Rival @@ reviewer :> Decision(r3, 2, FALSE)) : t \in Few}

Sent == EveryReport \cup EveryBody \cup EveryClaim

=============================================================================
