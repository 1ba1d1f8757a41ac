---------------------------- MODULE MCDurability ----------------------------
(***************************************************************************)
(* Instances of Durability for TLC: two batches, and requests that create  *)
(* them, compete for a revision and follow each other.                     *)
(***************************************************************************)
EXTENDS Durability

CONSTANTS b1, b2, r1, r2, r3, r4, r5, r6

Req(id, batch, expected, events) ==
    [id |-> id, batch |-> batch, expected |-> expected, events |-> events]

\* Both batches are created; two clients compete for revision 1 of b1, one of
\* them moving the grade, and a third goes on from revision 2.
TwoBatches ==
    {Req(r1, b1, 0, 1), Req(r2, b1, 1, 2), Req(r3, b1, 1, 1), Req(r4, b1, 2, 1),
     Req(r5, b2, 0, 1), Req(r6, b2, 1, 1)}

\* One batch takes two operations, one of which moves the grade.
OneBatch == {Req(r1, b1, 0, 1), Req(r2, b1, 1, 2)}

\* A client that sends no X-Request-ID posts two observations: withRequestID
\* gives both the id "POST:" followed by their common path.
Headerless == {Req(r1, b1, 0, 1), Req(r2, b1, 1, 1), Req(r2, b1, 2, 1)}

=============================================================================
