------------------------------ MODULE Registry ------------------------------
(***************************************************************************)
(* The batches side by side: Service.CreateBatch, which keeps the cores of *)
(* one drill site apart, and Service.QueryBatches, which lists them page   *)
(* by page while they are created, move on, and are lost or kept by a      *)
(* restart.                                                                *)
(*                                                                         *)
(* Creation holds the service mutex from its first check to its answer;    *)
(* a listing only takes a copy of the store, between any two steps.  What  *)
(* happens to one batch after its creation is left to BatchWorkflow: here  *)
(* it leaves the status draft.  A request is its own X-Request-ID (see     *)
(* Durability for ids that are used twice).                                *)
(***************************************************************************)
EXTENDS Naturals, Sequences, SequencesExt

CONSTANTS
    Request,    \* the creations clients send, again and again if they like
    body,       \* what each of them asks for
    ID,         \* ids of batches, in their order as text
    Generated,  \* the ids the service makes up itself
    Site, Code, \* drill sites, core codes as they are stored
    Spelling,   \* core codes as clients write them
    normal,     \* how Normalize trims a spelling and turns it to upper case
    Depth,      \* the ends of depth intervals
    DepthLimit, \* a depth this large is printed with an exponent
    Time,       \* what the clock can show
    Places,     \* the ticks in a second, in a tenth of it, and so on
    Limit,      \* the batches on a page
    MaxSeen,    \* bound: the batches a listing goes through
    MaxFaults   \* bound: writes that fail

\* A client may choose the id of its batch; 0 leaves it to the service.
BodyShape == [id : ID \cup {0}, site : Site, code : Spelling,
              top : Depth, bottom : Depth]

ASSUME BodyAssumption == body \in [Request -> BodyShape]

ASSUME NormalAssumption == normal \in [Spelling -> Code]

ASSUME NumberAssumption ==
    /\ ID \subseteq Nat \ {0} /\ Generated \subseteq ID
    /\ Depth \subseteq Nat /\ DepthLimit \in Nat
    /\ Time \subseteq Nat /\ Places \subseteq Nat \ {0}
    /\ Limit \in Nat \ {0} /\ MaxSeen \in Nat /\ MaxFaults \in Nat

Interval == {i \in [top : Depth, bottom : Depth] : i.top < i.bottom}

Batch == [id : ID, site : Site, code : Code, depth : Interval,
          created : Time, draft : BOOLEAN]

\* What a client knows of the batch its request created.
Answer == [request : Request, id : ID, created : Time]

Snapshot == [batches : SUBSET Batch, answers : SUBSET Answer]

\* The place of a batch in a listing.
Key == [created : Time, id : ID]

VARIABLES
    memory,    \* store.data
    disk,      \* the snapshot file
    creating,  \* the answer of the creation that holds the mutex, if any
    acked,     \* the answers clients have been given
    faults,    \* the writes that failed
    listing    \* a client that pages through the batches

vars == <<memory, disk, creating, acked, faults, listing>>

NoCursor == [created |-> 0, id |-> 0]

\* The filter, the cursor, the batches seen so far, and those that have been
\* in the store and matched the filter ever since the first page.
Listing ==
    [step : {"paging", "done"}, draftOnly : BOOLEAN, cursor : Key \cup {NoCursor},
     seen : Seq(Key), steady : SUBSET Key]

NotListing ==
    [step |-> "done", draftOnly |-> FALSE, cursor |-> NoCursor,
     seen |-> <<>>, steady |-> {}]

\* Every interval is ordered and every code normalised, whatever was asked for.
TypeOK ==
    /\ memory \in Snapshot
    /\ disk \in Snapshot
    /\ creating \subseteq Answer
    /\ acked \subseteq Answer
    /\ faults \in 0..MaxFaults
    /\ listing \in Listing

Init ==
    /\ memory = [batches |-> {}, answers |-> {}]
    /\ disk = memory
    /\ creating = {}
    /\ acked = {}
    /\ faults = 0
    /\ listing = NotListing

KeyOf(b) == [created |-> b.created, id |-> b.id]

Matching(batches, draftOnly) == {b \in batches : draftOnly => b.draft}

\* Which batches of the listing are in the store and match as they always did.
Follow ==
    listing' = [listing EXCEPT !.steady =
                  @ \cap {KeyOf(b) : b \in Matching(memory'.batches,
                                                    listing.draftOnly)}]

Persisted == disk' = memory' /\ UNCHANGED faults

\* The file is as it was, but memory has changed.
FailedToPersist ==
    /\ faults < MaxFaults
    /\ faults' = faults + 1
    /\ UNCHANGED disk

-----------------------------------------------------------------------------
(* Creation *)

\* The bug of not asking for an ordered interval.
Parses_Unordered(b) == b.bottom < DepthLimit

\* ParseDepthInterval, which Validate applies once more to the text Normalize
\* has printed: an exponent in it is read as a third number.
Parses(b) == b.top < b.bottom /\ b.bottom < DepthLimit

\* The batch a request asks for, with the id and the time given to it.
NewBatch(r, id, now) ==
    [id |-> id, site |-> body[r].site, code |-> normal[body[r].code],
     depth |-> [top |-> body[r].top, bottom |-> body[r].bottom],
     created |-> now, draft |-> TRUE]

\* The bug of looking only for an end of the other interval.
Overlap_Top(i, j) == i.top <= j.top /\ j.top < i.bottom

\* Intervals may touch.
Overlap(i, j) == i.top < j.bottom /\ j.top < i.bottom

\* The bug of comparing with the batches nothing has happened to only.
Rivals_Drafts(b) == {c \in memory.batches : c.site = b.site /\ c.draft}

Rivals(b) == {c \in memory.batches : c.site = b.site}

Conflict(b, c) == c.code = b.code \/ Overlap(b.depth, c.depth)

\* The bug of not asking whether the id is taken.
Free_Always(id) == TRUE

\* store.Put with a negative revision creates.
Free(id) == \A c \in memory.batches : c.id # id

Answered(r) == \E a \in memory.answers : a.request = r

Replay(r) ==
    /\ creating = {}
    /\ Answered(r)
    /\ acked' = acked \cup {a \in memory.answers : a.request = r}
    /\ UNCHANGED <<memory, disk, creating, faults, listing>>

Stored(b) == {c \in memory.batches : c.id # b.id} \cup {b}

\* A creation that is refused changes nothing.  One whose write fails is in
\* memory all the same, and its client gets the error.
CreateBatch(r) ==
    /\ creating = {}
    /\ ~Answered(r)
    /\ Parses(body[r])
    /\ \E id \in IF body[r].id = 0 THEN Generated ELSE {body[r].id} :
       \E now \in Time :
           LET b == NewBatch(r, id, now)
           IN  /\ \A c \in Rivals(b) : ~Conflict(b, c)
               /\ Free(id)
               /\ memory' = [memory EXCEPT !.batches = Stored(b)]
               /\ \/ /\ Persisted
                     /\ creating' = {[request |-> r, id |-> id, created |-> now]}
                  \/ FailedToPersist /\ UNCHANGED creating
    /\ Follow
    /\ UNCHANGED acked

\* The answer is given whether or not the record could be written, and may not
\* reach the client.
SaveIdempotency ==
    /\ creating # {}
    /\ memory' = [memory EXCEPT !.answers = @ \cup creating]
    /\ Persisted \/ FailedToPersist
    /\ acked' = acked \cup creating \/ UNCHANGED acked
    /\ creating' = {}
    /\ UNCHANGED listing

-----------------------------------------------------------------------------
(* What else happens to the batches *)

\* Some other operation: RegisterTransport is the first.
Advance(b) ==
    /\ creating = {}
    /\ b.draft
    /\ memory' = [memory EXCEPT
                    !.batches = (@ \ {b}) \cup {[b EXCEPT !.draft = FALSE]}]
    /\ Persisted \/ FailedToPersist
    /\ Follow
    /\ UNCHANGED <<creating, acked>>

\* The process stops, between two steps of a creation too, and starts again.
Restart ==
    /\ memory' = disk
    /\ creating' = {}
    /\ Follow
    /\ UNCHANGED <<disk, acked, faults>>

-----------------------------------------------------------------------------
(* Listing *)

Before(k, l) ==
    \/ k.created < l.created
    \/ k.created = l.created /\ k.id < l.id

\* The keys in their order.
Sorted(keys) ==
    CHOOSE s \in [1..Cardinality(keys) -> keys] :
        \A i, j \in DOMAIN s : i < j => Before(s[i], s[j])

\* Trailing zeros are not printed: the text of b has that of a, up to its Z,
\* and more digits.
Extends(b, a) == \E p \in Places : a % p = 0 /\ a < b /\ b < a + p

\* Z comes after every digit, and after the point that a whole second lacks:
\* a time is after all that extend it.
TextBefore(a, b) == Extends(a, b) \/ (a < b /\ ~Extends(b, a))

\* The bug of starting at the cursor.
After_At(k, cursor) ==
    \/ TextBefore(cursor.created, k.created)
    \/ k.created = cursor.created /\ k.id >= cursor.id

After(k, cursor) ==
    \/ TextBefore(cursor.created, k.created)
    \/ k.created = cursor.created /\ k.id > cursor.id

\* The batches from the first that is after the cursor.
From(sorted, cursor) ==
    IF cursor = NoCursor THEN sorted
    ELSE LET start == SelectInSeq(sorted, LAMBDA k : After(k, cursor))
         IN  IF start = 0 THEN <<>> ELSE SubSeq(sorted, start, Len(sorted))

\* The bug of a cursor at the first batch of the next page.
NextCursor_OffPage(rest) == rest[Limit + 1]

NextCursor(rest) == rest[Limit]

QueryBatches(draftOnly, cursor) ==
    LET keys == {KeyOf(b) : b \in Matching(memory.batches, draftOnly)}
        rest == From(Sorted(keys), cursor)
    IN  IF Len(rest) > Limit
        THEN [page |-> SubSeq(rest, 1, Limit), next |-> NextCursor(rest)]
        ELSE [page |-> rest, next |-> NoCursor]

\* A client asks for the first page, or for the page at its cursor.
Turn(l) ==
    LET result == QueryBatches(l.draftOnly, l.cursor)
    IN  /\ listing' = [l EXCEPT
                         !.step = IF result.next = NoCursor THEN "done"
                                  ELSE "paging",
                         !.cursor = result.next,
                         !.seen = @ \o result.page]
        /\ UNCHANGED <<memory, disk, creating, acked, faults>>

FirstPage(draftOnly) ==
    Turn([NotListing EXCEPT
            !.draftOnly = draftOnly,
            !.steady = {KeyOf(b) : b \in Matching(memory.batches, draftOnly)}])

NextPage ==
    /\ listing.step = "paging"
    /\ Len(listing.seen) < MaxSeen
    /\ Turn(listing)

-----------------------------------------------------------------------------
(* Specification *)

Next ==
    \/ \E r \in Request : Replay(r) \/ CreateBatch(r)
    \/ SaveIdempotency
    \/ \E b \in memory.batches : Advance(b)
    \/ Restart
    \/ \E draftOnly \in BOOLEAN : FirstPage(draftOnly)
    \/ NextPage

Spec == Init /\ [][Next]_vars

-----------------------------------------------------------------------------
(* Properties *)

\* No two cores of one site have the same code or share a depth, in memory and
\* in the file, whatever was retried, lost in a failed write or in a restart.
NoConflicts ==
    \A s \in {memory, disk} : \A b, c \in s.batches :
        b # c /\ b.site = c.site => ~Conflict(b, c)

\* The batch a client was told of is in memory and in the file as it was
\* created: not overwritten by a batch with a chosen id, not lost by a restart.
AcknowledgedIsKept ==
    \A a \in acked : \A s \in {memory, disk} :
        \E b \in s.batches :
            [b EXCEPT !.draft = TRUE] = NewBatch(a.request, a.id, a.created)

\* A creation that is sent again never makes a second batch, even if its record
\* was lost: what it asks for then conflicts with the batch that is there.
RetryMakesNoSecondBatch ==
    \A a, b \in acked : a.request = b.request => a = b

\* Whether the text of the times is in the order of the times.
TextInOrder(keys) ==
    \A k, l \in keys :
        k.created < l.created => TextBefore(k.created, l.created)

\* A listing shows the batches in order and none twice, however the store
\* changes between its pages, if their times have their order as text too.
ListingInOrder ==
    LET seen == listing.seen
    IN  TextInOrder(Range(seen)) =>
            \A i \in 1..(Len(seen) - 1) : Before(seen[i], seen[i + 1])

\* On the same condition it misses no batch that was there and matched from
\* the first page to the last.
SteadyBatchesListed ==
    /\ listing.step = "done"
    /\ TextInOrder(Range(listing.seen) \cup listing.steady)
    => listing.steady \subseteq Range(listing.seen)

=============================================================================
