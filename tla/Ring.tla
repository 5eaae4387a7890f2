--------------------------------- MODULE Ring ---------------------------------
(***************************************************************************)
(* The bounded ring of rows a buffer keeps, and how slices merge into it:   *)
(* the operations of Buffer, and Store's splice, replace and clamp          *)
(* (lurker-client store.rs).                                                *)
(*                                                                          *)
(* A row is the id the server gave it; a row without an id (a line that is  *)
(* not persisted) is LocalRow.  Zero is smaller than every id, which is how *)
(* the code's Option comparisons come out: an id is newer than None.        *)
(***************************************************************************)
EXTENDS Naturals, SequencesExt, FiniteSetsExt

CONSTANTS
  RingCapacity,  \* rows kept before older ones are evicted (500)
  MaxMerge       \* rows of one slice merged into a ring that holds some (250)

ASSUME RingAssumption == RingCapacity \in Nat \ {0} /\ MaxMerge \in Nat \ {0}

LocalRow == 0
NoId == 0

(* The part of a Buffer that decides what is in the ring. *)
EmptyBuffer == [ring |-> <<>>, newest |-> NoId, moreOlder |-> FALSE,
                hydrated |-> FALSE, detached |-> FALSE]

Ids(rows) == Range(rows) \ {LocalRow}

NewestId(rows) == IF Ids(rows) = {} THEN NoId ELSE Max(Ids(rows))

(* The first row that has an id, which need not be the smallest id. *)
OldestId(rows) ==
  LET held == {i \in DOMAIN rows : rows[i] # LocalRow}
  IN  IF held = {} THEN NoId ELSE rows[Min(held)]

(* mutant: rows are kept in the order they arrive *)
InsertLast(ring, row) == Append(ring, row)

InsertOrdered(ring, row) ==
  IF row = LocalRow \/ ring = <<>> \/ Last(ring) < row
  THEN Append(ring, row)
  ELSE LET later == {i \in DOMAIN ring : ring[i] > row}
       IN  InsertAt(ring, IF later = {} THEN Len(ring) + 1 ELSE Min(later), row)

(* mutant: eviction does not re-arm the pager *)
TrimUnarmed(buf) ==
  LET excess == Len(buf.ring) - RingCapacity
  IN  IF Len(buf.ring) <= RingCapacity THEN buf
      ELSE [buf EXCEPT !.ring = SubSeq(@, excess + 1, Len(@))]

(* mutant: eviction takes the new edge *)
TrimNewest(buf) ==
  IF Len(buf.ring) <= RingCapacity THEN buf
  ELSE [buf EXCEPT !.ring = SubSeq(@, 1, RingCapacity), !.moreOlder = TRUE]

(* Evicting from the old edge re-arms the pager. *)
Trim(buf) ==
  LET excess == Len(buf.ring) - RingCapacity
  IN  IF Len(buf.ring) <= RingCapacity THEN buf
      ELSE [buf EXCEPT !.ring = SubSeq(@, excess + 1, Len(@)), !.moreOlder = TRUE]

(* A slice larger than MaxMerge is cut down to the end next to the ring. *)
ClampToAdjacentEnd(ring, rows) ==
  IF ring = <<>> \/ Len(rows) <= MaxMerge THEN rows
  ELSE IF /\ NewestId(rows) # NoId /\ OldestId(ring) # NoId
          /\ NewestId(rows) <= OldestId(ring)
       THEN SubSeq(rows, Len(rows) - MaxMerge + 1, Len(rows))
       ELSE SubSeq(rows, 1, MaxMerge)

(* Insert the rows that are wanted and not held yet, one after the other. *)
AbsorbRow(ring, row, wanted) ==
  IF row \in Ids(ring) \/ row \notin wanted THEN ring ELSE InsertOrdered(ring, row)

Absorb(ring, rows, wanted) ==
  LET held[n \in 0..Len(rows)] ==
        IF n = 0 THEN ring ELSE AbsorbRow(held[n - 1], rows[n], wanted)
  IN  held[Len(rows)]

Splice(buf, rows) ==
  LET slice == ClampToAdjacentEnd(buf.ring, rows)
  IN  Trim([buf EXCEPT !.ring = Absorb(@, slice, Range(slice))])

(* The test replace makes: the slice begins at or below the newest id held. *)
Overlaps(buf, rows) ==
  OldestId(rows) # NoId /\ buf.newest # NoId /\ OldestId(rows) <= buf.newest

Survivors(ring, rows) ==
  {row \in Ids(ring) : NewestId(rows) # NoId /\ row > NewestId(rows)}

Replace(buf, rows) ==
  IF Overlaps(buf, rows) THEN Splice(buf, rows)
  ELSE Trim([buf EXCEPT !.ring = Absorb(rows, @, Survivors(@, rows))])

RecomputeNewest(buf) == [buf EXCEPT !.newest = NewestId(buf.ring)]

-------------------------------------------------------------------------------
(* What each frame does to the buffer it is for *)

(* merge_backlog *)
MergeBacklog(buf, frame) ==
  LET told == [buf EXCEPT !.moreOlder = frame.moreOlder]
      merged == CASE frame.mode = "shell"   -> told
                  [] frame.mode = "append"  -> [Splice(told, frame.rows) EXCEPT !.hydrated = TRUE]
                  [] frame.mode = "replace" -> [Replace(told, frame.rows) EXCEPT !.hydrated = TRUE]
  IN  RecomputeNewest(merged)

(* merge_history (the client never asks for an "after" page) *)
MergeHistory(buf, frame) ==
  LET told == [buf EXCEPT !.moreOlder = frame.moreOlder]
      merged == CASE frame.mode = "before" -> Splice(told, frame.rows)
                  [] frame.mode = "after"  -> Splice(buf, frame.rows)
                  [] frame.mode = "around" -> Replace([told EXCEPT !.detached = TRUE], frame.rows)
                  [] frame.mode = "latest" ->
                       [Replace([told EXCEPT !.detached = FALSE], frame.rows)
                          EXCEPT !.hydrated = TRUE]
  IN  RecomputeNewest(merged)

(* mutant: the newest id itself still counts as fresh *)
FreshOrNewest(buf, row) == row >= buf.newest

(* apply_event: an event is fresh if it is newer than every id applied; one *)
(* that is not fresh and is still held is a replay, and ignored.            *)
Fresh(buf, row) == row > buf.newest
Replayed(buf, row) == ~Fresh(buf, row) /\ row \in Ids(buf.ring)

AddLive(buf, row) ==
  LET shown == IF buf.detached THEN buf
               ELSE Trim([buf EXCEPT !.ring = InsertOrdered(@, row)])
  IN  [shown EXCEPT !.newest = IF row > @ THEN row ELSE @]

(* inject_lines, one line at a time *)
Inject(buf) == Trim([buf EXCEPT !.ring = Append(@, LocalRow)])

===============================================================================
