------------------------------ MODULE PreviewStore ------------------------------
(***************************************************************************)
(* The previews of imported files that wait for their confirmation. One    *)
(* store in memory serves all users of a warehouse: it is bounded in       *)
(* previews, in previews of one author and in rows, and makes room by      *)
(* forgetting what is oldest. Besides the previews it keeps the last rows  *)
(* each author has looked at, per kind, for the export of a preview.       *)
(*                                                                         *)
(*   items   the previews; their ids tell the order they were stored in    *)
(*   cache   the last rows per author and kind, in the same order          *)
(*   posted  ids of the previews whose rows were written, in order         *)
(*   used    ids given out                                                 *)
(*   clock     the clock, in seconds as the store keeps it                   *)
(*                                                                         *)
(* A preview and a confirmation are POST requests under the server's lock; *)
(* an export is a GET that only forgets what has expired.                  *)
(***************************************************************************)
EXTENDS Integers, Sequences, FiniteSetsExt, SequencesExt

CONSTANTS
  Authors, FileKinds,
  MaxItems,        \* max_items, 8 in the code
  PerAuthor,       \* max_items_per_author, 2 in the code
  MaxRows,         \* max_rows_per_preview
  MaxTotal,        \* max_total_rows, twice MaxRows in the code
  Sizes,           \* numbers of rows a file may have
  KeptFor,             \* ttl_seconds, an hour in the code
  MaxIds, MaxClock  \* bounds: previews ever stored, end of the clock

ASSUME PreviewBounds ==
  /\ MaxItems \in Nat \ {0} /\ PerAuthor \in Nat \ {0} /\ KeptFor \in Nat \ {0}
  /\ MaxRows \in Nat \ {0} /\ MaxTotal \in Nat /\ MaxRows <= MaxTotal
  /\ Sizes \subseteq Nat /\ MaxIds \in Nat /\ MaxClock \in Nat

VARIABLES items, cache, posted, used, clock
previewVars == <<items, cache, posted, used, clock>>

Item == [id : 1 .. MaxIds, author : Authors, kind : FileKinds, made : 0 .. MaxClock, size : Sizes]

InitPreviews == items = {} /\ cache = {} /\ posted = <<>> /\ used = 0 /\ clock = 0

\* _purge_locked
Expired(r) == r.made + KeptFor <= clock
Alive(S) == {r \in S : ~Expired(r)}

\* _total_rows_locked: rows that a preview and the cache share count once.
Total(rows) == MapThenSumSet(LAMBDA r : r.size, rows)

Newest(S, n) == {r \in S : Cardinality({s \in S : s.id > r.id}) < n}

\* Mutant: room is made one preview too late.
OutlivedLate(r, I, new) ==
  /\ r.author = new.author
  /\ Cardinality({s \in I : s.author = r.author /\ s.id >= r.id}) > PerAuthor

\* The author's previews of the list that make room for one more of his.
Outlived(r, I, new) ==
  /\ r.author = new.author
  /\ Cardinality({s \in I : s.author = r.author /\ s.id >= r.id}) >= PerAuthor

\* Places in the store, in the order _enforce_limits_locked gives them up: by age
\* in whole seconds, previews before cached rows, first stored first.
Before(p, q) ==
  \/ p.row.made < q.row.made
  \/ p.row.made = q.row.made
     /\ \/ p.cached < q.cached
        \/ p.cached = q.cached /\ p.row.id < q.row.id

GivenUp(I, C, new) ==
  LET places == {[row |-> r, cached |-> 0] : r \in I}
                  \cup {[row |-> r, cached |-> 1] : r \in C}
      open == {p \in places : p.row # new}
      left(p) == places \ {q \in open : Before(q, p)}
  IN  {p \in open : Total({q.row : q \in left(p)}) > MaxTotal}

\* store, from the given previews on
StoreFrom(I, new) ==
  LET own == {r \in I : ~Outlived(r, I, new)} \cup {new}
      seen == {r \in Alive(cache) : r.author # new.author \/ r.kind # new.kind} \cup {new}
      I2 == Newest(own, MaxItems)
      C2 == Newest(seen, MaxItems)
      gone == GivenUp(I2, C2, new)
  IN  [items |-> {r \in I2 : [row |-> r, cached |-> 0] \notin gone},
       cache |-> {r \in C2 : [row |-> r, cached |-> 1] \notin gone}]

Rows(author, kind, size) ==
  [id |-> used + 1, author |-> author, kind |-> kind, made |-> clock, size |-> size]

-----------------------------------------------------------------------------

\* preview_..._import; a file with too many rows is refused before anything moves.
Preview(author, kind, size) ==
  /\ used < MaxIds /\ size <= MaxRows
  /\ LET after == StoreFrom(Alive(items), Rows(author, kind, size))
     IN  items' = after.items /\ cache' = after.cache
  /\ used' = used + 1 /\ UNCHANGED <<posted, clock>>

\* consume
Pending(id, author, kind) ==
  \E r \in Alive(items) : r.id = id /\ r.author = author /\ r.kind = kind

Without(S, id) == {r \in S : r.id # id}

\* Mutant: the preview stays until it expires.
ConfirmKeeping(id, author, kind, valid) ==
  /\ Pending(id, author, kind) /\ used < MaxIds
  /\ LET r == CHOOSE s \in items : s.id = id
         check == Rows(author, kind, r.size)
         after == StoreFrom(Alive(items), check)
     IN  items' = Without(after.items, check.id) /\ cache' = after.cache
  /\ posted' = IF valid THEN Append(posted, id) ELSE posted
  /\ used' = used + 1 /\ UNCHANGED clock

\* confirm_..._import: the preview is taken out, its rows are previewed again, and
\* that second preview is taken out whatever it found; the rows are written when
\* it found no error, all of them or none.
Confirm(id, author, kind, valid) ==
  /\ Pending(id, author, kind) /\ used < MaxIds
  /\ LET r == CHOOSE s \in items : s.id = id
         check == Rows(author, kind, r.size)
         after == StoreFrom(Without(Alive(items), id), check)
     IN  items' = Without(after.items, check.id) /\ cache' = after.cache
  /\ posted' = IF valid THEN Append(posted, id) ELSE posted
  /\ used' = used + 1 /\ UNCHANGED clock

\* rows, and a confirmation of what is not there
Look ==
  /\ items' = Alive(items) /\ cache' = Alive(cache)
  /\ UNCHANGED <<posted, used, clock>>

ClockTicks == clock < MaxClock /\ clock' = clock + 1 /\ UNCHANGED <<items, cache, posted, used>>

\* The process ends and starts again: nothing of this was on disk.
Forget == items' = {} /\ cache' = {} /\ UNCHANGED <<posted, used, clock>>

NextPreviews ==
  \/ \E a \in Authors, k \in FileKinds, n \in Sizes : Preview(a, k, n)
  \/ \E id \in 1 .. used, a \in Authors, k \in FileKinds, valid \in BOOLEAN : Confirm(id, a, k, valid)
  \/ Look
  \/ ClockTicks
  \/ Forget

PreviewSpec == InitPreviews /\ [][NextPreviews]_previewVars

-----------------------------------------------------------------------------
(* Properties. *)

PreviewTypeOK ==
  /\ items \subseteq Item /\ cache \subseteq Item /\ posted \in Seq(1 .. MaxIds)
  /\ used \in 0 .. MaxIds /\ clock \in 0 .. MaxClock

\* The rows of a preview are written at most once, and once written the preview is
\* not pending any more, also when it is confirmed twice in a row.
PostedOnce ==
  /\ IsInjective(posted)
  /\ \A r \in items : r.id \notin ToSet(posted)

WithinLimits ==
  /\ Cardinality(items) <= MaxItems /\ Cardinality(cache) <= MaxItems
  /\ \A a \in Authors : Cardinality({r \in items : r.author = a}) <= PerAuthor
  /\ Total(items \cup cache) <= MaxTotal

\* The store forgets just enough: it stays within its limits, rows shared with the
\* cache counted once, and nobody loses a preview that has not expired but for a
\* reason: its own author stored more, or the store was full in previews or would be
\* full in rows. Confirming one, which stores a second preview on the way, costs
\* nobody another (store, _enforce_limits_locked).
ForgetsJustEnough ==
  [][/\ WithinLimits'
     /\ \A id \in 1 .. used, a \in Authors, k \in FileKinds, valid \in BOOLEAN :
          Confirm(id, a, k, valid) =>
            \A r \in Alive(items) : r.id # id => r \in items'
     /\ \A a \in Authors, k \in FileKinds, n \in Sizes :
          Preview(a, k, n) =>
            \A r \in Alive(items) \ items' :
              \/ r.author = a
              \/ Cardinality(Alive(items)) >= MaxItems
              \/ Total(Alive(items) \cup Alive(cache)) + n > MaxTotal]_previewVars
=============================================================================
