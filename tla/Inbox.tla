------------------------------- MODULE Inbox --------------------------------
(***************************************************************************)
(* The notifications page (app/(app)/[orgSlug]/notifications/page.tsx) and *)
(* the rows it shows (internal/notifications).                             *)
(*                                                                         *)
(* A click changes the cached list at once and remembers the list before   *)
(* it; an error puts that list back; either way the list is fetched again. *)
(* Clicks overlap, answers get lost, the stream and other devices change   *)
(* the rows meanwhile.  The pages of the list are read as one.             *)
(***************************************************************************)
EXTENDS Naturals, FiniteSets

CONSTANTS Notes,    \* notifications of the user
          Clicks    \* clicks under way at the same time

ASSUME InboxAssumption == IsFiniteSet(Notes) /\ IsFiniteSet(Clicks)

VARIABLES
  rows,     \* per notification: its row
  cache,    \* the list shown, NoList before the first
  fetch,    \* the fetch under way
  invalid,  \* the cached list is marked as out of date
  moved,    \* the rows changed by other hands since the list was read
  click     \* per click: the mutation it started

inboxVars == <<rows, cache, fetch, invalid, moved, click>>

NoList == [n \in Notes |-> "unknown"]
NoFetch == [at |-> "none"]
Asked == [at |-> "asked", list |-> NoList, moved |-> FALSE]
NoClick == [at |-> "none"]
Visible(m) == [n \in Notes |-> IF m[n] \in {"unborn", "deleted"} THEN "none" ELSE m[n]]

-----------------------------------------------------------------------------
(* The rows.                                                               *)

\* MarkNotificationRead, MarkAllNotificationsRead and SoftDeleteNotification;
\* the page changes its list in the same way.
Read(m, n) == [m EXCEPT ![n] = IF @ = "unread" THEN "read" ELSE @]
ReadAll(m) == [n \in Notes |-> IF m[n] = "unread" THEN "read" ELSE m[n]]
After(op, n, m) == CASE op = "read" -> Read(m, n)
                     [] op = "all" -> ReadAll(m)
                     [] op = "delete" -> [m EXCEPT ![n] = "deleted"]

\* No row is ErrNotificationNotFound: already read, or already deleted.
Matched(op, n, m) == CASE op = "read" -> m[n] = "unread"
                     [] op = "all" -> TRUE
                     [] op = "delete" -> m[n] \in {"unread", "read"}

ByOthers == /\ moved' = TRUE
            /\ fetch' = IF fetch.at = "read" THEN [fetch EXCEPT !.moved = TRUE] ELSE fetch

\* A drain inserts a row; another device of the user changes one.
Arrives(n) ==
  /\ rows[n] = "unborn" /\ rows' = [rows EXCEPT ![n] = "unread"]
  /\ ByOthers /\ UNCHANGED <<cache, invalid, click>>
Elsewhere(op, n) ==
  /\ Matched(op, n, rows) /\ rows' = After(op, n, rows)
  /\ ByOthers /\ UNCHANGED <<cache, invalid, click>>

-----------------------------------------------------------------------------
(* The list: GET, the query client.                                        *)

\* ListNotificationsByUser.
List ==
  /\ fetch.at = "asked"
  /\ fetch' = [at |-> "read", list |-> Visible(rows), moved |-> FALSE]
  /\ UNCHANGED <<rows, cache, invalid, moved, click>>
Listed ==
  /\ fetch.at = "read"
  /\ cache' = fetch.list /\ moved' = fetch.moved
  /\ invalid' = FALSE /\ fetch' = NoFetch
  /\ UNCHANGED <<rows, click>>
ListFails ==
  /\ fetch # NoFetch
  /\ fetch' = NoFetch /\ invalid' = TRUE
  /\ UNCHANGED <<rows, cache, moved, click>>

\* invalidateQueries: a fetch under way is given up for a new one.
Invalidate == invalid' = TRUE /\ fetch' = Asked

\* An event of the stream, or a focus of the window on an old list.
Refetch == Invalidate /\ UNCHANGED <<rows, cache, moved, click>>

-----------------------------------------------------------------------------
(* The clicks.                                                             *)

Shown(op, n) == IF op = "all" THEN TRUE ELSE cache[n] \in {"unread", "read"}

\* onMutate: cancelQueries is awaited ...
Click(c, op, n) ==
  /\ click[c] = NoClick /\ Shown(op, n)
  /\ click' = [click EXCEPT ![c] = [at |-> "clicked", op |-> op, note |-> n, prev |-> NoList]]
  /\ fetch' = NoFetch
  /\ UNCHANGED <<rows, cache, invalid, moved>>

\* ... then the list before is kept, the list shown as it will be, and the
\* request sent.  A fetch that has begun meanwhile goes on.
SendClick(c) ==
  LET q == click[c] IN
  /\ q.at = "clicked"
  /\ click' = [click EXCEPT ![c] = [q EXCEPT !.at = "sent", !.prev = cache]]
  /\ IF cache = NoList THEN UNCHANGED <<cache, invalid>>
                       ELSE cache' = Visible(After(q.op, q.note, cache)) /\ invalid' = FALSE
  /\ UNCHANGED <<rows, fetch, moved>>

\* The handler: the row is changed, or not found.
Serve(c) ==
  LET q == click[c] IN
  /\ q.at = "sent"
  /\ IF Matched(q.op, q.note, rows)
     THEN rows' = After(q.op, q.note, rows) /\ click' = [click EXCEPT ![c].at = "done"]
     ELSE UNCHANGED rows /\ click' = [click EXCEPT ![c].at = "refused"]
  /\ UNCHANGED <<cache, fetch, invalid, moved>>

\* onError: the list of before, if there was one.
RollBack(prev) == cache' = IF prev = NoList THEN cache ELSE prev

\* Mutant: only a success fetches the list again.
OnSuccess(ok) == IF ok THEN Invalidate ELSE UNCHANGED <<invalid, fetch>>

\* onSettled.
OnSettled(ok) == Invalidate

Succeeds(c) ==
  /\ click[c].at = "done" /\ OnSettled(TRUE)
  /\ click' = [click EXCEPT ![c] = NoClick]
  /\ UNCHANGED <<rows, cache, moved>>

\* Not found, or the answer is lost: then the request may be served later.
Fails(c) ==
  /\ click[c].at \in {"sent", "done", "refused"}
  /\ RollBack(click[c].prev) /\ OnSettled(FALSE)
  /\ click' = [click EXCEPT ![c] = IF @.at = "sent" THEN [@ EXCEPT !.at = "late"] ELSE NoClick]
  /\ UNCHANGED <<rows, moved>>
ServedLate(c) ==
  LET q == click[c] IN
  /\ q.at = "late"
  /\ IF Matched(q.op, q.note, rows)
     THEN rows' = After(q.op, q.note, rows) /\ ByOthers
     ELSE UNCHANGED <<rows, moved, fetch>>
  /\ click' = [click EXCEPT ![c] = NoClick]
  /\ UNCHANGED <<cache, invalid>>

-----------------------------------------------------------------------------

InboxInit ==
  /\ rows \in [Notes -> {"unborn", "unread"}]
  /\ cache = NoList /\ fetch = Asked /\ invalid = FALSE /\ moved = FALSE
  /\ click = [c \in Clicks |-> NoClick]

InboxNext ==
  \/ List \/ Listed \/ ListFails \/ Refetch
  \/ Elsewhere("all", "any")
  \/ \E n \in Notes : Arrives(n) \/ Elsewhere("read", n) \/ Elsewhere("delete", n)
  \/ \E c \in Clicks :
       \/ SendClick(c) \/ Serve(c) \/ Succeeds(c) \/ Fails(c) \/ ServedLate(c)
       \/ Click(c, "all", "any")
       \/ \E n \in Notes : Click(c, "read", n) \/ Click(c, "delete", n)
InboxSpec == InboxInit /\ [][InboxNext]_inboxVars

-----------------------------------------------------------------------------
(* Property.                                                               *)

\* Whatever clicks overlapped and failed, once none is on the way and the list
\* is not marked for another fetch, it shows the rows, but for what others
\* changed since it was read (onMutate, onError, onSettled).
Quiet == /\ \A c \in Clicks : click[c].at \in {"none", "late"}
         /\ fetch = NoFetch /\ ~invalid
InboxTrue == Quiet /\ ~moved => cache = Visible(rows)
=============================================================================
