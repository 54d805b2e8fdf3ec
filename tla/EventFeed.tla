----------------------------- MODULE EventFeed ------------------------------
(***************************************************************************)
(* What the helper's event poller promises the backend, without pollers,   *)
(* batches, files and processes: a reader takes the volume's events in     *)
(* order, from where the mark says, and the backend is told of them in     *)
(* that order; only the oldest of those waiting are lost for want of room. *)
(* The mark never passes over an event nobody has dealt with, so a new     *)
(* reader may deal with events again but misses none.                      *)
(***************************************************************************)
EXTENDS Naturals

CONSTANT NoMark

VARIABLES
  made,     \* the events are 1 .. made
  settled,  \* events dealt with, by whichever reader, or knowingly passed over
  mark,     \* what is saved for the next reader
  reading,  \* the reader in use is at work
  first,    \* it began after this event
  last,     \* it has taken the events up to this one
  waiting,  \* of these, the ones the backend has not asked for,
  sent,     \* on their way to it,
  told,     \* that have reached it,
  lost      \* and that it will not be told of

reader == <<reading, first, last, waiting, sent, told, lost>>
vars == <<made, settled, mark, reader>>

Init ==
  /\ made \in Nat /\ settled = {} /\ mark = NoMark
  /\ reading = FALSE /\ first = 0 /\ last = 0
  /\ waiting = {} /\ sent = {} /\ told = {} /\ lost = {}

Happen ==
  /\ made' = made + 1
  /\ UNCHANGED <<settled, mark, reader>>

(* A mark is set where nothing is passed over, or is lost.                  *)
Save ==
  /\ \/ mark' = NoMark
     \/ mark' \in 0 .. made /\ 1 .. mark' \subseteq settled
  /\ UNCHANGED <<made, settled, reader>>

(* A new reader begins at the mark.  Without one it begins at the latest    *)
(* event, or not at all.                                                    *)
Begin(isReading, n) ==
  /\ reading' = isReading /\ first' = n /\ last' = n
  /\ waiting' = {} /\ sent' = {} /\ told' = {} /\ lost' = {}
  /\ UNCHANGED <<made, mark>>

Resume     == mark # NoMark /\ Begin(TRUE, mark) /\ UNCHANGED settled
BeginAnew  == mark = NoMark /\ Begin(TRUE, made) /\ settled' = settled \cup 1 .. made
BeginNever == mark = NoMark /\ Begin(FALSE, 0) /\ UNCHANGED settled

Older(events, others) == \A x \in events, y \in others : x < y

(* The next events, or none; the oldest waiting may have to make room.      *)
Take ==
  /\ reading
  /\ last' \in last .. made
  /\ settled' = settled \cup last + 1 .. last'
  /\ \E oldest \in SUBSET waiting :
       /\ Older(oldest, waiting \ oldest)
       /\ waiting' = (waiting \ oldest) \cup last + 1 .. last'
       /\ lost' = lost \cup oldest
  /\ UNCHANGED <<made, mark, reading, first, sent, told>>

(* A reader that was replaced goes on.                                      *)
TakeUnused ==
  /\ settled \subseteq settled' /\ settled' \subseteq settled \cup 1 .. made
  /\ UNCHANGED <<made, mark, reader>>

Send ==
  /\ reading /\ sent = {}
  /\ sent' = waiting /\ waiting' = {}
  /\ UNCHANGED <<made, settled, mark, reading, first, last, told, lost>>

Arrive ==
  /\ told' = told \cup sent /\ sent' = {}
  /\ UNCHANGED <<made, settled, mark, reading, first, last, waiting, lost>>

(* The reader ends with what is waiting and, perhaps, what it has sent.     *)
End ==
  /\ reading' = FALSE /\ first' = 0 /\ last' = 0
  /\ waiting' = {} /\ sent' \in {sent, {}}
  /\ UNCHANGED <<made, settled, mark, told, lost>>

Next ==
  \/ Happen \/ Save \/ Resume \/ BeginAnew \/ BeginNever
  \/ Take \/ TakeUnused \/ Send \/ Arrive \/ End

Spec == Init /\ [][Next]_vars
=============================================================================
