---------------------------- MODULE DurableInbox ----------------------------
(***************************************************************************)
(* What the inbox promises its readers, whatever interrupts it: once the   *)
(* cursor has passed an event, the event is held or still owed, and an     *)
(* owed event is only ever released by being held.                         *)
(***************************************************************************)
EXTENDS Integers

VARIABLES
  arrived,   \* the events that have reached the server
  cursor,    \* the position up to which the inbox answers for them
  held,      \* the events in the inbox
  owed       \* the events the inbox still has to fetch

absVars == <<arrived, cursor, held, owed>>

Init == arrived = {} /\ cursor = 0 /\ held = {} /\ owed = {}

\* New events are later than everything that arrived before it.
Arrive ==
  /\ arrived \subseteq arrived'
  /\ \A p \in arrived' \ arrived : p > cursor
  /\ UNCHANGED <<cursor, held, owed>>

\* A commit: the cursor may advance, events may be stored, and everything that
\* was owed or is newly passed is stored or owed afterwards.
Commit ==
  /\ cursor' >= cursor
  /\ held \subseteq held' /\ held' \subseteq arrived
  /\ owed' \subseteq arrived
  /\ owed' \cap held' = {}
  /\ owed \cup {p \in arrived : cursor < p /\ p <= cursor'}
       \subseteq held' \cup owed'
  /\ UNCHANGED arrived

Next == Arrive \/ Commit

Spec == Init /\ [][Next]_absVars
=============================================================================
