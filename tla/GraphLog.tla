----------------------------- MODULE GraphLog -----------------------------
(***************************************************************************)
(* What the event journal of a graph instance promises its callers         *)
(* (loop/graph/runtime/GraphStore.ts): a log to which events are appended  *)
(* one at a time and from which nothing is ever lost, reordered or read    *)
(* twice, whatever happens to the files it is kept in.  An event replaces  *)
(* the records of some keys (the instance, the State, activations); a      *)
(* record is told by the number of the event that wrote it.                *)
(***************************************************************************)
EXTENDS Naturals

CONSTANTS
  RecordId,          \* what events write: instance, State, activations
  Kinds         \* the sorts of events: which keys each of them writes

VARIABLES
  last,         \* number of events appended
  latest,       \* [RecordId -> number of the event that last wrote the key]
  given         \* what the last reader was given

Creation == [last |-> 1, latest |-> [k \in RecordId |-> 1]]

LogInit ==
  /\ last = Creation.last
  /\ latest = Creation.latest
  /\ given = Creation

AppendEvent(kind) ==
  /\ last' = last + 1
  /\ latest' = [k \in RecordId |-> IF k \in kind.keys THEN last + 1 ELSE latest[k]]
  /\ UNCHANGED given

(* A transaction begins with the records of all the events so far. *)
ReadLog ==
  /\ given' = [last |-> last, latest |-> latest]
  /\ UNCHANGED <<last, latest>>

LogNext == ReadLog \/ \E kind \in Kinds : AppendEvent(kind)

LogSpec == LogInit /\ [][LogNext]_<<last, latest, given>>

=============================================================================
