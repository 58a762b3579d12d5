------------------------------- MODULE Outbox -------------------------------
(***************************************************************************)
(* The durable spool of outbound events, SQLiteEventOutbox in              *)
(* build_engine/queue/store.py: the table events and the column            *)
(* sequence_cursor of the table jobs.  The connection is in autocommit     *)
(* mode, so the INSERT of an event and the UPDATE of the cursor are two    *)
(* transactions, and two actions here.                                     *)
(*                                                                         *)
(* Events are of one size, so max_bytes is a number of events.  An event   *)
(* that is older than the skew decode_frame allows (five minutes) is aged; *)
(* time passing is the action Age.                                         *)
(***************************************************************************)
EXTENDS Naturals, FiniteSets, Sequences

CONSTANTS
  Attempts,   \* attempts the backend may assign
  Capacity,   \* how many events max_bytes has room for
  MaxEvents,  \* bound of the model on the events that are ever made
  MaxAged     \* bound of the model on the events that are not delivered in time

ASSUME AttemptsAssumption == Attempts \subseteq Nat \ {0}
ASSUME OutboxBounds == Capacity \in Nat \ {0} /\ MaxEvents \in Nat /\ MaxAged \in Nat

VARIABLES
  known,    \* attempts that have a row in jobs
  ended,    \* attempts whose row is terminal
  cursor,   \* sequence_cursor
  spool,    \* the table events
  aged,     \* events older than the skew decode_frame allows
  born,     \* every event that was ever in the table
  evicted,  \* events that pruning removed
  forgotten \* attempts whose row was pruned once

outboxVars == <<known, ended, cursor, spool, aged, born, evicted, forgotten>>

Kinds == {"log", "status", "refusal", "outcome"}

\* The number of an event stands for its id and its creation time: both are
\* its own, and later events have later ones.
Event == [attempt: Attempts, seq: Nat, number: Nat, kind: Kinds]

OutboxInit ==
  /\ known = {} /\ ended = {}
  /\ cursor = [a \in Attempts |-> 0]
  /\ spool = {} /\ aged = {} /\ born = {} /\ evicted = {}
  /\ forgotten = {}

\* next_seq; an attempt without a row raises QueueError.
CanNumber(a) == a \in known

\* Variant: the sequence is counted from the events in the spool.
NextEvent_FromSpool(a, kind) ==
  [attempt |-> a,
   seq |-> Cardinality({e \in spool : e.attempt = a}) + 1,
   number |-> Cardinality(born) + 1, kind |-> kind]

NextEvent(a, kind) ==
  [attempt |-> a, seq |-> cursor[a] + 1, number |-> Cardinality(born) + 1,
   kind |-> kind]

\* _append_sync finds another event at this sequence and raises QueueError.
Conflicts(e) == \E x \in spool : x.attempt = e.attempt /\ x.seq = e.seq

InsertEvent(e) ==
  /\ ~Conflicts(e)
  /\ spool' = spool \cup {e}
  /\ born' = born \cup {e}
  /\ UNCHANGED <<known, ended, cursor, aged, evicted, forgotten>>

Oldest(events) == CHOOSE e \in events : \A x \in events : e.number <= x.number

\* _prune_sync, by size: the oldest log makes room, or else the oldest event.
Logs(events) == {e \in events : e.kind = "log"}

\* Variant: logs have no lower rank.
Surplus_OldestFirst(events) ==
  IF Cardinality(events) <= Capacity THEN {} ELSE {Oldest(events)}

Surplus(events) ==
  IF Cardinality(events) <= Capacity THEN {}
  ELSE {Oldest(IF Logs(events) # {} THEN Logs(events) ELSE events)}

\* _prune_sync: by age, the events of terminal attempts (of the aged ones, some
\* are beyond the retention period), then by size.
PruneSpool(events, terminal) ==
  \E expired \in SUBSET {x \in events : x \in aged /\ x.attempt \in terminal} :
    LET kept == events \ expired
    IN  /\ spool' = kept \ Surplus(kept)
        /\ evicted' = evicted \cup (spool \ spool')

\* Variant: the cursor stays behind.
CountEvent_KeepsCursor(e) ==
  /\ PruneSpool(spool, ended)
  /\ UNCHANGED <<known, ended, cursor, aged, born, forgotten>>

\* The rest of _append_sync: the cursor, then _prune_sync.
CountEvent(e) ==
  /\ cursor' = [cursor EXCEPT ![e.attempt] = IF e.seq > @ THEN e.seq ELSE @]
  /\ PruneSpool(spool, ended)
  /\ UNCHANGED <<known, ended, aged, born, forgotten>>

\* Terminal rows that nothing has touched for the retention period.  Appending
\* an event touches its row, so all of their events are aged.
Prunable == {a \in ended : \A e \in spool : e.attempt = a => e \in aged}

\* The pruning at start-up: prune_terminal, which takes the events of the rows
\* with it, then _prune_sync.
StartOutbox ==
  \E rows \in SUBSET Prunable :
    /\ known' = known \ rows /\ ended' = ended \ rows
    /\ cursor' = [a \in Attempts |-> IF a \in rows THEN 0 ELSE cursor[a]]
    /\ PruneSpool({e \in spool : e.attempt \notin rows}, ended \ rows)
    /\ forgotten' = forgotten \cup rows
    /\ UNCHANGED <<aged, born>>

AckThrough(a, last) ==
  /\ spool' = {e \in spool : ~(e.attempt = a /\ e.seq <= last)}
  /\ UNCHANGED <<known, ended, cursor, aged, born, evicted, forgotten>>

\* Variant: the first event after the cursor is left out.
ReplayAfter_SkipsOne(cursors) ==
  {e \in spool : e.seq > cursors[e.attempt] + 1 /\ e \notin aged}

\* replay_after, which lists them oldest first; what decode_frame rejects is
\* passed over.
ReplayAfter(cursors) ==
  {e \in spool : e.seq > cursors[e.attempt] /\ e \notin aged}

Age(e) ==
  /\ Cardinality(aged) < MaxAged
  /\ e \in spool \ aged
  /\ aged' = aged \cup {e}
  /\ UNCHANGED <<known, ended, cursor, spool, born, evicted, forgotten>>

=============================================================================
