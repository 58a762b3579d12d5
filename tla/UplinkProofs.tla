---------------------------- MODULE UplinkProofs ----------------------------
(***************************************************************************)
(* Proofs about Outbox and Uplink, for all attempts, every capacity of the *)
(* spool and every number of events and faults.                            *)
(*                                                                         *)
(* The invariant has a part for the spool and a part for the session.  The *)
(* spool's: events have numbers of their own, the cursors cover what is in *)
(* it, so next_seq never gives a number twice.  The session's: while the   *)
(* replay runs, an event that is in the spool and that the session has not *)
(* sent is still on the replay's list, because _ws is set before the spool *)
(* is read and everything published from then on is sent directly.         *)
(***************************************************************************)
EXTENDS Uplink, NaturalFacts

-----------------------------------------------------------------------------
(* The inductive invariant.                                                *)

\* What is counted: the events ever made bound their numbers and the cursors.
Counted ==
  /\ IsFiniteSet(born)
  /\ \A e \in born : /\ e \in Event
                     /\ e.seq <= Cardinality(born) /\ e.number <= Cardinality(born)
  /\ cursor \in [Attempts -> Nat]
  /\ \A a \in Attempts : cursor[a] <= Cardinality(born)

\* The tables: nothing is in them that was not made.
Tables ==
  /\ known \subseteq Attempts /\ ended \subseteq known
  /\ spool \subseteq born \ evicted /\ aged \subseteq born /\ evicted \subseteq born

\* The event in publish_attempt_event has the next number until it is in the spool.
UnderWay ==
  /\ stage \in {"free", "numbered", "inserted", "stored"}
  /\ stage = "numbered" => /\ current \in Event
                           /\ current.number = Cardinality(born) + 1
                           /\ current.seq = cursor[current.attempt] + 1
  /\ stage \in {"inserted", "stored"} => current \in born

\* The events to come fit into the bound of the model.
RoomKept ==
  /\ replyTo \in [attempt : Attempts \cup {0}, kind : Kinds, numbered : BOOLEAN]
  /\ Replying => replyTo.attempt \in Attempts
  /\ replyTo.numbered => stage # "free"
  /\ Cardinality(born) + (IF stage = "numbered" THEN 1 ELSE 0)
       + (IF Replying /\ ~replyTo.numbered THEN 1 ELSE 0) <= MaxEvents

\* Unless an append was torn, the cursor is past everything in the spool, and past
\* everything that was ever made for an attempt whose row was never pruned.
CursorCovers ==
  /\ torn \in Nat
  /\ torn = 0 =>
       \A e \in born : (e \in spool \/ e.attempt \notin forgotten) =>
         e.seq <= cursor[e.attempt] \/ (stage = "inserted" /\ e = current)

\* Then no two events were ever made with one sequence number.
SequenceUnique ==
  torn = 0 =>
    \A x, y \in born :
      (x.attempt = y.attempt /\ x.attempt \notin forgotten /\ x.seq = y.seq) => x = y

\* What is sent, replayed and received comes from the spool.
Traffic ==
  /\ link \in {"down", "opened", "greeted", "replaying", "open"}
  /\ ws \in BOOLEAN /\ stopped \in BOOLEAN
  /\ sent \in Seq(born) /\ delivered \in 0 .. Len(sent)
  /\ replay \subseteq born /\ received \subseteq born

\* While a session replays, what it has not sent it has still to replay.
ReplayCovers ==
  (link = "replaying" /\ ws) =>
    \A e \in Settled \ aged : e.seq > welcomed[e.attempt] => e \in Sent \cup replay

SpoolInv ==
  Counted /\ Tables /\ UnderWay /\ CursorCovers /\ SequenceUnique

UplinkInv == SpoolInv /\ RoomKept /\ Traffic /\ ReplayCovers /\ ReplayLeavesNoGap

-----------------------------------------------------------------------------
(* The oldest event and pruning.                                           *)

\* The oldest of some events is one of them.
LEMMA OldestIsMember ==
  ASSUME NEW S, S # {}, \A e \in S : e.number \in Nat
  PROVE  Oldest(S) \in S
<1>. DEFINE N == {e.number : e \in S}
<1>1. PICK n \in N : \A m \in N : n <= m
  <2>1. N \subseteq Nat /\ N # {}
    OBVIOUS
  <2>. HIDE DEF N
  <2>. QED  BY <2>1, LeastNatural
<1>2. PICK e \in S : e.number = n
  OBVIOUS
<1>3. \A x \in S : e.number <= x.number
  BY <1>1, <1>2
<1>. QED  BY <1>3 DEF Oldest

\* It is not newer than any of them.
LEMMA OldestIsLeast ==
  ASSUME NEW S, NEW z \in S, \A e \in S : e.number \in Nat
  PROVE  Oldest(S).number <= z.number
<1>. DEFINE N == {e.number : e \in S}
<1>1. PICK n \in N : \A m \in N : n <= m
  <2>1. N \subseteq Nat /\ N # {}
    OBVIOUS
  <2>. HIDE DEF N
  <2>. QED  BY <2>1, LeastNatural
<1>2. PICK e \in S : e.number = n
  OBVIOUS
<1>3. \A x \in S : e.number <= x.number
  BY <1>1, <1>2
<1>4. \A x \in S : Oldest(S).number <= x.number
  BY <1>3 DEF Oldest
<1>. QED  BY <1>4

\* Pruning keeps some of the events.  What it gives up is beyond its retention, a log,
\* or the oldest of more statuses than there is room for.
LEMMA PruneFacts ==
  ASSUME Counted, NEW events, events \subseteq born, NEW terminal,
         PruneSpool(events, terminal)
  PROVE  /\ spool' \subseteq events
         /\ evicted' = evicted \cup (spool \ spool')
         /\ \A e \in events \ spool' :
              \/ e.kind = "log"
              \/ e \in aged /\ e.attempt \in terminal
              \/ /\ Logs(spool') = {}
                 /\ Cardinality({x \in spool' : x.number >= e.number}) >= Capacity
<1>1. PICK expired \in SUBSET {x \in events : x \in aged /\ x.attempt \in terminal} :
        /\ spool' = (events \ expired) \ Surplus(events \ expired)
        /\ evicted' = evicted \cup (spool \ spool')
  BY DEF PruneSpool
<1>2. PICK kept : kept = events \ expired
  OBVIOUS
<1>3. /\ kept \subseteq born /\ \A e \in kept : e.number \in Nat
      /\ spool' = kept \ Surplus(kept)
  BY <1>1, <1>2 DEF Counted, Event
<1>4. ASSUME NEW e \in Surplus(kept), e \in kept
      PROVE  \/ e.kind = "log"
             \/ /\ Logs(spool') = {}
                /\ Cardinality({x \in spool' : x.number >= e.number}) >= Capacity
  <2>1. ~(Cardinality(kept) <= Capacity)
    BY <1>4 DEF Surplus
  <2>2. CASE Logs(kept) # {}
    <3>1. e = Oldest(Logs(kept))
      BY <1>4, <2>1, <2>2 DEF Surplus
    <3>2. \A x \in Logs(kept) : x.number \in Nat /\ x.kind = "log"
      BY <1>3 DEF Logs
    <3>. QED  BY <2>2, <3>1, <3>2, OldestIsMember
  <2>3. CASE Logs(kept) = {}
    <3>1. Surplus(kept) = {Oldest(kept)} /\ e = Oldest(kept)
      BY <1>4, <2>1, <2>3 DEF Surplus
    <3>2. spool' = kept \ {e}
      BY <1>3, <3>1
    <3>3. \A x \in kept : e.number <= x.number
      BY <1>3, <1>4, <3>1, OldestIsLeast
    <3>4. {x \in spool' : x.number >= e.number} = kept \ {e}
      BY <1>3, <1>4, <3>2, <3>3
    <3>5. IsFiniteSet(kept)
      BY <1>3, FS_Subset DEF Counted
    <3>6. Cardinality(kept \ {e}) = Cardinality(kept) - 1 /\ Cardinality(kept) \in Nat
      BY <1>4, <3>5, FS_RemoveElement, FS_CardinalityType
    <3>7. Cardinality(kept \ {e}) >= Capacity
      BY <2>1, <3>6, OutboxBounds
    <3>8. Logs(spool') = {}
      BY <2>3, <3>2 DEF Logs
    <3>. QED  BY <3>4, <3>7, <3>8
  <2>. QED  BY <2>2, <2>3
<1>5. \A e \in events \ spool' : (e \in aged /\ e.attempt \in terminal)
                                 \/ (e \in kept /\ e \in Surplus(kept))
  BY <1>1, <1>2
<1>6. spool' \subseteq events
  BY <1>1
<1>. QED  BY <1>1, <1>4, <1>5, <1>6

\* One more event.
LEMMA OneMoreEvent ==
  ASSUME Counted, NEW e, e \notin born
  PROVE  /\ IsFiniteSet(born \cup {e})
         /\ Cardinality(born) \in Nat /\ Cardinality(born \cup {e}) = Cardinality(born) + 1
  BY FS_AddElement, FS_CardinalityType DEF Counted

-----------------------------------------------------------------------------
(* The spool: one lemma per way a step changes it.                         *)

tableVars == <<cursor, spool, aged, born, evicted, forgotten>>

\* The rows may change while the events and the cursors do not.
LEMMA RowsChange ==
  ASSUME SpoolInv, UNCHANGED <<tableVars, stage, current, torn>>,
         known' \subseteq Attempts, ended' \subseteq known'
  PROVE  SpoolInv'
  BY DEF SpoolInv, Counted, Tables, UnderWay, CursorCovers, SequenceUnique,
         tableVars

\* next_seq gives the event its number.
LEMMA NumberKeepsSpool ==
  ASSUME SpoolInv, NEW a \in Attempts, NEW kind \in Kinds, Number(a, kind),
         UNCHANGED <<tableVars, torn>>,
         known' \subseteq Attempts, ended' \subseteq known'
  PROVE  SpoolInv'
<1>1. UNCHANGED <<cursor, spool, aged, born, evicted, forgotten, torn>>
  BY DEF tableVars
<1>2. Counted' /\ Tables' /\ SequenceUnique'
  BY <1>1 DEF SpoolInv, Counted, Tables, SequenceUnique
<1>3. UnderWay'
  <2>1. Cardinality(born) \in Nat /\ cursor[a] \in Nat
    BY FS_CardinalityType DEF SpoolInv, Counted
  <2>. QED  BY <1>1, <2>1 DEF Number, NextEvent, UnderWay, Event
<1>4. CursorCovers'
  BY <1>1 DEF SpoolInv, CursorCovers, Number
<1>. QED  BY <1>2, <1>3, <1>4 DEF SpoolInv

\* The event is written under a number that no other event has.
LEMMA InsertKeepsSpool ==
  ASSUME SpoolInv, Insert
  PROVE  SpoolInv'
<1>1. /\ spool' = spool \cup {current} /\ born' = born \cup {current}
      /\ UNCHANGED <<known, ended, cursor, aged, evicted, forgotten, torn, current>>
      /\ stage = "numbered" /\ stage' = "inserted"
  BY DEF Insert, InsertEvent, faultVars
<1>2. /\ current \in Event /\ current.number = Cardinality(born) + 1
      /\ current.seq = cursor[current.attempt] + 1
  BY <1>1 DEF SpoolInv, UnderWay
<1>3. Cardinality(born) \in Nat
  BY FS_CardinalityType DEF SpoolInv, Counted
<1>4. current \notin born
  BY <1>2, <1>3 DEF SpoolInv, Counted
<1>5. IsFiniteSet(born') /\ Cardinality(born') = Cardinality(born) + 1
  BY <1>1, <1>4, OneMoreEvent DEF SpoolInv
<1>6. current.attempt \in Attempts /\ cursor[current.attempt] \in Nat
  BY <1>2 DEF Event, SpoolInv, Counted
<1>7. Counted'
  <2>1. ASSUME NEW e \in born' PROVE e \in Event /\ e.seq <= Cardinality(born') /\ e.number <= Cardinality(born')
    <3>1. CASE e = current
      BY <1>2, <1>3, <1>5, <1>6, <3>1 DEF SpoolInv, Counted
    <3>2. CASE e \in born
      BY <1>3, <1>5, <3>2 DEF SpoolInv, Counted, Event
    <3>. QED  BY <1>1, <3>1, <3>2
  <2>2. cursor' \in [Attempts -> Nat]
    BY <1>1 DEF SpoolInv, Counted
  <2>3. ASSUME NEW a \in Attempts PROVE cursor'[a] <= Cardinality(born')
    <3>1. cursor'[a] = cursor[a] /\ cursor[a] \in Nat /\ cursor[a] <= Cardinality(born)
      BY <1>1 DEF SpoolInv, Counted
    <3>. QED  BY <1>3, <1>5, <3>1
  <2>. QED  BY <1>5, <2>1, <2>2, <2>3 DEF Counted
<1>8. Tables'
  BY <1>1, <1>4 DEF SpoolInv, Tables
<1>9. UnderWay'
  BY <1>1 DEF UnderWay
<1>10. CursorCovers'
  BY <1>1 DEF SpoolInv, CursorCovers
<1>11. SequenceUnique'
  <2>1. ASSUME torn = 0, NEW x \in born, x.attempt = current.attempt, x.attempt \notin forgotten
        PROVE  x.seq # current.seq
    <3>1. x.seq <= cursor[x.attempt] /\ x.seq \in Nat
      BY <1>1, <2>1 DEF SpoolInv, CursorCovers, Counted, Event
    <3>. QED  BY <1>2, <1>6, <2>1, <3>1
  <2>. QED  BY <1>1, <2>1 DEF SpoolInv, SequenceUnique
<1>. QED  BY <1>7, <1>8, <1>9, <1>10, <1>11 DEF SpoolInv

\* Pruning, wherever it happens, keeps the tables.
LEMMA PruneKeepsTables ==
  ASSUME SpoolInv, NEW events, events \subseteq spool, NEW terminal,
         PruneSpool(events, terminal), UNCHANGED <<born, aged>>,
         known' \subseteq Attempts, ended' \subseteq known'
  PROVE  spool' \subseteq events /\ Tables'
<1>1. events \subseteq born /\ Counted
  BY DEF SpoolInv, Tables
<1>2. spool' \subseteq events /\ evicted' = evicted \cup (spool \ spool')
  BY <1>1, PruneFacts
<1>. QED  BY <1>2 DEF SpoolInv, Tables

\* The cursor moves past the event that was written.
LEMMA CountKeepsSpool ==
  ASSUME SpoolInv, Count
  PROVE  SpoolInv'
<1>1. /\ cursor' = [cursor EXCEPT ![current.attempt] =
                      IF current.seq > @ THEN current.seq ELSE @]
      /\ PruneSpool(spool, ended)
      /\ UNCHANGED <<known, ended, aged, born, forgotten, torn, current>>
      /\ stage = "inserted" /\ stage' = "stored"
  BY DEF Count, CountEvent, faultVars
<1>2. current \in born /\ current.attempt \in Attempts /\ current.seq \in Nat
  BY <1>1 DEF SpoolInv, UnderWay, Counted, Event
<1>3. spool' \subseteq spool /\ Tables'
  BY <1>1, PruneKeepsTables DEF SpoolInv, Tables
<1>4. /\ cursor' \in [Attempts -> Nat]
      /\ \A a \in Attempts : cursor[a] <= cursor'[a] /\ cursor'[a] <= Cardinality(born)
      /\ current.seq <= cursor'[current.attempt]
  BY <1>1, <1>2 DEF SpoolInv, Counted
<1>5. Counted'
  BY <1>1, <1>4 DEF SpoolInv, Counted
<1>6. UnderWay'
  BY <1>1, <1>2 DEF UnderWay
<1>7. CursorCovers'
  <2>1. ASSUME torn = 0, NEW e \in born, e \in spool \/ e.attempt \notin forgotten
        PROVE  e.seq <= cursor'[e.attempt]
    <3>1. e.attempt \in Attempts /\ e.seq \in Nat /\ cursor[e.attempt] \in Nat /\ cursor'[e.attempt] \in Nat
      BY <1>4 DEF SpoolInv, Counted, Event
    <3>2. e.seq <= cursor[e.attempt] \/ e = current
      BY <2>1 DEF SpoolInv, CursorCovers
    <3>. QED  BY <1>4, <3>1, <3>2
  <2>. QED  BY <1>1, <1>3, <2>1 DEF SpoolInv, CursorCovers
<1>8. SequenceUnique'
  BY <1>1 DEF SpoolInv, SequenceUnique
<1>. QED  BY <1>3, <1>5, <1>6, <1>7, <1>8 DEF SpoolInv

\* publish_attempt_event is over, with the event in the spool or refused.
LEMMA FreeKeepsSpool ==
  ASSUME SpoolInv, UNCHANGED <<outboxVars, torn>>, stage # "inserted", stage' = "free"
  PROVE  SpoolInv'
  BY DEF SpoolInv, Counted, Tables, UnderWay, CursorCovers, SequenceUnique,
         outboxVars

\* An acknowledgement takes events out of the spool.
LEMMA AckKeepsSpool ==
  ASSUME SpoolInv, NEW a, NEW last, ReceiveAck(a, last)
  PROVE  SpoolInv'
<1>1. /\ spool' \subseteq spool
      /\ UNCHANGED <<known, ended, cursor, aged, born, evicted, forgotten, torn, stage, current>>
  BY DEF ReceiveAck, AckThrough, publishVars, faultVars
<1>. QED
  BY <1>1 DEF SpoolInv, Counted, Tables, UnderWay, CursorCovers, SequenceUnique

\* Time makes an event of the spool old.
LEMMA AgeKeepsSpool ==
  ASSUME SpoolInv, NEW e, TimePasses(e)
  PROVE  SpoolInv'
<1>1. /\ aged' = aged \cup {e} /\ e \in spool
      /\ UNCHANGED <<known, ended, cursor, spool, born, evicted, forgotten, torn, stage, current>>
  BY DEF TimePasses, Age, publishVars, faultVars
<1>. QED
  BY <1>1 DEF SpoolInv, Counted, Tables, UnderWay, CursorCovers, SequenceUnique

\* A restart prunes terminal rows with their events, and then the spool.
LEMMA RestartKeepsSpool ==
  ASSUME SpoolInv, Restart, torn' \in Nat, torn' = 0 => torn = 0 /\ stage # "inserted"
  PROVE  SpoolInv'
<1>1. PICK rows \in SUBSET Prunable :
        /\ known' = known \ rows /\ ended' = ended \ rows
        /\ cursor' = [a \in Attempts |-> IF a \in rows THEN 0 ELSE cursor[a]]
        /\ PruneSpool({e \in spool : e.attempt \notin rows}, ended \ rows)
        /\ forgotten' = forgotten \cup rows
        /\ UNCHANGED <<aged, born>>
  BY DEF Restart, StartOutbox
<1>2. stage' = "free"
  BY DEF Restart
<1>. DEFINE left == {e \in spool : e.attempt \notin rows}
<1>3. spool' \subseteq left /\ Tables'
  <2>2. known' \subseteq Attempts /\ ended' \subseteq known' /\ left \subseteq spool
    BY <1>1 DEF SpoolInv, Tables
  <2>3. PruneSpool(left, ended \ rows) /\ UNCHANGED <<born, aged>>
    BY <1>1
  <2>. HIDE DEF left
  <2>. QED  BY <2>2, <2>3, PruneKeepsTables
<1>4. /\ cursor' \in [Attempts -> Nat]
      /\ \A a \in Attempts : cursor'[a] <= cursor[a]
      /\ \A a \in Attempts \ rows : cursor'[a] = cursor[a]
  BY <1>1 DEF SpoolInv, Counted
<1>5. Counted'
  <2>1. Cardinality(born) \in Nat
    BY FS_CardinalityType DEF SpoolInv, Counted
  <2>2. \A a \in Attempts : cursor'[a] <= Cardinality(born)
    BY <1>4, <2>1 DEF SpoolInv, Counted
  <2>. QED  BY <1>1, <1>4, <2>2 DEF SpoolInv, Counted
<1>6. CursorCovers'
  <2>1. ASSUME torn' = 0, NEW e \in born, e \in left \/ e.attempt \notin forgotten \cup rows
        PROVE  e.seq <= cursor'[e.attempt]
    <3>1. e.attempt \in Attempts \ rows /\ (e \in spool \/ e.attempt \notin forgotten)
      BY <2>1 DEF SpoolInv, Counted, Event
    <3>2. e.seq <= cursor[e.attempt]
      BY <2>1, <3>1 DEF SpoolInv, CursorCovers
    <3>. QED  BY <1>4, <3>1, <3>2
  <2>. QED  BY <1>1, <1>3, <2>1 DEF CursorCovers
<1>7. UnderWay' /\ SequenceUnique'
  BY <1>1, <1>2 DEF SpoolInv, UnderWay, SequenceUnique
<1>. QED  BY <1>3, <1>5, <1>6, <1>7 DEF SpoolInv

\* Every step of the engine, the network and the backend keeps the spool in order.
LEMMA StepKeepsSpool ==
  ASSUME SpoolInv, RoomKept, Next
  PROVE  SpoolInv'
<1>. USE DEF tableVars, outboxVars, publishVars, faultVars
<1>1. ASSUME NEW a \in Attempts, NEW kind \in {"log", "status", "outcome"}, WorkerPublishes(a, kind)
      PROVE  SpoolInv'
  <2>1. known' = known /\ ended' \subseteq ended \cup {a} /\ a \in known
    BY <1>1 DEF WorkerPublishes, Number, CanNumber
  <2>2. known' \subseteq Attempts /\ ended' \subseteq known'
    BY <2>1 DEF SpoolInv, Tables
  <2>3. Number(a, kind) /\ UNCHANGED <<tableVars, torn>> /\ kind \in Kinds
    BY <1>1 DEF WorkerPublishes, Kinds
  <2>. QED  BY <2>2, <2>3, NumberKeepsSpool
<1>2. CASE Publishing
  <2>1. CASE Insert
    BY <2>1, InsertKeepsSpool
  <2>2. CASE Count
    BY <2>2, CountKeepsSpool
  <2>3. CASE Send
    BY <2>3, FreeKeepsSpool DEF Send
  <2>4. CASE AppendRaises
    BY <2>4, FreeKeepsSpool DEF AppendRaises
  <2>. QED  BY <1>2, <2>1, <2>2, <2>3, <2>4 DEF Publishing
<1>3. CASE Session \/ Deliver \/ Break \/ HeartbeatFails \/ RejectFrame
  <2>1. UNCHANGED <<known, ended, tableVars, stage, current, torn>>
    BY <1>3 DEF Session, Connect, ReceiveWelcome, ReadSpool, ReplayNext, Disconnect, Deliver,
                Break, HeartbeatFails, RejectFrame
  <2>. QED  BY <2>1, RowsChange DEF SpoolInv, Tables
<1>4. ASSUME NEW a \in Attempts, ReceiveAssign(a) \/ ReceiveCancel(a)
      PROVE  SpoolInv'
  <2>1. /\ UNCHANGED <<ended, tableVars, stage, current, torn>>
        /\ known' = known \/ known' = known \cup {a}
    BY <1>4 DEF ReceiveAssign, ReceiveCancel
  <2>. QED  BY <2>1, RowsChange DEF SpoolInv, Tables
<1>5. CASE Replies
  <2>1. CASE ReplyIsNumbered
    <3>1. replyTo.attempt \in Attempts /\ replyTo.kind \in Kinds
      BY <2>1 DEF ReplyIsNumbered, RoomKept
    <3>2. Number(replyTo.attempt, replyTo.kind) /\ UNCHANGED <<known, ended, tableVars, torn>>
      BY <2>1 DEF ReplyIsNumbered
    <3>. QED  BY <3>1, <3>2, NumberKeepsSpool DEF SpoolInv, Tables
  <2>2. CASE ReplyRaises
    <3>1. UNCHANGED <<known, ended, tableVars, stage, current, torn>>
      BY <2>2 DEF ReplyRaises
    <3>. QED  BY <3>1, RowsChange DEF SpoolInv, Tables
  <2>. QED  BY <1>5, <2>1, <2>2 DEF Replies
<1>6. ASSUME NEW action, ReceiveDrain(action)
      PROVE  SpoolInv'
  <2>1. UNCHANGED <<known, ended, tableVars, stage, current, torn>>
    BY <1>6 DEF ReceiveDrain
  <2>. QED  BY <2>1, RowsChange DEF SpoolInv, Tables
<1>7. ASSUME NEW a, NEW last, ReceiveAck(a, last)
      PROVE  SpoolInv'
  BY <1>7, AckKeepsSpool
<1>8. CASE Kill \/ KillInAppend
  <2>1. Restart /\ torn' \in Nat /\ (torn' = 0 => torn = 0 /\ stage # "inserted")
    BY <1>8 DEF Kill, KillInAppend, SpoolInv, CursorCovers
  <2>. QED  BY <2>1, RestartKeepsSpool
<1>9. ASSUME NEW e, TimePasses(e)
      PROVE  SpoolInv'
  BY <1>9, AgeKeepsSpool
<1>. QED  BY <1>1, <1>2, <1>3, <1>4, <1>5, <1>6, <1>7, <1>8, <1>9 DEF Next

-----------------------------------------------------------------------------
(* Room for the events to come.                                            *)

\* An event is promised only while there is room for it, and made once.
LEMMA StepKeepsRoom ==
  ASSUME SpoolInv, RoomKept, Next
  PROVE  RoomKept'
<1>. USE OutboxBounds DEF outboxVars, publishVars, commandVars
<1>1. Cardinality(born) \in Nat
  BY FS_CardinalityType DEF SpoolInv, Counted
<1>2. CASE UNCHANGED <<born, stage, replyTo>>
  BY <1>2 DEF RoomKept, Replying
<1>3. ASSUME NEW a \in Attempts, NEW kind \in {"log", "status", "outcome"}, WorkerPublishes(a, kind)
      PROVE  RoomKept'
  BY <1>1, <1>3 DEF WorkerPublishes, Number, Room, RoomKept, Replying
<1>4. CASE Insert
  <2>1. current \notin born
    BY <1>1, <1>4 DEF Insert, SpoolInv, UnderWay, Counted
  <2>2. Cardinality(born') = Cardinality(born) + 1
    BY <1>4, <2>1, OneMoreEvent DEF Insert, InsertEvent, SpoolInv
  <2>. QED  BY <1>1, <1>4, <2>2 DEF Insert, RoomKept, Replying
<1>5. CASE Count
  BY <1>1, <1>5 DEF Count, CountEvent, RoomKept, Replying
<1>6. CASE Send \/ AppendRaises
  <2>1. born' = born /\ stage' = "free" /\ stage # "free"
    BY <1>6 DEF Send, AppendRaises
  <2>2. replyTo' = IF replyTo.numbered THEN NoReply ELSE replyTo
    BY <1>6 DEF Send, AppendRaises
  <2>3. CASE replyTo.numbered
    <3>1. replyTo' = NoReply
      BY <2>2, <2>3
    <3>. QED  BY <1>1, <2>1, <3>1 DEF RoomKept, Replying, NoReply, Kinds
  <2>4. CASE ~replyTo.numbered
    <3>1. replyTo' = replyTo
      BY <2>2, <2>4
    <3>. QED  BY <1>1, <2>1, <2>4, <3>1 DEF RoomKept, Replying
  <2>. QED  BY <2>3, <2>4
<1>7. ASSUME NEW a \in Attempts, ReceiveAssign(a) \/ ReceiveCancel(a)
      PROVE  RoomKept'
  <2>1. PICK kind \in {"status", "refusal"} : Reply(a, kind) /\ ~Replying /\ UNCHANGED <<born, stage>>
    BY <1>7 DEF ReceiveAssign, ReceiveCancel, Reads
  <2>. QED  BY <1>1, <2>1 DEF Reply, Room, RoomKept, Replying, Kinds
<1>8. CASE ReplyIsNumbered
  <2>1. /\ Replying /\ stage = "free" /\ stage' = "numbered" /\ born' = born
        /\ replyTo' = [replyTo EXCEPT !.numbered = TRUE]
    BY <1>8 DEF ReplyIsNumbered, Number
  <2>2. ~replyTo.numbered /\ replyTo.attempt \in Attempts
    BY <2>1 DEF RoomKept
  <2>3. /\ replyTo' \in [attempt : Attempts \cup {0}, kind : Kinds, numbered : BOOLEAN]
        /\ replyTo'.attempt \in Attempts /\ replyTo'.numbered = TRUE
    BY <2>1, <2>2 DEF RoomKept
  <2>4. Cardinality(born) + 1 <= MaxEvents
    BY <1>1, <2>1, <2>2 DEF RoomKept
  <2>. QED  BY <1>1, <2>1, <2>3, <2>4 DEF RoomKept
<1>9. CASE ReplyRaises
  BY <1>1, <1>9 DEF ReplyRaises, RoomKept, Replying, NoReply, Kinds
<1>10. CASE Kill \/ KillInAppend
  <2>1. born' = born /\ stage' = "free" /\ replyTo' = NoReply
    BY <1>10 DEF Kill, KillInAppend, Restart, StartOutbox
  <2>. QED  BY <1>1, <2>1 DEF RoomKept, Replying, NoReply, Kinds
<1>11. ASSUME Session \/ Deliver \/ Break \/ HeartbeatFails \/ RejectFrame
                \/ (\E action \in {"drain", "resume"} : ReceiveDrain(action))
                \/ (\E a \in Attempts : \E last \in 1 .. MaxEvents : ReceiveAck(a, last))
                \/ \E e \in spool : TimePasses(e)
      PROVE  UNCHANGED <<born, stage, replyTo>>
  BY <1>11 DEF Session, Connect, ReceiveWelcome, ReadSpool, ReplayNext, Disconnect, Deliver,
               Break, HeartbeatFails, RejectFrame, ReceiveDrain, ReceiveAck, AckThrough,
               TimePasses, Age
<1>. QED
  BY <1>2, <1>3, <1>4, <1>5, <1>6, <1>7, <1>8, <1>9, <1>10, <1>11 DEF Next, Publishing, Replies

-----------------------------------------------------------------------------
(* What is sent and received.                                              *)

\* A frame that is sent joins what was sent before.
LEMMA TransmitFacts ==
  ASSUME NEW e, e \in born, sent \in Seq(born), Transmit(e)
  PROVE  /\ sent' \in Seq(born) /\ Len(sent') = Len(sent) + 1
         /\ Sent' = Sent \cup {e}
<1>1. sent' = Append(sent, e)
  BY DEF Transmit
<1>2. sent' \in Seq(born) /\ Len(sent') = Len(sent) + 1 /\ Len(sent) \in Nat
  BY <1>1
<1>3. /\ \A i \in 1 .. Len(sent) : sent'[i] = sent[i]
      /\ sent'[Len(sent) + 1] = e
  BY <1>1
<1>4. Sent' = {sent'[i] : i \in 1 .. Len(sent) + 1} /\ Sent = {sent[i] : i \in 1 .. Len(sent)}
  BY <1>2 DEF Sent
<1>5. 1 .. Len(sent) + 1 = (1 .. Len(sent)) \cup {Len(sent) + 1}
  BY <1>2
<1>6. {sent'[i] : i \in 1 .. Len(sent) + 1} = {sent[i] : i \in 1 .. Len(sent)} \cup {e}
  BY <1>3, <1>5
<1>. QED  BY <1>2, <1>4, <1>6

\* What is made stays made.
LEMMA BornGrows ==
  ASSUME Next
  PROVE  born \subseteq born'
<1>. USE DEF outboxVars, Next, Publishing, Session, Replies
<1>1. UNCHANGED born \/ born' = born \cup {current}
  BY DEF WorkerPublishes, Insert, InsertEvent, Count, CountEvent, Send, AppendRaises, Connect,
         ReceiveWelcome, ReadSpool, ReplayNext, Disconnect, ReceiveAssign, ReceiveCancel,
         ReplyIsNumbered, ReplyRaises, ReceiveDrain, ReceiveAck, AckThrough, Deliver, Break,
         HeartbeatFails, RejectFrame, Kill, KillInAppend, Restart, StartOutbox, TimePasses, Age
<1>. QED  BY <1>1

\* A session that is over has nothing under way.
LEMMA NoTraffic ==
  ASSUME Traffic, Next, link' = "down", ws' \in BOOLEAN, stopped' = FALSE,
         replay' = {}, sent' = <<>>, delivered' = 0, UNCHANGED received
  PROVE  Traffic'
<1>1. received' \subseteq born' /\ replay' \subseteq born'
  BY BornGrows DEF Traffic
<1>2. sent' \in Seq(born') /\ Len(sent') = 0
  OBVIOUS
<1>3. delivered' \in 0 .. Len(sent')
  BY <1>2
<1>. QED  BY <1>1, <1>2, <1>3 DEF Traffic

\* The same when connect_once ends of itself.
LEMMA SessionEndsTraffic ==
  ASSUME Traffic, Next, SessionEnds, UNCHANGED received
  PROVE  Traffic'
<1>1. ws' \in BOOLEAN
  BY Zenon DEF SessionEnds
<1>. QED  BY <1>1, NoTraffic DEF SessionEnds

\* Only what is in the spool is ever sent, replayed or received.
LEMMA StepKeepsTraffic ==
  ASSUME SpoolInv, Traffic, Next
  PROVE  Traffic'
<1>. USE DEF sessionVars
<1>1. born \subseteq born'
  BY BornGrows
<1>2. CASE UNCHANGED <<link, ws, stopped, sent, delivered, replay, received>>
  BY <1>1, <1>2 DEF Traffic
<1>3. CASE Send
  <2>1. current \in born
    BY <1>3 DEF Send, SpoolInv, UnderWay
  <2>2. CASE Transmit(current) /\ UNCHANGED ws
    <3>1. sent' \in Seq(born) /\ Len(sent') = Len(sent) + 1
      BY <2>1, <2>2, TransmitFacts DEF Traffic
    <3>2. UNCHANGED <<link, ws, stopped, delivered, replay, received>>
      BY <1>3, <2>2 DEF Send
    <3>. QED  BY <1>1, <3>1, <3>2 DEF Traffic
  <2>3. CASE ws' = FALSE /\ UNCHANGED sent
    <3>1. UNCHANGED <<link, stopped, delivered, replay, received>>
      BY <1>3 DEF Send
    <3>2. sent' \in Seq(born')
      BY <1>1, <2>3 DEF Traffic
    <3>. QED  BY <1>1, <2>3, <3>1, <3>2 DEF Traffic
  <2>4. CASE UNCHANGED <<ws, sent>>
    BY <1>2, <1>3, <2>4 DEF Send
  <2>. QED  BY <1>3, <2>2, <2>3, <2>4 DEF Send
<1>4. CASE AppendRaises
  <2>1. received' = received
    BY <1>4 DEF AppendRaises
  <2>. QED  BY <1>2, <1>4, <2>1, SessionEndsTraffic DEF AppendRaises
<1>5. CASE Connect
  BY <1>1, <1>5 DEF Connect, Traffic
<1>6. CASE ReceiveWelcome
  BY <1>1, <1>6 DEF ReceiveWelcome, Traffic
<1>7. CASE ReadSpool
  BY <1>1, <1>7 DEF ReadSpool, ReplayAfter, Traffic, SpoolInv, Tables
<1>8. CASE ReplayNext
  <2>1. CASE replay # {} /\ Transmit(Oldest(replay)) /\ replay' = replay \ {Oldest(replay)} /\ UNCHANGED link
    <3>1. Oldest(replay) \in born
      BY <2>1, OldestIsMember DEF Traffic, SpoolInv, Counted, Event
    <3>2. sent' \in Seq(born) /\ Len(sent') = Len(sent) + 1
      BY <2>1, <3>1, TransmitFacts DEF Traffic
    <3>3. UNCHANGED <<link, ws, stopped, delivered, received>> /\ replay' \subseteq replay
      BY <1>8, <2>1 DEF ReplayNext
    <3>. QED  BY <1>1, <3>2, <3>3 DEF Traffic
  <2>2. CASE link' = "open" /\ UNCHANGED <<replay, sent>>
    BY <1>1, <1>8, <2>2 DEF ReplayNext, Traffic
  <2>. QED  BY <1>8, <2>1, <2>2 DEF ReplayNext
<1>9. CASE Disconnect \/ RejectFrame \/ ReplyRaises
  BY <1>9, SessionEndsTraffic DEF Disconnect, RejectFrame, ReplyRaises
<1>10. CASE Deliver
  BY <1>1, <1>10 DEF Deliver, Traffic
<1>11. CASE HeartbeatFails
  BY <1>1, <1>11 DEF HeartbeatFails, Traffic
<1>12. CASE Kill \/ KillInAppend
  BY <1>12, NoTraffic DEF Kill, KillInAppend, Restart
<1>13. ASSUME \/ \E a \in Attempts, kind \in {"log", "status", "outcome"} : WorkerPublishes(a, kind)
              \/ Insert \/ Count \/ ReplyIsNumbered \/ Break
              \/ \E a \in Attempts : ReceiveAssign(a) \/ ReceiveCancel(a)
              \/ \E action \in {"drain", "resume"} : ReceiveDrain(action)
              \/ \E a \in Attempts : \E last \in 1 .. MaxEvents : ReceiveAck(a, last)
              \/ \E e \in spool : TimePasses(e)
       PROVE  UNCHANGED <<link, ws, stopped, sent, delivered, replay, received>>
  BY <1>13 DEF WorkerPublishes, Insert, Count, ReplyIsNumbered, Break, ReceiveAssign,
               ReceiveCancel, ReceiveDrain, ReceiveAck, TimePasses
<1>. QED
  BY <1>2, <1>3, <1>4, <1>5, <1>6, <1>7, <1>8, <1>9, <1>10, <1>11, <1>12, <1>13
     DEF Next, Publishing, Session, Replies

-----------------------------------------------------------------------------
(* Between the replay and the live events.                                 *)

NoGap == ReplayCovers /\ ReplayLeavesNoGap

\* While the session lasts, only the end of publish_attempt_event adds to what the
\* session has to send.
LEMMA SettledGrows ==
  ASSUME SpoolInv, Next, link' # "down", ~Send
  PROVE  aged \subseteq aged' /\ Settled' \subseteq Settled
<1>. USE DEF outboxVars, publishVars, Settled
<1>1. CASE Insert
  <2>1. spool' = spool \cup {current} /\ current' = current /\ stage = "numbered"
          /\ stage' = "inserted" /\ aged' = aged
    BY <1>1 DEF Insert, InsertEvent
  <2>. QED  BY <2>1
<1>2. CASE Count
  <2>1. spool' \subseteq spool
    BY <1>2, PruneKeepsTables DEF Count, CountEvent, SpoolInv, Tables
  <2>. QED  BY <1>2, <2>1 DEF Count, CountEvent
<1>3. CASE AppendRaises
  BY <1>3 DEF AppendRaises
<1>4. CASE \/ ReplyIsNumbered
           \/ \E a \in Attempts, kind \in {"log", "status", "outcome"} : WorkerPublishes(a, kind)
  BY <1>4 DEF ReplyIsNumbered, WorkerPublishes, Number
<1>5. ~(Kill \/ KillInAppend)
  BY DEF Kill, KillInAppend, Restart
<1>6. CASE \E a \in Attempts : \E last \in 1 .. MaxEvents : ReceiveAck(a, last)
  BY <1>6 DEF ReceiveAck, AckThrough
<1>7. CASE \E e \in spool : TimePasses(e)
  BY <1>7 DEF TimePasses, Age
<1>8. ASSUME Session \/ Deliver \/ Break \/ HeartbeatFails \/ RejectFrame \/ ReplyRaises
               \/ (\E a \in Attempts : ReceiveAssign(a) \/ ReceiveCancel(a))
               \/ (\E action \in {"drain", "resume"} : ReceiveDrain(action))
      PROVE  UNCHANGED <<spool, aged, stage, current>>
  BY <1>8 DEF Session, Connect, ReceiveWelcome, ReadSpool, ReplayNext, Disconnect, Deliver,
              Break, HeartbeatFails, RejectFrame, ReplyRaises, ReceiveAssign, ReceiveCancel,
              ReceiveDrain
<1>. QED
  BY <1>1, <1>2, <1>3, <1>4, <1>5, <1>6, <1>7, <1>8 DEF Next, Publishing, Replies

\* Whether the session, its cursors and what it has sent and has still to send stay
\* as they are.
sameSession == UNCHANGED <<link, ws, sent, replay, welcomed>>

\* The steps that concern the replay: all others end the session, belong to its
\* handshake, or leave it as it is.
LEMMA SessionSteps ==
  ASSUME Next, link' \in {"replaying", "open"}
  PROVE  Send \/ ReadSpool \/ ReplayNext \/ sameSession
<1>. USE DEF sessionVars, sameSession
<1>1. ~(Connect \/ ReceiveWelcome \/ Disconnect \/ RejectFrame \/ ReplyRaises \/ Kill \/ KillInAppend)
  BY DEF Connect, ReceiveWelcome, Disconnect, RejectFrame, ReplyRaises, Kill, KillInAppend,
         Restart, SessionEnds
<1>2. CASE AppendRaises
  BY <1>2 DEF AppendRaises, SessionEnds
<1>3. ASSUME \/ \E a \in Attempts, kind \in {"log", "status", "outcome"} : WorkerPublishes(a, kind)
             \/ Insert \/ Count \/ ReplyIsNumbered \/ Break \/ Deliver \/ HeartbeatFails
             \/ \E a \in Attempts : ReceiveAssign(a) \/ ReceiveCancel(a)
             \/ \E action \in {"drain", "resume"} : ReceiveDrain(action)
             \/ \E a \in Attempts : \E last \in 1 .. MaxEvents : ReceiveAck(a, last)
             \/ \E e \in spool : TimePasses(e)
      PROVE  sameSession
  BY <1>3 DEF WorkerPublishes, Insert, Count, ReplyIsNumbered, Break, Deliver, HeartbeatFails,
              ReceiveAssign, ReceiveCancel, ReceiveDrain, ReceiveAck, TimePasses
<1>. QED  BY <1>1, <1>2, <1>3 DEF Next, Publishing, Session, Replies

\* No event falls between the replay and the live events: what is in the spool when
\* it is read is replayed, and what comes into it later is sent as it is published,
\* because _ws is set before the spool is read.
LEMMA StepKeepsNoGap ==
  ASSUME SpoolInv, Traffic, NoGap, Next
  PROVE  NoGap'
<1>1. CASE ~(link' \in {"replaying", "open"} /\ ws')
  BY <1>1 DEF NoGap, ReplayCovers, ReplayLeavesNoGap
<1>2. CASE link' \in {"replaying", "open"} /\ ws'
  <2>1. link' # "down"
    BY <1>2
  <2>2. CASE Send
    <3>1. UNCHANGED <<link, welcomed, replay, spool, aged>> /\ stage = "stored" /\ stage' = "free"
      BY <2>2 DEF Send, outboxVars
    <3>2. ws /\ Transmit(current)
      BY <1>2, <2>2, <3>1 DEF Send
    <3>3. current \in born
      BY <3>1 DEF SpoolInv, UnderWay
    <3>4. Sent' = Sent \cup {current}
      BY <3>2, <3>3, TransmitFacts DEF Traffic
    <3>5. Settled' \subseteq Settled \cup {current}
      BY <3>1 DEF Settled
    <3>. QED  BY <3>1, <3>2, <3>4, <3>5 DEF NoGap, ReplayCovers, ReplayLeavesNoGap
  <2>3. CASE ReadSpool
    <3>1. /\ link' = "replaying" /\ UNCHANGED <<spool, aged, welcomed>>
          /\ replay' = ReplayAfter(welcomed)
      BY <2>3 DEF ReadSpool, outboxVars
    <3>. QED  BY <3>1 DEF NoGap, ReplayCovers, ReplayLeavesNoGap, Settled, ReplayAfter
  <2>4. CASE ReplayNext
    <3>1. UNCHANGED <<ws, welcomed, spool, aged, stage, current>> /\ link = "replaying"
      BY <2>4 DEF ReplayNext, outboxVars, publishVars
    <3>2. Settled' = Settled
      BY <3>1 DEF Settled
    <3>3. \A e \in Settled \ aged : e.seq > welcomed[e.attempt] => e \in Sent \cup replay
      BY <1>2, <3>1 DEF NoGap, ReplayCovers
    <3>4. CASE replay # {} /\ Transmit(Oldest(replay)) /\ replay' = replay \ {Oldest(replay)}
               /\ UNCHANGED link
      <4>1. Oldest(replay) \in born
        BY <3>4, OldestIsMember DEF Traffic, SpoolInv, Counted, Event
      <4>2. Sent' = Sent \cup {Oldest(replay)}
        BY <3>4, <4>1, TransmitFacts DEF Traffic
      <4>. QED  BY <3>1, <3>2, <3>3, <3>4, <4>2 DEF NoGap, ReplayCovers, ReplayLeavesNoGap
    <3>5. CASE replay = {} /\ link' = "open" /\ UNCHANGED <<replay, sent>>
      <4>1. Sent' = Sent
        BY <3>5 DEF Sent
      <4>. QED  BY <3>1, <3>2, <3>3, <3>5, <4>1 DEF NoGap, ReplayCovers, ReplayLeavesNoGap
    <3>. QED  BY <2>4, <3>4, <3>5 DEF ReplayNext
  <2>5. CASE sameSession /\ ~Send
    <3>1. aged \subseteq aged' /\ Settled' \subseteq Settled
      BY <2>1, <2>5, SettledGrows
    <3>2. UNCHANGED <<link, ws, replay, welcomed>> /\ Sent' = Sent
      BY <2>5 DEF sameSession, Sent
    <3>. QED  BY <3>1, <3>2 DEF NoGap, ReplayCovers, ReplayLeavesNoGap
  <2>. QED  BY <1>2, <2>2, <2>3, <2>4, <2>5, SessionSteps
<1>. QED  BY <1>1, <1>2

-----------------------------------------------------------------------------
(* The theorems.                                                           *)

\* The invariant holds when the engine starts with an empty spool.
LEMMA InvInit ==
  Init => UplinkInv
<1>. SUFFICES ASSUME Init PROVE UplinkInv
  OBVIOUS
<1>1. IsFiniteSet(born) /\ Cardinality(born) = 0
  BY FS_EmptySet DEF Init, OutboxInit
<1>2. SpoolInv
  BY <1>1 DEF Init, OutboxInit, SpoolInv, Counted, Tables, UnderWay, CursorCovers,
              SequenceUnique
<1>3. RoomKept
  BY <1>1, OutboxBounds DEF Init, RoomKept, Replying, NoReply, Kinds
<1>4. Traffic
  <2>1. sent = <<>> /\ delivered = 0 /\ Len(sent) = 0
    BY DEF Init
  <2>2. sent \in Seq(born) /\ delivered \in 0 .. Len(sent)
    BY <2>1
  <2>. QED  BY <2>2 DEF Init, OutboxInit, Traffic
<1>5. ReplayCovers /\ ReplayLeavesNoGap
  BY DEF Init, ReplayCovers, ReplayLeavesNoGap
<1>. QED  BY <1>2, <1>3, <1>4, <1>5 DEF UplinkInv

\* Every step preserves it.
LEMMA InvNext ==
  UplinkInv /\ [Next]_vars => UplinkInv'
<1>. SUFFICES ASSUME UplinkInv, [Next]_vars PROVE UplinkInv'
  OBVIOUS
<1>1. CASE Next
  BY <1>1, StepKeepsSpool, StepKeepsRoom, StepKeepsTraffic, StepKeepsNoGap DEF UplinkInv, NoGap
<1>2. CASE UNCHANGED vars
  <2>1. /\ UNCHANGED <<known, ended, cursor, spool, aged, born, evicted, forgotten>>
        /\ UNCHANGED <<link, ws, broken, welcomed, replay, sent, delivered, stopped>>
        /\ UNCHANGED <<stage, current, replyTo, received, torn>>
    BY <1>2 DEF vars, outboxVars, sessionVars, publishVars, commandVars, faultVars
  <2>2. SpoolInv'
    BY <2>1 DEF UplinkInv, SpoolInv, Counted, Tables, UnderWay, CursorCovers, SequenceUnique
  <2>3. RoomKept' /\ Traffic'
    BY <2>1 DEF UplinkInv, RoomKept, Replying, Traffic
  <2>4. ReplayCovers' /\ ReplayLeavesNoGap'
    BY <2>1 DEF UplinkInv, ReplayCovers, ReplayLeavesNoGap, Settled, Sent
  <2>. QED  BY <2>2, <2>3, <2>4 DEF UplinkInv
<1>. QED  BY <1>1, <1>2

\* The invariant holds in every state of every behaviour of the session.
THEOREM UplinkInvariant ==
  Spec => []UplinkInv
  BY InvInit, InvNext, PTL DEF Spec

\* It gives the types of the spool and of the session.
LEMMA InvGivesTypes ==
  UplinkInv => UplinkTypeOK
<1>. SUFFICES ASSUME UplinkInv PROVE UplinkTypeOK
  OBVIOUS
<1>1. Cardinality(born) \in Nat /\ Cardinality(born) <= MaxEvents
  <2>1. Cardinality(born) \in Nat
    BY FS_CardinalityType DEF UplinkInv, SpoolInv, Counted
  <2>. QED  BY <2>1, OutboxBounds DEF UplinkInv, RoomKept
<1>2. cursor \in [Attempts -> 0 .. MaxEvents]
  <2>1. \A a \in Attempts : cursor[a] \in 0 .. MaxEvents
    BY <1>1, OutboxBounds DEF UplinkInv, SpoolInv, Counted
  <2>. QED  BY <2>1 DEF UplinkInv, SpoolInv, Counted
<1>3. stage = "numbered" => current \notin born
  BY <1>1 DEF UplinkInv, SpoolInv, Counted, UnderWay
<1>4. torn = 0 => \A e \in spool : e.seq <= cursor[e.attempt]
                                     \/ (stage = "inserted" /\ e = current)
  BY DEF UplinkInv, SpoolInv, CursorCovers, Tables
<1>5. /\ known \subseteq Attempts /\ ended \subseteq known
      /\ spool \subseteq born \ evicted /\ aged \subseteq born
      /\ \A e \in born : e \in Event
      /\ stage \in {"free", "numbered", "inserted", "stored"}
  BY DEF UplinkInv, SpoolInv, Tables, Counted, UnderWay
<1>6. /\ link \in {"down", "opened", "greeted", "replaying", "open"}
      /\ ws \in BOOLEAN /\ stopped \in BOOLEAN /\ delivered \in 0 .. Len(sent)
  BY DEF UplinkInv, Traffic
<1>. QED  BY <1>2, <1>3, <1>4, <1>5, <1>6 DEF UplinkTypeOK

\* The variables of the spool and of the session keep their types, for every number of
\* attempts, events, broken connections and restarts (connect_once and SQLiteEventOutbox).
THEOREM UplinkTypeCorrect ==
  Spec => []UplinkTypeOK
  BY UplinkInvariant, InvGivesTypes, PTL

\* No two different events reach the backend under one sequence number, as long as no
\* append was torn and no attempt is assigned again after its row was pruned
\* (next_seq and append, store.py:622-669).
THEOREM SequenceNumbersIdentify ==
  Spec => []SequenceIdentifiesEvent
<1>1. UplinkInv => SequenceIdentifiesEvent
  BY DEF UplinkInv, SpoolInv, SequenceUnique, Traffic, SequenceIdentifiesEvent
<1>. QED  BY <1>1, UplinkInvariant, PTL

\* A session that has replayed has sent everything that the backend's cursors leave
\* open, for every interleaving of workers, commands and the replay
\* (uplink.py:163-258).
THEOREM ReplayIsComplete ==
  Spec => []ReplayLeavesNoGap
<1>1. UplinkInv => ReplayLeavesNoGap
  BY DEF UplinkInv
<1>. QED  BY <1>1, UplinkInvariant, PTL

\* A step that is not one of the two that prune gives up nothing.
LEMMA OnlyPruningGivesUp ==
  ASSUME [Next]_vars, ~Count, ~Restart
  PROVE  evicted' = evicted
<1>. USE DEF outboxVars
<1>1. CASE UNCHANGED vars
  BY <1>1 DEF vars
<1>2. CASE Next
  <2>1. CASE Publishing
    BY <2>1 DEF Publishing, Insert, InsertEvent, Send, AppendRaises
  <2>2. CASE Session \/ Deliver \/ Break \/ HeartbeatFails \/ RejectFrame
    BY <2>2 DEF Session, Connect, ReceiveWelcome, ReadSpool, ReplayNext, Disconnect, Deliver,
                Break, HeartbeatFails, RejectFrame
  <2>3. ASSUME NEW a \in Attempts, NEW kind \in {"log", "status", "outcome"},
               WorkerPublishes(a, kind)
        PROVE  evicted' = evicted
    BY <2>3 DEF WorkerPublishes
  <2>4. ASSUME NEW a \in Attempts, ReceiveAssign(a) \/ ReceiveCancel(a)
        PROVE  evicted' = evicted
    BY <2>4 DEF ReceiveAssign, ReceiveCancel
  <2>5. CASE Replies
    BY <2>5 DEF Replies, ReplyIsNumbered, ReplyRaises
  <2>6. ASSUME NEW action, ReceiveDrain(action)
        PROVE  evicted' = evicted
    BY <2>6 DEF ReceiveDrain
  <2>7. ASSUME NEW a, NEW last, ReceiveAck(a, last)
        PROVE  evicted' = evicted
    BY <2>7 DEF ReceiveAck, AckThrough
  <2>8. ASSUME NEW e, TimePasses(e)
        PROVE  evicted' = evicted
    BY <2>8 DEF TimePasses, Age
  <2>9. ~Kill /\ ~KillInAppend
    BY DEF Kill, KillInAppend
  <2>. QED  BY <1>2, <2>1, <2>2, <2>3, <2>4, <2>5, <2>6, <2>7, <2>8, <2>9 DEF Next
<1>. QED  BY <1>1, <1>2

\* Whatever the capacity of the spool and however many events there ever were: what
\* pruning gives up is a log, or beyond its retention, or a status for which the spool
\* had no room left, being full of statuses that are not older (_prune_sync,
\* store.py:692-724, when an event is appended and when the engine starts).
THEOREM LogsMakeRoom ==
  Spec => StatusOutlivesLogs
<1>. DEFINE Justified(e) == \/ e.kind = "log"
                            \/ e \in aged /\ e.attempt \in ended
                            \/ /\ Logs(spool') = {}
                               /\ Cardinality({x \in spool' : x.number >= e.number}) >= Capacity
<1>1. ASSUME UplinkInv, [Next]_vars
      PROVE  \A e \in evicted' \ evicted : Justified(e)
  <2>1. CASE Count
    <3>1. PruneSpool(spool, ended) /\ spool \subseteq born /\ Counted
      BY <1>1, <2>1 DEF Count, CountEvent, UplinkInv, SpoolInv, Tables
    <3>. QED  BY <3>1, PruneFacts
  <2>2. CASE Restart
    <3>1. PICK rows \in SUBSET Prunable :
            PruneSpool({e \in spool : e.attempt \notin rows}, ended \ rows)
      BY <2>2 DEF Restart, StartOutbox
    <3>2. PICK left : left = {e \in spool : e.attempt \notin rows}
      OBVIOUS
    <3>3. left \subseteq born /\ Counted /\ PruneSpool(left, ended \ rows)
      BY <1>1, <3>1, <3>2 DEF UplinkInv, SpoolInv, Tables
    <3>4. /\ evicted' = evicted \cup (spool \ spool')
          /\ \A e \in left \ spool' : Justified(e)
      BY <3>3, PruneFacts
    <3>5. \A e \in spool \ left : e \in aged /\ e.attempt \in ended
      BY <3>1, <3>2 DEF Prunable
    <3>. QED  BY <3>4, <3>5
  <2>3. CASE ~Count /\ ~Restart
    BY <1>1, <2>3, OnlyPruningGivesUp
  <2>. QED  BY <2>1, <2>2, <2>3
<1>2. UplinkInv /\ [Next]_vars =>
        [\A e \in evicted' \ evicted : Justified(e)]_vars
  BY <1>1
<1>. QED  BY <1>2, UplinkInvariant, PTL DEF Spec, StatusOutlivesLogs

=============================================================================
