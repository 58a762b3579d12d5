------------------------------- MODULE Uplink -------------------------------
(***************************************************************************)
(* The WSS session of build_engine/agent/uplink.py over the durable event  *)
(* spool: connect_once with its welcome, replay and frame loop,            *)
(* publish_attempt_event, and the commands of the backend that             *)
(* build_engine/queue/handlers.py carries out.                             *)
(*                                                                         *)
(* Workers publish while the session comes and goes.  publish_attempt_event *)
(* holds _publish_lock from numbering an event to sending it, so one event *)
(* is on its way at a time; the session is read by one task, which does    *)
(* not read on while it replies to a command.                              *)
(*                                                                         *)
(* The backend is external.  Its cursor for an attempt, which it sends in  *)
(* welcome and event.ack, is the highest sequence it has received.         *)
(***************************************************************************)
EXTENDS Outbox

CONSTANTS
  MaxBreaks,    \* how often a connection breaks, a frame is rejected or a heartbeat
                \* cannot be made
  MaxKills,     \* how often the process dies, but not within append
  MaxTorn,      \* how often it dies between the INSERT and the cursor UPDATE
  MaxUnknown    \* how many commands name an attempt that is not in the queue

ASSUME UplinkBounds ==
  MaxBreaks \in Nat /\ MaxKills \in Nat /\ MaxTorn \in Nat /\ MaxUnknown \in Nat

VARIABLES
  link,      \* "down", "opened", "greeted", "replaying" or "open"
  ws,        \* whether self._ws is set
  broken,    \* the connection is gone and the engine has not noticed yet
  welcomed,  \* the cursors of this session's welcome
  replay,    \* what _replay_spool has left to send
  sent,      \* the events sent on this connection, in order
  delivered, \* how many of them the backend has received
  stopped,   \* the task of _heartbeat_loop has raised
  stage,     \* how far the event in publish_attempt_event is
  current,   \* that event
  replyTo,   \* the reply the frame loop has to publish; numbered once the
             \* event in publish_attempt_event is that reply
  draining,  \* the drain marker exists
  received,  \* events the backend has received
  breaks, kills, torn, unknown  \* faults so far

sessionVars == <<link, ws, broken, welcomed, replay, sent, delivered, stopped>>
publishVars == <<stage, current>>
commandVars == <<replyTo, draining>>
faultVars == <<breaks, kills, torn, unknown>>
vars == <<outboxVars, sessionVars, publishVars, commandVars, received, faultVars>>

NoEvent == [attempt |-> 0, seq |-> 0, number |-> 0, kind |-> "status"]
NoReply == [attempt |-> 0, kind |-> "status", numbered |-> FALSE]

Init ==
  /\ OutboxInit
  /\ link = "down" /\ ws = FALSE /\ broken = FALSE
  /\ welcomed = [a \in Attempts |-> 0]
  /\ replay = {} /\ sent = <<>> /\ delivered = 0 /\ stopped = FALSE
  /\ stage = "free" /\ current = NoEvent
  /\ replyTo = NoReply /\ draining = FALSE
  /\ received = {}
  /\ breaks = 0 /\ kills = 0 /\ torn = 0 /\ unknown = 0

Replying == replyTo # NoReply

\* There is room in the model for one more event, besides those under way.
Room ==
  Cardinality(born) + (IF stage = "free" THEN 0 ELSE 1)
                    + (IF Replying /\ ~replyTo.numbered THEN 1 ELSE 0) < MaxEvents

\* last_seq of the backend.
HighestReceived(a) ==
  LET seqs == {0} \cup {e.seq : e \in {x \in received : x.attempt = a}}
  IN  CHOOSE n \in seqs : \A m \in seqs : m <= n

-----------------------------------------------------------------------------
(* publish_attempt_event.                                                  *)

Number(a, kind) ==
  /\ stage = "free"
  /\ CanNumber(a)
  /\ current' = NextEvent(a, kind)
  /\ stage' = "numbered"

\* A worker publishes.  Its last event of an attempt is the outcome, after the
\* terminal state has been committed.
WorkerPublishes(a, kind) ==
  /\ Room
  /\ a \notin ended
  /\ Number(a, kind)
  /\ ended' = IF kind = "outcome" THEN ended \cup {a} ELSE ended
  /\ UNCHANGED <<known, cursor, spool, aged, born, evicted, forgotten,
                 sessionVars, commandVars, received, faultVars>>

Insert ==
  /\ stage = "numbered"
  /\ InsertEvent(current)
  /\ stage' = "inserted"
  /\ UNCHANGED <<sessionVars, current, commandVars, received, faultVars>>

Count ==
  /\ stage = "inserted"
  /\ CountEvent(current)
  /\ stage' = "stored"
  /\ UNCHANGED <<sessionVars, current, commandVars, received, faultVars>>

Transmit(e) == sent' = Append(sent, e)

\* Variant: events are sent only once the session has replayed.
Send_WhenOpen ==
  /\ stage = "stored"
  /\ \/ link = "open" /\ ~broken /\ Transmit(current) /\ UNCHANGED ws
     \/ link = "open" /\ broken /\ ws' = FALSE /\ UNCHANGED sent
     \/ link # "open" /\ UNCHANGED <<ws, sent>>
  /\ stage' = "free" /\ current' = NoEvent
  /\ replyTo' = IF replyTo.numbered THEN NoReply ELSE replyTo
  /\ UNCHANGED <<outboxVars, link, broken, welcomed, replay, delivered, stopped,
                 draining, received, faultVars>>

\* The event is durable; whether it is sent as well depends on the session.
\* A send that fails, as on a connection that a past session left in _ws, unsets
\* _ws.
Send ==
  /\ stage = "stored"
  /\ LET alive == link # "down" /\ ~broken
     IN  \/ ws /\ alive /\ Transmit(current) /\ UNCHANGED ws
         \/ ws /\ ~alive /\ ws' = FALSE /\ UNCHANGED sent
         \/ ~ws /\ UNCHANGED <<ws, sent>>
  /\ stage' = "free" /\ current' = NoEvent
  /\ replyTo' = IF replyTo.numbered THEN NoReply ELSE replyTo
  /\ UNCHANGED <<outboxVars, link, broken, welcomed, replay, delivered, stopped,
                 draining, received, faultVars>>

-----------------------------------------------------------------------------
(* connect_once.                                                           *)

\* _ws is set as soon as the connection is open.
Connect ==
  /\ link = "down"
  /\ link' = "opened" /\ ws' = TRUE
  /\ UNCHANGED <<outboxVars, broken, welcomed, replay, sent, delivered, stopped,
                 publishVars, commandVars, received, faultVars>>

ReceiveWelcome ==
  /\ link = "opened" /\ ~broken
  /\ welcomed' = [a \in Attempts |-> HighestReceived(a)]
  /\ link' = "greeted"
  /\ UNCHANGED <<outboxVars, ws, broken, replay, sent, delivered, stopped,
                 publishVars, commandVars, received, faultVars>>

\* The outbox lock is free: no append is under way.
ReadSpool ==
  /\ link = "greeted" /\ ~broken
  /\ stage # "inserted"
  /\ replay' = ReplayAfter(welcomed)
  /\ link' = "replaying"
  /\ UNCHANGED <<outboxVars, ws, broken, welcomed, sent, delivered, stopped,
                 publishVars, commandVars, received, faultVars>>

\* Oldest first.
ReplayNext ==
  /\ link = "replaying" /\ ~broken
  /\ \/ /\ replay # {}
        /\ Transmit(Oldest(replay))
        /\ replay' = replay \ {Oldest(replay)}
        /\ UNCHANGED link
     \/ /\ replay = {}
        /\ link' = "open"
        /\ UNCHANGED <<replay, sent>>
  /\ UNCHANGED <<outboxVars, ws, broken, welcomed, delivered, stopped,
                 publishVars, commandVars, received, faultVars>>

\* connect_once ends: what was not delivered is lost.  Its finally clause awaits
\* the heartbeat task, and when that has raised, it raises there, before _ws is
\* reset.
SessionEnds ==
  /\ link' = "down" /\ ws' = (ws /\ stopped) /\ broken' = FALSE
  /\ replay' = {} /\ sent' = <<>> /\ delivered' = 0
  /\ stopped' = FALSE /\ welcomed' = [a \in Attempts |-> 0]

\* _heartbeat_loop raises: the connection is broken, or the snapshot cannot be
\* made.  Nobody awaits the task before the session ends.
HeartbeatFails ==
  /\ link \in {"greeted", "replaying", "open"} /\ ~stopped
  /\ \/ broken /\ UNCHANGED breaks
     \/ breaks < MaxBreaks /\ breaks' = breaks + 1
  /\ stopped' = TRUE
  /\ UNCHANGED <<outboxVars, link, ws, broken, welcomed, replay, sent, delivered,
                 publishVars, commandVars, received, kills, torn, unknown>>

\* A broken connection raises where the session next sends or reads.
Disconnect ==
  /\ broken /\ ~Replying
  /\ SessionEnds
  /\ UNCHANGED <<outboxVars, publishVars, commandVars, received, faultVars>>

-----------------------------------------------------------------------------
(* _handle_frame.                                                          *)

Reads == link = "open" /\ ~broken /\ ~Replying

\* The welcome, its cursors or a later frame is not what the protocol allows
\* (decode_frame, validate_envelope, last_sequences, attempt_fields): the
\* ProtocolError leaves connect_once.
RejectFrame ==
  /\ (link \in {"opened", "greeted"} /\ ~broken) \/ Reads
  /\ breaks < MaxBreaks
  /\ breaks' = breaks + 1
  /\ SessionEnds
  /\ UNCHANGED <<outboxVars, publishVars, commandVars, received, kills, torn, unknown>>

\* A command that names an attempt is replied to with an event.
Reply(a, kind) ==
  /\ Room
  /\ replyTo' = [attempt |-> a, kind |-> kind, numbered |-> FALSE]

\* job.assign: refused while the drain marker exists, else enqueued.
ReceiveAssign(a) ==
  /\ Reads
  /\ \/ /\ ~draining
        /\ known' = known \cup {a}
        /\ Reply(a, "status")
        /\ UNCHANGED unknown
     \/ /\ draining
        /\ a \notin known => unknown < MaxUnknown
        /\ unknown' = IF a \in known THEN unknown ELSE unknown + 1
        /\ Reply(a, "refusal")
        /\ UNCHANGED known
  /\ UNCHANGED <<ended, cursor, spool, aged, born, evicted, forgotten, sessionVars,
                 publishVars, draining, received, breaks, kills, torn>>

\* job.cancel of one attempt: request_cancel names it whether it has a row or
\* not.
ReceiveCancel(a) ==
  /\ Reads
  /\ a \notin known => unknown < MaxUnknown
  /\ unknown' = IF a \in known THEN unknown ELSE unknown + 1
  /\ Reply(a, "status")
  /\ UNCHANGED <<outboxVars, sessionVars, publishVars, draining,
                 received, breaks, kills, torn>>

ReplyIsNumbered ==
  /\ Replying
  /\ Number(replyTo.attempt, replyTo.kind)
  /\ replyTo' = [replyTo EXCEPT !.numbered = TRUE]
  /\ UNCHANGED <<outboxVars, sessionVars, draining, received, faultVars>>

\* next_seq raises for an attempt without a row: the exception leaves
\* connect_once.
ReplyRaises ==
  /\ Replying
  /\ stage = "free" /\ ~CanNumber(replyTo.attempt)
  /\ replyTo' = NoReply
  /\ SessionEnds
  /\ UNCHANGED <<outboxVars, publishVars, draining, received, faultVars>>

ReceiveDrain(action) ==
  /\ Reads
  /\ draining' = (action = "drain")
  /\ UNCHANGED <<outboxVars, sessionVars, publishVars, replyTo,
                 received, faultVars>>

\* event.ack, which may have been under way for some time.
ReceiveAck(a, last) ==
  /\ Reads
  /\ stage # "inserted"
  /\ last <= HighestReceived(a)
  /\ AckThrough(a, last)
  /\ UNCHANGED <<sessionVars, publishVars, commandVars, received, faultVars>>

-----------------------------------------------------------------------------
(* The network, the backend and the process.                               *)

Deliver ==
  /\ ~broken
  /\ delivered < Len(sent)
  /\ delivered' = delivered + 1
  /\ received' = received \cup {sent[delivered + 1]}
  /\ UNCHANGED <<outboxVars, link, ws, broken, welcomed, replay, sent, stopped,
                 publishVars, commandVars, faultVars>>

Break ==
  /\ link # "down" /\ ~broken
  /\ breaks < MaxBreaks
  /\ breaks' = breaks + 1
  /\ broken' = TRUE
  /\ UNCHANGED <<outboxVars, link, ws, welcomed, replay, sent, delivered, stopped,
                 publishVars, commandVars, received, kills, torn, unknown>>

\* The process dies and is started again.
Restart ==
  /\ StartOutbox
  /\ link' = "down" /\ ws' = FALSE /\ broken' = FALSE
  /\ replay' = {} /\ sent' = <<>> /\ delivered' = 0
  /\ stopped' = FALSE /\ welcomed' = [a \in Attempts |-> 0]
  /\ stage' = "free" /\ current' = NoEvent
  /\ replyTo' = NoReply
  /\ UNCHANGED <<draining, received, breaks, unknown>>

Kill ==
  /\ stage # "inserted"
  /\ kills < MaxKills
  /\ kills' = kills + 1
  /\ Restart
  /\ UNCHANGED torn

KillInAppend ==
  /\ stage = "inserted"
  /\ torn < MaxTorn
  /\ torn' = torn + 1
  /\ Restart
  /\ UNCHANGED kills

\* The event found another one at its sequence: the publisher gets a
\* QueueError, and when that is the frame loop, the session ends.
AppendRaises ==
  /\ stage = "numbered"
  /\ Conflicts(current)
  /\ stage' = "free" /\ current' = NoEvent
  /\ IF replyTo.numbered
     THEN SessionEnds /\ replyTo' = NoReply
     ELSE UNCHANGED <<sessionVars, replyTo>>
  /\ UNCHANGED <<outboxVars, draining, received, faultVars>>

TimePasses(e) ==
  /\ Age(e)
  /\ UNCHANGED <<sessionVars, publishVars, commandVars, received, faultVars>>

-----------------------------------------------------------------------------
Publishing == Insert \/ Count \/ Send \/ AppendRaises
Session == Connect \/ ReceiveWelcome \/ ReadSpool \/ ReplayNext \/ Disconnect
Replies == ReplyIsNumbered \/ ReplyRaises

Next ==
  \/ \E a \in Attempts, kind \in {"log", "status", "outcome"} : WorkerPublishes(a, kind)
  \/ Publishing
  \/ Session
  \/ \E a \in Attempts : ReceiveAssign(a) \/ ReceiveCancel(a)
  \/ Replies
  \/ \E action \in {"drain", "resume"} : ReceiveDrain(action)
  \/ \E a \in Attempts : \E last \in 1 .. MaxEvents : ReceiveAck(a, last)
  \/ Deliver
  \/ Break
  \/ HeartbeatFails
  \/ RejectFrame
  \/ Kill
  \/ KillInAppend
  \/ \E e \in spool : TimePasses(e)

Spec == Init /\ [][Next]_vars

\* Publishing and sending end, connections are retried for ever
\* (run_forever), frames that are sent on a connection that stays arrive, and
\* the backend acknowledges what it has received.
Fairness ==
  /\ WF_vars(Publishing)
  /\ WF_vars(Session)
  /\ WF_vars(Replies)
  /\ WF_vars(Deliver)
  /\ \A a \in Attempts : WF_vars(HighestReceived(a) > 0 /\ ReceiveAck(a, HighestReceived(a)))

FairSpec == Spec /\ Fairness

-----------------------------------------------------------------------------
(* Properties                                                              *)

\* The variables of the spool and of the session have their types, what is on its
\* way through publish_attempt_event is not yet in the spool, and the cursor
\* covers what is.
UplinkTypeOK ==
  /\ known \subseteq Attempts /\ ended \subseteq known
  /\ cursor \in [Attempts -> 0 .. MaxEvents]
  /\ spool \subseteq born \ evicted /\ aged \subseteq born
  /\ \A e \in born : e \in Event
  /\ link \in {"down", "opened", "greeted", "replaying", "open"}
  /\ ws \in BOOLEAN /\ stopped \in BOOLEAN
  /\ stage \in {"free", "numbered", "inserted", "stored"}
  /\ stage = "numbered" => current \notin born
  /\ delivered \in 0 .. Len(sent)
  /\ torn = 0 => \A e \in spool : e.seq <= cursor[e.attempt]
                                    \/ (stage = "inserted" /\ e = current)

Sent == {sent[i] : i \in DOMAIN sent}

\* Events on their way through publish_attempt_event are sent by it.
Settled == spool \ (IF stage \in {"inserted", "stored"} THEN {current} ELSE {})

\* Once a session has replayed, it has sent every event in the spool that the
\* backend's cursor does not cover and that is young enough: none falls between
\* the replay and the live events, whatever was published meanwhile
\* (uplink.py:176-184: _ws is set before the spool is read).
ReplayLeavesNoGap ==
  (link = "open" /\ ws) =>
    \A e \in Settled \ aged : e.seq > welcomed[e.attempt] => e \in Sent

\* The same of every event that was not acknowledged
\* (docs/operations.md:71, "The outbox replays unacknowledged events").
EveryUnackedIsReplayed ==
  (link = "open" /\ ws) =>
    \A e \in Settled : e.seq > welcomed[e.attempt] => e \in Sent

\* The backend never receives two different events with the same sequence
\* number (docs/protocol.md:55-58; next_seq and append, store.py:622-669),
\* through broken connections and restarts, unless the process has died between
\* the INSERT of an event and the UPDATE of the cursor, or the attempt was
\* assigned again after its terminal row was pruned.
SequenceIdentifiesEvent ==
  torn = 0 =>
    \A x, y \in received :
      (x.attempt = y.attempt /\ x.attempt \notin forgotten /\ x.seq = y.seq) => x = y

\* Logs make room for everything else, and older statuses for newer ones: a status
\* that pruning gives up was beyond its retention, or the spool that is left has
\* no log and is full of statuses that are not older (_prune_sync,
\* store.py:692-724, and the pruning at start-up).
StatusOutlivesLogs ==
  [][\A e \in evicted' \ evicted :
       \/ e.kind = "log"
       \/ e \in aged /\ e.attempt \in ended
       \/ /\ Logs(spool') = {}
          /\ Cardinality({x \in spool' : x.number >= e.number}) >= Capacity]_vars

\* Every event leaves the spool in the end, through broken connections and
\* restarts (run_forever, _replay_spool, _ack_event).
SpoolDrains ==
  \A n \in 1 .. MaxEvents :
    (\E e \in spool : e.number = n) ~> ~(\E e \in spool : e.number = n)

=============================================================================
