-------------------------- MODULE ConnectionManager --------------------------
(***************************************************************************)
(* Live delivery to the clients of one channel (a room or a review):       *)
(* app/core/realtime.py, the WebSocket endpoints that keep a socket on its *)
(* list and the SSE generators that read a queue.  Everything runs in one  *)
(* event loop, so a step below is what happens between two awaits: a       *)
(* broadcast is spread over the sends it awaits, and other broadcasts,     *)
(* connects and disconnects come between.                                  *)
(***************************************************************************)
EXTENDS Integers, FiniteSets, Sequences

CONSTANTS
  Socket,          \* WebSocket connections, each tried once
  Listener,        \* SSE queues, each used once
  Broadcaster,     \* places for broadcasts in progress
  MaxConnections,  \* REALTIME_MAX_CONNECTIONS_PER_ROOM, 0 for no limit
  QueueSize,       \* REALTIME_MAX_SSE_QUEUE_SIZE, 0 for no limit
  Attempts,        \* REALTIME_SEND_MAX_RETRIES + 1
  DropSlow,        \* REALTIME_DISCONNECT_ON_SLOW_CONSUMER
  MessageCap       \* bound on the messages broadcast

ASSUME ManagerAssumption ==
  /\ MaxConnections \in Nat /\ QueueSize \in Nat /\ MessageCap \in Nat
  /\ Attempts \in Nat \ {0}
  /\ DropSlow \in BOOLEAN

Message == 1..MessageCap   \* numbered in the order their broadcasts begin

VARIABLES
  phase,      \* where the endpoint of each socket stands
  joined,     \* messages begun when the socket was put on its list
  active,     \* active_connections[channel]
  current,    \* the accepting sockets whose list is still the channel's
  got,        \* messages each socket has received
  cast,       \* the broadcasts in progress
  begun,      \* broadcasts begun
  sent,       \* messages whose broadcast is over, in that order
  tuned,      \* where the generator of each SSE client stands
  listening,  \* sse_listeners[channel]
  queue,      \* contents of each client's queue
  heard,      \* what each SSE client has been sent
  since       \* Len(sent) when the queue was registered

sockets == <<phase, joined, active, current>>
clients == <<tuned, listening, queue, heard, since>>
vars == <<sockets, got, cast, begun, sent, clients>>

NoCast == [msg |-> 0, sending |-> {}, failed |-> {}, tries |-> [c \in Socket |-> 0]]

Init ==
  /\ phase = [c \in Socket |-> "away"]
  /\ joined = [c \in Socket |-> 0]
  /\ active = {} /\ current = {}
  /\ got = [c \in Socket |-> {}]
  /\ cast = [b \in Broadcaster |-> NoCast]
  /\ begun = 0
  /\ sent = <<>>
  /\ tuned = [l \in Listener |-> "off"]
  /\ listening = {}
  /\ queue = [l \in Listener |-> <<>>]
  /\ heard = [l \in Listener |-> <<>>]
  /\ since = [l \in Listener |-> 0]

-----------------------------------------------------------------------------
(* WebSocket connections                                                   *)

Goes(c, from, to) ==
  /\ phase[c] = from
  /\ phase' = [phase EXCEPT ![c] = to]

Full == MaxConnections # 0 /\ Cardinality(active) >= MaxConnections

\* connect up to its await: the list it holds on to is the channel's.
Connect(c) ==
  /\ ~Full
  /\ Goes(c, "away", "accepting")
  /\ current' = current \cup {c}
  /\ UNCHANGED <<joined, active, got, cast, begun, sent, clients>>

\* ConnectionLimitError: the endpoint closes the socket.
Reject(c) ==
  /\ Full
  /\ Goes(c, "away", "closed")
  /\ UNCHANGED <<joined, active, current, got, cast, begun, sent, clients>>

\* The rest of connect: the socket goes on the list it held on to, which is
\* nobody's if the channel's last socket has left meanwhile.
Accept(c) ==
  /\ Goes(c, "accepting", "open")
  /\ joined' = [joined EXCEPT ![c] = begun]
  /\ active' = IF c \in current THEN active \cup {c} ELSE active
  /\ current' = current \ {c}
  /\ UNCHANGED <<got, cast, begun, sent, clients>>

\* accept raises; disconnect finds nothing to remove.
AcceptFails(c) ==
  /\ Goes(c, "accepting", "closed")
  /\ current' = current \ {c}
  /\ UNCHANGED <<joined, active, got, cast, begun, sent, clients>>

\* disconnect: with its last socket the channel's list goes.
Disconnect(gone) ==
  /\ active' = active \ gone
  /\ current' = IF active \cap gone # {} /\ active \ gone = {} THEN {} ELSE current

\* receive_text raises WebSocketDisconnect, or anything else.
HangUp(c) ==
  /\ Goes(c, "open", "closed")
  /\ Disconnect({c})
  /\ UNCHANGED <<joined, got, cast, begun, sent, clients>>

-----------------------------------------------------------------------------
(* Broadcasts                                                              *)

\* Slip: a message that finds the queue full is dropped, the client is not.
OfferSkips(m) ==
  LET full == {l \in listening : QueueSize # 0 /\ Len(queue[l]) >= QueueSize}
  IN /\ listening' = listening
     /\ queue' = [l \in Listener |-> IF l \in listening \ full THEN Append(queue[l], m)
                                                               ELSE queue[l]]
     /\ sent' = Append(sent, m)

\* The loop over the SSE queues: put_nowait, or unregister when it is full.
Offer(m) ==
  LET full == {l \in listening : QueueSize # 0 /\ Len(queue[l]) >= QueueSize}
  IN /\ listening' = listening \ full
     /\ queue' = [l \in Listener |-> IF l \in listening \ full THEN Append(queue[l], m)
                                                               ELSE queue[l]]
     /\ sent' = Append(sent, m)

Resting(b) == cast[b].msg = 0

NewCast(m) ==
  [msg |-> m, sending |-> active, failed |-> {},
   tries |-> [c \in Socket |-> IF c \in active THEN Attempts ELSE 0]]

\* broadcast up to its await, if it has one.
Broadcast(b) ==
  /\ Resting(b)
  /\ begun < MessageCap
  /\ begun' = begun + 1
  /\ IF active = {}
     THEN Offer(begun + 1) /\ UNCHANGED cast
     ELSE /\ cast' = [cast EXCEPT ![b] = NewCast(begun + 1)]
          /\ UNCHANGED <<listening, queue, sent>>
  /\ UNCHANGED <<sockets, got, tuned, heard, since>>

Receive(b, c) == got' = [got EXCEPT ![c] = @ \cup {cast[b].msg}]

Delivered(t, c) == [t EXCEPT !.sending = @ \ {c}]

Deliver(b, c) ==
  /\ c \in cast[b].sending
  /\ phase[c] = "open"
  /\ Receive(b, c)
  /\ cast' = [cast EXCEPT ![b] = Delivered(@, c)]
  /\ UNCHANGED <<sockets, begun, sent, clients>>

\* Slip: the attempts are not counted.
MissedUncounted(t, c) == [t EXCEPT !.failed = @ \cup {c}]

\* _send_with_retry after an attempt that failed: another one, or FALSE.
Missed(t, c) ==
  IF t.tries[c] > 1
  THEN [t EXCEPT !.tries[c] = @ - 1]
  ELSE [t EXCEPT !.tries[c] = 0, !.sending = @ \ {c}, !.failed = @ \cup {c}]

\* A send raises, or times out: with the message in the socket's buffer
\* already, or not.
Miss(b, c) ==
  /\ c \in cast[b].sending
  /\ UNCHANGED got \/ (phase[c] = "open" /\ Receive(b, c))
  /\ cast' = [cast EXCEPT ![b] = Missed(@, c)]
  /\ UNCHANGED <<sockets, begun, sent, clients>>

\* Slip: a socket that missed the message stays on the list.
FinishKeeps(b) ==
  /\ ~Resting(b) /\ cast[b].sending = {}
  /\ Offer(cast[b].msg)
  /\ cast' = [cast EXCEPT ![b] = NoCast]
  /\ UNCHANGED <<sockets, got, begun, tuned, heard, since>>

\* broadcast after its gather.
Finish(b) ==
  /\ ~Resting(b) /\ cast[b].sending = {}
  /\ Disconnect(IF DropSlow THEN cast[b].failed ELSE {})
  /\ Offer(cast[b].msg)
  /\ cast' = [cast EXCEPT ![b] = NoCast]
  /\ UNCHANGED <<phase, joined, got, begun, tuned, heard, since>>

Sends(b) == Finish(b) \/ \E c \in Socket : Deliver(b, c) \/ Miss(b, c)

-----------------------------------------------------------------------------
(* SSE clients                                                             *)

Register(l) ==
  /\ tuned[l] = "off"
  /\ tuned' = [tuned EXCEPT ![l] = "on"]
  /\ listening' = listening \cup {l}
  /\ since' = [since EXCEPT ![l] = Len(sent)]
  /\ UNCHANGED <<sockets, got, cast, begun, sent, queue, heard>>

\* The generator goes on with its queue even if it was unregistered.
Take(l) ==
  /\ tuned[l] = "on"
  /\ queue[l] # <<>>
  /\ heard' = [heard EXCEPT ![l] = Append(@, Head(queue[l]))]
  /\ queue' = [queue EXCEPT ![l] = Tail(@)]
  /\ UNCHANGED <<sockets, got, cast, begun, sent, tuned, listening, since>>

\* The generator ends, and its finally unregisters the queue.
TuneOut(l) ==
  /\ tuned[l] = "on"
  /\ tuned' = [tuned EXCEPT ![l] = "done"]
  /\ listening' = listening \ {l}
  /\ UNCHANGED <<sockets, got, cast, begun, sent, queue, heard, since>>

-----------------------------------------------------------------------------
Endpoint(c) == Connect(c) \/ Reject(c) \/ Accept(c) \/ AcceptFails(c) \/ HangUp(c)
Client(l) == Register(l) \/ Take(l) \/ TuneOut(l)

Rest ==
  /\ \A c \in Socket : phase[c] = "closed"
  /\ \A l \in Listener : tuned[l] = "done"
  /\ begun = MessageCap /\ \A b \in Broadcaster : Resting(b)
  /\ UNCHANGED vars

Next ==
  \/ \E c \in Socket : Endpoint(c)
  \/ \E b \in Broadcaster : Broadcast(b) \/ Sends(b)
  \/ \E l \in Listener : Client(l)
  \/ Rest

\* Sends time out, and the event loop resumes whoever waited for them.
Fairness == \A b \in Broadcaster : WF_vars(Sends(b))

Spec == Init /\ [][Next]_vars /\ Fairness

-----------------------------------------------------------------------------
(* Properties                                                              *)

Cast == [msg : 0..MessageCap, sending : SUBSET Socket, failed : SUBSET Socket,
         tries : [Socket -> 0..Attempts]]

TypeOK ==
  /\ phase \in [Socket -> {"away", "accepting", "open", "closed"}]
  /\ joined \in [Socket -> 0..MessageCap]
  /\ active \subseteq Socket /\ current \subseteq Socket
  /\ got \in [Socket -> SUBSET Message]
  /\ cast \in [Broadcaster -> Cast]
  /\ begun \in 0..MessageCap
  /\ sent \in Seq(Message)
  /\ tuned \in [Listener -> {"off", "on", "done"}]
  /\ listening \subseteq Listener
  /\ queue \in [Listener -> Seq(Message)]
  /\ heard \in [Listener -> Seq(Message)]
  /\ since \in [Listener -> Nat]

\* No broadcast is left waiting for a socket whose endpoint is gone or not
\* there yet: only open sockets are on the list.
ListedIsOpen == \A c \in active : phase[c] = "open"

Over == {sent[i] : i \in 1..Len(sent)}

\* A socket on the list has received every message whose broadcast began and
\* ended while it was there, however broadcasts overlap and sends fail: who
\* misses one is taken off.
SocketsMissNothing ==
  DropSlow => \A c \in active : \A m \in Over : m > joined[c] => m \in got[c]

\* What an SSE client was sent, with what its queue still holds, are messages
\* in the order their broadcasts ended, from its registration on and without
\* a gap: up to the last one, unless the client was dropped.
ListenersMissNothing ==
  \A l \in Listener :
    LET stream == heard[l] \o queue[l]
    IN  /\ stream = SubSeq(sent, since[l] + 1, since[l] + Len(stream))
        /\ l \in listening => since[l] + Len(stream) = Len(sent)

\* A broadcast ends, whatever its sockets do.
BroadcastEnds == \A b \in Broadcaster : ~Resting(b) ~> Resting(b)

(* What the repository says, and the code does not do                      *)

\* A broadcast goes to all: an open socket that has missed nothing is on the
\* list broadcasts are sent to.
ReachesAll ==
  \A c \in Socket :
    phase[c] = "open" /\ (\A m \in Over : m > joined[c] => m \in got[c]) => c \in active
=============================================================================
