----------------------- MODULE ConnectionManagerProofs -----------------------
(***************************************************************************)
(* Theorems about ConnectionManager for any sockets, SSE clients and       *)
(* overlapping broadcasts, and any limits and retries.                     *)
(***************************************************************************)
EXTENDS ConnectionManager, SequenceTheorems, TLAPS

LEMMA OfferType ==
  ASSUME TypeOK, NEW m \in Message, Offer(m)
  PROVE  /\ sent' \in Seq(Message)
         /\ listening' \subseteq Listener
         /\ queue' \in [Listener -> Seq(Message)]
<1>1. sent' \in Seq(Message)
  BY AppendProperties DEF Offer, TypeOK
<1>2. listening' \subseteq Listener
  BY DEF Offer, TypeOK
<1>3. \A l \in Listener : Append(queue[l], m) \in Seq(Message)
  BY AppendProperties DEF TypeOK
<1>4. queue' \in [Listener -> Seq(Message)]
  BY <1>3 DEF Offer, TypeOK
<1>5. QED
  BY <1>1, <1>2, <1>4

LEMMA CastType ==
  ASSUME NEW t \in Cast, NEW c \in t.sending
  PROVE  /\ Delivered(t, c) \in Cast /\ Missed(t, c) \in Cast
         /\ Delivered(t, c).msg = t.msg /\ Missed(t, c).msg = t.msg
         /\ Delivered(t, c).sending = t.sending \ {c}
         /\ Delivered(t, c).failed = t.failed
         /\ Missed(t, c).sending \cup Missed(t, c).failed = t.sending \cup t.failed
         /\ Missed(t, c).sending \subseteq t.sending
<1>1. Delivered(t, c) \in Cast
  BY DEF Delivered, Cast
<1>2. CASE t.tries[c] > 1
  <2>1. [t.tries EXCEPT ![c] = @ - 1] \in [Socket -> 0..Attempts]
    BY <1>2, ManagerAssumption DEF Cast
  <2>2. Missed(t, c) = [t EXCEPT !.tries = [t.tries EXCEPT ![c] = @ - 1]]
    BY <1>2 DEF Missed, Cast
  <2>3. QED
    BY <1>1, <2>1, <2>2 DEF Delivered, Cast
<1>3. CASE ~(t.tries[c] > 1)
  <2>1. [t.tries EXCEPT ![c] = 0] \in [Socket -> 0..Attempts]
    BY ManagerAssumption DEF Cast
  <2>2. Missed(t, c) = [t EXCEPT !.tries = [t.tries EXCEPT ![c] = 0],
                                 !.sending = @ \ {c}, !.failed = @ \cup {c}]
    BY <1>3 DEF Missed, Cast
  <2>3. c \in Socket /\ t.failed \cup {c} \in SUBSET Socket /\ t.sending \ {c} \in SUBSET Socket
    BY DEF Cast
  <2>4. Missed(t, c) \in Cast
    BY <2>1, <2>2, <2>3 DEF Cast
  <2>5. /\ Missed(t, c).msg = t.msg /\ Missed(t, c).sending = t.sending \ {c}
        /\ Missed(t, c).failed = t.failed \cup {c}
    BY <2>2 DEF Cast
  <2>6. QED
    BY <1>1, <2>4, <2>5 DEF Delivered, Cast
<1>4. QED
  BY <1>2, <1>3

\* A message that is on its way has a number.
InFlight == \A b \in Broadcaster : cast[b].sending # {} => cast[b].msg \in Message

TInv == TypeOK /\ InFlight

LEMMA StepKeepsTypes == TInv /\ [Next]_vars => TInv'
<1> SUFFICES ASSUME TInv, [Next]_vars PROVE TInv'
  OBVIOUS
<1> USE ManagerAssumption DEF TInv, InFlight
<1>1. ASSUME NEW c \in Socket, Endpoint(c) PROVE TInv'
  BY <1>1 DEF TypeOK, Endpoint, Connect, Reject, Accept, AcceptFails, HangUp, Goes, Disconnect, clients
<1>2. ASSUME NEW b \in Broadcaster, Broadcast(b) PROVE TInv'
  <2> USE <1>2
  <2>1. begun + 1 \in Message /\ begun' \in 0..MessageCap
    BY DEF Broadcast, TypeOK, Message
  <2>2. CASE active = {}
    <3>1. Offer(begun + 1) /\ UNCHANGED <<sockets, got, cast, tuned, heard, since>>
      BY <2>2 DEF Broadcast
    <3>2. QED
      BY <2>1, <3>1, OfferType DEF TypeOK, sockets
  <2>3. CASE active # {}
    <3>1. NewCast(begun + 1) \in Cast /\ NewCast(begun + 1).msg = begun + 1
      BY <2>1 DEF NewCast, TypeOK, Cast, Message
    <3>2. cast' = [cast EXCEPT ![b] = NewCast(begun + 1)] /\ UNCHANGED <<listening, queue, sent>>
      BY <2>3 DEF Broadcast
    <3>3. cast' \in [Broadcaster -> Cast] /\ InFlight'
      BY <2>1, <3>1, <3>2 DEF TypeOK
    <3>4. QED
      BY <2>1, <3>2, <3>3 DEF Broadcast, TypeOK, sockets
  <2>4. QED
    BY <2>2, <2>3
<1>3. ASSUME NEW b \in Broadcaster, NEW c \in Socket, Deliver(b, c) PROVE TInv'
  <2> DEFINE t == cast[b]
  <2>1. t \in Cast /\ c \in t.sending /\ t.msg \in Message
    BY <1>3 DEF Deliver, TypeOK
  <2>2. cast' = [cast EXCEPT ![b] = Delivered(t, c)]
    BY <1>3 DEF Deliver
  <2>3. Delivered(t, c) \in Cast /\ Delivered(t, c).msg \in Message
    BY <2>1, CastType
  <2>4. cast' \in [Broadcaster -> Cast] /\ InFlight'
    BY <2>2, <2>3 DEF TypeOK
  <2>5. got' \in [Socket -> SUBSET Message]
    BY <1>3, <2>1 DEF Deliver, Receive, TypeOK
  <2>6. QED
    BY <1>3, <2>4, <2>5 DEF Deliver, TypeOK, sockets, clients
<1>4. ASSUME NEW b \in Broadcaster, NEW c \in Socket, Miss(b, c) PROVE TInv'
  <2> DEFINE t == cast[b]
  <2>1. t \in Cast /\ c \in t.sending /\ t.msg \in Message
    BY <1>4 DEF Miss, TypeOK
  <2>2. cast' = [cast EXCEPT ![b] = Missed(t, c)]
    BY <1>4 DEF Miss
  <2>3. Missed(t, c) \in Cast /\ Missed(t, c).msg \in Message
    BY <2>1, CastType
  <2>4. cast' \in [Broadcaster -> Cast] /\ InFlight'
    BY <2>2, <2>3 DEF TypeOK
  <2>5. got' \in [Socket -> SUBSET Message]
    <3>1. got' = got \/ got' = [got EXCEPT ![c] = @ \cup {t.msg}]
      BY <1>4 DEF Miss, Receive
    <3>2. CASE got' = got
      BY <3>2 DEF TypeOK
    <3>3. CASE got' = [got EXCEPT ![c] = @ \cup {t.msg}]
      <4>1. got[c] \cup {t.msg} \in SUBSET Message
        BY <2>1 DEF TypeOK
      <4>2. QED
        BY <3>3, <4>1 DEF TypeOK
    <3>4. QED
      BY <3>1, <3>2, <3>3
  <2>6. QED
    BY <1>4, <2>4, <2>5 DEF Miss, TypeOK, sockets, clients
<1>5. ASSUME NEW b \in Broadcaster, Finish(b) PROVE TInv'
  <2>1. cast[b].msg \in Message
    BY <1>5 DEF Finish, Resting, TypeOK, Cast, Message
  <2>2. NoCast \in Cast
    BY DEF NoCast, Cast
  <2>3. cast' \in [Broadcaster -> Cast] /\ InFlight'
    BY <1>5, <2>2 DEF Finish, TypeOK, NoCast
  <2>4. active' \subseteq Socket /\ current' \subseteq Socket
    BY <1>5 DEF Finish, Disconnect, TypeOK
  <2>5. Offer(cast[b].msg)
    BY <1>5 DEF Finish
  <2>6. QED
    BY <1>5, <2>1, <2>3, <2>4, <2>5, OfferType DEF Finish, TypeOK
<1>6. ASSUME NEW l \in Listener, Register(l) PROVE TInv'
  <2>1. Len(sent) \in Nat
    BY LenProperties DEF TypeOK
  <2>2. QED
    BY <1>6, <2>1 DEF Register, TypeOK, sockets
<1>7. ASSUME NEW l \in Listener, Take(l) PROVE TInv'
  <2>1. Head(queue[l]) \in Message /\ Tail(queue[l]) \in Seq(Message)
    BY <1>7, HeadTailProperties DEF Take, TypeOK
  <2>2. Append(heard[l], Head(queue[l])) \in Seq(Message)
    BY <2>1, AppendProperties DEF TypeOK
  <2>3. QED
    BY <1>7, <2>1, <2>2 DEF Take, TypeOK, sockets
<1>8. ASSUME NEW l \in Listener, TuneOut(l) PROVE TInv'
  BY <1>8 DEF TuneOut, TypeOK, sockets
<1>9. CASE UNCHANGED vars
  BY <1>9 DEF TypeOK, vars, sockets, clients
<1>10. QED
  BY <1>1, <1>2, <1>3, <1>4, <1>5, <1>6, <1>7, <1>8, <1>9 DEF Next, Sends, Client, Rest

LEMMA Types == Spec => []TInv
<1>1. Init => TInv
  <2>1. <<>> \in Seq(Message)
    BY EmptySeq
  <2>2. NoCast \in Cast /\ NoCast.sending = {}
    BY ManagerAssumption DEF NoCast, Cast
  <2>3. QED
    BY ManagerAssumption, <2>1, <2>2 DEF Init, TInv, TypeOK, InFlight
<1>2. QED
  BY <1>1, StepKeepsTypes, PTL DEF Spec

\* The manager keeps its types: a send is tried no more often than configured.
THEOREM TypeCorrect == Spec => []TypeOK
<1>1. TInv => TypeOK
  BY DEF TInv
<1>2. QED
  BY <1>1, Types, PTL

-----------------------------------------------------------------------------
(* Sockets                                                                 *)

\* Only open sockets are on the list a broadcast is sent to, however connects
\* and disconnects overlap.
THEOREM OnlyOpenListed == Spec => []ListedIsOpen
<1>1. Init => ListedIsOpen
  BY DEF Init, ListedIsOpen
<1>2. TInv /\ ListedIsOpen /\ [Next]_vars => ListedIsOpen'
  <2> SUFFICES ASSUME TInv, ListedIsOpen, [Next]_vars PROVE ListedIsOpen'
    OBVIOUS
  <2> USE DEF TInv, ListedIsOpen, TypeOK
  <2>1. ASSUME NEW c \in Socket, Endpoint(c) PROVE ListedIsOpen'
    BY <2>1 DEF Endpoint, Connect, Reject, Accept, AcceptFails, HangUp, Goes, Disconnect
  <2>2. ASSUME NEW b \in Broadcaster, Sends(b) \/ Broadcast(b) PROVE ListedIsOpen'
    BY <2>2 DEF Sends, Broadcast, Deliver, Miss, Finish, Disconnect, sockets
  <2>3. ASSUME NEW l \in Listener, Client(l) PROVE ListedIsOpen'
    BY <2>3 DEF Client, Register, Take, TuneOut, sockets
  <2>4. CASE UNCHANGED vars
    BY <2>4 DEF vars, sockets
  <2>5. QED
    BY <2>1, <2>2, <2>3, <2>4 DEF Next, Rest
<1>3. QED
  BY <1>1, <1>2, Types, PTL DEF Spec

\* Messages are numbered as their broadcasts begin.
Numbered == /\ Over \subseteq 1..begun
            /\ \A b \in Broadcaster : cast[b].msg \in 0..begun

\* A broadcast in progress still has to reach a listed socket, has reached it
\* or will take it off the list.
Covered ==
  \A b \in Broadcaster : \A c \in active :
    cast[b].msg > joined[c] =>
      c \in cast[b].sending \cup cast[b].failed \/ cast[b].msg \in got[c]

Kept == \A c \in active : \A m \in Over : m > joined[c] => m \in got[c]

SInv == TInv /\ ListedIsOpen /\ Numbered /\ (DropSlow => Covered /\ Kept)

LEMMA OfferOver ==
  ASSUME TypeOK, NEW m \in Message, Offer(m) PROVE Over' = Over \cup {m}
<1>1. /\ sent' = Append(sent, m) /\ Len(sent') = Len(sent) + 1 /\ sent'[Len(sent) + 1] = m
      /\ \A i \in 1..Len(sent) : sent'[i] = sent[i]
  BY AppendProperties DEF Offer, TypeOK
<1>2. Len(sent) \in Nat
  BY LenProperties DEF TypeOK
<1>3. 1..Len(sent') = 1..Len(sent) \cup {Len(sent) + 1}
  BY <1>1, <1>2
<1>4. Over' = {sent'[i] : i \in 1..Len(sent')}
  BY DEF Over
<1>5. QED
  BY <1>1, <1>2, <1>3, <1>4 DEF Over

LEMMA StepKeepsSInv == SInv /\ TInv' /\ ListedIsOpen' /\ [Next]_vars => (Numbered /\ (DropSlow => Covered /\ Kept))'
<1> SUFFICES ASSUME SInv, TInv', [Next]_vars PROVE Numbered' /\ (DropSlow => Covered' /\ Kept')
  OBVIOUS
<1> USE ManagerAssumption DEF SInv, TInv
<1>1. begun \in Nat /\ \A c \in Socket : joined[c] \in Nat
  BY DEF TypeOK
<1>2. ASSUME NEW c \in Socket, Endpoint(c) PROVE Numbered' /\ (DropSlow => Covered' /\ Kept')
  <2>1. UNCHANGED <<got, cast, begun, sent, Over>>
    BY <1>2 DEF Endpoint, Connect, Reject, Accept, AcceptFails, HangUp, Over
  <2>2. Numbered'
    BY <2>1 DEF Numbered
  <2>3. CASE Accept(c)
    <3>1. joined' = [joined EXCEPT ![c] = begun] /\ active' \subseteq active \cup {c}
      BY <2>3 DEF Accept
    <3>2. \A b \in Broadcaster : ~(cast[b].msg > begun)
      BY <1>1 DEF Numbered
    <3>3. \A m \in Over : ~(m > begun)
      BY <1>1 DEF Numbered
    <3>4. \A d \in Socket : joined'[d] = IF d = c THEN begun ELSE joined[d]
      BY <3>1 DEF TypeOK
    <3>5. active \subseteq Socket
      BY DEF TypeOK
    <3>6. DropSlow => Covered'
      BY <2>1, <3>1, <3>2, <3>4, <3>5 DEF Covered
    <3>7. DropSlow => Kept'
      BY <2>1, <3>1, <3>3, <3>4, <3>5 DEF Kept
    <3>8. QED
      BY <2>2, <3>6, <3>7
  <2>4. CASE ~Accept(c)
    <3>1. UNCHANGED joined /\ active' \subseteq active
      BY <1>2, <2>4 DEF Endpoint, Connect, Reject, AcceptFails, HangUp, Disconnect
    <3>2. QED
      BY <2>1, <2>2, <3>1 DEF Covered, Kept
  <2>5. QED
    BY <2>3, <2>4
<1>3. ASSUME NEW b \in Broadcaster, Broadcast(b) PROVE Numbered' /\ (DropSlow => Covered' /\ Kept')
  <2> DEFINE m == begun + 1
  <2>1. /\ m \in Message /\ begun' = m
        /\ UNCHANGED <<joined, active, got>>
    BY <1>1, <1>3 DEF Broadcast, Message, sockets
  <2>2. CASE active = {}
    <3>1. Over' = Over \cup {m} /\ UNCHANGED cast
      BY <1>3, <2>1, <2>2, OfferOver DEF Broadcast
    <3>2. 1..begun \subseteq 1..m /\ 0..begun \subseteq 0..m /\ m \in 1..m
      BY <1>1
    <3>3. Over' \subseteq 1..begun'
      BY <2>1, <3>1, <3>2 DEF Numbered
    <3>4. \A d \in Broadcaster : cast'[d].msg \in 0..begun'
      BY <2>1, <3>1, <3>2 DEF Numbered
    <3>5. QED
      BY <2>1, <2>2, <3>3, <3>4 DEF Numbered, Covered, Kept
  <2>3. CASE active # {}
    <3>1. /\ cast' = [cast EXCEPT ![b] = NewCast(m)] /\ UNCHANGED Over
          /\ NewCast(m).msg = m /\ NewCast(m).sending = active
      BY <1>3, <2>3 DEF Broadcast, Over, NewCast
    <3>2. \A d \in Broadcaster : cast'[d] = IF d = b THEN NewCast(m) ELSE cast[d]
      BY <3>1 DEF TypeOK
    <3>3. Numbered'
      BY <1>1, <2>1, <3>1, <3>2 DEF Numbered
    <3>4. DropSlow => Covered'
      BY <2>1, <3>1, <3>2 DEF Covered
    <3>5. DropSlow => Kept'
      BY <2>1, <3>1 DEF Kept
    <3>6. QED
      BY <3>3, <3>4, <3>5
  <2>4. QED
    BY <2>2, <2>3
<1>4. ASSUME NEW b \in Broadcaster, NEW c \in Socket, Deliver(b, c) PROVE Numbered' /\ (DropSlow => Covered' /\ Kept')
  <2> DEFINE u == Delivered(cast[b], c)
  <2>1. /\ cast[b] \in Cast /\ c \in cast[b].sending
        /\ UNCHANGED <<joined, active, begun, Over>>
        /\ got' = [got EXCEPT ![c] = @ \cup {cast[b].msg}]
        /\ cast' = [cast EXCEPT ![b] = u]
    BY <1>4 DEF Deliver, Receive, TypeOK, sockets, Over
  <2>2. u.msg = cast[b].msg /\ u.sending = cast[b].sending \ {c} /\ u.failed = cast[b].failed
    BY <2>1, CastType
  <2>3. /\ \A d \in Broadcaster : cast'[d] = IF d = b THEN u ELSE cast[d]
        /\ \A d \in Socket : got'[d] = IF d = c THEN got[d] \cup {cast[b].msg} ELSE got[d]
    BY <2>1 DEF TypeOK
  <2>4. Numbered'
    BY <2>1, <2>2, <2>3 DEF Numbered
  <2>5. DropSlow => Covered'
    BY <2>1, <2>2, <2>3 DEF Covered, TypeOK
  <2>6. DropSlow => Kept'
    BY <2>1, <2>3 DEF Kept, TypeOK
  <2>7. QED
    BY <2>4, <2>5, <2>6
<1>5. ASSUME NEW b \in Broadcaster, NEW c \in Socket, Miss(b, c) PROVE Numbered' /\ (DropSlow => Covered' /\ Kept')
  <2> DEFINE u == Missed(cast[b], c)
  <2>1. /\ cast[b] \in Cast /\ c \in cast[b].sending
        /\ UNCHANGED <<joined, active, begun, Over>>
        /\ cast' = [cast EXCEPT ![b] = u]
    BY <1>5 DEF Miss, TypeOK, sockets, Over
  <2>2. u.msg = cast[b].msg /\ u.sending \cup u.failed = cast[b].sending \cup cast[b].failed
    BY <2>1, CastType
  <2>3. /\ \A d \in Broadcaster : cast'[d] = IF d = b THEN u ELSE cast[d]
        /\ \A d \in Socket : got[d] \subseteq got'[d]
    <3>1. got' = got \/ got' = [got EXCEPT ![c] = @ \cup {cast[b].msg}]
      BY <1>5 DEF Miss, Receive
    <3>2. CASE got' = got
      BY <2>1, <3>2 DEF TypeOK
    <3>3. CASE got' = [got EXCEPT ![c] = @ \cup {cast[b].msg}]
      <4>1. \A d \in Socket : got'[d] = IF d = c THEN got[d] \cup {cast[b].msg} ELSE got[d]
        BY <3>3 DEF TypeOK
      <4>2. QED
        BY <2>1, <4>1 DEF TypeOK
    <3>4. QED
      BY <3>1, <3>2, <3>3
  <2>4. Numbered'
    BY <2>1, <2>2, <2>3 DEF Numbered
  <2>5. DropSlow => Covered'
    BY <2>1, <2>2, <2>3 DEF Covered, TypeOK
  <2>6. DropSlow => Kept'
    BY <2>1, <2>3 DEF Kept, TypeOK
  <2>7. QED
    BY <2>4, <2>5, <2>6
<1>6. ASSUME NEW b \in Broadcaster, Finish(b) PROVE Numbered' /\ (DropSlow => Covered' /\ Kept')
  <2> DEFINE m == cast[b].msg
  <2>1. m \in Message /\ m \in 1..begun
    BY <1>6 DEF Finish, Resting, TypeOK, Cast, Message, Numbered
  <2>2. /\ UNCHANGED <<joined, got, begun>>
        /\ active' = active \ (IF DropSlow THEN cast[b].failed ELSE {})
        /\ cast[b].sending = {}
        /\ \A d \in Broadcaster : cast'[d] = IF d = b THEN NoCast ELSE cast[d]
    BY <1>6 DEF Finish, Disconnect, TypeOK
  <2>3. Over' = Over \cup {m}
    BY <1>6, <2>1, OfferOver DEF Finish
  <2>4. Numbered'
    <3>1. Over' \subseteq 1..begun'
      BY <2>1, <2>2, <2>3 DEF Numbered
    <3>2. NoCast.msg \in 0..begun
      BY <1>1 DEF NoCast
    <3>3. \A d \in Broadcaster : cast'[d].msg \in 0..begun'
      BY <2>2, <3>2 DEF Numbered
    <3>4. QED
      BY <3>1, <3>3 DEF Numbered
  <2>5. DropSlow => Covered'
    <3>1. active' \subseteq active /\ active \subseteq Socket
      BY <2>2 DEF TypeOK
    <3>2. \A c \in active : ~(NoCast.msg > joined[c])
      BY <1>1, <3>1 DEF NoCast
    <3>3. QED
      BY <2>2, <3>1, <3>2 DEF Covered
  <2>6. DropSlow => Kept'
    BY <2>2, <2>3 DEF Kept, Covered
  <2>7. QED
    BY <2>4, <2>5, <2>6
<1>7. CASE UNCHANGED vars \/ \E l \in Listener : Client(l)
  <2>1. UNCHANGED <<joined, active, got, cast, begun, Over>>
    BY <1>7 DEF Client, Register, Take, TuneOut, sockets, vars, Over
  <2>2. QED
    BY <2>1 DEF Numbered, Covered, Kept
<1>8. QED
  BY <1>2, <1>3, <1>4, <1>5, <1>6, <1>7 DEF Next, Sends, Rest

\* When slow sockets are dropped, a socket on the list has every message of
\* its time there, whatever broadcasts and connections overlap.
THEOREM SocketsHaveAll == Spec => []SocketsMissNothing
<1>1. Init => Numbered /\ (DropSlow => Covered /\ Kept)
  BY DEF Init, Numbered, Covered, Kept, Over, NoCast
<1>2. TInv /\ ListedIsOpen /\ Numbered /\ (DropSlow => Covered /\ Kept) => SocketsMissNothing
  BY DEF Kept, SocketsMissNothing
<1>3. QED
  BY <1>1, <1>2, StepKeepsSInv, Types, OnlyOpenListed, PTL DEF Spec, SInv

-----------------------------------------------------------------------------
(* SSE clients                                                             *)

Stream(l) == heard[l] \o queue[l]

\* ListenersMissNothing is inductive with two facts more: a client not tuned
\* in yet has an empty stream, and no stream is ahead of the broadcasts.
Unheard ==
  \A l \in Listener : tuned[l] = "off" =>
    heard[l] = <<>> /\ queue[l] = <<>> /\ l \notin listening

Behind == \A l \in Listener : since[l] + Len(Stream(l)) <= Len(sent)

Segment(l) ==
  /\ Stream(l) = SubSeq(sent, since[l] + 1, since[l] + Len(Stream(l)))
  /\ l \in listening => since[l] + Len(Stream(l)) = Len(sent)

Streams == Unheard /\ Behind /\ \A l \in Listener : Segment(l)

LEMMA StreamType ==
  ASSUME TypeOK, NEW l \in Listener
  PROVE  Stream(l) \in Seq(Message) /\ Len(Stream(l)) \in Nat /\ Len(sent) \in Nat
<1>1. Stream(l) \in Seq(Message)
  BY ConcatProperties DEF Stream, TypeOK
<1>2. QED
  BY <1>1, LenProperties DEF TypeOK

\* A part of the messages sent is the same part when one more is sent.
LEMMA SegmentStays ==
  ASSUME NEW s \in Seq(Message), NEW m \in Message,
         NEW a \in Nat, NEW n \in Nat, a + n <= Len(s)
  PROVE  SubSeq(Append(s, m), a + 1, a + n) = SubSeq(s, a + 1, a + n)
OBVIOUS

\* The part up to the last message grows by the message sent.
LEMMA SegmentGrows ==
  ASSUME NEW s \in Seq(Message), NEW m \in Message,
         NEW a \in Nat, NEW n \in Nat, a + n = Len(s)
  PROVE  SubSeq(Append(s, m), a + 1, a + n + 1) = Append(SubSeq(s, a + 1, a + n), m)
OBVIOUS

\* A stream is the same wherever between queue and client its messages are.
LEMMA StreamGrows ==
  ASSUME NEW h \in Seq(Message), NEW q \in Seq(Message), NEW m \in Message
  PROVE  h \o Append(q, m) = Append(h \o q, m)
OBVIOUS

LEMMA StreamFlows ==
  ASSUME NEW h \in Seq(Message), NEW q \in Seq(Message), q # <<>>
  PROVE  Append(h, Head(q)) \o Tail(q) = h \o q
OBVIOUS

LEMMA OfferStreams ==
  ASSUME TypeOK, Streams, NEW m \in Message, Offer(m), UNCHANGED <<tuned, heard, since>>
  PROVE  Streams'
<1>1. Len(sent) \in Nat /\ sent \in Seq(Message) /\ sent' = Append(sent, m)
      /\ Len(sent') = Len(sent) + 1
  BY LenProperties, AppendProperties DEF Offer, TypeOK
<1>2. listening' \subseteq listening
  BY DEF Offer
<1>3. \A l \in Listener : queue'[l] = IF l \in listening' THEN Append(queue[l], m) ELSE queue[l]
  BY DEF Offer, TypeOK
<1>4. Unheard'
  BY <1>2, <1>3 DEF Streams, Unheard
<1>5. ASSUME NEW l \in Listener
      PROVE  since'[l] + Len(Stream(l)') <= Len(sent') /\ Segment(l)'
  <2>1. /\ Stream(l) \in Seq(Message) /\ Len(Stream(l)) \in Nat
        /\ since[l] \in Nat /\ since'[l] = since[l]
        /\ since[l] + Len(Stream(l)) <= Len(sent)
        /\ Segment(l)
    BY StreamType DEF TypeOK, Streams, Behind
  <2>2. CASE l \in listening'
    <3>1. Stream(l)' = heard[l] \o Append(queue[l], m)
      BY <1>3, <2>2 DEF Stream
    <3>2. Stream(l)' = Append(Stream(l), m)
      BY <3>1, StreamGrows DEF Stream, TypeOK
    <3>3. Len(Stream(l)') = Len(Stream(l)) + 1
      BY <2>1, <3>2, AppendProperties
    <3>4. since[l] + Len(Stream(l)) = Len(sent)
      BY <1>2, <2>1, <2>2 DEF Segment
    <3>5. SubSeq(sent', since[l] + 1, since[l] + Len(Stream(l)) + 1) = Append(Stream(l), m)
      <4>1. SubSeq(Append(sent, m), since[l] + 1, since[l] + Len(Stream(l)) + 1)
              = Append(SubSeq(sent, since[l] + 1, since[l] + Len(Stream(l))), m)
        BY <1>1, <2>1, <3>4, SegmentGrows
      <4>2. Stream(l) = SubSeq(sent, since[l] + 1, since[l] + Len(Stream(l)))
        BY <2>1 DEF Segment
      <4>3. QED
        BY <1>1, <4>1, <4>2
    <3>6. since'[l] + Len(Stream(l)') = since[l] + Len(Stream(l)) + 1 /\ since'[l] + 1 = since[l] + 1
      BY <2>1, <3>3
    <3>7. Stream(l)' = SubSeq(sent', since'[l] + 1, since'[l] + Len(Stream(l)'))
      BY <3>2, <3>5, <3>6
    <3>8. since'[l] + Len(Stream(l)') = Len(sent')
      BY <1>1, <3>4, <3>6
    <3>9. since'[l] + Len(Stream(l)') <= Len(sent')
      BY <1>1, <3>8
    <3>10. Segment(l)'
      BY <3>7, <3>8 DEF Segment
    <3>11. QED
      BY <3>9, <3>10
  <2>3. CASE l \notin listening'
    <3>1. Stream(l)' = Stream(l)
      BY <1>3, <2>3 DEF Stream
    <3>2. SubSeq(sent', since[l] + 1, since[l] + Len(Stream(l)))
            = SubSeq(sent, since[l] + 1, since[l] + Len(Stream(l)))
      BY <1>1, <2>1, SegmentStays
    <3>3. QED
      BY <1>1, <2>1, <2>3, <3>1, <3>2 DEF Segment
  <2>4. QED
    BY <2>2, <2>3
<1>6. QED
  BY <1>4, <1>5 DEF Streams, Behind

LEMMA StepKeepsStreams == TInv /\ Streams /\ [Next]_vars => Streams'
<1> SUFFICES ASSUME TInv, Streams, [Next]_vars PROVE Streams'
  OBVIOUS
<1> USE DEF TInv
<1>1. ASSUME UNCHANGED <<sent, clients>> PROVE Streams'
  BY <1>1 DEF Streams, Unheard, Behind, Segment, Stream, clients
<1>2. ASSUME NEW b \in Broadcaster, Broadcast(b) PROVE Streams'
  <2>1. begun + 1 \in Message
    BY <1>2, ManagerAssumption DEF Broadcast, TypeOK, Message
  <2>2. QED
    BY <1>1, <1>2, <2>1, OfferStreams DEF Broadcast, clients
<1>3. ASSUME NEW b \in Broadcaster, Finish(b) PROVE Streams'
  <2>1. cast[b].msg \in Message
    BY <1>3, ManagerAssumption DEF Finish, Resting, TypeOK, Cast, Message
  <2>2. QED
    BY <1>3, <2>1, OfferStreams DEF Finish
<1>4. ASSUME NEW l \in Listener, Register(l) PROVE Streams'
  <2>1. Len(sent) \in Nat
    BY StreamType
  <2>2. /\ \A k \in Listener : Stream(k)' = Stream(k)
        /\ UNCHANGED <<sent, heard, queue>>
        /\ listening' = listening \cup {l}
        /\ \A k \in Listener : since'[k] = IF k = l THEN Len(sent) ELSE since[k]
        /\ \A k \in Listener : tuned'[k] = IF k = l THEN "on" ELSE tuned[k]
    BY <1>4 DEF Register, Stream, TypeOK
  <2>3. heard[l] = <<>> /\ queue[l] = <<>>
    BY <1>4 DEF Register, Streams, Unheard
  <2>4. Stream(l) = <<>> /\ Len(Stream(l)) = 0
    BY <2>3 DEF Stream
  <2>5. SubSeq(sent, Len(sent) + 1, Len(sent) + 0) = <<>>
    BY <2>1, SubSeqEmpty
  <2>6. Segment(l)' /\ since'[l] + Len(Stream(l)') <= Len(sent')
    <3>1. Stream(l)' = <<>> /\ Len(Stream(l)') = 0 /\ since'[l] = Len(sent) /\ sent' = sent
      BY <2>2, <2>4
    <3>2. SubSeq(sent', since'[l] + 1, since'[l] + Len(Stream(l)')) = <<>>
      BY <2>5, <3>1
    <3>3. since'[l] + Len(Stream(l)') = Len(sent')
      BY <2>1, <3>1
    <3>4. QED
      BY <2>1, <3>1, <3>2, <3>3 DEF Segment
  <2>7. ASSUME NEW k \in Listener, k # l
        PROVE  Segment(k)' /\ since'[k] + Len(Stream(k)') <= Len(sent')
    BY <2>2, <2>7 DEF Segment, Streams, Behind
  <2>8. Unheard'
    BY <2>2 DEF Streams, Unheard
  <2>9. QED
    BY <2>6, <2>7, <2>8 DEF Streams, Behind
<1>5. ASSUME NEW l \in Listener, Take(l) PROVE Streams'
  <2>1. /\ heard[l] \in Seq(Message) /\ queue[l] \in Seq(Message) /\ queue[l] # <<>>
        /\ heard' = [heard EXCEPT ![l] = Append(@, Head(queue[l]))]
        /\ queue' = [queue EXCEPT ![l] = Tail(@)]
        /\ UNCHANGED <<sent, tuned, listening, since>>
    BY <1>5 DEF Take, TypeOK
  <2>2. heard'[l] = Append(heard[l], Head(queue[l])) /\ queue'[l] = Tail(queue[l])
    BY <2>1 DEF TypeOK
  <2>3. Append(heard[l], Head(queue[l])) \o Tail(queue[l]) = heard[l] \o queue[l]
    BY <2>1, StreamFlows
  <2>4. \A k \in Listener : Stream(k)' = Stream(k)
    <3>1. ASSUME NEW k \in Listener, k # l PROVE Stream(k)' = Stream(k)
      BY <2>1, <3>1 DEF Stream, TypeOK
    <3>2. QED
      BY <2>2, <2>3, <3>1 DEF Stream
  <2>5. Unheard'
    <3>1. tuned[l] # "off"
      BY <1>5 DEF Take
    <3>2. QED
      BY <2>1, <3>1 DEF Streams, Unheard, TypeOK
  <2>6. QED
    BY <2>1, <2>4, <2>5 DEF Streams, Behind, Segment
<1>6. ASSUME NEW l \in Listener, TuneOut(l) PROVE Streams'
  <2>1. /\ \A k \in Listener : Stream(k)' = Stream(k)
        /\ UNCHANGED <<sent, heard, queue, since>> /\ listening' \subseteq listening
    BY <1>6 DEF TuneOut, Stream
  <2>2. Unheard'
    BY <1>6, <2>1 DEF TuneOut, Streams, Unheard, TypeOK
  <2>3. QED
    BY <2>1, <2>2 DEF Streams, Behind, Segment
<1>7. QED
  BY <1>1, <1>2, <1>3, <1>4, <1>5, <1>6
     DEF Next, Endpoint, Connect, Reject, Accept, AcceptFails, HangUp, Sends, Deliver, Miss,
         Client, Rest, vars, clients

\* No SSE client ever has a gap in what it is sent, and one that is still
\* registered has everything up to the last broadcast that ended.
THEOREM ListenersHaveAll == Spec => []ListenersMissNothing
<1>1. Init => Streams
  <2> SUFFICES ASSUME Init PROVE Streams
    OBVIOUS
  <2>1. /\ sent = <<>> /\ listening = {} /\ Len(sent) = 0
        /\ \A l \in Listener : Stream(l) = <<>> /\ since[l] = 0
    BY DEF Init, Stream
  <2>2. SubSeq(sent, 0 + 1, 0 + 0) = <<>>
    BY SubSeqEmpty
  <2>3. ASSUME NEW l \in Listener PROVE Segment(l) /\ since[l] + Len(Stream(l)) <= Len(sent)
    <3>1. Stream(l) = <<>> /\ Len(Stream(l)) = 0 /\ since[l] = 0
      BY <2>1
    <3>2. SubSeq(sent, since[l] + 1, since[l] + Len(Stream(l))) = <<>>
      BY <2>2, <3>1
    <3>3. QED
      BY <2>1, <3>1, <3>2 DEF Segment
  <2>4. QED
    BY <2>3 DEF Init, Streams, Unheard, Behind
<1>2. Streams => ListenersMissNothing
  BY DEF Streams, Segment, Stream, ListenersMissNothing
<1>3. QED
  BY <1>1, <1>2, StepKeepsStreams, Types, PTL DEF Spec
=============================================================================
