------------------------- MODULE RoomMessagesProofs -------------------------
(***************************************************************************)
(* Proofs about RoomMessages: what a list may lack, and what it may keep   *)
(* too long.                                                               *)
(*                                                                         *)
(* MessagesAccounted says what a list lacks; for that, what is on its way  *)
(* to a list, in the event stream or in the answer to a request, has to be *)
(* of the list's room, and an answer that is to be named has to be saved   *)
(* (Founded).  LeftoversGo says how long the stand-ins of an answer stay;  *)
(* for that, they have to be in no list but that of the room in which the  *)
(* question was put, and the excuse must not be a fetch, which may fail:   *)
(* the list is stale or the room astray (Tidy).                            *)
(***************************************************************************)
EXTENDS RoomMessages, TLAPS

Cached == [there : BOOLEAN, list : SUBSET Entry]
Fetched == [at : {"none", "asked", "answered"}, got : SUBSET Message]
Channel == [room : Room \cup {NoRoom}, on : Worker \cup {NoWorker}, sent : SUBSET Message]

\* The page has an input for a room only, and a question is put in a room.
NoInput == shown = NoRoom => input.place = "nowhere"
Placed == NoInput /\ \A k \in Ask : stream[k].at # "none" => stream[k].room \in Room

Begun == {"asked", "open", "answered"}

\* What is on its way is there.
Founded ==
  /\ \A r \in Room : ~cache[r].there => cache[r].list = {}
  /\ \A r \in Room : fetch[r].got \subseteq store[r]
  /\ \A r \in Room, m \in Message : <<r, m>> \in unsaid => m \in store[r]
  /\ channel.room # NoRoom => channel.sent \subseteq store[channel.room]
  /\ \A k \in Ask : stream[k].at \in Begun => cache[stream[k].room].there
  /\ \A k \in Ask : stream[k].at = "answered" => Answer(k) \in store[stream[k].room]

\* A list has nothing that is not stored, and what it lacks is accounted for.
Accounts ==
  \A r \in Room :
    /\ Known(cache[r].list) \subseteq store[r]
    /\ \A m \in store[r] : \/ m \in Known(cache[r].list)
                           \/ <<r, m>> \in unsaid
                           \/ channel.room = r /\ m \in channel.sent
                           \/ <<r, m>> \in lost

\* What there is of a question is in the room where it was put.
Ours(k, r) == stream[k].at \in Begun \cup {"settled"} /\ stream[k].room = r
AtHome ==
  \A k \in Ask, r \in Room :
    {Temp(Question(k)), Temp(Answer(k))} \cap cache[r].list # {} \/ Answer(k) \in store[r]
      => Ours(k, r)

Tidy ==
  \A r \in Room, k \in Ask :
    Settled(k) /\ Doubled(r, k) => stale[r] \/ r \in astray

IndInv == TypeOK /\ Placed /\ Founded /\ Accounts /\ AtHome /\ Tidy

-----------------------------------------------------------------------------
(* Messages, entries and lists.                                            *)

LEMMA MessagesDiffer ==
  /\ \A j, k : Question(j) = Question(k) => j = k
  /\ \A j, k : Answer(j) = Answer(k) => j = k
  /\ \A j, k : Question(j) # Answer(k)
  /\ \A k \in Ask : Question(k) \in Message /\ Answer(k) \in Message
BY DEF Question, Answer, Message

LEMMA EntriesDiffer ==
  /\ \A m, n : Temp(m) = Temp(n) => m = n
  /\ \A m, n : Temp(m) # Final(n) /\ Temp(m) # Listed(n) /\ Final(m) # Listed(n)
  /\ \A m, n : Final(m) = Final(n) \/ Listed(m) = Listed(n) => m = n
  /\ \A m \in Message : {Temp(m), Final(m), Listed(m)} \subseteq Entry
BY DEF Temp, Final, Listed, Entry

\* handleStreamingResponse: the entry of an answer gets its message's id.
Named(entries, a) == {IF e = Temp(a) THEN Final(a) ELSE e : e \in entries}

LEMMA KnownIs ==
  ASSUME NEW entries, NEW m
  PROVE  m \in Known(entries) <=> \E e \in entries : e.as # "temp" /\ e.m = m
BY DEF Known

\* What is known after each of the ways in which a list is written.
LEMMA KnownAfter ==
  /\ Known({}) = {}
  /\ \A entries, m : Known(entries \cup {Listed(m)}) = Known(entries) \cup {m}
  /\ \A entries, m, n : Known(entries \cup {Temp(m), Temp(n)}) = Known(entries)
  /\ \A S : Known({Listed(m) : m \in S}) = S
  /\ \A entries, a : /\ Known(entries) \subseteq Known(Named(entries, a))
                     /\ Known(Named(entries, a)) \subseteq
                          Known(entries) \cup (IF Temp(a) \in entries THEN {a} ELSE {})
<1>1. Known({}) = {}
  BY DEF Known
<1> DEFINE Has(entries, m) == \E e \in entries : e.as # "temp" /\ e.m = m
<1>a. \A entries, m : m \in Known(entries) <=> Has(entries, m)
  BY KnownIs
<1>b. /\ \A m : Temp(m).as = "temp"
      /\ \A m : Listed(m).as # "temp" /\ Listed(m).m = m
  BY DEF Temp, Listed
<1>2. \A entries, m : Known(entries \cup {Listed(m)}) = Known(entries) \cup {m}
  <2>1. \A entries, m, x : Has(entries \cup {Listed(m)}, x) <=> Has(entries, x) \/ x = m
    BY <1>b
  <2> HIDE DEF Has
  <2>2. \A entries, m, x : x \in Known(entries \cup {Listed(m)}) <=> x \in Known(entries) \cup {m}
    BY <1>a, <2>1
  <2> QED BY <2>2
<1>3. \A entries, m, n : Known(entries \cup {Temp(m), Temp(n)}) = Known(entries)
  <2>1. \A entries, m, n, x : Has(entries \cup {Temp(m), Temp(n)}, x) <=> Has(entries, x)
    BY <1>b
  <2> HIDE DEF Has
  <2>2. \A entries, m, n, x : x \in Known(entries \cup {Temp(m), Temp(n)}) <=> x \in Known(entries)
    BY <1>a, <2>1
  <2> QED BY <2>2
<1>4. \A S : Known({Listed(m) : m \in S}) = S
  <2>1. \A S, x : Has({Listed(m) : m \in S}, x) <=> x \in S
    BY <1>b
  <2> HIDE DEF Has
  <2> QED BY <1>a, <2>1
<1>5. ASSUME NEW entries, NEW a
      PROVE  /\ Known(entries) \subseteq Known(Named(entries, a))
             /\ Known(Named(entries, a)) \subseteq
                  Known(entries) \cup (IF Temp(a) \in entries THEN {a} ELSE {})
  <2>1. ASSUME NEW m \in Known(entries) PROVE m \in Known(Named(entries, a))
    <3>1. PICK e \in entries : e.as # "temp" /\ e.m = m
      BY <2>1, KnownIs
    <3>2. e # Temp(a)
      BY <3>1 DEF Temp
    <3> QED BY <3>1, <3>2, KnownIs DEF Named
  <2>2. ASSUME NEW m \in Known(Named(entries, a))
        PROVE  m \in Known(entries) \cup (IF Temp(a) \in entries THEN {a} ELSE {})
    <3>1. PICK e \in Named(entries, a) : e.as # "temp" /\ e.m = m
      BY <2>2, KnownIs
    <3>2. e \in entries \/ (Temp(a) \in entries /\ e = Final(a))
      BY <3>1 DEF Named
    <3>3. CASE e \in entries
      BY <3>1, <3>3, KnownIs
    <3>4. CASE Temp(a) \in entries /\ e = Final(a)
      BY <3>1, <3>4 DEF Final
    <3> QED BY <3>2, <3>3, <3>4
  <2> QED BY <2>1, <2>2
<1> QED BY <1>1, <1>2, <1>3, <1>4, <1>5

-----------------------------------------------------------------------------
(* What the steps are made of.                                             *)

LEMMA WriteIs ==
  ASSUME TypeOK, NEW r \in Room, NEW entries \in SUBSET Entry, Write(r, entries)
  PROVE  /\ cache' \in [Room -> Cached] /\ stale' \in [Room -> BOOLEAN]
         /\ cache'[r].there /\ cache'[r].list = entries /\ stale'[r] = FALSE
         /\ \A q \in Room \ {r} : cache'[q] = cache[q] /\ stale'[q] = stale[q]
BY DEF TypeOK, Write, List, Cached

\* The question's stream moves on: nothing else of it matters.
LEMMA StreamMoves ==
  ASSUME TypeOK, NEW k \in Ask, NEW a \in Phase, stream' = [stream EXCEPT ![k].at = a]
  PROVE  /\ stream' \in [Ask -> Stream]
         /\ stream'[k].at = a /\ stream'[k].room = stream[k].room
         /\ \A j \in Ask : j # k => stream'[j] = stream[j]
<1>1. \A x \in Stream : [x EXCEPT !.at = a] \in Stream /\ [x EXCEPT !.at = a].at = a
                          /\ [x EXCEPT !.at = a].room = x.room
  BY DEF Stream
<1>2. stream' = [stream EXCEPT ![k] = [stream[k] EXCEPT !.at = a]]
  OBVIOUS
<1> QED BY <1>1, <1>2 DEF TypeOK

LEMMA SaveIs ==
  ASSUME TypeOK, NEW r \in Room, NEW m \in Message, Save(r, m)
  PROVE  /\ store' \in [Room -> SUBSET Message] /\ unsaid' \subseteq Room \X Message
         /\ store'[r] = store[r] \cup {m}
         /\ \A q \in Room \ {r} : store'[q] = store[q]
         /\ unsaid' = unsaid \cup {<<r, m>>}
         /\ UNCHANGED <<channel, lost>>
BY DEF Save, TypeOK

\* What is not told, or withheld, is lost unless it is in the list.
LEMMA MissedIs ==
  ASSUME NEW r \in Room, NEW m \in Message
  PROVE  /\ Missed(r, m) \subseteq Room \X Message
         /\ m \in Known(cache[r].list) \/ <<r, m>> \in Missed(r, m)
BY DEF Missed

\* A message is announced: on its way, lost or in the list.
LEMMA AnnounceIs ==
  ASSUME TypeOK, NEW r \in Room, NEW m \in Message, Announce(r, m)
  PROVE  /\ <<r, m>> \in unsaid /\ unsaid' = unsaid \ {<<r, m>>}
         /\ channel' \in Channel /\ lost' \subseteq Room \X Message
         /\ channel'.room = channel.room
         /\ channel.sent \subseteq channel'.sent /\ lost \subseteq lost'
         /\ channel'.sent \subseteq channel.sent \cup (IF channel.room = r THEN {m} ELSE {})
         /\ \/ m \in Known(cache[r].list)
            \/ channel.room = r /\ m \in channel'.sent
            \/ <<r, m>> \in lost'
         /\ UNCHANGED <<store, cache, stale, fetch, shown, stream, input, promoting, visits, astray>>
<1>1. \A c \in Channel : /\ [c EXCEPT !.sent = @ \cup {m}] \in Channel
                         /\ [c EXCEPT !.sent = @ \cup {m}].room = c.room
                         /\ [c EXCEPT !.sent = @ \cup {m}].sent = c.sent \cup {m}
                         /\ [c EXCEPT !.on = NoWorker] \in Channel
                         /\ [c EXCEPT !.on = NoWorker].room = c.room
                         /\ [c EXCEPT !.on = NoWorker].sent = c.sent
  BY DEF Channel
<1>2. channel \in Channel /\ lost \subseteq Room \X Message
  BY DEF TypeOK, Channel
<1>3. /\ <<r, m>> \in unsaid /\ unsaid' = unsaid \ {<<r, m>>}
      /\ UNCHANGED <<store, cache, stale, fetch, shown, stream, input, promoting, visits, astray>>
      /\ \/ /\ channel.room = r /\ lost' = lost
            /\ channel' = [channel EXCEPT !.sent = @ \cup {m}]
         \/ /\ channel' = [channel EXCEPT !.on = NoWorker] \/ channel' = channel
            /\ lost' = lost \cup Missed(r, m)
  BY DEF Announce, Publish, Withhold, Told, query
<1>4. CASE channel.room = r /\ lost' = lost /\ channel' = [channel EXCEPT !.sent = @ \cup {m}]
  <2>1. channel' \in Channel /\ channel'.room = channel.room /\ channel'.sent = channel.sent \cup {m}
    BY <1>1, <1>2, <1>4
  <2> QED BY <1>2, <1>3, <1>4, <2>1
<1>5. CASE /\ channel' = [channel EXCEPT !.on = NoWorker] \/ channel' = channel
           /\ lost' = lost \cup Missed(r, m)
  <2>1. channel' \in Channel /\ channel'.room = channel.room /\ channel'.sent = channel.sent
    BY <1>1, <1>2, <1>5
  <2> QED BY <1>2, <1>3, <1>5, <2>1, MissedIs
<1> QED BY <1>3, <1>4, <1>5

LEMMA RendersIs ==
  ASSUME NEW in \in Input, Renders(in)
  PROVE  input' \in Input /\ NoInput'
<1>1. \A r, c, f : PlaceOf(r, c, f) \in Place
  BY DEF PlaceOf, Place
<1>2. PlaceOf(shown', cache', fetch') = "nowhere" \/ shown' # NoRoom
  BY DEF PlaceOf
<1>3. [in EXCEPT !.files = FALSE] \in Input /\ [in EXCEPT !.files = FALSE].place = in.place
  BY DEF Input
<1> QED BY <1>1, <1>2, <1>3 DEF Renders, ResetAttachments, Input, NoInput

LEMMA InputIs ==
  /\ \A in \in Input, b \in Ask \cup {0} :
       [in EXCEPT !.busy = b] \in Input /\ [in EXCEPT !.busy = b].place = in.place
  /\ \A in \in Input, f \in BOOLEAN :
       [in EXCEPT !.files = f] \in Input /\ [in EXCEPT !.files = f].place = in.place
BY DEF Input

LEMMA FetchIs ==
  /\ NoFetch \in Fetched /\ Asked \in Fetched
  /\ NoFetch.got = {} /\ Asked.got = {} /\ Asked # NoFetch
BY DEF NoFetch, Asked, Fetched

-----------------------------------------------------------------------------
(* Types, and the rooms that the types leave open.                         *)

LEMMA KnownTyped ==
  ASSUME NEW entries \in SUBSET Entry
  PROVE  Known(entries) \subseteq Message
BY DEF Known, Entry

LEMMA NamedTyped ==
  ASSUME NEW entries \in SUBSET Entry, NEW a \in Message
  PROVE  Named(entries, a) \in SUBSET Entry
BY EntriesDiffer DEF Named

LEMMA InitTyped == Init => TypeOK /\ Placed
<1> SUFFICES ASSUME Init PROVE TypeOK /\ Placed
  OBVIOUS
<1>1. /\ Nothing \in Cached /\ NoFetch \in Fetched /\ NoStream \in Stream
      /\ channel \in Channel /\ input \in Input
  BY DEF Init, Nothing, Cached, NoFetch, Fetched, NoStream, Stream, Phase, Channel, Closed, Input, Place
<1> QED
  BY <1>1, RoomMessagesAssumption DEF Init, TypeOK, Placed, NoInput, Cached, Fetched, Channel, NoStream

LEMMA FetchTyped ==
  ASSUME TypeOK
  PROVE  /\ \A r \in Room, f \in Fetched : [fetch EXCEPT ![r] = f] \in [Room -> Fetched]
         /\ \A r : Observed(r) \in [Room -> Fetched] /\ Refetched(r) \in [Room -> Fetched]
BY FetchIs DEF TypeOK, Fetched, Observed, Refetched

LEMMA StepKeepsTyped == TypeOK /\ Placed /\ [Next]_vars => TypeOK' /\ Placed'
<1> SUFFICES ASSUME TypeOK, Placed, [Next]_vars PROVE TypeOK' /\ Placed'
  OBVIOUS
<1> USE RoomMessagesAssumption
<1> DEFINE Rooms(st) == \A k \in Ask : st[k].at # "none" => st[k].room \in Room
<1>1. /\ store \in [Room -> SUBSET Message] /\ unsaid \subseteq Room \X Message
      /\ cache \in [Room -> Cached]
      /\ fetch \in [Room -> Fetched] /\ stale \in [Room -> BOOLEAN]
      /\ channel \in Channel /\ stream \in [Ask -> Stream] /\ input \in Input
      /\ lost \subseteq Room \X Message /\ astray \subseteq Room
      /\ Rooms(stream) /\ NoInput /\ shown \in Room \cup {NoRoom}
  BY DEF TypeOK, Placed, Cached, Fetched, Channel
<1>2. \A r : Forgets(r) \subseteq {r}
  BY DEF Forgets
<1>3. \A r \in Room : Known(cache[r].list) \subseteq Message /\ cache[r].list \in SUBSET Entry
  BY <1>1, KnownTyped DEF Cached
\* What has to be shown of a step: the rest follows from its definition.
<1>4. ASSUME store' \in [Room -> SUBSET Message], unsaid' \subseteq Room \X Message,
             cache' \in [Room -> Cached],
             fetch' \in [Room -> Fetched], stale' \in [Room -> BOOLEAN],
             channel' \in Channel, stream' \in [Ask -> Stream], input' \in Input,
             lost' \subseteq Room \X Message, astray' \subseteq Room,
             Rooms(stream'), NoInput', shown' \in Room \cup {NoRoom},
             promoting' \in Sub \cup {NoRoom}, visits' \in 0..MaxVisits
      PROVE  TypeOK' /\ Placed'
  BY <1>4 DEF TypeOK, Placed, Cached, Fetched, Channel
<1>5. promoting \in Sub \cup {NoRoom} /\ visits \in 0..MaxVisits
  BY DEF TypeOK
<1> HIDE DEF Rooms
<1>6. CASE UNCHANGED vars
  BY <1>1, <1>4, <1>5, <1>6 DEF vars, server, query, NoInput
<1>7. CASE Rest
  BY <1>6, <1>7 DEF Rest
<1>8. ASSUME NEW r \in Room, Snapshot(r)
      PROVE  TypeOK' /\ Placed'
  <2>1. [at |-> "answered", got |-> store[r]] \in Fetched
    BY <1>1 DEF Fetched
  <2> QED BY <1>1, <1>4, <1>5, <1>8, <2>1, FetchTyped DEF Snapshot, server, NoInput
<1>9. ASSUME NEW r \in Room, Fill(r)
      PROVE  TypeOK' /\ Placed'
  <2>1. fetch[r].got \subseteq Message
    BY <1>1 DEF Fetched
  <2>2. {Listed(m) : m \in fetch[r].got} \in SUBSET Entry
    BY <2>1, EntriesDiffer
  <2>3. cache' \in [Room -> Cached] /\ stale' \in [Room -> BOOLEAN]
    BY <1>9, <2>2, WriteIs DEF Fill
  <2>4. input' \in Input /\ NoInput'
    BY <1>1, <1>9, RendersIs DEF Fill
  <2>5. lost' \subseteq Room \X Message
    BY <1>1, <1>3, <1>9 DEF Fill
  <2> QED
    BY <1>1, <1>4, <1>5, <1>9, <2>3, <2>4, <2>5, FetchTyped, FetchIs DEF Fill, server
<1>10. ASSUME NEW r \in Room, FetchFails(r)
       PROVE  TypeOK' /\ Placed'
  <2>1. input' \in Input /\ NoInput'
    BY <1>1, <1>10, RendersIs DEF FetchFails
  <2> QED BY <1>1, <1>4, <1>5, <1>10, <2>1, FetchTyped, FetchIs DEF FetchFails, server
<1>11. ASSUME NEW r \in Room, Age(r)
       PROVE  TypeOK' /\ Placed'
  BY <1>1, <1>4, <1>5, <1>11 DEF Age, server, NoInput
<1>12. ASSUME NEW r \in Room \cup {NoRoom}, Visit(r)
       PROVE  TypeOK' /\ Placed'
  <2>1. input' \in Input /\ NoInput'
    BY <1>1, <1>12, RendersIs DEF Visit
  <2> DEFINE Follows(k) == IF input'.busy = k THEN [stream[k] EXCEPT !.target = r] ELSE stream[k]
  <2>2. \A k \in Ask : /\ Follows(k) \in Stream
                       /\ Follows(k).at = stream[k].at /\ Follows(k).room = stream[k].room
    <3>1. \A x \in Stream : /\ [x EXCEPT !.target = r] \in Stream
                            /\ [x EXCEPT !.target = r].at = x.at
                            /\ [x EXCEPT !.target = r].room = x.room
      BY DEF Stream
    <3> QED BY <1>1, <3>1
  <2>3. stream' = [k \in Ask |-> Follows(k)]
    BY <1>12, Zenon DEF Visit
  <2> HIDE DEF Follows
  <2>4. stream' \in [Ask -> Stream] /\ Rooms(stream')
    BY <1>1, <2>2, <2>3 DEF Rooms
  <2>5. /\ fetch' \in [Room -> Fetched] /\ UNCHANGED <<store, unsaid, cache, stale, channel, lost, astray>>
        /\ shown' = r /\ promoting' \in {promoting, NoRoom}
        /\ visits < MaxVisits /\ visits' = visits + 1
    BY <1>12, FetchTyped DEF Visit, server
  <2>6. visits' \in 0..MaxVisits
    BY <1>5, <2>5
  <2> QED BY <1>1, <1>4, <1>5, <2>1, <2>4, <2>5, <2>6
<1>13. CASE Connect
  <2>1. channel' \in Channel
    BY <1>1, <1>13 DEF Connect, Channel
  <2> QED BY <1>1, <1>4, <1>5, <1>13, <2>1 DEF Connect, server, query, NoInput
<1>14. CASE Disconnect
  <2>1. lost' \subseteq Room \X Message
    <3>1. channel.room \in Room /\ channel.sent \subseteq Message
      BY <1>1, <1>14 DEF Disconnect, Channel
    <3>2. lost' = lost \cup UNION {Missed(channel.room, m) : m \in channel.sent}
      BY <1>14 DEF Disconnect
    <3>3. \A m \in channel.sent : Missed(channel.room, m) \subseteq Room \X Message
      BY <3>1, MissedIs
    <3> QED BY <1>1, <3>2, <3>3
  <2>2. channel' \in Channel
    BY <1>14 DEF Disconnect, Closed, Channel
  <2> QED BY <1>1, <1>4, <1>5, <1>14, <2>1, <2>2 DEF Disconnect, server, query, NoInput
<1>15. CASE Promote \/ Promoted
  BY <1>1, <1>4, <1>5, <1>15 DEF Promote, Promoted, server, query, NoInput
<1>16. CASE SelectFiles \/ RemoveFiles
  <2>1. input' \in Input /\ NoInput'
    BY <1>1, <1>16, InputIs DEF SelectFiles, RemoveFiles, NoInput
  <2> QED BY <1>1, <1>4, <1>5, <1>16, <2>1 DEF SelectFiles, RemoveFiles, server, query
<1>17. ASSUME NEW m \in Message, HandleNewMessage(m)
       PROVE  TypeOK' /\ Placed'
  <2>1. PICK r \in Room : /\ r = channel.room /\ astray' = astray \cup Forgets(r)
                          /\ Write(r, IF m \in Known(cache[r].list) THEN cache[r].list
                                      ELSE cache[r].list \cup {Listed(m)})
    BY <1>1, <1>17 DEF HandleNewMessage, Channel
  <2>2. (IF m \in Known(cache[r].list) THEN cache[r].list
         ELSE cache[r].list \cup {Listed(m)}) \in SUBSET Entry
    BY <1>3, EntriesDiffer
  <2>3. cache' \in [Room -> Cached] /\ stale' \in [Room -> BOOLEAN]
    BY <2>1, <2>2, WriteIs
  <2>4. channel' \in Channel
    BY <1>1, <1>17 DEF HandleNewMessage, Channel
  <2>5. input' \in Input /\ NoInput'
    BY <1>1, <1>17, RendersIs DEF HandleNewMessage
  <2> QED
    BY <1>1, <1>2, <1>4, <1>5, <1>17, <2>1, <2>3, <2>4, <2>5 DEF HandleNewMessage, server
<1>18. ASSUME NEW r \in Room, NEW o \in Other, OtherSays(r, o)
       PROVE  TypeOK' /\ Placed'
  <2>1. [by |-> "other", of |-> o] \in Message
    BY DEF Message
  <2> QED BY <1>1, <1>4, <1>5, <1>18, <2>1, SaveIs DEF OtherSays, query, NoInput
\* The moves of a question's stream.
<1>19. ASSUME NEW k \in Ask, NEW a \in Phase, stream' = [stream EXCEPT ![k].at = a],
              stream[k].at # "none"
       PROVE  stream' \in [Ask -> Stream] /\ Rooms(stream')
  BY <1>1, <1>19, StreamMoves DEF Rooms
<1>20. ASSUME NEW k \in Ask, NEW a \in {"asked", "uploading"}, shown \in Room,
              stream' = [stream EXCEPT ![k] = [at |-> a, room |-> shown, target |-> shown]]
       PROVE  stream' \in [Ask -> Stream] /\ Rooms(stream')
  <2>1. [at |-> a, room |-> shown, target |-> shown] \in Stream
    BY <1>20 DEF Stream, Phase
  <2> QED BY <1>1, <1>20, <2>1 DEF Rooms
<1>21. ASSUME NEW k \in Ask, NEW r \in Room, Starts(k, r)
       PROVE  /\ cache' \in [Room -> Cached] /\ stale' \in [Room -> BOOLEAN]
              /\ astray' \subseteq Room /\ UNCHANGED <<fetch, shown>>
  <2>1. cache[r].list \cup {Temp(Question(k)), Temp(Answer(k))} \in SUBSET Entry
    BY <1>3, EntriesDiffer, MessagesDiffer
  <2>2. Write(r, cache[r].list \cup {Temp(Question(k)), Temp(Answer(k))})
    BY <1>21 DEF Starts
  <2>3. cache' \in [Room -> Cached] /\ stale' \in [Room -> BOOLEAN]
    BY <2>1, <2>2, WriteIs
  <2> QED BY <1>1, <1>2, <1>21, <2>3 DEF Starts
<1>22. ASSUME NEW k \in Ask, Submit(k)
       PROVE  TypeOK' /\ Placed'
  <2>1. shown \in Room
    BY <1>1, <1>22 DEF Submit, Free, NoInput
  <2>2. input' \in Input /\ NoInput'
    BY <1>1, <1>22, InputIs, RendersIs DEF Submit
  <2>3. /\ Starts(k, shown) /\ UNCHANGED <<store, unsaid, channel, promoting, visits, lost>>
        /\ stream' = [stream EXCEPT ![k] = [at |-> "asked", room |-> shown, target |-> shown]]
    BY <1>22 DEF Submit, server
  <2> QED BY <1>1, <1>4, <1>5, <1>20, <1>21, <2>1, <2>2, <2>3
<1>23. ASSUME NEW k \in Ask, SubmitFiles(k)
       PROVE  TypeOK' /\ Placed'
  <2>1. shown \in Room
    BY <1>1, <1>23 DEF SubmitFiles, Free, NoInput
  <2>2. input' \in Input /\ NoInput'
    BY <1>1, <1>23, InputIs DEF SubmitFiles, NoInput
  <2>3. /\ UNCHANGED <<store, unsaid, cache, stale, fetch, shown, channel, promoting, visits, lost, astray>>
        /\ stream' = [stream EXCEPT ![k] = [at |-> "uploading", room |-> shown, target |-> shown]]
    BY <1>23 DEF SubmitFiles, server, query
  <2> QED BY <1>1, <1>4, <1>5, <1>20, <2>1, <2>2, <2>3
<1>24. ASSUME NEW k \in Ask, Delta(k)
       PROVE  TypeOK' /\ Placed'
  <2>1. stream[k].room \in Room
    BY <1>1, <1>24 DEF Delta, Rooms
  <2>2. /\ Write(stream[k].room, cache[stream[k].room].list)
        /\ astray' = astray \cup Forgets(stream[k].room)
    BY <1>24 DEF Delta
  <2>3. cache' \in [Room -> Cached] /\ stale' \in [Room -> BOOLEAN]
    BY <1>3, <2>1, <2>2, WriteIs
  <2> QED BY <1>1, <1>2, <1>4, <1>5, <1>24, <2>1, <2>2, <2>3 DEF Delta, server, NoInput
<1>25. ASSUME NEW k \in Ask, Uploaded(k)
       PROVE  TypeOK' /\ Placed'
  <2>1. /\ Starts(k, stream[k].room) /\ UNCHANGED <<store, unsaid, channel, promoting, visits, lost>>
        /\ stream' = [stream EXCEPT ![k].at = "asked"] /\ stream[k].at = "uploading"
    BY <1>25 DEF Uploaded, server
  <2>2. stream[k].room \in Room
    BY <1>1, <2>1 DEF Rooms
  <2>3. input' \in Input /\ NoInput'
    BY <1>1, <1>25, InputIs, RendersIs DEF Uploaded, ResetAttachments
  <2>4. stream' \in [Ask -> Stream] /\ Rooms(stream')
    BY <1>19, <2>1 DEF Phase
  <2> QED BY <1>1, <1>4, <1>5, <1>21, <2>1, <2>2, <2>3, <2>4
<1>26. ASSUME NEW k \in Ask, UploadFails(k)
       PROVE  TypeOK' /\ Placed'
  <2>1. input' \in Input /\ NoInput'
    BY <1>1, <1>26, InputIs DEF UploadFails, NoInput
  <2>2. stream' \in [Ask -> Stream] /\ Rooms(stream')
    BY <1>19, <1>26 DEF UploadFails, Phase
  <2> QED BY <1>1, <1>4, <1>5, <1>26, <2>1, <2>2 DEF UploadFails, server, query
<1>27. ASSUME NEW k \in Ask, SaveQuestion(k) \/ SaveAnswer(k)
       PROVE  TypeOK' /\ Placed'
  <2>1. stream' \in [Ask -> Stream] /\ Rooms(stream') /\ stream[k].room \in Room
    BY <1>1, <1>19, <1>27 DEF SaveQuestion, SaveAnswer, Phase, Rooms
  <2>2. PICK m \in Message : Save(stream[k].room, m)
    BY <1>27, MessagesDiffer DEF SaveQuestion, SaveAnswer
  <2>3. UNCHANGED <<cache, stale, fetch, shown, input, promoting, visits, astray>>
    BY <1>27 DEF SaveQuestion, SaveAnswer, query
  <2> QED BY <1>1, <1>4, <1>5, <2>1, <2>2, <2>3, SaveIs DEF NoInput
<1>28. ASSUME NEW k \in Ask, Settles(k), stream[k].at # "none"
       PROVE  /\ stream' \in [Ask -> Stream] /\ Rooms(stream')
              /\ input' \in Input /\ NoInput'
              /\ UNCHANGED <<store, unsaid, shown, channel, promoting, visits>>
  <2>1. input' \in Input /\ NoInput'
    BY <1>1, <1>28, InputIs, RendersIs DEF Settles
  <2> QED BY <1>19, <1>28, <2>1 DEF Settles, server, Phase
<1>29. ASSUME NEW k \in Ask, Breaks(k)
       PROVE  TypeOK' /\ Placed'
  <2>1. stream[k].room \in Room /\ stream[k].at # "none"
    BY <1>1, <1>29 DEF Breaks, Rooms
  <2>2. /\ stale' \in [Room -> BOOLEAN] /\ fetch' \in [Room -> Fetched] /\ astray' \subseteq Room
        /\ UNCHANGED <<cache, lost>>
    BY <1>1, <1>29, <2>1, FetchTyped DEF Breaks, Cached
  <2> QED BY <1>1, <1>4, <1>5, <1>28, <1>29, <2>1, <2>2 DEF Breaks
<1>30. ASSUME NEW k \in Ask, Done(k)
       PROVE  TypeOK' /\ Placed'
  <2>1. stream[k].room \in Room /\ stream[k].at # "none"
    BY <1>1, <1>30 DEF Done, Rooms
  <2>2. Named(cache[stream[k].room].list, Answer(k)) \in SUBSET Entry
    BY <1>3, <2>1, NamedTyped, MessagesDiffer
  <2>3. cache' \in [Room -> Cached]
    BY <1>1, <1>30, <2>1, <2>2 DEF Done, Named, List, Cached
  <2>4. /\ stale' \in [Room -> BOOLEAN] /\ fetch' \in [Room -> Fetched] /\ astray' \subseteq Room
        /\ lost' \subseteq lost
    BY <1>1, <1>30, <2>1, FetchTyped DEF Done, Cached
  <2> QED BY <1>1, <1>4, <1>5, <1>28, <1>30, <2>1, <2>3, <2>4 DEF Done
<1>31. ASSUME NEW r \in Room, NEW m \in Message, Announce(r, m)
       PROVE  TypeOK' /\ Placed'
  <2>1. /\ unsaid' \subseteq unsaid /\ channel' \in Channel /\ lost' \subseteq Room \X Message
        /\ UNCHANGED <<store, cache, stale, fetch, shown, stream, input, promoting, visits, astray>>
    BY <1>31, AnnounceIs
  <2>2. UNCHANGED <<NoInput, Rooms(stream)>>
    BY <2>1 DEF NoInput, Rooms
  <2> QED BY <1>1, <1>4, <1>5, <2>1, <2>2
<1> QED
  BY <1>6, <1>7, <1>8, <1>9, <1>10, <1>11, <1>12, <1>13, <1>14, <1>15, <1>16, <1>17, <1>18, <1>22,
     <1>23, <1>24, <1>25, <1>26, <1>27, <1>29, <1>30, <1>31 DEF Next, Serve

\* The types are right in every run, and so are the rooms of questions.
THEOREM TypeCorrect == Spec => []TypeOK
<1>1. Spec => [](TypeOK /\ Placed)
  <2>1. (TypeOK /\ Placed) /\ [Next]_vars => (TypeOK /\ Placed)'
    BY StepKeepsTyped
  <2> QED BY InitTyped, <2>1, PTL DEF Spec
<1> QED BY <1>1, PTL

-----------------------------------------------------------------------------
(* What a list lacks.                                                      *)

LEMMA InitAccounts == Init => Founded /\ Accounts
<1> SUFFICES ASSUME Init PROVE Founded /\ Accounts
  OBVIOUS
<1>1. \A r \in Room : store[r] = {} /\ ~cache[r].there /\ cache[r].list = {} /\ fetch[r].got = {}
  BY DEF Init, Nothing, NoFetch
<1>2. channel.room = NoRoom /\ unsaid = {} /\ \A k \in Ask : stream[k].at = "none"
  BY DEF Init, NoStream, Closed
<1> QED BY <1>1, <1>2, KnownAfter DEF Founded, Accounts, Begun

\* No request has more to bring than before, but the one that is answered.
LEMMA FetchLess ==
  ASSUME TypeOK
  PROVE  /\ \A r \in Room, q \in Room : [fetch EXCEPT ![r] = NoFetch][q].got \subseteq fetch[q].got
         /\ \A r, q \in Room : Observed(r)[q].got \subseteq fetch[q].got
         /\ \A r, q \in Room : Refetched(r)[q].got \subseteq fetch[q].got
BY FetchIs DEF TypeOK, Observed, Refetched

\* What a step leaves as it is, for these invariants: nobody starts or is
\* answered, nothing is saved.
Quiet ==
  /\ UNCHANGED <<store, unsaid>>
  /\ \A k \in Ask : stream'[k].room = stream[k].room
                      /\ (stream'[k].at = stream[k].at \/ stream'[k].at \notin Begun)

\* A step that leaves the lists alone and saves nothing.
LEMMA SameAccounts ==
  ASSUME Founded, Accounts, Quiet, cache' = cache, lost' = lost, channel' = channel,
         \A q \in Room : fetch'[q].got \subseteq fetch[q].got
  PROVE  Founded' /\ Accounts'
BY DEF Founded, Accounts, Quiet, Begun

\* A list is written anew, and misses nothing that it had.
LEMMA WriteAccounts ==
  ASSUME TypeOK, Placed, Founded, Accounts, UNCHANGED <<store, unsaid>>,
         NEW r \in Room, NEW entries,
         cache'[r].there, cache'[r].list = entries,
         \A q \in Room \ {r} : cache'[q] = cache[q],
         Known(cache[r].list) \subseteq Known(entries), Known(entries) \subseteq store[r],
         channel'.room = channel.room, channel'.sent \subseteq channel.sent,
         channel.room # r => channel' = channel,
         channel.sent \ channel'.sent \subseteq Known(entries),
         lost' \subseteq lost, lost \ lost' \subseteq {r} \X Known(entries),
         \A q \in Room : fetch'[q].got \subseteq fetch[q].got,
         \A k \in Ask : \/ stream'[k].at = stream[k].at /\ stream'[k].room = stream[k].room
                        \/ stream'[k].at = "asked" /\ stream'[k].room = r
                        \/ stream'[k].at \notin Begun
  PROVE  Founded' /\ Accounts'
<1>1. Founded'
  BY DEF Founded, Begun, Placed
<1>2. ASSUME NEW q \in Room
      PROVE  /\ Known(cache'[q].list) \subseteq store[q]
             /\ \A m \in store[q] : \/ m \in Known(cache'[q].list)
                                    \/ <<q, m>> \in unsaid
                                    \/ channel'.room = q /\ m \in channel'.sent
                                    \/ <<q, m>> \in lost'
  <2>1. CASE q = r
    BY <2>1 DEF Accounts
  <2>2. CASE q # r
    <3>1. \A m : <<q, m>> \in lost => <<q, m>> \in lost'
      BY <2>2
    <3> QED BY <2>2, <3>1 DEF Accounts
  <2> QED BY <2>1, <2>2
<1> QED BY <1>1, <1>2 DEF Accounts

\* A message is saved, and not yet published.
LEMMA SaveAccounts ==
  ASSUME TypeOK, Placed, Founded, Accounts, NEW r \in Room, NEW m \in Message, Save(r, m),
         cache' = cache, fetch' = fetch,
         \A k \in Ask : /\ stream'[k].room = stream[k].room
                        /\ \/ stream'[k].at = stream[k].at
                           \/ stream[k].at \in Begun /\ stream'[k].at = "open"
                           \/ stream[k].at \in Begun /\ m = Answer(k) /\ stream[k].room = r
  PROVE  Founded' /\ Accounts'
<1>1. /\ store'[r] = store[r] \cup {m}
      /\ \A q \in Room \ {r} : store'[q] = store[q]
      /\ unsaid' = unsaid \cup {<<r, m>>}
      /\ UNCHANGED <<channel, lost>>
      /\ channel.room \in Room \cup {NoRoom}
  BY SaveIs DEF TypeOK
<1>2. Founded'
  BY <1>1 DEF Founded, Begun, Placed
<1>3. Accounts'
  BY <1>1 DEF Accounts
<1> QED BY <1>2, <1>3

\* It is published, or never will be.
LEMMA AnnounceAccounts ==
  ASSUME TypeOK, Founded, Accounts, NEW r \in Room, NEW m \in Message, Announce(r, m)
  PROVE  Founded' /\ Accounts'
<1>1. /\ <<r, m>> \in unsaid /\ unsaid' = unsaid \ {<<r, m>>}
      /\ channel'.room = channel.room
      /\ channel.sent \subseteq channel'.sent /\ lost \subseteq lost'
      /\ channel'.sent \subseteq channel.sent \cup (IF channel.room = r THEN {m} ELSE {})
      /\ \/ m \in Known(cache[r].list)
         \/ channel.room = r /\ m \in channel'.sent
         \/ <<r, m>> \in lost'
      /\ UNCHANGED <<store, cache, fetch, stream>>
  BY AnnounceIs
<1>2. Founded'
  BY <1>1 DEF Founded
<1>3. ASSUME NEW q \in Room, NEW n \in store[q]
      PROVE  \/ n \in Known(cache[q].list) \/ <<q, n>> \in unsaid'
             \/ channel'.room = q /\ n \in channel'.sent
             \/ <<q, n>> \in lost'
  <2>1. CASE <<q, n>> = <<r, m>>
    BY <1>1, <2>1
  <2>2. CASE <<q, n>> # <<r, m>>
    BY <1>1, <2>2 DEF Accounts
  <2> QED BY <2>1, <2>2
<1>4. Accounts'
  BY <1>1, <1>3 DEF Accounts
<1> QED BY <1>2, <1>4

LEMMA StepKeepsAccounts ==
  TypeOK /\ Placed /\ Founded /\ Accounts /\ [Next]_vars => Founded' /\ Accounts'
<1> SUFFICES ASSUME TypeOK, Placed, Founded, Accounts, [Next]_vars
             PROVE  Founded' /\ Accounts'
  OBVIOUS
<1>1. CASE UNCHANGED <<store, unsaid, cache, fetch, channel, stream, lost>>
  BY <1>1, SameAccounts DEF Quiet
<1>2. CASE Rest \/ Promote \/ Promoted \/ SelectFiles \/ RemoveFiles \/ UNCHANGED vars
  BY <1>1, <1>2 DEF Rest, Promote, Promoted, SelectFiles, RemoveFiles, vars, server, query
<1>3. ASSUME NEW r \in Room, Age(r)
      PROVE  Founded' /\ Accounts'
  BY <1>1, <1>3 DEF Age, server
<1>4. ASSUME NEW r \in Room, Snapshot(r)
      PROVE  Founded' /\ Accounts'
  <2>1. \A q \in Room : fetch'[q].got \subseteq store[q]
    BY <1>4 DEF Snapshot, Founded, TypeOK
  <2>2. UNCHANGED <<store, unsaid, cache, channel, stream, lost>>
    BY <1>4 DEF Snapshot, server
  <2>3. Founded'
    BY <2>1, <2>2 DEF Founded
  <2>4. Accounts'
    BY <2>2 DEF Accounts
  <2> QED BY <2>3, <2>4
\* An answer replaces the list: what it has not is overwritten.
<1>5. ASSUME NEW r \in Room, Fill(r)
      PROVE  Founded' /\ Accounts'
  <2> DEFINE got == fetch[r].got
  <2>1. /\ UNCHANGED <<store, unsaid, channel, stream>>
        /\ fetch' = [fetch EXCEPT ![r] = NoFetch]
        /\ Write(r, {Listed(m) : m \in got})
        /\ lost' = {l \in lost : ~(l[1] = r /\ l[2] \in got)}
                     \cup {<<r, m>> : m \in Known(cache[r].list) \ got}
    BY <1>5 DEF Fill, server
  <2>2. got \subseteq store[r] /\ got \subseteq Message
    BY DEF Founded, TypeOK
  <2>3. {Listed(m) : m \in got} \in SUBSET Entry
    BY <2>2, EntriesDiffer
  <2>4. /\ cache'[r].there /\ cache'[r].list = {Listed(m) : m \in got}
        /\ \A q \in Room \ {r} : cache'[q] = cache[q]
    BY <2>1, <2>3, WriteIs
  <2>5. Known(cache'[r].list) = got
    BY <2>4, KnownAfter
  <2>6. Founded'
    BY <2>1, <2>4, FetchLess DEF Founded, Placed, Begun
  <2>7. \A m \in store[r] : \/ m \in got \/ <<r, m>> \in unsaid
                            \/ channel.room = r /\ m \in channel.sent
                            \/ <<r, m>> \in lost'
    BY <2>1 DEF Accounts
  <2>8. \A m : \A q \in Room \ {r} : <<q, m>> \in lost => <<q, m>> \in lost'
    BY <2>1
  <2> HIDE DEF got
  <2>9. Accounts'
    BY <2>1, <2>2, <2>4, <2>5, <2>7, <2>8 DEF Accounts
  <2> QED BY <2>6, <2>9
<1>6. ASSUME NEW r \in Room, FetchFails(r)
      PROVE  Founded' /\ Accounts'
  BY <1>6, FetchLess, SameAccounts DEF FetchFails, server, Quiet
<1>7. ASSUME NEW r \in Room \cup {NoRoom}, Visit(r)
      PROVE  Founded' /\ Accounts'
  <2>1. \A k \in Ask : stream'[k].at = stream[k].at /\ stream'[k].room = stream[k].room
    <3>1. \A x \in Stream : /\ [x EXCEPT !.target = r].at = x.at
                            /\ [x EXCEPT !.target = r].room = x.room
      BY DEF Stream
    <3>2. \A k \in Ask : stream'[k] = stream[k] \/ stream'[k] = [stream[k] EXCEPT !.target = r]
      BY <1>7 DEF Visit
    <3> QED BY <3>1, <3>2 DEF TypeOK
  <2>2. \A q \in Room : fetch'[q].got \subseteq fetch[q].got
    BY <1>7, FetchLess DEF Visit, Observed, TypeOK
  <2>3. UNCHANGED <<store, unsaid, cache, channel, lost>>
    BY <1>7 DEF Visit, server
  <2> QED BY <2>1, <2>2, <2>3, SameAccounts DEF Quiet
<1>8. CASE Connect
  <2>1. /\ UNCHANGED <<store, unsaid, cache, fetch, stream, lost>>
        /\ channel.room = NoRoom /\ channel'.room = shown /\ channel'.sent = {}
    BY <1>8 DEF Connect, server, query
  <2>2. Founded'
    BY <2>1 DEF Founded
  <2>3. Accounts'
    BY <2>1, RoomMessagesAssumption DEF Accounts
  <2> QED BY <2>2, <2>3
\* What was on its way is lost, unless it is in the list.
<1>9. CASE Disconnect
  <2>1. /\ UNCHANGED <<store, unsaid, cache, fetch, stream>>
        /\ channel.room # NoRoom /\ channel'.room = NoRoom
        /\ lost' = lost \cup UNION {Missed(channel.room, m) : m \in channel.sent}
    BY <1>9 DEF Disconnect, Closed, server, query
  <2>2. Founded'
    BY <2>1 DEF Founded
  <2>3. channel.room \in Room /\ channel.sent \subseteq Message
    BY <2>1 DEF TypeOK
  <2>4. \A m \in channel.sent : m \in Known(cache[channel.room].list) \/ <<channel.room, m>> \in lost'
    BY <2>1, <2>3, MissedIs
  <2>5. Accounts'
    BY <2>1, <2>4 DEF Accounts
  <2> QED BY <2>2, <2>5
<1>10. ASSUME NEW m \in Message, HandleNewMessage(m)
       PROVE  Founded' /\ Accounts'
  <2> DEFINE r == channel.room
             entries == IF m \in Known(cache[r].list) THEN cache[r].list
                        ELSE cache[r].list \cup {Listed(m)}
  <2>1. /\ r \in Room /\ m \in channel.sent /\ Write(r, entries)
        /\ UNCHANGED <<store, unsaid, fetch, stream, lost>>
    BY <1>10 DEF HandleNewMessage, server, TypeOK
  <2>2. channel'.room = r /\ channel'.sent = channel.sent \ {m}
    BY <1>10 DEF HandleNewMessage, TypeOK
  <2>3. entries \in SUBSET Entry
    BY <2>1, EntriesDiffer DEF TypeOK
  <2>4. Known(entries) = Known(cache[r].list) \cup {m}
    BY KnownAfter
  <2>5. m \in store[r]
    BY <2>1, RoomMessagesAssumption DEF Founded
  <2> HIDE DEF entries
  <2>6. /\ cache'[r].there /\ cache'[r].list = entries
        /\ \A q \in Room \ {r} : cache'[q] = cache[q]
    BY <2>1, <2>3, WriteIs
  <2>7. Known(cache[r].list) \subseteq store[r]
    BY <2>1 DEF Accounts
  <2> QED BY <2>1, <2>2, <2>4, <2>5, <2>6, <2>7, WriteAccounts
<1>11. ASSUME NEW r \in Room, NEW o \in Other, OtherSays(r, o)
       PROVE  Founded' /\ Accounts'
  <2>1. [by |-> "other", of |-> o] \in Message
    BY DEF Message
  <2> QED BY <1>11, <2>1, SaveAccounts DEF OtherSays, query
\* A question is put: its stand-ins are not known.
<1>12. ASSUME NEW k \in Ask, NEW r \in Room, Starts(k, r),
              UNCHANGED <<store, unsaid, channel, lost>>,
              stream'[k].at = "asked", stream'[k].room = r,
              \A j \in Ask : j # k => stream'[j] = stream[j]
       PROVE  Founded' /\ Accounts'
  <2> DEFINE entries == cache[r].list \cup {Temp(Question(k)), Temp(Answer(k))}
  <2>1. entries \in SUBSET Entry
    BY EntriesDiffer, MessagesDiffer DEF TypeOK
  <2>2. Known(entries) = Known(cache[r].list)
    BY KnownAfter
  <2>3. Write(r, entries) /\ fetch' = fetch
    BY <1>12 DEF Starts
  <2> HIDE DEF entries
  <2>4. /\ cache'[r].there /\ cache'[r].list = entries
        /\ \A q \in Room \ {r} : cache'[q] = cache[q]
    BY <2>1, <2>3, WriteIs
  <2>5. Known(cache[r].list) \subseteq store[r]
    BY DEF Accounts
  <2> QED BY <1>12, <2>2, <2>3, <2>4, <2>5, WriteAccounts
<1>13. ASSUME NEW k \in Ask, Submit(k)
       PROVE  Founded' /\ Accounts'
  <2>1. shown \in Room
    BY <1>13 DEF Submit, Free, Placed, NoInput, TypeOK
  <2>2. /\ Starts(k, shown) /\ UNCHANGED <<store, unsaid, channel, lost>>
        /\ stream' = [stream EXCEPT ![k] = [at |-> "asked", room |-> shown, target |-> shown]]
    BY <1>13 DEF Submit, server
  <2>3. /\ stream'[k].at = "asked" /\ stream'[k].room = shown
        /\ \A j \in Ask : j # k => stream'[j] = stream[j]
    BY <2>2 DEF TypeOK
  <2> QED BY <1>12, <2>1, <2>2, <2>3
<1>14. ASSUME NEW k \in Ask, SubmitFiles(k)
       PROVE  Founded' /\ Accounts'
  <2>1. /\ UNCHANGED <<store, unsaid, cache, fetch, channel, lost>>
        /\ stream' = [stream EXCEPT ![k] = [at |-> "uploading", room |-> shown, target |-> shown]]
    BY <1>14 DEF SubmitFiles, server, query
  <2>2. /\ stream'[k].at = "uploading" /\ \A j \in Ask : j # k => stream'[j] = stream[j]
    BY <2>1 DEF TypeOK
  <2>3. Founded'
    BY <2>1, <2>2 DEF Founded, Begun
  <2>4. Accounts'
    BY <2>1 DEF Accounts
  <2> QED BY <2>3, <2>4
<1>15. ASSUME NEW k \in Ask, Uploaded(k)
       PROVE  Founded' /\ Accounts'
  <2>1. /\ Starts(k, stream[k].room) /\ UNCHANGED <<store, unsaid, channel, lost>>
        /\ stream' = [stream EXCEPT ![k].at = "asked"] /\ stream[k].at = "uploading"
    BY <1>15 DEF Uploaded, server
  <2>2. stream[k].room \in Room
    BY <2>1 DEF Placed
  <2>3. /\ stream'[k].at = "asked" /\ stream'[k].room = stream[k].room
        /\ \A j \in Ask : j # k => stream'[j] = stream[j]
    BY <2>1, StreamMoves DEF Phase
  <2> QED BY <1>12, <2>1, <2>2, <2>3
<1>16. ASSUME NEW k \in Ask, UploadFails(k)
       PROVE  Founded' /\ Accounts'
  <2>1. /\ UNCHANGED <<store, unsaid, cache, fetch, channel, lost>>
        /\ stream' = [stream EXCEPT ![k].at = "settled"]
    BY <1>16 DEF UploadFails, server, query
  <2> QED BY <2>1, StreamMoves, SameAccounts DEF Phase, Begun, Quiet
<1>17. ASSUME NEW k \in Ask, SaveQuestion(k)
       PROVE  Founded' /\ Accounts'
  <2>1. /\ Save(stream[k].room, Question(k)) /\ UNCHANGED <<cache, fetch>>
        /\ stream' = [stream EXCEPT ![k].at = "open"] /\ stream[k].at = "asked"
    BY <1>17 DEF SaveQuestion, query
  <2>2. stream[k].room \in Room
    BY <2>1 DEF Placed
  <2>3. /\ stream'[k].at = "open" /\ stream'[k].room = stream[k].room
        /\ \A j \in Ask : j # k => stream'[j] = stream[j]
    BY <2>1, StreamMoves DEF Phase
  <2> QED BY <2>1, <2>2, <2>3, MessagesDiffer, SaveAccounts DEF Begun
<1>18. ASSUME NEW k \in Ask, SaveAnswer(k)
       PROVE  Founded' /\ Accounts'
  <2>1. /\ Save(stream[k].room, Answer(k)) /\ UNCHANGED <<cache, fetch>>
        /\ stream' = [stream EXCEPT ![k].at = "answered"] /\ stream[k].at = "open"
    BY <1>18 DEF SaveAnswer, query
  <2>2. stream[k].room \in Room
    BY <2>1 DEF Placed
  <2>3. /\ stream'[k].at = "answered" /\ stream'[k].room = stream[k].room
        /\ \A j \in Ask : j # k => stream'[j] = stream[j]
    BY <2>1, StreamMoves DEF Phase
  <2>4. Answer(k) \in Message /\ stream[k].at \in Begun
    BY <2>1, MessagesDiffer DEF Begun
  <2>5. \A j \in Ask : /\ stream'[j].room = stream[j].room
                       /\ \/ stream'[j].at = stream[j].at
                          \/ stream[j].at \in Begun /\ Answer(k) = Answer(j) /\ stream[j].room = stream[k].room
    BY <2>3, <2>4
  <2> QED BY <2>1, <2>2, <2>4, <2>5, SaveAccounts
<1>19. ASSUME NEW k \in Ask, Delta(k)
       PROVE  Founded' /\ Accounts'
  <2> DEFINE r == stream[k].room
  <2>1. /\ r \in Room /\ Write(r, cache[r].list)
        /\ UNCHANGED <<store, unsaid, fetch, channel, stream, lost>>
    BY <1>19 DEF Delta, server, Placed
  <2>2. cache[r].list \in SUBSET Entry /\ Known(cache[r].list) \subseteq store[r]
    BY <2>1 DEF TypeOK, Accounts
  <2>3. /\ cache'[r].there /\ cache'[r].list = cache[r].list
        /\ \A q \in Room \ {r} : cache'[q] = cache[q]
    BY <2>1, <2>2, WriteIs
  <2> QED BY <2>1, <2>2, <2>3, WriteAccounts
<1>20. ASSUME NEW k \in Ask, Breaks(k)
       PROVE  Founded' /\ Accounts'
  <2>1. /\ UNCHANGED <<store, unsaid, cache, channel, lost>>
        /\ fetch' = Refetched(stream[k].target)
        /\ stream' = [stream EXCEPT ![k].at = "settled"]
    BY <1>20 DEF Breaks, Settles, server
  <2>2. \A q \in Room : fetch'[q].got \subseteq fetch[q].got
    BY <2>1, FetchIs DEF Refetched, TypeOK
  <2> QED BY <2>1, <2>2, StreamMoves, SameAccounts DEF Phase, Begun, Quiet
\* The answer that is named is known from now on, and has been saved.
<1>21. ASSUME NEW k \in Ask, Done(k)
       PROVE  Founded' /\ Accounts'
  <2> DEFINE r == stream[k].room
             named == Named(cache[r].list, Answer(k))
  <2>1. /\ UNCHANGED <<store, unsaid, channel>> /\ stream[k].at = "answered"
        /\ fetch' = Refetched(stream[k].target)
        /\ cache' = [cache EXCEPT ![r] = List(named)]
        /\ lost' = lost \ {<<r, m>> : m \in Known(named)}
        /\ stream' = [stream EXCEPT ![k].at = "settled"]
    BY <1>21 DEF Done, Settles, server, Named
  <2>2. r \in Room /\ Answer(k) \in store[r]
    BY <2>1 DEF Placed, Founded
  <2>3. \A q \in Room : fetch'[q].got \subseteq fetch[q].got
    BY <2>1, FetchIs DEF Refetched, TypeOK
  <2>4. /\ cache'[r].there /\ cache'[r].list = named
        /\ \A q \in Room \ {r} : cache'[q] = cache[q]
    BY <2>1, <2>2 DEF List, TypeOK
  <2>5. Known(cache[r].list) \subseteq Known(named) /\ Known(named) \subseteq store[r]
    BY <2>2, KnownAfter DEF Accounts
  <2>6. \A j \in Ask : stream'[j] = stream[j] \/ stream'[j].at \notin Begun
    BY <2>1, StreamMoves DEF Phase, Begun
  <2> HIDE DEF named
  <2>7. lost' \subseteq lost /\ lost \ lost' \subseteq {r} \X Known(named)
    BY <2>1
  <2> QED BY <2>1, <2>2, <2>3, <2>4, <2>5, <2>6, <2>7, WriteAccounts
<1>22. ASSUME NEW r \in Room, NEW m \in Message, Announce(r, m)
       PROVE  Founded' /\ Accounts'
  BY <1>22, AnnounceAccounts
<1> QED
  BY <1>2, <1>3, <1>4, <1>5, <1>6, <1>7, <1>8, <1>9, <1>10, <1>11, <1>13, <1>14, <1>15, <1>16,
     <1>17, <1>18, <1>19, <1>20, <1>21, <1>22 DEF Next, Serve

-----------------------------------------------------------------------------
(* What a list keeps too long.                                             *)

\* Doubled, of a list.
StandIns(list, k) == {Temp(Question(k)), Temp(Answer(k))} \cap list # {}
Doubles(list, k) == StandIns(list, k) \/ {Final(Answer(k)), Listed(Answer(k))} \subseteq list

LEMMA DoubledIs ==
  /\ \A r, k : Doubled(r, k) <=> Doubles(cache[r].list, k)
  /\ \A r, k : Doubled(r, k)' <=> Doubles(cache'[r].list, k)
BY DEF Doubled, Doubles, StandIns, Displayed

\* What is doubled is the list's own.
LEMMA DoublesKnown ==
  ASSUME NEW list, NEW k, Doubles(list, k)
  PROVE  StandIns(list, k) \/ Answer(k) \in Known(list)
<1>1. Listed(Answer(k)).as # "temp" /\ Listed(Answer(k)).m = Answer(k)
  BY DEF Listed
<1> QED BY <1>1, KnownIs DEF Doubles

\* What is doubled after each of the ways in which a list is written.
LEMMA DoublesAfter ==
  /\ \A k, S : ~Doubles({Listed(m) : m \in S}, k) /\ ~StandIns({Listed(m) : m \in S}, k)
  /\ \A list, m, k :
       /\ StandIns(list \cup {Listed(m)}, k) <=> StandIns(list, k)
       /\ m \notin Known(list) /\ Doubles(list \cup {Listed(m)}, k) => Doubles(list, k)
  /\ \A list, j, k :
       LET added == list \cup {Temp(Question(j)), Temp(Answer(j))}
       IN  j # k => /\ StandIns(added, k) <=> StandIns(list, k)
                    /\ Doubles(added, k) => Doubles(list, k)
  /\ \A list, j, k :
       /\ StandIns(Named(list, Answer(j)), k) => StandIns(list, k)
       /\ j # k /\ Doubles(Named(list, Answer(j)), k) => Doubles(list, k)
<1>1. \A k, S : ~Doubles({Listed(m) : m \in S}, k) /\ ~StandIns({Listed(m) : m \in S}, k)
  BY EntriesDiffer DEF Doubles, StandIns
<1>2. ASSUME NEW list, NEW m, NEW k
      PROVE  /\ StandIns(list \cup {Listed(m)}, k) <=> StandIns(list, k)
             /\ m \notin Known(list) /\ Doubles(list \cup {Listed(m)}, k) => Doubles(list, k)
  <2>1. Final(Answer(k)) \in list => Answer(k) \in Known(list)
    <3>1. Final(Answer(k)).as # "temp" /\ Final(Answer(k)).m = Answer(k)
      BY DEF Final
    <3> QED BY <3>1, KnownIs
  <2> QED BY <2>1, EntriesDiffer DEF Doubles, StandIns
<1>3. ASSUME NEW list, NEW j, NEW k, j # k
      PROVE  LET added == list \cup {Temp(Question(j)), Temp(Answer(j))}
             IN  /\ StandIns(added, k) <=> StandIns(list, k)
                 /\ Doubles(added, k) => Doubles(list, k)
  BY <1>3, EntriesDiffer, MessagesDiffer DEF Doubles, StandIns
<1>4. ASSUME NEW list, NEW j, NEW k
      PROVE  /\ StandIns(Named(list, Answer(j)), k) => StandIns(list, k)
             /\ j # k /\ Doubles(Named(list, Answer(j)), k) => Doubles(list, k)
  <2>1. \A e \in Named(list, Answer(j)) : e \in list \/ e = Final(Answer(j))
    BY DEF Named
  <2> QED BY <2>1, EntriesDiffer, MessagesDiffer DEF Doubles, StandIns
<1> QED BY <1>1, <1>2, <1>3, <1>4

LEMMA AtHomeIs ==
  /\ AtHome <=> \A k \in Ask, r \in Room :
                  StandIns(cache[r].list, k) \/ Answer(k) \in store[r] => Ours(k, r)
  /\ AtHome' <=> \A k \in Ask, r \in Room :
                  StandIns(cache'[r].list, k) \/ Answer(k) \in store'[r] => Ours(k, r)'
BY DEF AtHome, StandIns

LEMMA InitTidy == Init => AtHome /\ Tidy
<1> SUFFICES ASSUME Init PROVE AtHome /\ Tidy
  OBVIOUS
<1>1. \A r \in Room : store[r] = {} /\ cache[r].list = {}
  BY DEF Init, Nothing
<1>2. \A k \in Ask : stream[k].at = "none"
  BY DEF Init, NoStream
<1> QED BY <1>1, <1>2 DEF AtHome, Tidy, Settled

\* A step that puts no stand-in into a list, and saves no answer, but for a
\* question that is put, or was, in that room.
LEMMA KeepsAtHome ==
  ASSUME AtHome,
         \A k \in Ask, r \in Room : StandIns(cache'[r].list, k) => StandIns(cache[r].list, k) \/ Ours(k, r)',
         \A k \in Ask, r \in Room : Answer(k) \in store'[r] => Answer(k) \in store[r] \/ Ours(k, r)',
         \A k \in Ask, r \in Room : Ours(k, r) => Ours(k, r)'
  PROVE  AtHome'
BY AtHomeIs

\* A step after which what is doubled was so before, and has its excuse still,
\* or has an excuse of its own.
LEMMA KeepsTidy ==
  ASSUME Tidy,
         \A r \in Room, k \in Ask :
           Settled(k)' /\ Doubles(cache'[r].list, k) =>
             \/ stale'[r] \/ r \in astray'
             \/ /\ Settled(k) /\ Doubles(cache[r].list, k)
                /\ stale[r] \/ r \in astray => stale'[r] \/ r \in astray'
  PROVE  Tidy'
BY DoubledIs DEF Tidy

LEMMA StepKeepsAtHome ==
  TypeOK /\ Placed /\ AtHome /\ [Next]_vars => AtHome'
<1> SUFFICES ASSUME TypeOK, Placed, AtHome, [Next]_vars PROVE AtHome'
  OBVIOUS
<1>1. CASE UNCHANGED <<store, cache>> /\ \A k \in Ask, r \in Room : Ours(k, r) => Ours(k, r)'
  BY <1>1, KeepsAtHome
<1>2. CASE UNCHANGED <<store, cache, stream>>
  BY <1>1, <1>2 DEF Ours
<1>3. CASE Rest \/ Promote \/ Promoted \/ SelectFiles \/ RemoveFiles \/ Connect \/ Disconnect \/ UNCHANGED vars
  BY <1>2, <1>3
     DEF Rest, Promote, Promoted, SelectFiles, RemoveFiles, Connect, Disconnect, vars, server, query
<1>4. ASSUME NEW r \in Room, Age(r) \/ Snapshot(r) \/ FetchFails(r)
      PROVE  AtHome'
  BY <1>2, <1>4 DEF Age, Snapshot, FetchFails, server
\* A list is written that has no new stand-in.
<1>5. ASSUME NEW r \in Room, NEW entries \in SUBSET Entry, Write(r, entries), UNCHANGED <<store, stream>>,
             \A k : StandIns(entries, k) => StandIns(cache[r].list, k)
      PROVE  AtHome'
  <2>1. /\ cache'[r].list = entries
        /\ \A q \in Room \ {r} : cache'[q] = cache[q]
    BY <1>5, WriteIs
  <2> QED BY <1>5, <2>1, KeepsAtHome DEF Ours
<1>6. ASSUME NEW r \in Room, Fill(r)
      PROVE  AtHome'
  <2>1. {Listed(m) : m \in fetch[r].got} \in SUBSET Entry
    BY EntriesDiffer DEF TypeOK
  <2>2. Write(r, {Listed(m) : m \in fetch[r].got}) /\ UNCHANGED <<store, stream>>
    BY <1>6 DEF Fill, server
  <2> QED BY <1>5, <2>1, <2>2, DoublesAfter
<1>7. ASSUME NEW r \in Room \cup {NoRoom}, Visit(r)
      PROVE  AtHome'
  <2>1. \A k \in Ask : stream'[k].at = stream[k].at /\ stream'[k].room = stream[k].room
    <3>1. \A x \in Stream : /\ [x EXCEPT !.target = r].at = x.at
                            /\ [x EXCEPT !.target = r].room = x.room
      BY DEF Stream
    <3>2. \A k \in Ask : stream'[k] = stream[k] \/ stream'[k] = [stream[k] EXCEPT !.target = r]
      BY <1>7 DEF Visit
    <3> QED BY <3>1, <3>2 DEF TypeOK
  <2>2. UNCHANGED <<store, cache>>
    BY <1>7 DEF Visit, server
  <2> QED BY <1>1, <2>1, <2>2 DEF Ours
<1>8. ASSUME NEW m \in Message, HandleNewMessage(m)
      PROVE  AtHome'
  <2> DEFINE r == channel.room
             entries == IF m \in Known(cache[r].list) THEN cache[r].list
                        ELSE cache[r].list \cup {Listed(m)}
  <2>1. r \in Room /\ Write(r, entries) /\ UNCHANGED <<store, stream>>
    BY <1>8 DEF HandleNewMessage, server, TypeOK
  <2>2. entries \in SUBSET Entry
    BY <2>1, EntriesDiffer DEF TypeOK
  <2>3. \A k : StandIns(entries, k) => StandIns(cache[r].list, k)
    BY DoublesAfter
  <2> QED BY <1>5, <2>1, <2>2, <2>3
<1>9. ASSUME NEW r \in Room, NEW m \in Message, Save(r, m), cache' = cache,
             \A k \in Ask : m = Answer(k) => Ours(k, r),
             \A k \in Ask, q \in Room : Ours(k, q) => Ours(k, q)'
      PROVE  AtHome'
  <2>1. store'[r] = store[r] \cup {m} /\ \A q \in Room \ {r} : store'[q] = store[q]
    BY <1>9, SaveIs
  <2> QED BY <1>9, <2>1, KeepsAtHome
<1>10. ASSUME NEW r \in Room, NEW o \in Other, OtherSays(r, o)
       PROVE  AtHome'
  <2>1. /\ [by |-> "other", of |-> o] \in Message
        /\ \A k : [by |-> "other", of |-> o] # Answer(k)
    BY DEF Message, Answer
  <2>2. Save(r, [by |-> "other", of |-> o]) /\ UNCHANGED <<cache, stream>>
    BY <1>10 DEF OtherSays, query
  <2> QED BY <1>9, <2>1, <2>2 DEF Ours
\* Nothing of a question is anywhere before it is put.
<1>11. ASSUME NEW k \in Ask, NEW r \in Room, stream[k].at \in {"none", "uploading"}, Starts(k, r), store' = store,
              stream'[k].at = "asked", stream'[k].room = r,
              \A j \in Ask : j # k => stream'[j] = stream[j]
       PROVE  AtHome'
  <2> DEFINE entries == cache[r].list \cup {Temp(Question(k)), Temp(Answer(k))}
  <2>1. entries \in SUBSET Entry
    BY EntriesDiffer, MessagesDiffer DEF TypeOK
  <2>2. Write(r, entries)
    BY <1>11 DEF Starts
  <2>3. /\ cache'[r].list = entries
        /\ \A q \in Room \ {r} : cache'[q] = cache[q]
    BY <2>1, <2>2, WriteIs
  <2>4. \A j \in Ask : j # k => (StandIns(entries, j) <=> StandIns(cache[r].list, j))
    BY DoublesAfter
  <2>5. \A q \in Room : ~Ours(k, q) /\ (Ours(k, q)' <=> q = r)
    BY <1>11 DEF Ours, Begun
  <2>6. \A j \in Ask, q \in Room : j # k => (Ours(j, q) => Ours(j, q)')
    BY <1>11 DEF Ours
  <2> HIDE DEF entries
  <2>7. \A q \in Room : StandIns(cache'[q].list, k) => StandIns(cache[q].list, k) \/ Ours(k, q)'
    BY <2>3, <2>5
  <2>8. \A j \in Ask, q \in Room : j # k /\ StandIns(cache'[q].list, j) => StandIns(cache[q].list, j)
    BY <2>3, <2>4
  <2> QED BY <1>11, <2>5, <2>6, <2>7, <2>8, KeepsAtHome
<1>12. ASSUME NEW k \in Ask, Submit(k)
       PROVE  AtHome'
  <2>1. shown \in Room
    BY <1>12 DEF Submit, Free, Placed, NoInput, TypeOK
  <2>2. /\ Starts(k, shown) /\ store' = store /\ stream[k].at = "none"
        /\ stream' = [stream EXCEPT ![k] = [at |-> "asked", room |-> shown, target |-> shown]]
    BY <1>12 DEF Submit, server
  <2>3. /\ stream'[k].at = "asked" /\ stream'[k].room = shown
        /\ \A j \in Ask : j # k => stream'[j] = stream[j]
    BY <2>2 DEF TypeOK
  <2> QED BY <1>11, <2>1, <2>2, <2>3
<1>13. ASSUME NEW k \in Ask, SubmitFiles(k)
       PROVE  AtHome'
  <2>1. /\ UNCHANGED <<store, cache>> /\ stream[k].at = "none"
        /\ stream' = [stream EXCEPT ![k] = [at |-> "uploading", room |-> shown, target |-> shown]]
    BY <1>13 DEF SubmitFiles, server, query
  <2> QED BY <1>1, <2>1 DEF TypeOK, Ours, Begun
<1>14. ASSUME NEW k \in Ask, Uploaded(k)
       PROVE  AtHome'
  <2>1. /\ Starts(k, stream[k].room) /\ store' = store /\ stream[k].at = "uploading"
        /\ stream' = [stream EXCEPT ![k].at = "asked"]
    BY <1>14 DEF Uploaded, server
  <2>2. stream[k].room \in Room
    BY <2>1 DEF Placed
  <2>3. /\ stream'[k].at = "asked" /\ stream'[k].room = stream[k].room
        /\ \A j \in Ask : j # k => stream'[j] = stream[j]
    BY <2>1, StreamMoves DEF Phase
  <2> QED BY <1>11, <2>1, <2>2, <2>3
\* A question that is put stays where it was put.
<1>15. ASSUME NEW k \in Ask, NEW a \in Begun \cup {"settled"}, stream' = [stream EXCEPT ![k].at = a]
       PROVE  \A j \in Ask, q \in Room : Ours(j, q) => Ours(j, q)'
  BY <1>15, StreamMoves DEF Phase, Begun, Ours
<1>16. ASSUME NEW k \in Ask, UploadFails(k) \/ Breaks(k)
       PROVE  AtHome'
  <2>1. UNCHANGED <<store, cache>> /\ stream' = [stream EXCEPT ![k].at = "settled"]
    BY <1>16 DEF UploadFails, Breaks, Settles, server, query
  <2> QED BY <1>1, <1>15, <2>1
<1>17. ASSUME NEW k \in Ask, SaveQuestion(k)
       PROVE  AtHome'
  <2>1. /\ Save(stream[k].room, Question(k)) /\ cache' = cache
        /\ stream' = [stream EXCEPT ![k].at = "open"] /\ stream[k].at = "asked"
    BY <1>17 DEF SaveQuestion, query
  <2>2. stream[k].room \in Room
    BY <2>1 DEF Placed
  <2>3. \A j, q \in Ask : Question(j) # Answer(q) /\ Question(k) \in Message
    BY MessagesDiffer
  <2>4. \A j \in Ask, q \in Room : Ours(j, q) => Ours(j, q)'
    BY <1>15, <2>1 DEF Begun
  <2> QED BY <1>9, <2>1, <2>2, <2>3, <2>4
<1>18. ASSUME NEW k \in Ask, SaveAnswer(k)
       PROVE  AtHome'
  <2>1. /\ Save(stream[k].room, Answer(k)) /\ cache' = cache
        /\ stream' = [stream EXCEPT ![k].at = "answered"] /\ stream[k].at = "open"
    BY <1>18 DEF SaveAnswer, query
  <2>2. stream[k].room \in Room
    BY <2>1 DEF Placed
  <2>3. Ours(k, stream[k].room)
    BY <2>1 DEF Ours, Begun
  <2>4. \A j \in Ask : Answer(k) = Answer(j) => Ours(j, stream[k].room)
    BY <2>3, MessagesDiffer
  <2>5. \A j \in Ask, q \in Room : Ours(j, q) => Ours(j, q)'
    BY <1>15, <2>1 DEF Begun
  <2> QED BY <1>9, <2>1, <2>2, <2>4, <2>5, MessagesDiffer
<1>19. ASSUME NEW k \in Ask, Delta(k)
       PROVE  AtHome'
  <2>1. /\ stream[k].room \in Room /\ Write(stream[k].room, cache[stream[k].room].list)
        /\ UNCHANGED <<store, stream>>
    BY <1>19 DEF Delta, server, Placed
  <2>2. cache[stream[k].room].list \in SUBSET Entry
    BY <2>1 DEF TypeOK
  <2> QED BY <1>5, <2>1, <2>2
<1>20. ASSUME NEW k \in Ask, Done(k)
       PROVE  AtHome'
  <2> DEFINE r == stream[k].room
             named == Named(cache[r].list, Answer(k))
  <2>1. /\ store' = store /\ stream[k].at = "answered"
        /\ cache' = [cache EXCEPT ![r] = List(named)]
        /\ stream' = [stream EXCEPT ![k].at = "settled"]
    BY <1>20 DEF Done, Settles, server, Named
  <2>2. \A q \in Room \ {r} : cache'[q] = cache[q]
    BY <2>1 DEF TypeOK
  <2>3. r \in Room => cache'[r].list = named
    BY <2>1 DEF TypeOK, List
  <2>4. \A j : StandIns(named, j) => StandIns(cache[r].list, j)
    BY DoublesAfter
  <2>5. \A j \in Ask, q \in Room : Ours(j, q) => Ours(j, q)'
    BY <1>15, <2>1
  <2> HIDE DEF named
  <2> QED BY <2>1, <2>2, <2>3, <2>4, <2>5, KeepsAtHome
<1>21. ASSUME NEW r \in Room, NEW m \in Message, Announce(r, m)
       PROVE  AtHome'
  BY <1>2, <1>21, AnnounceIs
<1> QED
  BY <1>3, <1>4, <1>6, <1>7, <1>8, <1>10, <1>12, <1>13, <1>14, <1>16, <1>17, <1>18, <1>19, <1>20, <1>21
     DEF Next, Serve

\* Accounts and AtHome are those after the step: what an answer that is over
\* leaves behind is in the room where it was put.
LEMMA StepKeepsTidy ==
  TypeOK /\ Placed /\ Founded /\ Accounts' /\ AtHome' /\ AtHome /\ Tidy /\ [Next]_vars => Tidy'
<1> SUFFICES ASSUME TypeOK, Placed, Founded, Accounts', AtHome', AtHome, Tidy, [Next]_vars
             PROVE  Tidy'
  OBVIOUS
<1>1. \A k \in Ask, q \in Room : Doubles(cache'[q].list, k) => Ours(k, q)'
  BY DoublesKnown, AtHomeIs DEF Accounts
<1>2. \A k \in Ask, q \in Room : Doubles(cache[q].list, k) => cache[q].there
  BY DEF Founded, Doubles, StandIns
<1>3. CASE UNCHANGED <<cache, stale, stream, astray>>
  BY <1>3, KeepsTidy DEF Settled
<1>4. CASE Rest \/ Promote \/ Promoted \/ SelectFiles \/ RemoveFiles \/ Connect \/ Disconnect \/ UNCHANGED vars
  BY <1>3, <1>4
     DEF Rest, Promote, Promoted, SelectFiles, RemoveFiles, Connect, Disconnect, vars, server, query
<1>5. ASSUME NEW r \in Room, Snapshot(r) \/ FetchFails(r)
      PROVE  Tidy'
  BY <1>3, <1>5 DEF Snapshot, FetchFails
<1>6. ASSUME NEW r \in Room, Age(r)
      PROVE  Tidy'
  <2>1. /\ UNCHANGED <<cache, stream, astray>> /\ \A q \in Room : stale[q] => stale'[q]
    BY <1>6 DEF Age, TypeOK
  <2> QED BY <2>1, KeepsTidy DEF Settled
<1>7. ASSUME NEW r \in Room, NEW o \in Other, OtherSays(r, o)
      PROVE  Tidy'
  BY <1>3, <1>7 DEF OtherSays, query
\* A list is written that doubles nothing new of what is over.
<1>8. ASSUME NEW r \in Room, NEW entries \in SUBSET Entry, Write(r, entries), astray \cup Forgets(r) \subseteq astray',
             \A k \in Ask : Settled(k)' => Settled(k) /\ (Doubles(entries, k) => Doubles(cache[r].list, k))
      PROVE  Tidy'
  <2>1. /\ cache'[r].list = entries
        /\ \A q \in Room \ {r} : cache'[q] = cache[q] /\ stale'[q] = stale[q]
    BY <1>8, WriteIs
  <2>2. \A q \in Room : stale[q] \/ q \in astray => stale'[q] \/ q \in astray'
    BY <1>8, <2>1 DEF Forgets
  <2> QED BY <1>8, <2>1, <2>2, KeepsTidy
<1>9. ASSUME NEW r \in Room, Fill(r)
      PROVE  Tidy'
  <2>1. {Listed(m) : m \in fetch[r].got} \in SUBSET Entry
    BY EntriesDiffer DEF TypeOK
  <2>2. Write(r, {Listed(m) : m \in fetch[r].got}) /\ stream' = stream /\ astray' = astray \ {r}
    BY <1>9 DEF Fill
  <2>3. /\ cache'[r].list = {Listed(m) : m \in fetch[r].got}
        /\ \A q \in Room \ {r} : cache'[q] = cache[q] /\ stale'[q] = stale[q]
    BY <2>1, <2>2, WriteIs
  <2>4. \A k : ~Doubles(cache'[r].list, k)
    BY <2>3, DoublesAfter
  <2> QED BY <2>2, <2>3, <2>4, KeepsTidy DEF Settled
<1>10. ASSUME NEW r \in Room \cup {NoRoom}, Visit(r)
       PROVE  Tidy'
  <2>1. \A k \in Ask : stream'[k].at = stream[k].at
    <3>1. \A x \in Stream : [x EXCEPT !.target = r].at = x.at
      BY DEF Stream
    <3>2. \A k \in Ask : stream'[k] = stream[k] \/ stream'[k] = [stream[k] EXCEPT !.target = r]
      BY <1>10 DEF Visit
    <3> QED BY <3>1, <3>2 DEF TypeOK
  <2>2. UNCHANGED <<cache, stale, astray>>
    BY <1>10 DEF Visit
  <2> QED BY <2>1, <2>2, KeepsTidy DEF Settled
<1>11. ASSUME NEW m \in Message, HandleNewMessage(m)
       PROVE  Tidy'
  <2> DEFINE r == channel.room
             entries == IF m \in Known(cache[r].list) THEN cache[r].list
                        ELSE cache[r].list \cup {Listed(m)}
  <2>1. r \in Room /\ Write(r, entries) /\ stream' = stream /\ astray' = astray \cup Forgets(r)
    BY <1>11 DEF HandleNewMessage, TypeOK
  <2>2. entries \in SUBSET Entry
    BY <2>1, EntriesDiffer DEF TypeOK
  <2>3. \A k : Doubles(entries, k) => Doubles(cache[r].list, k)
    BY DoublesAfter
  <2> QED BY <1>8, <2>1, <2>2, <2>3 DEF Settled
<1>12. ASSUME NEW k \in Ask, NEW r \in Room, Starts(k, r),
              stream'[k].at = "asked", \A j \in Ask : j # k => stream'[j] = stream[j]
       PROVE  Tidy'
  <2> DEFINE entries == cache[r].list \cup {Temp(Question(k)), Temp(Answer(k))}
  <2>1. entries \in SUBSET Entry
    BY EntriesDiffer, MessagesDiffer DEF TypeOK
  <2>2. Write(r, entries) /\ astray' = astray \cup Forgets(r)
    BY <1>12 DEF Starts
  <2>3. \A j \in Ask : j # k => (Doubles(entries, j) => Doubles(cache[r].list, j))
    BY DoublesAfter
  <2>4. \A j \in Ask : Settled(j)' => j # k /\ Settled(j)
    BY <1>12 DEF Settled
  <2> HIDE DEF entries
  <2> QED BY <1>8, <2>1, <2>2, <2>3, <2>4
<1>13. ASSUME NEW k \in Ask, Submit(k)
       PROVE  Tidy'
  <2>1. shown \in Room
    BY <1>13 DEF Submit, Free, Placed, NoInput, TypeOK
  <2>2. /\ Starts(k, shown)
        /\ stream' = [stream EXCEPT ![k] = [at |-> "asked", room |-> shown, target |-> shown]]
    BY <1>13 DEF Submit
  <2>3. stream'[k].at = "asked" /\ \A j \in Ask : j # k => stream'[j] = stream[j]
    BY <2>2 DEF TypeOK
  <2> QED BY <1>12, <2>1, <2>2, <2>3
<1>14. ASSUME NEW k \in Ask, SubmitFiles(k)
       PROVE  Tidy'
  <2>1. /\ UNCHANGED <<cache, stale, astray>>
        /\ stream' = [stream EXCEPT ![k] = [at |-> "uploading", room |-> shown, target |-> shown]]
    BY <1>14 DEF SubmitFiles, query
  <2>2. \A j \in Ask : Settled(j)' => Settled(j)
    BY <2>1 DEF TypeOK, Settled
  <2> QED BY <2>1, <2>2, KeepsTidy
<1>15. ASSUME NEW k \in Ask, Uploaded(k)
       PROVE  Tidy'
  <2>1. /\ Starts(k, stream[k].room) /\ stream[k].at = "uploading"
        /\ stream' = [stream EXCEPT ![k].at = "asked"]
    BY <1>15 DEF Uploaded
  <2>2. stream[k].room \in Room
    BY <2>1 DEF Placed
  <2>3. stream'[k].at = "asked" /\ \A j \in Ask : j # k => stream'[j] = stream[j]
    BY <2>1, StreamMoves DEF Phase
  <2> QED BY <1>12, <2>1, <2>2, <2>3
<1>16. ASSUME NEW k \in Ask, SaveQuestion(k) \/ SaveAnswer(k)
       PROVE  Tidy'
  <2>1. PICK a \in {"open", "answered"} : stream' = [stream EXCEPT ![k].at = a]
    BY <1>16 DEF SaveQuestion, SaveAnswer
  <2>2. UNCHANGED <<cache, stale, astray>>
    BY <1>16 DEF SaveQuestion, SaveAnswer, query
  <2>3. \A j \in Ask : Settled(j)' => Settled(j)
    BY <2>1, StreamMoves DEF Settled, Phase
  <2> QED BY <2>2, <2>3, KeepsTidy
<1>17. ASSUME NEW k \in Ask, Delta(k)
       PROVE  Tidy'
  <2> DEFINE r == stream[k].room
  <2>1. /\ r \in Room /\ Write(r, cache[r].list)
        /\ stream' = stream /\ astray' = astray \cup Forgets(r)
    BY <1>17 DEF Delta, Placed
  <2>2. cache[r].list \in SUBSET Entry
    BY <2>1 DEF TypeOK
  <2> QED BY <1>8, <2>1, <2>2 DEF Settled
\* An answer is over: it left something behind in its own room only.
<1>18. ASSUME NEW k \in Ask, stream' = [stream EXCEPT ![k].at = "settled"]
       PROVE  /\ \A j \in Ask : j # k => (Settled(j)' => Settled(j))
              /\ \A q \in Room : Doubles(cache'[q].list, k) => q = stream[k].room
  <2>1. stream'[k].room = stream[k].room
    BY <1>18, StreamMoves DEF Phase
  <2>2. \A q \in Room : Ours(k, q)' => q = stream[k].room
    BY <2>1 DEF Ours
  <2>3. \A j \in Ask : j # k => (Settled(j)' => Settled(j))
    BY <1>18, StreamMoves DEF Phase, Settled
  <2> QED BY <1>1, <2>2, <2>3
<1>19. ASSUME NEW k \in Ask, UploadFails(k)
       PROVE  Tidy'
  <2>1. /\ UNCHANGED <<store, cache, stale, astray>> /\ stream[k].at = "uploading"
        /\ stream' = [stream EXCEPT ![k].at = "settled"]
    BY <1>19 DEF UploadFails, server, query
  <2>2. \A q \in Room : ~Doubles(cache'[q].list, k)
    <3>1. \A q \in Room : ~Ours(k, q)
      BY <2>1 DEF Ours, Begun
    <3>2. \A q \in Room : Answer(k) \notin Known(cache'[q].list)
      BY <2>1, <3>1, AtHomeIs DEF Accounts
    <3> QED BY <2>1, <3>1, <3>2, AtHomeIs, DoublesKnown
  <2> QED BY <1>18, <2>1, <2>2, KeepsTidy
<1>20. ASSUME NEW k \in Ask, Breaks(k)
       PROVE  Tidy'
  <2> DEFINE r == stream[k].room
             target == stream[k].target
  <2>1. /\ stale' = [stale EXCEPT ![target] = cache[target].there]
        /\ astray' = astray \cup ({r} \ {target}) /\ cache' = cache
        /\ stream' = [stream EXCEPT ![k].at = "settled"]
    BY <1>20 DEF Breaks, Settles
  <2>2. \A q \in Room : stale'[q] = IF q = target THEN cache[q].there ELSE stale[q]
    BY <2>1 DEF TypeOK
  <2>3. \A q \in Room : Doubles(cache'[q].list, k) => stale'[q] \/ q \in astray'
    BY <1>2, <1>18, <2>1, <2>2
  <2>4. \A q \in Room, j \in Ask : Doubles(cache[q].list, j) /\ (stale[q] \/ q \in astray)
                                    => stale'[q] \/ q \in astray'
    BY <1>2, <2>1, <2>2
  <2> QED BY <1>18, <2>1, <2>3, <2>4, KeepsTidy
<1>21. ASSUME NEW k \in Ask, Done(k)
       PROVE  Tidy'
  <2> DEFINE r == stream[k].room
             target == stream[k].target
             named == Named(cache[r].list, Answer(k))
  <2>1. /\ stream[k].at = "answered"
        /\ cache' = [cache EXCEPT ![r] = List(named)]
        /\ stale' = [stale EXCEPT ![r] = FALSE, ![target] = cache[target].there]
        /\ astray' = astray \cup ({r} \ {target})
        /\ stream' = [stream EXCEPT ![k].at = "settled"]
    BY <1>21 DEF Done, Settles, Named
  <2>2. r \in Room /\ cache[r].there
    BY <2>1 DEF Placed, Founded, Begun
  <2>3. /\ \A q \in Room \ {r} : cache'[q] = cache[q]
        /\ cache'[r].list = named
    BY <2>1, <2>2 DEF TypeOK, List
  <2>4. \A q \in Room : stale'[q] = IF q = target THEN cache[q].there
                                    ELSE IF q = r THEN FALSE ELSE stale[q]
    BY <2>1 DEF TypeOK
  <2>5. stale'[r] \/ r \in astray'
    BY <2>1, <2>2, <2>4
  <2>6. \A q \in Room, j \in Ask : q # r /\ Doubles(cache[q].list, j) /\ (stale[q] \/ q \in astray)
                                    => stale'[q] \/ q \in astray'
    BY <1>2, <2>1, <2>4
  <2> HIDE DEF named
  <2> QED BY <1>18, <2>1, <2>3, <2>5, <2>6, KeepsTidy
<1>22. ASSUME NEW r \in Room, NEW m \in Message, Announce(r, m)
       PROVE  Tidy'
  BY <1>3, <1>22, AnnounceIs
<1> QED
  BY <1>4, <1>5, <1>6, <1>7, <1>9, <1>10, <1>11, <1>13, <1>14, <1>15, <1>16, <1>17, <1>19, <1>20,
     <1>21, <1>22 DEF Next, Serve

LEMMA IndInvHolds == Spec => []IndInv
<1>1. Init => IndInv
  BY InitTyped, InitAccounts, InitTidy DEF IndInv
<1>2. IndInv /\ [Next]_vars => IndInv'
  BY StepKeepsTyped, StepKeepsAccounts, StepKeepsAtHome, StepKeepsTidy DEF IndInv
<1> QED BY <1>1, <1>2, PTL DEF Spec

\* For any rooms, questions and other messages, any number of processes of the
\* server and however they share the work, and however often the user turns
\* from room to room: a list shows messages of its own room only, and a
\* message it lacks is still to be published or on its way to it; or the
\* connection was to another process, dropped from its list, closed or not
\* there, or the process ended before it published it; or it was overwritten
\* by an answer that was older.
THEOREM ListsAccounted == Spec => []MessagesAccounted
<1>1. IndInv => MessagesAccounted
  BY DEF IndInv, Accounts, MessagesAccounted
<1> QED BY IndInvHolds, <1>1, PTL

\* The stand-ins and doubles of an answer that is over are in a list only
\* while the list is due to be fetched again, or its refetch has gone astray:
\* to the room the user had turned to, or with a write that made it count as
\* fresh.
THEOREM StandInsGo == Spec => []LeftoversGo
<1>1. IndInv => LeftoversGo
  BY DEF IndInv, Tidy, LeftoversGo
<1> QED BY IndInvHolds, <1>1, PTL
=============================================================================
