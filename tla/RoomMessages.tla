---------------------------- MODULE RoomMessages ----------------------------
(***************************************************************************)
(* The messages of chat rooms in the React client.                         *)
(*                                                                         *)
(* MessageList shows the query cache's list of the room on the page, asks  *)
(* the server for it when it is missing or stale, and adds what the room's *)
(* event stream brings.  ChatInput puts a question and an empty answer     *)
(* into the same list, lets the server stream the answer, and has the list *)
(* fetched again at the end.  The list is written by all of them, in the   *)
(* order in which the server, the network and the user happen to act; the  *)
(* user moves between rooms at any time.                                   *)
(*                                                                         *)
(* A step is one callback of the browser; what it renders is part of it.   *)
(***************************************************************************)
EXTENDS Integers, FiniteSets

CONSTANTS
  Room,       \* rooms of type main or sub
  Sub,        \* those of type sub
  NoRoom,     \* another page
  Ask,        \* questions the user puts
  Other,      \* messages of other clients, or of the server's own accord
  Worker,     \* processes of the server
  NoWorker,   \* none of them
  On,         \* the process that works on each question and other message
  MaxVisits   \* a bound: how often the user changes the page

ASSUME RoomMessagesAssumption ==
  /\ NoRoom \notin Room /\ Sub \subseteq Room /\ MaxVisits \in Nat
  /\ NoWorker \notin Worker /\ On \in [Ask \cup Other -> Worker]

Message == [by : {"user", "assistant"}, of : Ask] \cup [by : {"other"}, of : Other]
Question(k) == [by |-> "user", of |-> k]
Answer(k) == [by |-> "assistant", of |-> k]

\* An entry of a list.  "temp" has an id of the client's own; "final" is a
\* temp whose id was replaced by the message's; "listed" came from the server.
Entry == [m : Message, as : {"temp", "final", "listed"}]
Temp(m) == [m |-> m, as |-> "temp"]
Final(m) == [m |-> m, as |-> "final"]
Listed(m) == [m |-> m, as |-> "listed"]

\* What the query cache has of a room: nothing, or a list.
Nothing == [there |-> FALSE, list |-> {}]
List(entries) == [there |-> TRUE, list |-> entries]

VARIABLES
  store,    \* messages saved by the server, per room
  unsaid,   \* those that the server has saved and not yet published
  cache,    \* ['messages', room]: data
  stale,    \* invalidated, or older than staleTime
  fetch,    \* the query's request: none, asked, or answered with a list
  shown,    \* the room on the page
  channel,  \* the event stream: its room, the process that lists its queue, and
            \* events on their way
  stream,   \* streamMessageApi of each question, and its mutation
  input,    \* the ChatInput on the page
  promoting,\* the room whose learnings the mutation of the list's button promotes
  visits,   \* page changes
  lost,     \* history: messages the client was not told of, or has overwritten
  astray    \* history: rooms whose refetch after an answer went elsewhere

server == <<store, unsaid>>
query == <<cache, stale, fetch>>
vars == <<server, query, shown, channel, stream, input, promoting, visits, lost, astray>>

Phase == {"none", "uploading", "asked", "open", "answered", "settled"}
Stream == [at : Phase, room : Room \cup {NoRoom}, target : Room \cup {NoRoom}]
NoStream == [at |-> "none", room |-> NoRoom, target |-> NoRoom]
Closed == [room |-> NoRoom, on |-> NoWorker, sent |-> {}]
NoFetch == [at |-> "none", got |-> {}]
Asked == [at |-> "asked", got |-> {}]

\* Where the page has its ChatInput: below the note that there are no
\* messages, below the list, or nowhere.  In another place it is another one.
Place == {"nowhere", "empty", "list"}
Input == [place : Place, busy : Ask \cup {0}, files : BOOLEAN]

TypeOK ==
  /\ store \in [Room -> SUBSET Message]
  /\ unsaid \subseteq Room \X Message
  /\ cache \in [Room -> [there : BOOLEAN, list : SUBSET Entry]]
  /\ stale \in [Room -> BOOLEAN]
  /\ fetch \in [Room -> [at : {"none", "asked", "answered"}, got : SUBSET Message]]
  /\ shown \in Room \cup {NoRoom}
  /\ channel \in [room : Room \cup {NoRoom}, on : Worker \cup {NoWorker}, sent : SUBSET Message]
  /\ stream \in [Ask -> Stream]
  /\ input \in Input
  /\ promoting \in Sub \cup {NoRoom}
  /\ visits \in 0..MaxVisits
  /\ lost \subseteq Room \X Message
  /\ astray \subseteq Room

Init ==
  /\ store = [r \in Room |-> {}] /\ unsaid = {}
  /\ cache = [r \in Room |-> Nothing]
  /\ stale = [r \in Room |-> FALSE]
  /\ fetch = [r \in Room |-> NoFetch]
  /\ shown = NoRoom
  /\ channel = Closed
  /\ stream = [k \in Ask |-> NoStream]
  /\ input = [place |-> "nowhere", busy |-> 0, files |-> FALSE]
  /\ promoting = NoRoom
  /\ visits = 0
  /\ lost = {} /\ astray = {}

-----------------------------------------------------------------------------
(* The page.                                                               *)

PlaceOf(r, c, f) ==
  IF r = NoRoom THEN "nowhere"
  ELSE IF ~c[r].there THEN (IF f[r] = NoFetch THEN "empty" ELSE "nowhere")
  ELSE IF c[r].list = {} THEN "empty" ELSE "list"

ResetAttachments(in) == [in EXCEPT !.files = FALSE]

\* The ChatInput after a step: in, unless it has to be made anew.
Renders(in) ==
  LET place == PlaceOf(shown', cache', fetch')
  IN  input' = IF place # in.place THEN [place |-> place, busy |-> 0, files |-> FALSE]
               ELSE IF shown' # shown THEN ResetAttachments(in)
               ELSE in

-----------------------------------------------------------------------------
(* The query cache.                                                        *)

\* setQueryData: the list counts as fresh, whatever it was before.
Write(r, entries) ==
  /\ cache' = [cache EXCEPT ![r] = List(entries)]
  /\ stale' = [stale EXCEPT ![r] = FALSE]

\* The refetch a room was due, which a write makes the cache forget.
Forgets(r) == IF stale[r] THEN {r} ELSE {}

\* A component that shows the room asks for what is missing or stale.
Observed(r) ==
  IF r \in Room /\ fetch[r] = NoFetch /\ (~cache[r].there \/ stale[r])
  THEN [fetch EXCEPT ![r] = Asked] ELSE fetch

\* invalidateQueries: a list that is shown is fetched again, and a request
\* under way is given up for it; another one is fetched when it is shown.
Refetched(r) == IF shown = r THEN [fetch EXCEPT ![r] = Asked] ELSE fetch

\* The server answers a request; the answer takes its time.
Snapshot(r) ==
  /\ fetch[r] = Asked
  /\ fetch' = [fetch EXCEPT ![r] = [at |-> "answered", got |-> store[r]]]
  /\ UNCHANGED <<server, cache, stale, shown, channel, stream, input, promoting, visits, lost, astray>>

\* The messages with an id of the server's among entries.
Known(entries) == {e.m : e \in {x \in entries : x.as # "temp"}}

Fill(r) ==
  /\ fetch[r].at = "answered"
  /\ fetch' = [fetch EXCEPT ![r] = NoFetch]
  /\ Write(r, {Listed(m) : m \in fetch[r].got})
  /\ lost' = {l \in lost : ~(l[1] = r /\ l[2] \in fetch[r].got)}
               \cup {<<r, m>> : m \in Known(cache[r].list) \ fetch[r].got}
  /\ astray' = astray \ {r}
  /\ UNCHANGED <<server, shown, channel, stream, promoting, visits>>
  /\ Renders(input)

\* A request fails, and so does its retry.
FetchFails(r) ==
  /\ fetch[r] # NoFetch
  /\ fetch' = [fetch EXCEPT ![r] = NoFetch]
  /\ UNCHANGED <<server, cache, stale, shown, channel, stream, promoting, visits, lost, astray>>
  /\ Renders(input)

\* staleTime passes.
Age(r) ==
  /\ cache[r].there /\ ~stale[r]
  /\ stale' = [stale EXCEPT ![r] = TRUE]
  /\ UNCHANGED <<server, cache, fetch, shown, channel, stream, input, promoting, visits, lost, astray>>

-----------------------------------------------------------------------------
(* The user turns to another room or page.  A ChatInput that stays where   *)
(* it is goes on with the new room: so do the callbacks of its mutation.   *)

Visit(r) ==
  /\ r # shown /\ visits < MaxVisits
  /\ visits' = visits + 1
  /\ shown' = r
  /\ promoting' = IF r = NoRoom THEN NoRoom ELSE promoting
  /\ fetch' = Observed(r)
  /\ UNCHANGED <<cache, stale>>
  /\ Renders(input)
  /\ stream' = [k \in Ask |-> IF input'.busy = k THEN [stream[k] EXCEPT !.target = r] ELSE stream[k]]
  /\ UNCHANGED <<server, channel, lost, astray>>

-----------------------------------------------------------------------------
(* The room's event stream.  Every process of the server has a list of the *)
(* queues of the streams connected to it: a message is put into those of   *)
(* the process that publishes it, and nothing is sent again.               *)

Told(r, m) == channel.room = r /\ channel.on = On[m.of]

\* What the client lacks when it is not told of m.
Missed(r, m) == IF m \in Known(cache[r].list) THEN {} ELSE {<<r, m>>}

Save(r, m) ==
  /\ store' = [store EXCEPT ![r] = @ \cup {m}]
  /\ unsaid' = unsaid \cup {<<r, m>>}
  /\ UNCHANGED <<channel, lost>>

\* The queue takes the event, unless it is full of these and other events of
\* the room: then it is listed no more, and the stream goes on without it.
Publish(r, m) ==
  /\ <<r, m>> \in unsaid
  /\ unsaid' = unsaid \ {<<r, m>>}
  /\ \/ /\ Told(r, m)
        /\ channel' = [channel EXCEPT !.sent = @ \cup {m}]
        /\ UNCHANGED lost
     \/ /\ Told(r, m)
        /\ channel' = [channel EXCEPT !.on = NoWorker]
        /\ lost' = lost \cup Missed(r, m)
     \/ /\ ~Told(r, m)
        /\ UNCHANGED channel
        /\ lost' = lost \cup Missed(r, m)
  /\ UNCHANGED <<store, query, shown, stream, input, promoting, visits, astray>>

\* The process ends before it publishes; so does its answer to the client.
Withhold(r, m) ==
  /\ <<r, m>> \in unsaid
  /\ m.by # "other" => stream[m.of].at = "settled"
  /\ unsaid' = unsaid \ {<<r, m>>}
  /\ lost' = lost \cup Missed(r, m)
  /\ UNCHANGED <<store, query, shown, channel, stream, input, promoting, visits, astray>>

Connect ==
  /\ channel.room = NoRoom /\ shown # NoRoom
  /\ \E w \in Worker : channel' = [room |-> shown, on |-> w, sent |-> {}]
  /\ UNCHANGED <<server, query, shown, stream, input, promoting, visits, lost, astray>>

\* The connection is closed, for another room or to be renewed (EventStream).
Disconnect ==
  /\ channel.room # NoRoom
  /\ channel' = Closed
  /\ lost' = lost \cup UNION {Missed(channel.room, m) : m \in channel.sent}
  /\ UNCHANGED <<server, query, shown, stream, input, promoting, visits, astray>>

\* Slip: a room that is not loaded yet is left to its request.
HandleNewMessageLoaded(m) ==
  LET r == channel.room
  IN  /\ r # NoRoom /\ m \in channel.sent
      /\ channel' = [channel EXCEPT !.sent = @ \ {m}]
      /\ Write(r, IF m \in Known(cache[r].list) \/ ~cache[r].there THEN cache[r].list
                  ELSE cache[r].list \cup {Listed(m)})
      /\ astray' = astray \cup Forgets(r)
      /\ UNCHANGED <<server, fetch, shown, stream, promoting, visits, lost>>
      /\ Renders(input)

\* new_message
HandleNewMessage(m) ==
  LET r == channel.room
  IN  /\ r # NoRoom /\ m \in channel.sent
      /\ channel' = [channel EXCEPT !.sent = @ \ {m}]
      /\ Write(r, IF m \in Known(cache[r].list) THEN cache[r].list
                  ELSE cache[r].list \cup {Listed(m)})
      /\ astray' = astray \cup Forgets(r)
      /\ UNCHANGED <<server, fetch, shown, stream, promoting, visits, lost>>
      /\ Renders(input)

OtherSays(r, o) ==
  LET m == [by |-> "other", of |-> o]
  IN  /\ \A q \in Room : m \notin store[q]
      /\ Save(r, m)
      /\ UNCHANGED <<query, shown, stream, input, promoting, visits, astray>>

\* What is on the page: the summary that would be put above the list, and left
\* out of it, is of a kind the server does not write any more.
Displayed(r) == cache[r].list

\* The button above the list of a sub room; the list goes on with the next
\* room, and so does the button's mutation.
Promote ==
  /\ input.place = "list" /\ shown \in Sub /\ promoting = NoRoom
  /\ promoting' = shown
  /\ UNCHANGED <<server, query, shown, channel, stream, input, visits, lost, astray>>

\* It succeeds or fails; no list is fetched again.
Promoted ==
  /\ promoting # NoRoom
  /\ promoting' = NoRoom
  /\ UNCHANGED <<server, query, shown, channel, stream, input, visits, lost, astray>>

-----------------------------------------------------------------------------
(* ChatInput.                                                              *)

Free == input.place # "nowhere" /\ input.busy = 0

\* StreamingStatusIndicator: it stays when the ChatInput turns to another room.
Generating(k) == input.busy = k /\ stream[k].at \in {"asked", "open", "answered"}

\* handleFileSelect
SelectFiles ==
  /\ Free /\ ~input.files
  /\ input' = [input EXCEPT !.files = TRUE]
  /\ UNCHANGED <<server, query, shown, channel, stream, promoting, visits, lost, astray>>

\* The files are listed above the input, each with a button.
Attached == input.files

\* handleRemoveAttachment, of the last one.
RemoveFiles ==
  /\ Attached
  /\ input' = [input EXCEPT !.files = FALSE]
  /\ UNCHANGED <<server, query, shown, channel, stream, promoting, visits, lost, astray>>

\* The optimistic entries, and the request.
Starts(k, r) ==
  /\ Write(r, cache[r].list \cup {Temp(Question(k)), Temp(Answer(k))})
  /\ astray' = astray \cup Forgets(r)
  /\ UNCHANGED <<fetch, shown>>

\* handleSubmit of a question without files.
Submit(k) ==
  /\ Free /\ ~input.files /\ stream[k].at = "none"
  /\ Starts(k, shown)
  /\ stream' = [stream EXCEPT ![k] = [at |-> "asked", room |-> shown, target |-> shown]]
  /\ Renders([input EXCEPT !.busy = k])
  /\ UNCHANGED <<server, channel, promoting, visits, lost>>

\* With files, which are uploaded first.
SubmitFiles(k) ==
  /\ Free /\ input.files /\ stream[k].at = "none"
  /\ stream' = [stream EXCEPT ![k] = [at |-> "uploading", room |-> shown, target |-> shown]]
  /\ input' = [input EXCEPT !.busy = k]
  /\ UNCHANGED <<server, query, shown, channel, promoting, visits, lost, astray>>

\* The handler goes on with the room it began with.
Uploaded(k) ==
  /\ stream[k].at = "uploading"
  /\ Starts(k, stream[k].room)
  /\ stream' = [stream EXCEPT ![k].at = "asked"]
  /\ Renders(IF input.busy = k THEN ResetAttachments(input) ELSE input)
  /\ UNCHANGED <<server, channel, promoting, visits, lost>>

\* Slip: the flag that files are being uploaded is left standing.
UploadFailsBusy(k) ==
  /\ stream[k].at = "uploading"
  /\ stream' = [stream EXCEPT ![k].at = "settled"]
  /\ UNCHANGED <<server, query, shown, channel, input, promoting, visits, lost, astray>>

\* One of the files is refused; those before it have been stored.
UploadFails(k) ==
  /\ stream[k].at = "uploading"
  /\ stream' = [stream EXCEPT ![k].at = "settled"]
  /\ input' = IF input.busy = k THEN [input EXCEPT !.busy = 0] ELSE input
  /\ UNCHANGED <<server, query, shown, channel, promoting, visits, lost, astray>>

\* The server saves the question; once it is published, it answers with
\* "started" and deltas.
SaveQuestion(k) ==
  /\ stream[k].at = "asked"
  /\ stream' = [stream EXCEPT ![k].at = "open"]
  /\ Save(stream[k].room, Question(k))
  /\ UNCHANGED <<query, shown, input, promoting, visits, astray>>

Said(k, m) == <<stream[k].room, m>> \notin unsaid

\* The server saves the answer; once it is published, it says "done".
SaveAnswer(k) ==
  /\ stream[k].at = "open" /\ Said(k, Question(k))
  /\ stream' = [stream EXCEPT ![k].at = "answered"]
  /\ Save(stream[k].room, Answer(k))
  /\ UNCHANGED <<query, shown, input, promoting, visits, astray>>

\* A piece of the answer; it is added to the entry if that is still there.
Delta(k) ==
  LET r == stream[k].room
  IN  /\ stream[k].at = "open" /\ Said(k, Question(k))
      /\ Write(r, cache[r].list)
      /\ astray' = astray \cup Forgets(r)
      /\ UNCHANGED <<server, fetch, shown, channel, stream, input, promoting, visits, lost>>

\* The mutation is over: the room its ChatInput was last shown for is fetched
\* again.
Settles(k) ==
  /\ stream' = [stream EXCEPT ![k].at = "settled"]
  /\ UNCHANGED <<server, shown, channel, promoting, visits>>
  /\ Renders(IF input.busy = k THEN [input EXCEPT !.busy = 0] ELSE input)

\* Slip: nothing is fetched after an error.
BreaksQuietly(k) ==
  /\ stream[k].at \in {"asked", "open", "answered"}
  /\ UNCHANGED <<query, lost, astray>>
  /\ Settles(k)

\* "error", from the server or from the network.
Breaks(k) ==
  LET r == stream[k].room
      target == stream[k].target
  IN  /\ stream[k].at \in {"asked", "open", "answered"}
      /\ stale' = [stale EXCEPT ![target] = cache[target].there]
      /\ fetch' = Refetched(target)
      /\ astray' = astray \cup ({r} \ {target})
      /\ UNCHANGED <<cache, lost>>
      /\ Settles(k)

\* "done": the answer's entry, if it is still there, gets the message's id.
Done(k) ==
  LET r == stream[k].room
      target == stream[k].target
      named == {IF e = Temp(Answer(k)) THEN Final(Answer(k)) ELSE e : e \in cache[r].list}
  IN  /\ stream[k].at = "answered" /\ Said(k, Answer(k))
      /\ cache' = [cache EXCEPT ![r] = List(named)]
      /\ stale' = [stale EXCEPT ![r] = FALSE, ![target] = cache[target].there]
      /\ fetch' = Refetched(target)
      /\ lost' = lost \ {<<r, m>> : m \in Known(named)}
      /\ astray' = astray \cup ({r} \ {target})
      /\ Settles(k)

Serve(k) == Uploaded(k) \/ UploadFails(k) \/ SaveQuestion(k) \/ SaveAnswer(k) \/ Done(k) \/ Breaks(k)

Announce(r, m) == Publish(r, m) \/ Withhold(r, m)

\* The user has left, and comes back no more.
Rest == visits = MaxVisits /\ shown = NoRoom /\ UNCHANGED vars

Next ==
  \/ Rest
  \/ \E r \in Room : \/ Snapshot(r) \/ Fill(r) \/ FetchFails(r) \/ Age(r) \/ Visit(r)
                     \/ \E o \in Other : OtherSays(r, o)
                     \/ \E m \in Message : Announce(r, m)
  \/ Visit(NoRoom)
  \/ Connect \/ Disconnect \/ Promote \/ Promoted
  \/ \E m \in Message : HandleNewMessage(m)
  \/ SelectFiles \/ RemoveFiles
  \/ \E k \in Ask : Submit(k) \/ SubmitFiles(k) \/ Delta(k) \/ Serve(k)

Spec ==
  Init /\ [][Next]_vars /\ WF_vars(Promoted) /\ \A k \in Ask : WF_vars(Serve(k))

-----------------------------------------------------------------------------
Pending(k) == stream[k].at \in {"uploading", "asked", "open", "answered"}
Settled(k) == stream[k].at = "settled"

\* A list holds messages of its own room only.  A message that it lacks is
\* still to be published or on its way; or, when it was published, the client
\* had no connection, or one with another process of the server, or one that
\* was dropped for its full queue; or its process ended before it published
\* it; or the connection was closed before it arrived, or a request that the
\* server had answered before has since replaced the list.
MessagesAccounted ==
  \A r \in Room : cache[r].there =>
    /\ Known(cache[r].list) \subseteq store[r]
    /\ \A m \in store[r] : \/ m \in Known(cache[r].list)
                           \/ <<r, m>> \in unsaid
                           \/ channel.room = r /\ m \in channel.sent
                           \/ <<r, m>> \in lost

\* Once an answer is over, its stand-ins and doubles stay in the list only
\* until a fetch that is under way or due.  Where none is, the refetch went
\* to the room the user had turned to, or a write to the list made the cache
\* forget that it is stale.
Doubled(r, k) ==
  \/ {Temp(Question(k)), Temp(Answer(k))} \cap Displayed(r) # {}
  \/ {Final(Answer(k)), Listed(Answer(k))} \subseteq Displayed(r)

LeftoversGo ==
  \A r \in Room : \A k \in Ask :
    Settled(k) /\ Doubled(r, k) => stale[r] \/ fetch[r] # NoFetch \/ r \in astray

\* A question that was put, with files or without, is over at some time; the
\* input is not blocked for ever, nor does it show for ever that an answer is
\* being written; the button above the list is not blocked for ever either.
InputFrees ==
  /\ \A k \in Ask : Pending(k) ~> (Settled(k) /\ input.busy # k /\ ~Generating(k))
  /\ promoting # NoRoom ~> promoting = NoRoom
=============================================================================
