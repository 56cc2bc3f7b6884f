---------------------------- MODULE RoomCreation ----------------------------
(***************************************************************************)
(* How the React client creates rooms: in a dialogue.                      *)
(*                                                                         *)
(* The sidebar's plus button puts a prompt into the list of the room under *)
(* which the new one goes, and a request into the conversation store.  The *)
(* line the user then types there is taken as the answer: as the name of a *)
(* sub room, or as the topic of a review.  The server may want to know     *)
(* more about the topic; its question becomes the next prompt, and the     *)
(* dialogue so far is kept in the store and sent along each time.          *)
(*                                                                         *)
(* There is one request and one dialogue for all rooms, while any number   *)
(* of submissions may be under way and the user goes where she likes.      *)
(***************************************************************************)
EXTENDS Integers, Sequences, FiniteSets

CONSTANTS
  MainRoom,     \* the main room: sub rooms are created here
  SubRoom,      \* sub rooms: reviews are created here
  Elsewhere,    \* any other page
  MaxAttempts,  \* MAX_CLARIFYING_ATTEMPTS
  MaxClicks,    \* a bound: clicks on a plus button
  MaxPosts      \* a bound: submissions

ASSUME RoomCreationAssumption ==
  /\ MainRoom \notin SubRoom /\ Elsewhere \notin SubRoom \cup {MainRoom}
  /\ MaxAttempts \in Nat \ {0} /\ MaxClicks \in Nat /\ MaxPosts \in Nat

Place == {MainRoom} \cup SubRoom
Post == 1..MaxPosts

\* What is said in a dialogue: the sidebar's prompts, what the user types, the
\* server's questions, all different, and its offer to go on without more.
Text == [by : {"sub?", "review?", "line", "offer"}, of : {0}] \cup [by : {"question"}, of : Post]
Said(by) == [by |-> by, of |-> 0]
Question(i) == [by |-> "question", of |-> i]

\* Prompts have ids: of the click, or of the submission they answer.
Prompt == 0..(MaxClicks + MaxPosts)
PromptOf(i) == MaxClicks + i

NoRequest == [type |-> "none", parent |-> Elsewhere, text |-> Said("line"), prompt |-> 0]
NoReview == [parent |-> Elsewhere, history |-> <<>>]
NoPost == [at |-> "none", type |-> "none", parent |-> Elsewhere, prompt |-> 0,
           history |-> <<>>, saw |-> Elsewhere, here |-> FALSE]
Over == [NoPost EXCEPT !.at = "over"]

VARIABLES
  place,       \* the room on the page
  request,     \* store: roomCreationRequest
  review,      \* store: reviewRoomCreation; inactive: no parent
  prompts,     \* the prompts in the cached message lists
  saved,       \* those of them that are messages on the server
  posts,       \* the mutations createRoom and interactiveReviewRoom
  clicks,      \* clicks so far
  replaced,    \* history: prompts whose request another one took the place of
  overlapped   \* history: a dialogue went on while an answer was still out

creation == <<place, request, review, prompts, saved, posts, clicks, replaced, overlapped>>

CreationTypeOK ==
  /\ place \in Place \cup {Elsewhere}
  /\ request \in [type : {"none", "sub", "review"}, parent : Place \cup {Elsewhere},
                  text : Text, prompt : Prompt]
  /\ review.parent \in SubRoom \cup {Elsewhere} /\ review.history \in Seq(Text)
  /\ prompts \subseteq Place \X Prompt /\ saved \subseteq Place \X Prompt
  /\ DOMAIN posts = Post
  /\ \A i \in Post : posts[i].at \in {"none", "asked", "over"} /\ posts[i].history \in Seq(Text)
  /\ clicks \in 0..MaxClicks
  /\ replaced \subseteq Prompt /\ overlapped \in BOOLEAN

CreationInit ==
  /\ place = MainRoom
  /\ request = NoRequest /\ review = NoReview
  /\ prompts = {} /\ saved = {}
  /\ posts = [i \in Post |-> NoPost]
  /\ clicks = 0
  /\ replaced = {} /\ overlapped = FALSE

Awaited(i) == posts[i].at = "asked"
Talking(r) == review.parent = r
Requested(r) == request.type # "none" /\ request.parent = r

-----------------------------------------------------------------------------
(* The store and the lists.                                                *)

\* startRoomCreation: the last one counts.
StartRoomCreation(r, type, text, p) ==
  /\ request' = [type |-> type, parent |-> r, text |-> text, prompt |-> p]
  /\ replaced' = replaced \cup ({request.prompt} \ {0, p})

\* clearRoomCreation, of whatever request there is.
ClearRoomCreation(p) ==
  /\ request' = NoRequest
  /\ replaced' = replaced \cup ({request.prompt} \ {0, p})

\* startReviewRoomCreation, and what is added to a dialogue there is.
StartReviewRoomCreation(r, history) == review' = [parent |-> r, history |-> history]
AddReviewRoomHistory(texts) ==
  review' = IF review = NoReview THEN review ELSE [review EXCEPT !.history = @ \o texts]

RemovePrompt(r, p) == prompts' = prompts \ {<<r, p>>}

\* The user, or the end of a mutation, turns to a page.  A ChatInput that is
\* taken off the page leaves its mutations with the store as it last saw it.
Turn(p, keeps) ==
  /\ place' = p
  /\ IF p = place \/ keeps THEN UNCHANGED posts
     ELSE posts' = [i \in Post |-> IF posts[i].here
                     THEN [posts[i] EXCEPT !.here = FALSE, !.saw = review.parent] ELSE posts[i]]

\* The end of a submission that leads to another page; on the way there no
\* ChatInput stays where it is.
Ends(i) ==
  posts' = [j \in Post |->
    IF j = i THEN Over
    ELSE IF posts[j].here THEN [posts[j] EXCEPT !.here = FALSE, !.saw = review'.parent]
    ELSE posts[j]]

Visit(p) ==
  /\ p # place
  /\ \E keeps \in (IF {p, place} \subseteq Place THEN BOOLEAN ELSE {FALSE}) : Turn(p, keeps)
  /\ UNCHANGED <<request, review, prompts, saved, clicks, replaced, overlapped>>

\* The room's messages are fetched again (RoomMessages).
Refetch(r) ==
  /\ prompts' = {x \in prompts : x[1] # r} \cup {x \in saved : x[1] = r}
  /\ UNCHANGED <<place, request, review, saved, posts, clicks, replaced, overlapped>>

-----------------------------------------------------------------------------
(* The sidebar: handleCreateSubRoom, handleCreateReviewRoom.               *)

PlusButton(r, type, text) ==
  /\ clicks < MaxClicks
  /\ clicks' = clicks + 1
  /\ StartRoomCreation(r, type, text, clicks + 1)
  /\ prompts' = prompts \cup {<<r, clicks + 1>>}
  /\ UNCHANGED <<place, review, saved, posts, overlapped>>

CreateSubRoom == PlusButton(MainRoom, "sub", Said("sub?"))
CreateReviewRoom(s) == PlusButton(s, "review", Said("review?"))

-----------------------------------------------------------------------------
(* The ChatInput of the room on the page.                                  *)

\* useChatInputState has modes of its own for creating rooms, and nothing that
\* starts them: what a line is for is up to the request alone.
Mode == "default"

Submits(i, type, history) ==
  /\ posts[i].at = "none" /\ \A j \in Post : j < i => posts[j].at # "none"
  /\ posts' = [posts EXCEPT ![i] =
       [at |-> "asked", type |-> type, parent |-> place, prompt |-> request.prompt,
        history |-> history, saw |-> Elsewhere, here |-> TRUE]]
  /\ UNCHANGED <<place, request, prompts, saved, clicks, replaced>>

SubmitName(i) ==
  /\ Requested(place) /\ request.type = "sub"
  /\ Submits(i, "sub", <<>>)
  /\ UNCHANGED <<review, overlapped>>

\* Slip: the dialogue of before is left out.
DialogueForgets ==
  <<request.text, Said("line")>>

\* The dialogue of before, and what comes to it: the prompt unless it is its
\* last entry, and the line.
Before == IF Talking(place) THEN review.history ELSE <<>>
Added ==
  (IF Before # <<>> /\ Before[Len(Before)] = request.text THEN <<>> ELSE <<request.text>>)
    \o <<Said("line")>>
Dialogue == Before \o Added

\* submitInteractiveReview
SubmitTopic(i) ==
  /\ Requested(place) /\ request.type = "review"
  /\ Submits(i, "review", Dialogue)
  /\ IF Talking(place) THEN AddReviewRoomHistory(Added)
     ELSE StartReviewRoomCreation(place, Dialogue)
  /\ overlapped' = (overlapped \/ \E j \in Post : Awaited(j) /\ posts[j].type = "review")

\* Slip: the prompt is left in the list.
CancelCreationOnly ==
  /\ Requested(place) \/ Talking(place) \/ Mode # "default"
  /\ UNCHANGED prompts
  /\ request' = IF Requested(place) THEN NoRequest ELSE request
  /\ review' = IF Talking(place) THEN NoReview ELSE review
  /\ overlapped' = (overlapped \/ \E j \in Post : Awaited(j) /\ posts[j].type = "review")
  /\ UNCHANGED <<place, saved, posts, clicks, replaced>>

\* handleCancelCreation: the prompt of the request goes, wherever it is.
CancelCreation ==
  /\ Requested(place) \/ Talking(place) \/ Mode # "default"
  /\ RemovePrompt(request.parent, request.prompt)
  /\ request' = IF Requested(place) THEN NoRequest ELSE request
  /\ review' = IF Talking(place) THEN NoReview ELSE review
  /\ overlapped' = (overlapped \/ \E j \in Post : Awaited(j) /\ posts[j].type = "review")
  /\ UNCHANGED <<place, saved, posts, clicks, replaced>>

-----------------------------------------------------------------------------
(* The ends of a submission.                                               *)

\* The new sub room is not on the page's list yet: the page turns to it and
\* from there to the main room, unless the list was fetched in time.
SubRoomCreated(i) ==
  /\ Awaited(i) /\ posts[i].type = "sub"
  /\ RemovePrompt(posts[i].parent, posts[i].prompt)
  /\ ClearRoomCreation(posts[i].prompt)
  /\ UNCHANGED <<review, saved, clicks, overlapped>>
  /\ place' \in {MainRoom, Elsewhere}
  /\ Ends(i)

\* showError
Fails(i) ==
  /\ Awaited(i)
  /\ posts' = [posts EXCEPT ![i] = Over]
  /\ UNCHANGED <<place, request, review, prompts, saved, clicks, replaced, overlapped>>

\* create_interactive_review: the dialogue or the parent room says enough.
ReviewRoomCreated(i) ==
  /\ Awaited(i) /\ posts[i].type = "review"
  /\ RemovePrompt(posts[i].parent, posts[i].prompt)
  /\ ClearRoomCreation(posts[i].prompt)
  /\ review' = NoReview
  /\ place' = Elsewhere
  /\ Ends(i)
  /\ UNCHANGED <<saved, clicks, overlapped>>

Prompting(text) == text.by \in {"sub?", "review?", "question", "offer"}
Prompts(history) == {n \in 1..Len(history) : Prompting(history[n])}

\* The last prompt is the offer.
FallbackOffered(history) ==
  \E n \in Prompts(history) : history[n] = Said("offer") /\ \A m \in Prompts(history) : m <= n

\* What the server asks after a dialogue that does not say enough: after
\* MaxAttempts prompts it offers to go on, once.
Wants(i) ==
  IF Cardinality(Prompts(posts[i].history)) < MaxAttempts THEN {Question(i)}
  ELSE IF ~FallbackOffered(posts[i].history) THEN {Said("offer")} ELSE {}

\* addReviewRoomHistory, as far as the mutation's ChatInput saw a dialogue of
\* this room: into the dialogue there is now.
AddsQuestion(i, text) ==
  LET sees == IF posts[i].here THEN review.parent ELSE posts[i].saw
  IN  IF sees = posts[i].parent THEN AddReviewRoomHistory(<<text>>) ELSE UNCHANGED review

NeedsMoreContext(i) ==
  /\ Awaited(i) /\ posts[i].type = "review"
  /\ \E text \in Wants(i) :
       /\ AddsQuestion(i, text)
       /\ StartRoomCreation(posts[i].parent, "review", text, PromptOf(i))
  /\ prompts' = prompts \cup {<<posts[i].parent, PromptOf(i)>>}
  /\ \E kept \in BOOLEAN :
       saved' = IF kept THEN saved \cup {<<posts[i].parent, PromptOf(i)>>} ELSE saved
  /\ posts' = [posts EXCEPT ![i] = Over]
  /\ UNCHANGED <<place, clicks, overlapped>>

CreationNext ==
  \/ \E p \in Place \cup {Elsewhere} : Visit(p)
  \/ \E r \in Place : Refetch(r)
  \/ CreateSubRoom \/ \E s \in SubRoom : CreateReviewRoom(s)
  \/ CancelCreation
  \/ \E i \in Post : \/ SubmitName(i) \/ SubmitTopic(i)
                     \/ SubRoomCreated(i) \/ ReviewRoomCreated(i)
                     \/ NeedsMoreContext(i) \/ Fails(i)

CreationSpec == CreationInit /\ [][CreationNext]_creation

-----------------------------------------------------------------------------
\* The questions in a dialogue; one that was answered in a submission that
\* failed is there twice, with the line the user typed again.
Questions(history) == {history[n] : n \in {m \in 1..Len(history) : history[m].by = "question"}}

\* The dialogue about a review comes to an end: as long as no answer of the
\* server is awaited when the user types the next line or cancels, the server
\* asks MaxAttempts - 1 questions at most, and then makes its offer.
ScopingEnds == ~overlapped => Cardinality(Questions(review.history)) <= MaxAttempts - 1

\* A prompt of the client's own is in a list only while its request is in the
\* store, or because another request took that one's place.
PromptsAccounted ==
  \A x \in prompts \ saved : x[2] = request.prompt \/ x[2] \in replaced
=============================================================================
