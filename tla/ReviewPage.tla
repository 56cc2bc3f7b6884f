----------------------------- MODULE ReviewPage -----------------------------
(***************************************************************************)
(* The page of a review room: pages/Review.jsx, and the thread of the      *)
(* panel's messages on it, ReviewChatThread.jsx.                           *)
(*                                                                         *)
(* The page of a room shows a review of the list of its parent room, the   *)
(* newest one when it opens.  What it shows comes from three queries (the  *)
(* list, the review, the messages of its room), whose answers are kept for *)
(* the next visit, and from a stream of events, whose are not.  An answer  *)
(* about the review also sets the state of the page that asked for it.     *)
(*                                                                         *)
(* The stream is the one of EventStream: whatever is rendered opens it     *)
(* anew, so it is away again and again, and each time the server repeats   *)
(* the status events, not the messages.  All reviews here are of one       *)
(* parent room, one review per room, and a room is named by its review.    *)
(*                                                                         *)
(* A step is a callback of the browser or a query of the server.  The list *)
(* and the messages are read by the server in the step in which they       *)
(* arrive: what was said on the way counts as said later.                  *)
(***************************************************************************)
EXTENDS Naturals, Sequences, FiniteSetsExt

CONSTANTS
  Review,     \* the reviews, numbered as they are created
  None,       \* no review
  Script,     \* the rounds of a review's messages in order; 0: of no round
  Scripted,   \* the reviews whose panel is played from the server's own script
  Late,       \* a review's other status events dated no earlier than the date
              \* of its completion: those the script dates ahead, and any ties
  Last,       \* how many status events the timeline shows, in the code five
  MaxVisits   \* a bound: how often the user turns to the page

ASSUME ReviewPageAssumption ==
  /\ Review \subseteq Nat /\ Review # {} /\ None \notin Review
  /\ Script \in [Review -> Seq(0..4)]
  /\ Scripted \subseteq Review /\ Late \in [Review -> Nat] /\ Last \in Nat
  /\ MaxVisits \in Nat

VARIABLES
  row,      \* reviews: the status, "other" for all but "completed"; "undated"
            \* for a "completed" without its date, completed_at
  told,     \* reviews with a status event "completed"
  said,     \* messages saved in the review's room
  room,     \* the room whose page is open
  sel,      \* selectedReviewId
  due,      \* the effects of a new selection are to run
  live,     \* liveMessages
  status,   \* reviewStatus, and the review it was said of
  noted,    \* statusEvents: where the completions among them come from
  hears,    \* the review the stream is open for
  list, listGet,   \* the answer kept for each query, and the one under way
  meta, metaGet,
  hist, histGet,
  visits,   \* visits and returns to the window
  passed,   \* history: messages said while the page did not hear, or dropped with it
  excused   \* history: the page has reason not to know that its review is completed

server == <<row, told, said>>
page == <<room, sel, due, live, status, noted, hears>>
queries == <<list, listGet, meta, metaGet, hist, histGet>>
history == <<visits, passed, excused>>
vars == <<server, page, queries, history>>

Message == UNION {{r} \X (1..Len(Script[r])) : r \in Review}
Label == {"other", "completed", "undated"}
Source == {"date", "event"}
Loading == [is |-> "loading", of |-> None]
Is(label, r) == [is |-> IF label = "other" THEN label ELSE "completed", of |-> r]

\* A query's answer, and a request for one: what it has been answered, when
\* the server has, and whether this instance of the page has asked.
NoAnswer == [there |-> FALSE, got |-> {}]
Kept(got) == [there |-> TRUE, got |-> got]
NoGet == [at |-> "none", got |-> {}, mine |-> FALSE]
Asked == [at |-> "asked", got |-> {}, mine |-> TRUE]
Answers(S) == [there : BOOLEAN, got : S]
Gets(S) == [at : {"none", "asked", "read"}, got : S, mine : BOOLEAN]
Labels == {{}} \cup {{l} : l \in Label}

TypeOK ==
  /\ row \in [Review -> {"none", "gone"} \cup Label]
  /\ told \subseteq Review /\ said \subseteq Message
  /\ {room, sel, hears} \subseteq Review \cup {None}
  /\ due \in BOOLEAN /\ noted \subseteq Source
  /\ live \subseteq Message
  /\ status \in [is : Label, of : Review] \cup {Loading}
  /\ list \in Answers(SUBSET Review) /\ listGet \in {NoGet, Asked}
  /\ meta \in [Review -> Answers(Labels)] /\ metaGet \in [Review -> Gets(Labels)]
  /\ hist \in [Review -> Answers(SUBSET Message)]
  /\ histGet \in [Review -> {NoGet, Asked}]
  /\ visits \in 0..MaxVisits
  /\ passed \subseteq Message
  /\ excused \in BOOLEAN

\* The user has opened the room of the first review.
Init ==
  /\ row = [r \in Review |-> IF r = Min(Review) THEN "other" ELSE "none"]
  /\ told = {} /\ said = {}
  /\ room = Min(Review) /\ sel = None /\ due = TRUE
  /\ live = {} /\ status = Loading /\ noted = {} /\ hears = None
  /\ list = NoAnswer /\ listGet = Asked
  /\ meta = [r \in Review |-> NoAnswer] /\ metaGet = [r \in Review |-> NoGet]
  /\ hist = [r \in Review |-> NoAnswer] /\ histGet = [r \in Review |-> NoGet]
  /\ visits = 0 /\ passed = {} /\ excused = FALSE

Alive == {r \in Review : row[r] \in Label}
Of(r) == {m \in Message : m[1] = r}
Open == room # None

-----------------------------------------------------------------------------
(* What the page shows.                                                    *)

\* Until the review is there, only a notice is.
Shows == Open /\ sel # None /\ meta[sel].there

\* The room whose messages are asked for, and the one ChatInput writes to.
Current == IF sel # None /\ meta[sel].there THEN sel ELSE room

\* combinedMessages: by id, so what is in both is there once.
Messages == hist[Current].got \cup live

\* buildEntries, and the sections of the thread.
RoundOf(m) == Script[m[1]][m[2]]
Entries == {m \in Messages : RoundOf(m) # 0}
Cards == {m \in Entries : RoundOf(m) = 1}
Discussion == {m \in Entries : RoundOf(m) > 1 /\ RoundOf(m) < 4}
Closings == {m \in Entries : RoundOf(m) = 4}
Summary == {m \in Closings : \A n \in Closings : m[2] <= n[2]}

\* What copying and downloading the summary take: the one that is shown.
Exported == Summary

\* statusHistory: the last events by date.  Nothing is dated after the event
\* "completed"; the date of the completion itself may be followed by others,
\* and is surely shown only if they leave room for it.
Timeline ==
  IF "event" \in noted \/ ("date" \in noted /\ Late[sel] < Last) THEN {"completed"} ELSE {}

\* The header, and what the section below it says of the review: its status,
\* who has spoken (here: the messages they are taken from), and whether the
\* completion is among the last events.  The report and its tasks never show:
\* the answer about a review has none.
Header == [title |-> sel, says |-> status.is]
Spoken == Messages
Section == [label |-> Header.says, spoken |-> Spoken, past |-> Timeline]

Unlocked == Shows /\ status.is = "completed"

\* The sessions of the select box; those that lead elsewhere.
Options == list.got
Sessions == Options \ {Current}

-----------------------------------------------------------------------------
(* The queries.                                                            *)

\* One request per key; what this instance did not ask for, it joins.
Ask(get) == IF get.at = "none" THEN Asked ELSE get
Left(get) == [get EXCEPT !.mine = FALSE]

\* When its key comes up: if it has no answer, or an old one.
AskMessages(r) ==
  \E old \in BOOLEAN :
    histGet' = IF hist[r].there /\ ~old THEN histGet
               ELSE [histGet EXCEPT ![r] = Ask(@)]

AskList ==
  \E old \in BOOLEAN : listGet' = IF list.there /\ ~old THEN listGet ELSE Ask(listGet)

AskReview(r) == metaGet' = [metaGet EXCEPT ![r] = Ask(@)]

ReadReview(r) ==
  /\ metaGet[r].at = "asked" /\ r \in Alive
  /\ metaGet' = [metaGet EXCEPT ![r].at = "read", ![r].got = {row[r]}]
  /\ UNCHANGED <<server, page, list, listGet, meta, hist, histGet, history>>

\* Slip: the newest review, always.
ChooseNewest(r, rs) == IF rs = {} THEN None ELSE Max(rs)

\* The selection stays if it is on the list.
Choose(r, rs) == IF rs = {} THEN None ELSE IF r \in rs THEN r ELSE Max(rs)

Selects(r) ==
  /\ sel' = r
  /\ due' = (due \/ sel # r)

\* The list: read by the server and here at once, the effect of it with it.
GotList ==
  /\ listGet.at = "asked"
  /\ list' = Kept(Alive) /\ listGet' = NoGet
  /\ IF Open THEN Selects(Choose(sel, Alive)) ELSE UNCHANGED <<sel, due>>
  /\ UNCHANGED <<server, room, live, status, noted, hears, meta, metaGet, hist, histGet, history>>

\* What an answer gives the timeline: its completion, if it has a date.
DateIn(label) == IF label = "completed" THEN {"date"} ELSE {}

\* The answer says less of the review than has been announced, or it is not
\* for this page, or not about this review.
Misleads(r, label, mine) ==
  IF mine /\ r = sel THEN label = "other" /\ (excused \/ r \in told)
  ELSE excused \/ mine \/ r = sel

\* The queryFn sets the state of the instance that started it; the answer is
\* everybody's.  The effect that notes what it says runs if it is a new one.
GotReview(r) ==
  /\ metaGet[r].at = "read"
  /\ \E label \in metaGet[r].got :
       /\ status' = IF metaGet[r].mine THEN Is(label, r) ELSE status
       /\ noted' = IF Open /\ r = sel /\ meta[r].got # {label} THEN noted \cup DateIn(label) ELSE noted
       /\ excused' = Misleads(r, label, metaGet[r].mine)
  /\ meta' = [meta EXCEPT ![r] = Kept(metaGet[r].got)]
  /\ metaGet' = [metaGet EXCEPT ![r] = NoGet]
  /\ IF Open /\ r = sel /\ ~meta[r].there THEN AskMessages(r) ELSE UNCHANGED histGet
  /\ UNCHANGED <<server, room, sel, due, live, hears, list, listGet, hist, visits, passed>>

\* The messages, the same way.
GotMessages(r) ==
  /\ histGet[r].at = "asked"
  /\ hist' = [hist EXCEPT ![r] = Kept(said \cap Of(r))]
  /\ histGet' = [histGet EXCEPT ![r] = NoGet]
  /\ passed' = passed \ (said \cap Of(r))
  /\ UNCHANGED <<server, page, list, listGet, meta, metaGet, visits, excused>>

\* A query fails for good, after its retries.
ReviewFails(r) ==
  /\ metaGet[r].at # "none"
  /\ metaGet' = [metaGet EXCEPT ![r] = NoGet]
  /\ excused' = (excused \/ r = sel)
  /\ UNCHANGED <<server, page, list, listGet, meta, hist, histGet, visits, passed>>

ListFails ==
  /\ listGet.at # "none"
  /\ listGet' = NoGet
  /\ UNCHANGED <<server, page, list, meta, metaGet, hist, histGet, history>>

MessagesFail(r) ==
  /\ histGet[r].at # "none"
  /\ histGet' = [histGet EXCEPT ![r] = NoGet]
  /\ UNCHANGED <<server, page, list, listGet, meta, metaGet, hist, history>>

-----------------------------------------------------------------------------
(* The user.                                                               *)

Clear ==
  /\ live' = {} /\ status' = Loading /\ noted' = {} /\ hears' = None
  /\ passed' = passed \cup live

Turns == visits < MaxVisits /\ visits' = visits + 1

\* Main gives every room an instance of its own, which selects for itself.
Mounts(r) ==
  /\ Turns
  /\ room' = r
  /\ sel' = Choose(None, list.got) /\ due' = TRUE
  /\ Clear /\ excused' = FALSE
  /\ AskList
  /\ metaGet' = [x \in Review |-> Left(metaGet[x])]
  /\ UNCHANGED <<server, list, meta, hist, histGet>>

Enter(r) ==
  /\ row[r] # "none" /\ r # room
  /\ Mounts(r)

\* handleReviewSwitch: what it selects goes with the instance.
Switch(r) ==
  /\ Shows /\ r \in Sessions
  /\ Mounts(r)

Leaves ==
  /\ room' = None /\ sel' = None /\ due' = FALSE
  /\ Clear /\ excused' = FALSE
  /\ metaGet' = [x \in Review |-> Left(metaGet[x])]
  /\ UNCHANGED <<server, list, listGet, meta, hist, histGet, visits>>

\* navigate(-1): with the key anywhere, with the button once it is shown.
Escape == Open /\ Leaves
GoBack == Shows /\ Leaves

\* The user comes back to the window, or the network does.
Focus ==
  /\ Open /\ ~due /\ Turns
  /\ AskList
  /\ IF sel = None THEN UNCHANGED metaGet ELSE AskReview(sel)
  /\ AskMessages(Current)
  /\ UNCHANGED <<server, page, list, meta, hist, passed, excused>>

\* Slip: the timeline is cleared after the review has been noted.
EffectsClearLast ==
  /\ Open /\ due
  /\ due' = FALSE
  /\ Clear
  /\ excused' = FALSE
  /\ IF sel = None THEN UNCHANGED metaGet ELSE AskReview(sel)
  /\ AskMessages(Current)
  /\ UNCHANGED <<server, room, sel, list, listGet, meta, hist, visits>>

\* What follows a new selection: the state starts afresh, what is known of
\* the review is noted, the queries of its keys start.
Effects ==
  /\ Open /\ due
  /\ due' = FALSE
  /\ live' = {} /\ passed' = passed \cup live
  /\ status' = Loading /\ excused' = FALSE
  /\ noted' = IF sel = None THEN {} ELSE UNION {DateIn(label) : label \in meta[sel].got}
  /\ hears' = None
  /\ IF sel = None THEN UNCHANGED metaGet ELSE AskReview(sel)
  /\ AskMessages(Current)
  /\ UNCHANGED <<server, room, sel, list, listGet, meta, hist, visits>>

-----------------------------------------------------------------------------
(* The stream.                                                             *)

\* The connection is there, and the status events are repeated.
Listens ==
  /\ Open /\ ~due /\ sel # None /\ hears = None
  /\ hears' = sel
  /\ noted' = IF sel \in told THEN noted \cup {"event"} ELSE noted
  /\ UNCHANGED <<server, room, sel, due, live, status, queries, history>>

\* It breaks, or something was rendered.
Lapses ==
  /\ hears # None
  /\ hears' = None
  /\ UNCHANGED <<server, room, sel, due, live, status, noted, queries, history>>

-----------------------------------------------------------------------------
(* The server.                                                             *)

Starts(r) ==
  /\ row[r] = "none" /\ \A x \in Review : x < r => row[x] # "none"
  /\ row' = [row EXCEPT ![r] = "other"]
  /\ UNCHANGED <<told, said, page, queries, history>>

\* Slip: a message that is heard replaces the others.
SaysReplacing(r, i) ==
  /\ r \in Alive \ told /\ <<r, i>> \notin said
  /\ \A j \in 1..(i - 1) : <<r, j>> \in said
  /\ said' = said \cup {<<r, i>>}
  /\ IF hears = r
       THEN live' = {<<r, i>>} /\ UNCHANGED passed
       ELSE passed' = passed \cup {<<r, i>>} /\ UNCHANGED live
  /\ UNCHANGED <<row, told, room, sel, due, status, noted, hears, queries, visits, excused>>

\* A message is saved and sent to the stream.
Says(r, i) ==
  /\ r \in Alive \ told /\ <<r, i>> \notin said
  /\ \A j \in 1..(i - 1) : <<r, j>> \in said
  /\ said' = said \cup {<<r, i>>}
  /\ IF hears = r
       THEN live' = live \cup {<<r, i>>} /\ UNCHANGED passed
       ELSE passed' = passed \cup {<<r, i>>} /\ UNCHANGED live
  /\ UNCHANGED <<row, told, room, sel, due, status, noted, hears, queries, visits, excused>>

Spent(r) == \A m \in Of(r) : RoundOf(m) # 0 => m \in said

\* The report is saved once the panel has spoken, with the status and a date.
\* If that fails the script goes on, and writes the status alone.
Completes(r) ==
  /\ row[r] = "other" /\ r \notin told /\ Spent(r)
  /\ \E label \in {"completed"} \cup (IF r \in Scripted THEN {"undated"} ELSE {}) :
       row' = [row EXCEPT ![r] = label]
  /\ UNCHANGED <<told, said, page, queries, history>>

\* Slip: the status of an event only goes to the timeline.
TellsTimeline(r) ==
  /\ r \in Alive \ told /\ (row[r] # "other" \/ (r \in Scripted /\ Spent(r)))
  /\ told' = told \cup {r}
  /\ noted' = IF hears = r THEN noted \cup {"event"} ELSE noted
  /\ IF hears = r THEN UNCHANGED excused
     ELSE excused' = (excused \/ r = sel)
  /\ UNCHANGED <<row, said, room, sel, due, live, status, hears, queries, visits, passed>>

\* "completed": the script says so even if it could not be written.
Tells(r) ==
  /\ r \in Alive \ told /\ (row[r] # "other" \/ (r \in Scripted /\ Spent(r)))
  /\ told' = told \cup {r}
  /\ IF hears = r
       THEN status' = Is("completed", r) /\ noted' = noted \cup {"event"} /\ UNCHANGED excused
       ELSE /\ excused' = (excused \/ r = sel)
            /\ UNCHANGED <<status, noted>>
  /\ UNCHANGED <<row, said, room, sel, due, live, hears, queries, visits, passed>>

\* The room is deleted, with all that is in it.
Deletes(r) ==
  /\ r \in Alive
  /\ row' = [row EXCEPT ![r] = "gone"]
  /\ said' = said \ Of(r)
  /\ UNCHANGED <<told, page, queries, history>>

\* The user has left, and comes back no more.
Rest == room = None /\ visits = MaxVisits /\ UNCHANGED vars

Next ==
  \/ Rest
  \/ Escape \/ GoBack \/ Focus \/ Effects \/ Listens \/ Lapses
  \/ GotList \/ ListFails
  \/ \E r \in Review :
       \/ Enter(r) \/ Switch(r)
       \/ ReadReview(r) \/ GotReview(r) \/ ReviewFails(r)
       \/ GotMessages(r) \/ MessagesFail(r)
       \/ Starts(r) \/ Completes(r) \/ Tells(r) \/ Deletes(r)
       \/ \E i \in 1..Len(Script[r]) : Says(r, i)

Spec == Init /\ [][Next]_vars

-----------------------------------------------------------------------------
Settled == Shows /\ ~due

\* The status in the header, which locks and unlocks the input, is one of the
\* review below it, unless the other review is gone, and everybody named as
\* having spoken, and so everything in the thread, is of that review's room.
HeaderAccounted ==
  Settled =>
    /\ status # Loading => status.of = sel \/ row[status.of] = "gone"
    /\ Section.spoken \subseteq Of(sel)

\* When "completed" has been announced and no answer is awaited, the input is
\* locked only if the page missed the event, or heard since an answer that
\* was older, another review's, or asked for by an earlier visit, or none.
InputAccounted ==
  (Settled /\ sel \in told /\ metaGet[sel].at = "none" /\ ~Unlocked) => excused

\* A header that says "completed" of the review has the completion in the
\* timeline, however the page has come to know, unless that was not by the event
\* and the answer has no date, or as many events dated later as are shown.
TimelineAgrees ==
  (Settled /\ status = Is("completed", sel) /\ Section.past # {"completed"}) =>
    "event" \notin noted /\ (meta[sel].got = {"undated"} \/ Late[sel] >= Last)

\* A turn that was saved, and has not been said unheard, or dropped with an
\* earlier selection, since the messages were asked for, is in exactly one
\* section of the thread; after a closing turn there is a summary to export.
ThreadAccounted ==
  (Settled /\ sel \in Alive) =>
    \A m \in (said \cap Of(sel)) \ passed :
      RoundOf(m) # 0 =>
        \/ m \in Cards /\ m \notin Discussion \cup Summary
        \/ m \in Discussion /\ m \notin Cards \cup Summary
        \/ RoundOf(m) = 4 /\ Exported # {} /\ m \notin Cards \cup Discussion
=============================================================================
