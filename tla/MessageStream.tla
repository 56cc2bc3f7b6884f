---------------------------- MODULE MessageStream ----------------------------
(***************************************************************************)
(* Questions and streamed answers of one conversation thread               *)
(* (app/api/routes/conversations.py with conversation_service.py,          *)
(* token_usage_tracker.py and llm_adapters.py).  POST stores the question  *)
(* and an empty draft of its answer; GET .../stream asks the model, passes *)
(* its deltas on and, at the end, stores the answer and counts its tokens. *)
(*                                                                         *)
(* Gunicorn runs several workers, so requests interleave at every access   *)
(* to PostgreSQL and Redis: a step is one such access.  Nothing keeps a    *)
(* draft to one stream, and the client opens the stream again when it      *)
(* loses it (useEventSource.js), be the answer complete or not.            *)
(*                                                                         *)
(* A turn is a question with its draft.  An answer's text is the number of *)
(* deltas it was put together from and the stream that wrote it; a delta   *)
(* costs one token.                                                        *)
(***************************************************************************)
EXTENDS Naturals, Sequences, FiniteSetsExt

CONSTANTS
  Turn,         \* requests that ask a question, new or edited
  Unmetered,    \* turns put to Gemini or to the mocked client, whose streams
                \* report no usage and do not look for cancel keys
  Stream,       \* requests that stream an answer
  Budget,       \* DAILY_TOKEN_BUDGET, 0 for none
  DeltaCap,     \* bound on an answer's deltas, as max_tokens is
  NoTurn,       \* no question
  NoStream      \* nobody

ASSUME StreamAssumption ==
  /\ Unmetered \subseteq Turn
  /\ Budget \in Nat /\ DeltaCap \in Nat
  /\ NoTurn \notin Turn /\ NoStream \notin Stream

VARIABLES
  request,  \* where each POST or PATCH stands
  asked,    \* user messages put into the thread, oldest first
  edited,   \* turns that edit an earlier question
  answer,   \* assistant messages
  gone,     \* the thread was deleted, and its messages with it
  cancel,   \* turns with a cancel:stream key
  used,     \* usage:<user>:<day>
  lost,     \* history: tokens of stored answers that will never be counted
  stream    \* the streams

vars == <<request, asked, edited, answer, gone, cancel, used, lost, stream>>

Live == {"opened", "listening", "cancelling", "writing", "counting", "telling"}

StreamState ==
  [at : Live \cup {"off", "over"}, of : Turn \cup {NoTurn}, query : Turn \cup {NoTurn},
   deltas : 0..DeltaCap, tokens : 0..DeltaCap, told : {"nothing", "error", "done"}]

Answer ==
  [status : {"none", "draft", "complete"}, by : Stream \cup {NoStream},
   deltas : 0..DeltaCap, tokens : 0..DeltaCap]

NoAnswer == [status |-> "none", by |-> NoStream, deltas |-> 0, tokens |-> 0]
Draft == [NoAnswer EXCEPT !.status = "draft"]

\* What the client was told last: nothing yet (or it left), error or done.
Fresh(place, t) ==
  [at |-> place, of |-> t, query |-> NoTurn, deltas |-> 0, tokens |-> 0, told |-> "nothing"]

Init ==
  /\ request = [t \in Turn |-> "new"]
  /\ asked = <<>>
  /\ edited = {}
  /\ answer = [t \in Turn |-> NoAnswer]
  /\ gone = FALSE
  /\ cancel = {}
  /\ used = 0
  /\ lost = 0
  /\ stream = [s \in Stream |-> Fresh("off", NoTurn)]

-----------------------------------------------------------------------------
(* Asking: create_message and edit_message                                 *)

Moves(t, from, to) == request[t] = from /\ request' = [request EXCEPT ![t] = to]

Admitted == {"checked", "waved"}

\* Slip: a budget that is used up exactly still lets a question in.
CheckBudgetLate(t) ==
  /\ \/ (Budget > 0 => used <= Budget) /\ Moves(t, "new", "checked")
     \/ Budget > 0 /\ Moves(t, "new", "waved")
  /\ UNCHANGED <<asked, edited, answer, gone, cancel, used, lost, stream>>

\* check_budget, before either handler runs.  Who is refused may try again.  If
\* Redis fails or is not there, get_usage says 0 and the question is let in
\* whatever was used: the handler goes on alike, "waved" only remembers it.
CheckBudget(t) ==
  /\ \/ (Budget > 0 => used < Budget) /\ Moves(t, "new", "checked")
     \/ Budget > 0 /\ Moves(t, "new", "waved")
  /\ UNCHANGED <<asked, edited, answer, gone, cancel, used, lost, stream>>

\* The question: a new message, or a new version of one that is there.
Ask(t) ==
  /\ ~gone
  /\ \E admitted \in Admitted : Moves(t, admitted, "asked")
  /\ asked' = Append(asked, t)
  /\ \/ UNCHANGED edited
     \/ asked # <<>> /\ edited' = edited \cup {t}
  /\ UNCHANGED <<answer, gone, cancel, used, lost, stream>>

\* The draft of its answer.
MakeDraft(t) ==
  /\ ~gone
  /\ Moves(t, "asked", "made")
  /\ answer' = [answer EXCEPT ![t] = Draft]
  /\ UNCHANGED <<asked, edited, gone, cancel, used, lost, stream>>

\* The handler ends between its transactions: a query fails (always, once the
\* thread is deleted) or the process dies.
AskFails(t) ==
  /\ request[t] \in Admitted \cup {"asked"}
  /\ request' = [request EXCEPT ![t] = "failed"]
  /\ UNCHANGED <<asked, edited, answer, gone, cancel, used, lost, stream>>

-----------------------------------------------------------------------------
(* Streaming: stream_message, event_generator and the adapter              *)

At(s, place) == stream[s].at = place
Becomes(s, r) == stream' = [stream EXCEPT ![s] = r]
Goes(s, from, to) == At(s, from) /\ Becomes(s, [stream[s] EXCEPT !.at = to])
Turning(s) == stream[s].of

\* Slip: opening a stream makes the message a draft again.
OpenResets(s, t) ==
  /\ At(s, "off")
  /\ ~gone /\ answer[t] # NoAnswer /\ t \notin edited
  /\ Becomes(s, Fresh("opened", t))
  /\ answer' = [answer EXCEPT ![t] = Draft]
  /\ UNCHANGED <<request, asked, edited, gone, cancel, used, lost>>

\* The message must be there and its user known.  The draft of an edited question
\* is stored with user "anonymous", for which the route answers 401.
Open(s, t) ==
  /\ At(s, "off")
  /\ ~gone /\ answer[t] # NoAnswer /\ t \notin edited
  /\ Becomes(s, Fresh("opened", t))
  /\ UNCHANGED <<request, asked, edited, answer, gone, cancel, used, lost>>

\* Slip: the history read oldest first.
NewestReversed == IF gone \/ asked = <<>> THEN NoTurn ELSE Head(asked)

\* user_query: the newest question of the thread, whosesoever draft this is.
Newest == IF gone \/ asked = <<>> THEN NoTurn ELSE asked[Len(asked)]

\* get_messages_by_thread, later than the look at the message.
Recall(s) ==
  /\ At(s, "opened")
  /\ Becomes(s, [stream[s] EXCEPT !.at = "listening", !.query = Newest])
  /\ UNCHANGED <<request, asked, edited, answer, gone, cancel, used, lost>>

Heeds(s) == Turning(s) \in cancel \ Unmetered

\* total_tokens after the next chunk, which reports usage or does not.
Usage(s) ==
  {stream[s].tokens} \cup (IF Turning(s) \in Unmetered THEN {} ELSE {stream[s].deltas + 1})

\* A chunk of the provider's: a delta, and maybe the usage up to it.
Delta(s) ==
  /\ At(s, "listening") /\ ~Heeds(s)
  /\ stream[s].deltas < DeltaCap
  /\ \E n \in Usage(s) : Becomes(s, [stream[s] EXCEPT !.deltas = @ + 1, !.tokens = n])
  /\ UNCHANGED <<request, asked, edited, answer, gone, cancel, used, lost>>

\* The cancel key is met: the adapter stops, removes the key, whether it is still
\* the one it met or not, and is done with what it has.
Heed(s) ==
  /\ Heeds(s)
  /\ Goes(s, "listening", "cancelling")
  /\ UNCHANGED <<request, asked, edited, answer, gone, cancel, used, lost>>

\* Slip: the chunk is skipped where the loop should be left.
ClearContinues(s) ==
  /\ Goes(s, "cancelling", "listening")
  /\ cancel' = cancel \ {Turning(s)}
  /\ UNCHANGED <<request, asked, edited, answer, gone, used, lost>>

Clear(s) ==
  /\ Goes(s, "cancelling", "writing")
  /\ cancel' = cancel \ {Turning(s)}
  /\ UNCHANGED <<request, asked, edited, answer, gone, used, lost>>

\* The provider ends the answer.
Done(s) ==
  /\ Goes(s, "listening", "writing")
  /\ UNCHANGED <<request, asked, edited, answer, gone, cancel, used, lost>>

\* Slip: the error event does not stop the stream from being completed.
ErrorCompletes(s) ==
  /\ At(s, "listening")
  /\ Becomes(s, [stream[s] EXCEPT !.at = "writing", !.told = "error"])
  /\ UNCHANGED <<request, asked, edited, answer, gone, cancel, used, lost>>

\* An error event of the adapter, an exception, or a client seen to be gone.
Error(s) ==
  /\ stream[s].at \in {"listening", "cancelling"}
  /\ Becomes(s, [stream[s] EXCEPT !.at = "over", !.told = "error"])
  /\ UNCHANGED <<request, asked, edited, answer, gone, cancel, used, lost>>

\* Slip: a stream whose answer is not stored goes on to its end.
WriteSwallows(s) ==
  /\ Goes(s, "writing", "counting")
  /\ UNCHANGED <<request, asked, edited, answer, gone, cancel, used, lost>>

\* update_message: no row is there once the thread is deleted.
Write(s) ==
  /\ Goes(s, "writing", "counting")
  /\ answer' = IF gone THEN answer
               ELSE [answer EXCEPT ![Turning(s)] =
                       [status |-> "complete", by |-> s,
                        deltas |-> stream[s].deltas, tokens |-> stream[s].tokens]]
  /\ UNCHANGED <<request, asked, edited, gone, cancel, used, lost>>

\* The query raises inside the generator's finally: the connection breaks.
WriteFails(s) ==
  /\ Goes(s, "writing", "over")
  /\ UNCHANGED <<request, asked, edited, answer, gone, cancel, used, lost>>

\* Slip: the increment is tried again after it succeeded.
CountAgain(s) ==
  /\ Goes(s, "counting", "telling")
  /\ used' \in {used + stream[s].tokens, used + 2 * stream[s].tokens}
  /\ UNCHANGED <<request, asked, edited, answer, gone, cancel, lost>>

\* increment_token_usage; an error of Redis' is only logged.
Count(s) ==
  /\ Goes(s, "counting", "telling")
  /\ \/ used' = used + stream[s].tokens /\ UNCHANGED lost
     \/ lost' = lost + stream[s].tokens /\ UNCHANGED used
  /\ UNCHANGED <<request, asked, edited, answer, gone, cancel>>

Tell(s) ==
  /\ At(s, "telling")
  /\ Becomes(s, [stream[s] EXCEPT !.at = "over", !.told = "done"])
  /\ UNCHANGED <<request, asked, edited, answer, gone, cancel, used, lost>>

\* The client closes the connection, which cancels the generator where it awaits:
\* its finally then completes nothing.  Or the route fails before it streams.
Leave(s) ==
  /\ stream[s].at \in {"opened", "listening", "telling"}
  /\ Becomes(s, [stream[s] EXCEPT !.at = "over"])
  /\ UNCHANGED <<request, asked, edited, answer, gone, cancel, used, lost>>

\* The process dies.
Crash(s) ==
  /\ stream[s].at \in Live
  /\ Becomes(s, [stream[s] EXCEPT !.at = "over"])
  /\ lost' = IF At(s, "counting") THEN lost + stream[s].tokens ELSE lost
  /\ UNCHANGED <<request, asked, edited, answer, gone, cancel, used>>

-----------------------------------------------------------------------------
(* cancel_stream, its key's expiry, delete_thread                          *)

\* cancel_stream looks at nothing, not even whether the message is streamed.  It
\* is called for messages that are there; other keys nobody would meet.
Cancel(t) ==
  /\ answer[t] # NoAnswer
  /\ cancel' = cancel \cup {t}
  /\ UNCHANGED <<request, asked, edited, answer, gone, used, lost, stream>>

Expire(t) ==
  /\ cancel' = cancel \ {t}
  /\ UNCHANGED <<request, asked, edited, answer, gone, used, lost, stream>>

DeleteThread ==
  /\ ~gone /\ gone' = TRUE
  /\ answer' = [t \in Turn |-> NoAnswer]
  /\ UNCHANGED <<request, asked, edited, cancel, used, lost, stream>>

-----------------------------------------------------------------------------
Work(s) ==
  \/ Recall(s) \/ Delta(s) \/ Heed(s) \/ Clear(s) \/ Done(s) \/ Error(s)
  \/ Write(s) \/ WriteFails(s) \/ Count(s) \/ Tell(s)

Next ==
  \/ \E t \in Turn : CheckBudget(t) \/ Ask(t) \/ MakeDraft(t) \/ AskFails(t)
                       \/ Cancel(t) \/ Expire(t)
  \/ \E s \in Stream : Work(s) \/ Leave(s) \/ Crash(s) \/ \E t \in Turn : Open(s, t)
  \/ DeleteThread

\* asyncio resumes the generator, the provider answers or its client times out.
Fairness == \A s \in Stream : WF_vars(Work(s))

Spec == Init /\ [][Next]_vars /\ Fairness

-----------------------------------------------------------------------------
(* Correctness                                                             *)

TypeOK ==
  /\ request \in [Turn -> {"new", "checked", "waved", "asked", "made", "failed"}]
  /\ asked \in Seq(Turn) /\ edited \subseteq Turn
  /\ answer \in [Turn -> Answer]
  /\ gone \in BOOLEAN /\ cancel \subseteq Turn
  /\ used \in Nat /\ lost \in Nat
  /\ stream \in [Stream -> StreamState]

\* The model is never asked a question older than the one the draft was made
\* for.  (It may well be asked a newer one: the question is looked up when the
\* stream begins, in the thread and not by the draft.)
NeverStale ==
  \A s \in Stream : stream[s].query # NoTurn =>
    \E i, j \in DOMAIN asked :
      i <= j /\ asked[i] = stream[s].of /\ asked[j] = stream[s].query

\* A complete answer is all that one stream of this very message passed on, and
\* no client of that stream was told of an error: streams of the same message
\* may overlap, but never mix.
OneStreamsAnswer ==
  \A t \in Turn : answer[t].status = "complete" =>
    \E s \in Stream :
      /\ answer[t].by = s /\ stream[s].of = t /\ stream[s].told # "error"
      /\ answer[t].deltas = stream[s].deltas /\ answer[t].tokens = stream[s].tokens

\* Who was told "done" finds the message complete, unless the thread is gone.
DoneIsKept ==
  \A s \in Stream : stream[s].told = "done" => gone \/ answer[stream[s].of].status = "complete"

Tokens(S) == MapThenSumSet(LAMBDA s : stream[s].tokens, S)
Underway == Tokens({s \in Stream : At(s, "counting")})
Stored == MapThenSumSet(LAMBDA t : answer[t].tokens, {t \in Turn : answer[t].status = "complete"})

\* PostgreSQL and Redis agree: what complete answers cost is counted, about to be
\* counted or known to be lost, and no stream is counted twice, or at all when it
\* failed.
UsageFollows ==
  /\ Stored <= used + lost + Underway
  /\ used + lost + Underway <=
       Tokens({s \in Stream : stream[s].at \in {"counting", "telling", "over"} /\ stream[s].told # "error"})

\* A question is let in only while the answers that are stored cost less than the
\* budget, but for those whose count is under way or lost, and unless Redis could
\* not be asked what was used: a failing counter stops nobody, and who is let in
\* by one that answers was let in within the budget.
AdmittedWithinBudget ==
  [][\A t \in Turn : request[t] = "new" /\ request'[t] # "new" /\ Budget > 0 =>
       request'[t] = "waved" \/ Stored < Budget + lost + Underway]_vars

\* A complete answer stays complete until its thread is deleted, and changes only
\* into what another stream of the message says.
Settled ==
  [][\A t \in Turn : answer[t].status = "complete" /\ answer'[t] # answer[t] =>
       \/ gone'
       \/ /\ answer'[t].status = "complete" /\ answer'[t].by # answer[t].by
          /\ stream[answer'[t].by].of = t]_vars

\* Whatever comes in between, a stream that was opened ends.
StreamsEnd == \A s \in Stream : stream[s].at \in Live ~> At(s, "over")

=============================================================================
