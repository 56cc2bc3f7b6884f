----------------------------- MODULE EventStream -----------------------------
(***************************************************************************)
(* The server-sent events a page of the React client listens to:           *)
(* useEventSource (hooks/useEventSource.js) and useRealtimeChannel around  *)
(* it.                                                                     *)
(*                                                                         *)
(* React renders the hook's component when its state or its props have     *)
(* changed, and runs the effects of that render later.  useEventSource     *)
(* lists its options among the dependencies of connect, and their default  *)
(* is a new object in every render: whatever renders the component also    *)
(* runs the effect, which closes the connection and opens another one.     *)
(* Events of the browser arrive between all of these steps.                *)
(***************************************************************************)
EXTENDS Integers

CONSTANTS
  Url,          \* addresses of event streams
  NoUrl,        \* nothing to listen to
  Conn,         \* EventSource objects
  NoConn,       \* a reference to none
  MaxAttempts   \* MAX_RECONNECT_ATTEMPTS (3 in the code)

ASSUME StreamAssumption ==
  /\ NoUrl \notin Url
  /\ NoConn \notin Conn
  /\ MaxAttempts \in Nat

VARIABLES
  mounted,    \* the component is on the page
  want,       \* the url of its next render
  url,        \* the url of the render last committed
  due,        \* its props or another state of it have changed since
  effects,    \* the effects of that render, or of the removal, are to run
  shown,      \* the hook's state in that render
  pend,       \* the hook's state with the updates since
  conn,       \* the EventSources
  ref,        \* eventSourceRef
  timer,      \* reconnectTimeoutRef: the url connect was called for
  attempts    \* reconnectAttemptsRef

page == <<mounted, want, url, due, effects, shown>>
hook == <<pend, conn, ref, timer, attempts>>
vars == <<page, hook>>

Status == {"idle", "connecting", "connected", "reconnecting", "failed", "completed"}
\* An error is an object of its own each time: one that was not rendered yet
\* is "new", and differs from the one that was.
State == [status : Status, error : {"none", "old", "new"}]
Fresh == [status |-> "idle", error |-> "none"]

Closed == [at |-> "closed", url |-> NoUrl]
Source == {Closed} \cup [at : {"connecting", "open"}, url : Url]
Live == {c \in Conn : conn[c] # Closed}

TypeOK ==
  /\ mounted \in BOOLEAN /\ due \in BOOLEAN /\ effects \in BOOLEAN
  /\ want \in Url \cup {NoUrl} /\ url \in Url \cup {NoUrl}
  /\ shown \in State /\ shown.error # "new"
  /\ pend \in State
  /\ conn \in [Conn -> Source]
  /\ ref \in Conn \cup {NoConn}
  /\ timer \in Url \cup {NoUrl}
  /\ attempts \in 0..MaxAttempts

Init ==
  /\ mounted = TRUE /\ due = FALSE /\ effects = TRUE
  /\ want \in Url \cup {NoUrl} /\ url = want
  /\ shown = Fresh /\ pend = Fresh
  /\ conn = [c \in Conn |-> Closed]
  /\ ref = NoConn /\ timer = NoUrl /\ attempts = 0

-----------------------------------------------------------------------------
(* The hook.  Updates of its state are queued (pend); the intermediate     *)
(* ones of a step are not seen.                                            *)

\* closeConnection, but for the status.
Shut == [c \in Conn |-> IF c = ref THEN Closed ELSE conn[c]]
Close == conn' = Shut /\ ref' = NoConn /\ timer' = NoUrl
Say(status, error) == pend' = [status |-> status, error |-> error]

Connect(u) ==
  \/ u = NoUrl /\ Close /\ Say("idle", "none")
  \/ /\ u # NoUrl
     /\ \E c \in Conn :
          /\ Shut[c] = Closed
          /\ conn' = [Shut EXCEPT ![c] = [at |-> "connecting", url |-> u]]
          /\ ref' = c
     /\ timer' = NoUrl
     /\ Say("connecting", "none")

\* The server accepts.
Opens(c) ==
  /\ conn[c].at = "connecting"
  /\ conn' = [conn EXCEPT ![c] = [at |-> "open", url |-> conn[c].url]]
  /\ attempts' = 0
  /\ Say("connected", "none")
  /\ UNCHANGED <<page, ref, timer>>

\* What parseRealtimeEvent makes something of; the rest is dropped.
Datum == {"json", "keep-alive", "broken"}
Parses(d) == d = "json"

\* An event, the handler of which changes what the page shows.
Hear(c, d) ==
  /\ conn[c].at = "open" /\ Parses(d)
  /\ due' = mounted
  /\ UNCHANGED <<mounted, want, url, effects, shown, hook>>

\* Slip: the last attempt is given up without telling the page.
ErrorUntold(c) ==
  /\ c \in Live
  /\ conn' = Shut /\ ref' = NoConn
  /\ \/ /\ attempts < MaxAttempts
        /\ attempts' = attempts + 1
        /\ timer' = conn[c].url
        /\ Say("reconnecting", "new")
     \/ /\ attempts = MaxAttempts
        /\ timer' = NoUrl
        /\ UNCHANGED <<attempts, pend>>
  /\ UNCHANGED page

\* The connection breaks, or the server sends an event named "error".  The
\* listener for "error" closes the connection for good (status "failed");
\* then the same event reaches onerror, which closes and retries.
Error(c) ==
  /\ c \in Live
  /\ conn' = Shut /\ ref' = NoConn
  /\ \/ /\ attempts < MaxAttempts
        /\ attempts' = attempts + 1
        /\ timer' = conn[c].url
        /\ Say("reconnecting", "new")
     \/ /\ attempts = MaxAttempts
        /\ timer' = NoUrl
        /\ Say("failed", "new")
        /\ UNCHANGED attempts
  /\ UNCHANGED page

\* The server says "done".
Done(c) ==
  /\ conn[c].at = "open"
  /\ Close
  /\ Say("completed", "none")
  /\ UNCHANGED <<page, attempts>>

\* The delay of a retry is over.
Retry ==
  /\ timer # NoUrl
  /\ Connect(timer)
  /\ UNCHANGED <<page, attempts>>

\* reconnect: the user asks for a new connection.
Reconnect ==
  /\ mounted
  /\ attempts' = 0
  /\ Connect(url)
  /\ UNCHANGED page

\* What ConnectionStatusBanner tells of a status.
Banner(status) ==
  IF status \in {"idle", "connecting", "connected"} THEN "nothing"
  ELSE IF status \in {"reconnecting", "failed"} THEN "lost" ELSE "unknown"

-----------------------------------------------------------------------------
(* React.                                                                  *)

\* Something else on the page changes: a message, the room it shows.
Change(u) ==
  /\ mounted
  /\ want' = u /\ due' = TRUE
  /\ UNCHANGED <<mounted, url, effects, shown, hook>>

Rendered(s) == [status |-> s.status, error |-> IF s.error = "none" THEN "none" ELSE "old"]

\* Updates that leave the state as it was rendered last need no render.
Stale == due \/ pend # shown

\* Slip: the effects run only when the url has changed.
RenderSameChannel ==
  /\ mounted /\ ~effects /\ Stale
  /\ shown' = Rendered(pend)
  /\ pend' = shown'
  /\ url' = want
  /\ due' = FALSE /\ effects' = (want # url)
  /\ UNCHANGED <<mounted, want, conn, ref, timer, attempts>>

Render ==
  /\ mounted /\ ~effects /\ Stale
  /\ shown' = Rendered(pend)
  /\ pend' = shown'
  /\ url' = want
  /\ due' = FALSE /\ effects' = TRUE
  /\ UNCHANGED <<mounted, want, conn, ref, timer, attempts>>

\* The effects of the last render; the cleanup of those before it only does
\* what connect does first.
Connects ==
  /\ mounted /\ effects
  /\ effects' = FALSE
  /\ Connect(url)
  /\ UNCHANGED <<mounted, want, url, due, shown, attempts>>

\* The component leaves the page; its cleanup runs later.
Unmount ==
  /\ mounted /\ ~effects
  /\ mounted' = FALSE /\ due' = FALSE /\ effects' = TRUE
  /\ UNCHANGED <<want, url, shown, hook>>

\* Slip: the cleanup leaves the timer running.
CleansUpSource ==
  /\ ~mounted /\ effects
  /\ effects' = FALSE
  /\ conn' = Shut /\ ref' = NoConn
  /\ Say("idle", pend.error)
  /\ UNCHANGED <<mounted, want, url, due, shown, timer, attempts>>

CleansUp ==
  /\ ~mounted /\ effects
  /\ effects' = FALSE
  /\ Close
  /\ Say("idle", pend.error)
  /\ UNCHANGED <<mounted, want, url, due, shown, attempts>>

\* Another instance of the component.
Mount(u) ==
  /\ ~mounted /\ ~effects
  /\ mounted' = TRUE /\ due' = FALSE /\ effects' = TRUE
  /\ want' = u /\ url' = u
  /\ shown' = Fresh /\ pend' = Fresh
  /\ ref' = NoConn /\ timer' = NoUrl /\ attempts' = 0
  /\ UNCHANGED conn

Next ==
  \/ \E c \in Conn : \/ Opens(c) \/ Error(c) \/ Done(c)
                     \/ \E d \in Datum : Hear(c, d)
  \/ \E u \in Url \cup {NoUrl} : Change(u) \/ Mount(u)
  \/ Retry \/ Reconnect \/ Render \/ Connects \/ Unmount \/ CleansUp

Spec == Init /\ [][Next]_vars

-----------------------------------------------------------------------------
\* The page never has two connections, nor one next to a pending retry; when
\* no effects are outstanding, what it has is for the url it was rendered
\* with, and a page that is gone has nothing.
OneChannel ==
  /\ Live \subseteq {ref}
  /\ timer # NoUrl => Live = {}
  /\ ~effects => /\ \A c \in Live : mounted /\ conn[c].url = url
                 /\ timer # NoUrl => mounted /\ timer = url

\* What the connection has to be for a status to be true.
Agrees(status) ==
  /\ status = "connected" => \E c \in Live : conn[c].at = "open"
  /\ status = "connecting" => \E c \in Live : conn[c].at = "connecting"
  /\ status = "idle" => Live = {} /\ (effects \/ url = NoUrl)
  /\ status = "completed" => Live = {}

\* When React has nothing left to do, the status it shows is that of the
\* connection, and the banner claims no loss.
StatusTells ==
  (mounted /\ ~effects /\ ~Stale) => Agrees(shown.status) /\ Banner(shown.status) # "lost"

\* A page that wants events and has no connection is about to get another one,
\* unless the server has said that it is done: a retry, a render or the effects
\* of one are pending, and every render connects.  So it is after an error event
\* and after the last attempt too, although the hook's comments say that those
\* are the end of it and the banner asks for the page to be loaded again.
Recovers ==
  (mounted /\ want # NoUrl /\ Live = {} /\ pend.status # "completed")
     => timer # NoUrl \/ effects \/ Stale
=============================================================================
