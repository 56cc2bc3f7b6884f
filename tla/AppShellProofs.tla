---------------------------- MODULE AppShellProofs ----------------------------
(***************************************************************************)
(* Theorems about EventStream for any urls, any EventSource objects and    *)
(* any number of attempts, and about AppShell: the shell leaves the page's *)
(* event stream as EventStream specifies it, and its search is sound for   *)
(* any texts.                                                              *)
(***************************************************************************)
EXTENDS AppShell, TLAPS

-----------------------------------------------------------------------------
(* The event stream of the page.                                           *)

\* The status the hook has in mind, rendered or not, is that of the
\* connection; a failure is news until the effects of its render replace it.
\* What was rendered last is what was wanted, or a render is due.
PendTells ==
  mounted => /\ Agrees(pend.status)
             /\ due \/ url = want
             /\ pend.status \in {"reconnecting", "failed"} => effects \/ pend.error = "new"

IInv == TypeOK /\ OneChannel /\ PendTells

\* What connect leaves: no connection but the new one, which is for the url it
\* was called for, and no pending retry.
Connected(u) ==
  /\ conn' \in [Conn -> Source] /\ ref' \in Conn \cup {NoConn}
  /\ timer' = NoUrl /\ pend' \in State /\ Live' \subseteq {ref'}
  /\ u = NoUrl => Live' = {} /\ pend' = Fresh
  /\ u # NoUrl => /\ pend'.status = "connecting"
                  /\ \E c \in Live' : conn'[c].at = "connecting"
                  /\ \A c \in Live' : conn'[c].url = u

LEMMA Connecting ==
  ASSUME IInv, NEW u \in Url \cup {NoUrl}, Connect(u)
  PROVE  Connected(u)
<1> USE StreamAssumption DEF IInv, TypeOK, OneChannel, Source, Closed, State, Status, Fresh, Live, Shut, Say, Connected
<1>1. CASE u = NoUrl
  BY <1>1 DEF Connect, Close
<1>2. CASE u # NoUrl
  <2>1. PICK c \in Conn : /\ Shut[c] = Closed
                          /\ conn' = [Shut EXCEPT ![c] = [at |-> "connecting", url |-> u]]
                          /\ ref' = c
    BY <1>2 DEF Connect
  <2>2. \A d \in Conn : Shut[d] = Closed
    OBVIOUS
  <2>3. conn' = [d \in Conn |-> IF d = c THEN [at |-> "connecting", url |-> u] ELSE Closed]
    BY <2>1, <2>2
  <2>4. Live' = {c} /\ conn'[c] = [at |-> "connecting", url |-> u]
    BY <2>1, <2>3
  <2>5. timer' = NoUrl /\ pend' = [status |-> "connecting", error |-> "none"]
    BY <1>2 DEF Connect
  <2>6. conn' \in [Conn -> Source]
    BY <1>2, <2>3
  <2>7. QED
    BY <1>2, <2>1, <2>4, <2>5, <2>6
<1>3. QED
  BY <1>1, <1>2

\* No step of the browser, of the user or of React breaks IInv.
LEMMA StepKeepsIInv == IInv /\ [Next]_vars => IInv'
<1> SUFFICES ASSUME IInv, [Next]_vars PROVE IInv'
  OBVIOUS
<1>0. ASSUME NEW u \in Url \cup {NoUrl}, Connect(u) PROVE Connected(u)
  BY <1>0, Connecting
<1> USE StreamAssumption
     DEF IInv, TypeOK, OneChannel, PendTells, Agrees, State, Status, Fresh, Source, Closed, Live, Shut, Say, Close, Rendered, page, hook
<1>1. ASSUME NEW c \in Conn, Opens(c) PROVE IInv'
  BY <1>1 DEF Opens
<1>2. ASSUME NEW c \in Conn, NEW d \in Datum, Hear(c, d) PROVE IInv'
  BY <1>2 DEF Hear
<1>3. ASSUME NEW c \in Conn, Error(c) PROVE IInv'
  <2>1. conn' = [d \in Conn |-> Closed] /\ conn[c].url \in Url
    BY <1>3 DEF Error
  <2>2. CASE attempts < MaxAttempts
    BY <1>3, <2>1, <2>2 DEF Error
  <2>3. CASE attempts = MaxAttempts
    BY <1>3, <2>1, <2>3 DEF Error
  <2>4. QED
    BY <1>3, <2>2, <2>3 DEF Error
<1>4. ASSUME NEW c \in Conn, Done(c) PROVE IInv'
  BY <1>4 DEF Done
<1>5. CASE Retry
  <2>1. PICK u \in Url \cup {NoUrl} : timer = u /\ Connect(u)
    BY <1>5 DEF Retry, Connect
  <2>2. Connected(u)
    BY <2>1, <1>0
  <2>3. TypeOK'
    BY <1>5, <2>1, <2>2 DEF Retry, Connected
  <2>4. OneChannel'
    BY <1>5, <2>1, <2>2 DEF Retry, Connected
  <2>5. PendTells'
    BY <1>5, <2>1, <2>2 DEF Retry, Connected
  <2>6. QED
    BY <2>3, <2>4, <2>5 DEF IInv
<1>6. CASE Reconnect
  <2>1. PICK u \in Url \cup {NoUrl} : url = u /\ Connect(u)
    BY <1>6 DEF Reconnect, Connect
  <2>2. Connected(u)
    BY <2>1, <1>0
  <2>3. TypeOK'
    BY <1>6, <2>1, <2>2 DEF Reconnect, Connected
  <2>4. OneChannel'
    BY <1>6, <2>1, <2>2 DEF Reconnect, Connected
  <2>5. PendTells'
    BY <1>6, <2>1, <2>2 DEF Reconnect, Connected
  <2>6. QED
    BY <2>3, <2>4, <2>5 DEF IInv
<1>7. ASSUME NEW u \in Url \cup {NoUrl}, Change(u) PROVE IInv'
  BY <1>7 DEF Change
<1>8. ASSUME NEW u \in Url \cup {NoUrl}, Mount(u) PROVE IInv'
  <2>0. /\ mounted' = TRUE /\ due' = FALSE /\ effects' = TRUE /\ ~mounted /\ ~effects
        /\ want' = u /\ url' = u /\ shown' = Fresh /\ pend' = Fresh /\ conn' = conn
        /\ ref' = NoConn /\ timer' = NoUrl /\ attempts' = 0
    BY <1>8 DEF Mount
  <2> HIDE DEF IInv, TypeOK
  <2>1. TypeOK'
    <3>1. mounted' \in BOOLEAN /\ due' \in BOOLEAN /\ effects' \in BOOLEAN
      BY <2>0
    <3>2. QED
      BY <2>0, <3>1 DEF IInv, TypeOK
  <2>2. Live' = {}
    BY <2>0 DEF IInv
  <2>3. OneChannel'
    BY <2>0, <2>2
  <2>4. PendTells'
    BY <2>0, <2>2
  <2>5. QED
    BY <2>1, <2>3, <2>4 DEF IInv
<1>9. CASE Render
  BY <1>9 DEF Render
<1>10. CASE Connects
  <2>1. PICK u \in Url \cup {NoUrl} : url = u /\ Connect(u)
    BY <1>10 DEF Connects, Connect
  <2>2. Connected(u)
    BY <2>1, <1>0
  <2>3. TypeOK'
    BY <1>10, <2>1, <2>2 DEF Connects, Connected
  <2>4. OneChannel'
    BY <1>10, <2>1, <2>2 DEF Connects, Connected
  <2>5. PendTells'
    BY <1>10, <2>1, <2>2 DEF Connects, Connected
  <2>6. QED
    BY <2>3, <2>4, <2>5 DEF IInv
<1>11. CASE Unmount
  <2>0. /\ mounted' = FALSE /\ due' = FALSE /\ effects' = TRUE /\ mounted /\ ~effects
        /\ want' = want /\ url' = url /\ shown' = shown /\ pend' = pend
        /\ conn' = conn /\ ref' = ref /\ timer' = timer /\ attempts' = attempts
    BY <1>11 DEF Unmount
  <2> HIDE DEF IInv, TypeOK
  <2>1. TypeOK'
    <3>1. mounted' \in BOOLEAN /\ due' \in BOOLEAN /\ effects' \in BOOLEAN
      BY <2>0
    <3>2. QED
      BY <2>0, <3>1 DEF IInv, TypeOK
  <2>2. OneChannel'
    BY <2>0 DEF IInv
  <2>3. PendTells'
    BY <2>0
  <2>4. QED
    BY <2>1, <2>2, <2>3 DEF IInv
<1>12. CASE CleansUp
  BY <1>12 DEF CleansUp
<1>13. CASE UNCHANGED vars
  BY <1>13 DEF vars
<1>14. QED
  BY <1>1, <1>2, <1>3, <1>4, <1>5, <1>6, <1>7, <1>8, <1>9, <1>10, <1>11, <1>12, <1>13 DEF Next

LEMMA Initially == Init => IInv
<1> SUFFICES ASSUME Init PROVE IInv
  OBVIOUS
<1> USE StreamAssumption DEF Init, State, Status, Fresh, Source, Closed, Live
<1>1. TypeOK
  <2>1. conn \in [Conn -> Source]
    OBVIOUS
  <2>2. shown \in State /\ shown.error # "new" /\ pend \in State
    OBVIOUS
  <2>3. mounted \in BOOLEAN /\ due \in BOOLEAN /\ effects \in BOOLEAN
    OBVIOUS
  <2>4. QED
    BY <2>1, <2>2, <2>3 DEF TypeOK
<1>2. OneChannel
  BY DEF OneChannel
<1>3. PendTells
  BY DEF PendTells, Agrees
<1>4. QED
  BY <1>1, <1>2, <1>3 DEF IInv

LEMMA Invariance == Spec => []IInv
BY Initially, StepKeepsIInv, PTL DEF Spec

\* The hook's state, the connections, the timer and the attempts keep their
\* types: no more attempts are counted than MAX_RECONNECT_ATTEMPTS.
THEOREM TypeCorrect == Spec => []TypeOK
<1>1. IInv => TypeOK
  BY DEF IInv
<1>2. QED
  BY <1>1, Invariance, PTL

\* However events, renders and effects interleave, a page has one connection at
\* most, no connection next to a pending retry, and none of another url or of a
\* page that is gone once the effects have run.
THEOREM OneConnection == Spec => []OneChannel
<1>1. IInv => OneChannel
  BY DEF IInv
<1>2. QED
  BY <1>1, Invariance, PTL

\* The status of a page that has settled is true of its connection.
THEOREM ShownIsTrue == Spec => []StatusTells
<1>1. IInv => StatusTells
  BY DEF IInv, PendTells, StatusTells, Stale, Banner, TypeOK, State, Status
<1>2. QED
  BY <1>1, Invariance, PTL

\* A page without a connection is never left without one: something is pending
\* that will open it.
THEOREM NeverLeftAlone == Spec => []Recovers
<1>1. IInv => Recovers
  BY DEF IInv, PendTells, Agrees, Recovers, Stale, TypeOK, State, Status
<1>2. QED
  BY <1>1, Invariance, PTL

-----------------------------------------------------------------------------
(* The shell.                                                              *)

\* What is asked for and kept under a key is of the key's text, and a text that
\* is long enough is about to be asked for, or was.
SearchInv ==
  /\ open \in BOOLEAN /\ armed \in BOOLEAN /\ text \in Texts
  /\ asked \in [Texts -> Texts]
  /\ known \in [Texts -> [got : Nat, error : BOOLEAN]]
  /\ \A k \in Texts : asked[k] # 0 => asked[k] = k
  /\ \A k \in Texts : known[k].got # 0 => known[k].got = Carried[k]
  /\ (open /\ text \notin Short) =>
       armed \/ asked[text] # 0 \/ known[text].got # 0 \/ known[text].error

\* A step of the shell is one of the page, or none of the page's.
LEMMA ShellStepIsStreamStep == TypeOK /\ [ShellNext]_all => [Next]_vars
<1> SUFFICES ASSUME TypeOK, [ShellNext]_all PROVE [Next]_vars
  OBVIOUS
<1>1. CASE Disturbs
  BY <1>1 DEF Disturbs, Next, TypeOK
<1>2. CASE UNCHANGED all
  BY <1>2 DEF all
<1>3. CASE Throws \/ PageGoesOn
  BY <1>3 DEF Throws, PageGoesOn, Next
<1>4. CASE CloseSearch \/ OpenSearch
  BY <1>1, <1>4 DEF CloseSearch, OpenSearch
<1>5. CASE UNCHANGED vars
  BY <1>5
<1>6. ASSUME NEW t \in Texts, Types(t) \/ Answers(t) \/ SearchFails(t) \/ Collects(t)
      PROVE  UNCHANGED vars
  BY <1>6 DEF Types, Answers, SearchFails, Arrives, Collects
<1>7. ASSUME NEW f \in Field \cup {"page"}, Focus(f) PROVE UNCHANGED vars
  BY <1>7 DEF Focus
<1>8. CASE Debounced \/ ChatRenders \/ Paste \/ PasteLands \/ PasteFails
  BY <1>5, <1>8 DEF Debounced, ChatRenders, Paste, PasteLands, PasteFails
<1>9. CASE TogglesSidebar \/ ContextChanges
  BY <1>1, <1>5, <1>9 DEF TogglesSidebar, ContextChanges, Consumers
<1>10. QED
  BY <1>2, <1>3, <1>4, <1>5, <1>6, <1>7, <1>8, <1>9 DEF ShellNext

LEMMA ShellKeepsIInv == ShellSpec => []IInv
<1>1. ShellInit => IInv
  <2>1. Init => IInv
    BY Initially
  <2>2. QED
    BY <2>1 DEF ShellInit
<1>2. IInv /\ [ShellNext]_all => IInv'
  <2>1. IInv => TypeOK
    BY DEF IInv
  <2>2. QED
    BY <2>1, ShellStepIsStreamStep, StepKeepsIInv
<1>3. QED
  BY <1>1, <1>2, PTL DEF ShellSpec

\* Whatever the user does with the search dialogue, the keyboard and the
\* clipboard, the page's event stream behaves as EventStream says.
THEOREM ShellImplementsStream == ShellSpec => Spec
<1>1. ShellInit => Init
  BY DEF ShellInit
<1>2. IInv => TypeOK
  BY DEF IInv
<1>3. QED
  BY <1>1, <1>2, ShellKeepsIInv, ShellStepIsStreamStep, PTL DEF ShellSpec, Spec

LEMMA ShellStepKeepsSearchInv == SearchInv /\ [ShellNext]_all => SearchInv'
<1> SUFFICES ASSUME SearchInv, [ShellNext]_all PROVE SearchInv'
  OBVIOUS
<1> USE ShellAssumption DEF SearchInv, Key
<1>1. ASSUME UNCHANGED search PROVE SearchInv'
  BY <1>1 DEF search
<1>2. CASE OpenSearch
  BY <1>2 DEF OpenSearch
<1>3. CASE CloseSearch
  BY <1>3 DEF CloseSearch
<1>4. ASSUME NEW t \in Texts, Types(t) PROVE SearchInv'
  <2>1. /\ open' = open /\ text' = t /\ armed' = (t \notin Short)
        /\ asked' = asked /\ known' = known
    BY <1>4 DEF Types
  <2>2. armed' \in BOOLEAN
    BY <2>1
  <2>3. QED
    BY <2>1, <2>2
<1>5. CASE Debounced
  <2>1. /\ asked' = [asked EXCEPT ![text] = IF @ # 0 /\ known[text].got = 0 THEN @ ELSE text]
        /\ known' = [known EXCEPT ![text] = [got |-> known[text].got, error |-> FALSE]]
        /\ open' = open /\ text' = text /\ armed' = FALSE
    BY <1>5 DEF Debounced, Refetch
  <2>2. \A k \in Texts : known'[k].got = known[k].got
    BY <2>1
  <2>3. known' \in [Texts -> [got : Nat, error : BOOLEAN]]
    BY <2>1
  <2>4. \A k \in Texts : asked'[k] # 0 => asked'[k] = k
    BY <2>1
  <2>5. text \notin Short => text # 0 /\ asked'[text] # 0
    BY <2>1
  <2>6. asked' \in [Texts -> Texts]
    BY <2>1
  <2>7. QED
    BY <2>1, <2>2, <2>3, <2>4, <2>5, <2>6
<1>6. ASSUME NEW k \in Texts, Answers(k) PROVE SearchInv'
  <2>1. /\ asked[k] = k /\ k # 0
        /\ asked' = [asked EXCEPT ![k] = 0]
        /\ known' = [known EXCEPT ![k] = [got |-> Carried[k], error |-> FALSE]]
        /\ open' = open /\ text' = text /\ armed' = armed
    BY <1>6 DEF Answers, Arrives
  <2>2. Carried[k] \in Nat \ {0}
    OBVIOUS
  <2>3. QED
    BY <2>1, <2>2
<1>7. ASSUME NEW k \in Texts, SearchFails(k) PROVE SearchInv'
  BY <1>7 DEF SearchFails, Arrives
<1>8. ASSUME NEW k \in Texts, Collects(k) PROVE SearchInv'
  BY <1>8 DEF Collects, Fresh0
<1>9. ASSUME NEW f \in Field \cup {"page"}, Focus(f) PROVE SearchInv'
  BY <1>1, <1>9 DEF Focus
<1>10. CASE ChatRenders \/ Paste \/ PasteLands \/ PasteFails \/ TogglesSidebar \/ ContextChanges
  BY <1>1, <1>10 DEF ChatRenders, Paste, PasteLands, PasteFails, TogglesSidebar, ContextChanges, Consumers
<1>11. CASE Throws \/ PageGoesOn \/ UNCHANGED all
  BY <1>1, <1>11 DEF all, Throws, PageGoesOn
<1>12. QED
  BY <1>2, <1>3, <1>4, <1>5, <1>6, <1>7, <1>8, <1>9, <1>10, <1>11 DEF ShellNext

\* Late, failed and forgotten answers never put results of another text under
\* the box, nor leave a text unsearched.
THEOREM SearchIsSound == ShellSpec => []SearchAccounted
<1>1. ShellInit => SearchInv
  <2> SUFFICES ASSUME ShellInit PROVE SearchInv
    OBVIOUS
  <2>1. /\ open = FALSE /\ armed = FALSE /\ text = 0 /\ asked = [t \in Texts |-> 0]
        /\ known = [t \in Texts |-> [got |-> 0, error |-> FALSE]]
    BY DEF ShellInit, Fresh0
  <2>2. open \in BOOLEAN /\ armed \in BOOLEAN
    BY <2>1
  <2>3. QED
    BY ShellAssumption, <2>1, <2>2 DEF SearchInv
<1>2. SearchInv => SearchAccounted
  BY ShellAssumption DEF SearchInv, SearchAccounted, Listed, Key
<1>3. QED
  BY <1>1, <1>2, ShellStepKeepsSearchInv, PTL DEF ShellSpec

\* While the keyboard has not moved, it is not in a text field.
KeyboardInv ==
  /\ focus \in Field \cup {"page"} /\ reading \in {"none", "still", "moved"}
  /\ reading = "still" => focus = "page"

LEMMA ShellStepKeepsKeyboardInv == KeyboardInv /\ [ShellNext]_all => KeyboardInv'
<1> SUFFICES ASSUME KeyboardInv, [ShellNext]_all PROVE KeyboardInv'
  OBVIOUS
<1> USE DEF KeyboardInv, Field, Moves
<1>1. ASSUME UNCHANGED <<focus, reading>> PROVE KeyboardInv'
  BY <1>1
<1>2. CASE OpenSearch \/ CloseSearch \/ TogglesSidebar \/ Throws
  BY <1>2 DEF OpenSearch, CloseSearch, TogglesSidebar, Throws
<1>3. CASE Paste
  BY <1>3 DEF Paste, Hits, Editable
<1>4. CASE PasteLands \/ PasteFails
  BY <1>4 DEF PasteLands, PasteFails
<1>5. ASSUME NEW f \in Field \cup {"page"}, Focus(f) PROVE KeyboardInv'
  BY <1>5 DEF Focus
<1>6. ASSUME NEW t \in Texts, Types(t) \/ Answers(t) \/ SearchFails(t) \/ Collects(t)
      PROVE  UNCHANGED <<focus, reading>>
  BY <1>6 DEF Types, Answers, SearchFails, Arrives, Collects, keyboard
<1>7. CASE Debounced \/ ChatRenders \/ ContextChanges
  BY <1>1, <1>7 DEF Debounced, ChatRenders, ContextChanges
<1>8. CASE PageGoesOn \/ UNCHANGED all
  BY <1>1, <1>8 DEF all, keyboard, PageGoesOn
<1>9. QED
  BY <1>1, <1>2, <1>3, <1>4, <1>5, <1>6, <1>7, <1>8 DEF ShellNext

\* What a step pastes past a component, it pastes where the keyboard has moved.
LEMMA ShellStepPastes ==
  KeyboardInv /\ [ShellNext]_all => [loose' \subseteq loose \/ reading = "moved"]_all
<1> SUFFICES ASSUME KeyboardInv, ShellNext PROVE loose' \subseteq loose \/ reading = "moved"
  BY DEF all
<1> USE DEF KeyboardInv, Field, Loses
<1>1. CASE PasteLands
  BY <1>1 DEF PasteLands, Editable
<1>2. CASE OpenSearch \/ CloseSearch \/ Paste \/ PasteFails \/ Debounced \/ ChatRenders
  BY <1>2 DEF OpenSearch, CloseSearch, Paste, PasteFails, Debounced, ChatRenders
<1>3. ASSUME NEW f \in Field \cup {"page"}, Focus(f) PROVE loose' \subseteq loose
  BY <1>3 DEF Focus
<1>4. ASSUME NEW t \in Texts, Types(t) \/ Answers(t) \/ SearchFails(t) \/ Collects(t)
      PROVE  loose' \subseteq loose
  BY <1>4 DEF Types, Answers, SearchFails, Arrives, Collects, keyboard
<1>5. CASE PageGoesOn
  BY <1>5 DEF PageGoesOn, keyboard
<1>6. CASE TogglesSidebar \/ ContextChanges \/ Throws
  BY <1>6 DEF TogglesSidebar, ContextChanges, Consumers, Throws
<1>7. QED
  BY <1>1, <1>2, <1>3, <1>4, <1>5, <1>6 DEF ShellNext

\* However long the clipboard takes, and whatever is opened or typed meanwhile,
\* the shortcut pastes into a text field only after the keyboard has moved.
THEOREM PasteTakesAMove == ShellSpec => PasteNeedsMove
<1>1. ShellInit => KeyboardInv
  BY DEF ShellInit, KeyboardInv
<1>2. QED
  BY <1>1, ShellStepKeepsKeyboardInv, ShellStepPastes, PTL DEF ShellSpec, PasteNeedsMove
===============================================================================
