------------------------------- MODULE AppShell -------------------------------
(***************************************************************************)
(* What App.jsx puts around every page: the search dialogue                *)
(* (GlobalSearchModal.jsx), the keyboard shortcuts (useKeyboardShortcuts,  *)
(* clipboard.js), and what they do to the page underneath.                 *)
(*                                                                         *)
(* The page is the one of EventStream: whenever the shell renders, the     *)
(* page renders with it, and so its event stream is opened anew.  The      *)
(* shell writes nothing of the stream, only that a render is due.          *)
(*                                                                         *)
(* A text of the search box is a number, 0 the empty one.  Copying, the    *)
(* text of the clipboard and what a list of results says are left out: a   *)
(* field only has, or has not, pasted text its component does not know of. *)
(* An error hides the results there were, and here also forgets them.      *)
(***************************************************************************)
EXTENDS EventStream

CONSTANTS
  Texts,    \* texts of the search box
  Short,    \* those of fewer than three characters
  Carried   \* what the address of a request says of a text: up to its & or #

ASSUME ShellAssumption ==
  /\ Texts \subseteq Nat /\ 0 \in Short /\ Short \subseteq Texts
  /\ Carried \in [Texts -> Nat \ {0}]

VARIABLES
  open,     \* isSearchOpen
  text,     \* query: the text the search box knows of
  armed,    \* the half second after a change of the text is running, at the
            \* end of which it is searched for
  asked,    \* per key of a query: the text a request under way is for, or 0
  known,    \* per key: what the results kept are of, or 0; or that it failed
  broken,   \* ErrorBoundary: hasError
  focus,    \* what has the keyboard
  reading,  \* a read of the clipboard for the shortcut, and whether the
            \* keyboard has moved since
  loose     \* text fields that show pasted text their component does not know of

search == <<open, text, armed, asked, known>>
keyboard == <<focus, reading, loose>>
all == <<vars, search, keyboard, broken>>

Field == {"search", "chat"}
Fresh0 == [got |-> 0, error |-> FALSE]
Key(t) == t

ShellTypeOK ==
  /\ open \in BOOLEAN /\ armed \in BOOLEAN
  /\ text \in Texts
  /\ asked \in [Texts -> Texts]
  /\ known \in [Texts -> [got : Nat, error : BOOLEAN]]
  /\ broken \in BOOLEAN /\ focus \in Field \cup {"page"}
  /\ reading \in {"none", "still", "moved"}
  /\ loose \subseteq Field

ShellInit ==
  /\ Init
  /\ open = FALSE /\ text = 0 /\ armed = FALSE
  /\ asked = [t \in Texts |-> 0] /\ known = [t \in Texts |-> Fresh0]
  /\ broken = FALSE /\ focus = "page" /\ reading = "none" /\ loose = {}

-----------------------------------------------------------------------------
(* The page under the shell.                                               *)

\* A render of the shell is one of the whole page.
Disturbs == IF mounted THEN Change(want) ELSE UNCHANGED vars

\* Text that was pasted past a component is gone when that renders again.
Loses(f) == loose' = loose \ {f}

Moves(f) ==
  /\ focus' = f
  /\ reading' = IF reading = "still" /\ f # focus THEN "moved" ELSE reading

\* ChatInput renders for reasons of its own, or is typed into: it then knows.
ChatRenders ==
  /\ "chat" \in loose
  /\ Loses("chat")
  /\ UNCHANGED <<vars, broken, search, focus, reading>>

\* The context's value is new with each of its renders, so what reads it also
\* renders: ChatInput does, and of the pages that of a review.
Consumers ==
  /\ Loses("chat")
  /\ Disturbs \/ UNCHANGED vars
  /\ UNCHANGED <<search, broken>>

\* A button of the sidebar's, which opens or closes it.
TogglesSidebar == ~broken /\ Consumers /\ Moves("page")

\* A room is selected, an error is told, or its five seconds are over.
ContextChanges == Consumers /\ UNCHANGED <<focus, reading>>

\* A render of the page throws.  ErrorBoundary takes it off, its fields too,
\* and nothing but a reload brings another one: there is none here.
Throws ==
  /\ Unmount
  /\ broken' = TRUE
  /\ Loses("chat") /\ Moves(IF focus = "chat" THEN "page" ELSE focus)
  /\ UNCHANGED search

\* The page goes on by itself.
PageGoesOn ==
  /\ Next /\ (broken => ~mounted')
  /\ UNCHANGED <<search, keyboard, broken>>

-----------------------------------------------------------------------------
(* The shortcuts.                                                          *)

Event == [key : {"K", "C", "V"}, mods : SUBSET {"Meta", "Ctrl", "Shift"}]
Chord(key, mods) == [key |-> key, mods |-> mods]

\* The names an event goes by: with what is held, without, and Ctrl for Meta.
Combos(e) ==
  {e, Chord(e.key, {})} \cup
  (IF "Meta" \in e.mods /\ "Ctrl" \notin e.mods
   THEN {Chord(e.key, (e.mods \ {"Meta"}) \cup {"Ctrl"})} ELSE {})

Shortcuts == [search |-> {Chord("K", {"Meta"}), Chord("K", {"Ctrl"})},
              copy |-> {Chord("C", {"Ctrl"})},
              paste |-> {Chord("V", {"Ctrl"})}]

Editable(f) == f \in Field

\* The shortcuts some keys stand for.
Pressed == {what \in DOMAIN Shortcuts : \E e \in Event : Combos(e) \cap Shortcuts[what] # {}}

\* Slip: shortcuts work in text fields as well.
HitsAnywhere(what) == what \in Pressed

Hits(what) == ~Editable(focus) /\ what \in Pressed

\* The box takes the keyboard when it appears.
OpenSearch ==
  /\ Hits("search") /\ ~open
  /\ open' = TRUE /\ text' = 0 /\ armed' = FALSE
  /\ Moves("search") /\ Loses("chat") /\ Disturbs
  /\ UNCHANGED <<broken, asked, known>>

CloseSearch ==
  /\ open
  /\ open' = FALSE /\ text' = 0 /\ armed' = FALSE
  /\ Moves(IF focus = "search" THEN "page" ELSE focus)
  /\ loose' = {} /\ Disturbs
  /\ UNCHANGED <<broken, asked, known>>

\* The clipboard is read while the user goes on; one read at a time here.
Paste ==
  /\ Hits("paste") /\ reading = "none"
  /\ reading' = "still"
  /\ UNCHANGED <<vars, broken, search, focus, loose>>

\* The text goes to the field that has the keyboard now.  React has been told
\* the new value when it was set, and takes the event for no change.
PasteLands ==
  /\ reading # "none" /\ reading' = "none"
  /\ loose' = IF Editable(focus) THEN loose \cup {focus} ELSE loose
  /\ UNCHANGED <<vars, broken, search, focus>>

PasteFails ==
  /\ reading # "none" /\ reading' = "none"
  /\ UNCHANGED <<vars, broken, search, focus, loose>>

Focus(f) ==
  /\ f # focus /\ (f = "search" => open) /\ (f = "chat" => ~broken)
  /\ Moves(f)
  /\ UNCHANGED <<vars, broken, search, loose>>

-----------------------------------------------------------------------------
(* The search.                                                             *)

\* Slip: the half second is not begun again.
TypesOnce(t) ==
  /\ open /\ focus = "search" /\ t # text
  /\ text' = t /\ UNCHANGED armed
  /\ Loses("search")
  /\ UNCHANGED <<vars, broken, open, asked, known, focus, reading>>

Types(t) ==
  /\ open /\ focus = "search" /\ t # text
  /\ text' = t /\ armed' = (t \notin Short)
  /\ Loses("search")
  /\ UNCHANGED <<vars, broken, open, asked, known, focus, reading>>

\* refetch: a request under way is joined unless there are results already.
Refetch(k, t) ==
  /\ asked' = [asked EXCEPT ![k] = IF @ # 0 /\ known[k].got = 0 THEN @ ELSE t]
  /\ known' = [known EXCEPT ![k] = [got |-> known[k].got, error |-> FALSE]]

Debounced ==
  /\ open /\ armed /\ armed' = FALSE
  /\ Refetch(Key(text), text) /\ Loses("search")
  /\ UNCHANGED <<vars, broken, open, text, focus, reading>>

\* What arrives renders the dialogue if it is of its key.
Arrives(k, what) ==
  /\ asked[k] # 0 /\ asked' = [asked EXCEPT ![k] = 0]
  /\ known' = [known EXCEPT ![k] = what]
  /\ IF open /\ k = Key(text) THEN Loses("search") ELSE UNCHANGED loose
  /\ UNCHANGED <<vars, broken, open, text, armed, focus, reading>>

Answers(k) == Arrives(k, [got |-> Carried[asked[k]], error |-> FALSE])
SearchFails(k) == Arrives(k, [got |-> 0, error |-> TRUE])

\* Results nobody looks at are dropped after five minutes.
Collects(k) ==
  /\ known[k] # Fresh0 /\ asked[k] = 0 /\ ~(open /\ k = Key(text))
  /\ known' = [known EXCEPT ![k] = Fresh0]
  /\ UNCHANGED <<vars, broken, open, text, armed, asked, keyboard>>

\* What is under the box.
Listed ==
  LET q == known[Key(text)] IN
  IF q.error THEN "error"
  ELSE IF q.got # 0 THEN "results"
  ELSE IF asked[Key(text)] # 0 THEN "loading" ELSE "nothing"

-----------------------------------------------------------------------------
ShellNext ==
  \/ TogglesSidebar \/ ContextChanges \/ ChatRenders
  \/ OpenSearch \/ CloseSearch \/ Debounced
  \/ Paste \/ PasteLands \/ PasteFails
  \/ \E f \in Field \cup {"page"} : Focus(f)
  \/ \E t \in Texts : Types(t) \/ Answers(t) \/ SearchFails(t) \/ Collects(t)
  \/ Throws \/ PageGoesOn

ShellSpec == ShellInit /\ [][ShellNext]_all

-----------------------------------------------------------------------------
\* The results under the search box are of the text the box shows, as far as
\* the address of the request carries it, whichever answer came last; and a
\* text long enough with nothing under it is about to be asked for.  Only text
\* pasted by the shortcut is in the box without being searched for.
SearchAccounted ==
  (open /\ text \notin Short) =>
    /\ Listed = "results" => known[Key(text)].got = Carried[text]
    /\ Listed = "nothing" => armed

\* The shortcut, which is not for text fields, pastes into one only if the
\* keyboard has moved there while the clipboard was read.
PasteNeedsMove == [][loose' \subseteq loose \/ reading = "moved"]_all
=============================================================================
