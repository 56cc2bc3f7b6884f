------------------------------ MODULE RoomList ------------------------------
(***************************************************************************)
(* The list of a user's rooms: in the database, in the server's cache, in  *)
(* the client's, and the page that follows from it.                        *)
(*                                                                         *)
(* GET /api/rooms answers from a list kept in Redis, or reads the database *)
(* and keeps what it read.  Whoever creates, renames or deletes a room     *)
(* removes the kept list afterwards; the interactive creation of a review  *)
(* room does not.  The client fetches its list at the start, after its own *)
(* changes, and when the network is back.  Main shows a room only if it is *)
(* on the client's list and turns to the main room otherwise.              *)
(*                                                                         *)
(* A room's name is left out.  A step is one query, one command to Redis   *)
(* or one callback of the browser.                                         *)
(***************************************************************************)
EXTENDS Naturals, FiniteSets

CONSTANTS
  Main,     \* the main room
  Sub,      \* sub rooms, there already or to come
  Review,   \* review rooms
  NoRoom,   \* no room: the start page, no dialogue
  MaxLate   \* a bound: GETs given up that the server still serves; others are lost

Room == {Main} \cup Sub \cup Review

ASSUME RoomListAssumption ==
  /\ Main \notin Sub \cup Review /\ Sub \cap Review = {}
  /\ NoRoom \notin Room /\ MaxLate \in Nat

VARIABLES
  exist,     \* rooms in the database
  gone,      \* rooms that were in it; ids are never used again
  home,      \* the sub room a review room belongs to
  kept,      \* the list in Redis
  late,      \* GETs the client has given up, which the server still serves
  get,       \* the client's GET
  list,      \* the client's list
  page,      \* the room in the address
  renaming, deleting,   \* the rooms of the two dialogues
  change,    \* per room, the request that changes it, one at a time
  astray     \* history: rooms whose change a GET under way had missed, or that
             \* was cut off before the kept list was removed

server == <<exist, gone, home, kept>>
vars == <<server, late, get, list, page, renaming, deleting, change, astray>>

NoList == [there |-> FALSE, rooms |-> {}]
List(rooms) == [there |-> TRUE, rooms |-> rooms]
Lists == [there : BOOLEAN, rooms : SUBSET Room]

NoGet == [at |-> "none", got |-> {}]
Asked == [at |-> "asked", got |-> {}]
NoChange == [to |-> "none", at |-> "none", heard |-> FALSE]

TypeOK ==
  /\ exist \subseteq Room /\ gone \subseteq Room
  /\ home \in [Review -> Sub \cup {NoRoom}]
  /\ kept \in Lists /\ list \in Lists
  /\ late \subseteq [at : {"asked", "read"}, got : SUBSET Room]
  /\ get \in [at : {"none", "asked", "read", "answered"}, got : SUBSET Room]
  /\ page \in Room \cup {NoRoom}
  /\ {renaming, deleting} \subseteq Room \cup {NoRoom}
  /\ change \in [Room -> [to : {"none", "create", "rename", "delete"},
                          at : {"none", "asked", "stored", "done"}, heard : BOOLEAN]]
  /\ astray \subseteq Room

\* The client starts on whatever page its address says.
Init ==
  /\ exist = {Main} /\ gone = {}
  /\ home = [v \in Review |-> NoRoom]
  /\ kept = NoList /\ late = {}
  /\ get = Asked /\ list = NoList
  /\ page \in {NoRoom, Main} \cup Sub
  /\ renaming = NoRoom /\ deleting = NoRoom
  /\ change = [r \in Room |-> NoChange]
  /\ astray = {}

-----------------------------------------------------------------------------
(* The page.                                                               *)

\* Main's effect: a room that is not on the list gives way to the main room.
Lands(p, l) == IF l.there /\ Main \in l.rooms /\ p \notin l.rooms THEN Main ELSE p

\* What there is to see: a note, or the room, of one kind or the other.
Content ==
  IF ~list.there THEN (IF get = NoGet THEN "error" ELSE "loading")
  ELSE IF page \notin list.rooms THEN "nothing"
  ELSE IF page \in Review THEN "review" ELSE "messages"

\* buildRoomHierarchy: a room is under its parent if that is on the list too,
\* and at the top otherwise.
Parent(r) == IF r = Main THEN NoRoom ELSE IF r \in Sub THEN Main ELSE home[r]
Tops == {r \in list.rooms : Parent(r) \notin list.rooms}

\* A room's item has those of the rooms under it, and they theirs.
Children(rooms) == {r \in list.rooms : Parent(r) \in rooms}
Drawn == Tops \cup Children(Tops) \cup Children(Children(Tops))

\* The items of the sidebar, once there is a list.
Items == IF list.there THEN Drawn ELSE {}

\* The GET under way is given up.
GivesUp ==
  late' = IF get.at \in {"asked", "read"} /\ Cardinality(late) < MaxLate
          THEN late \cup {get} ELSE late

\* invalidateQueries, or a reload: another GET, whatever became of the last.
Fetches == get' = Asked /\ GivesUp

Go(r) ==
  /\ r \in Items /\ page' = r
  /\ UNCHANGED <<server, late, get, list, renaming, deleting, change, astray>>

Reload ==
  /\ Fetches
  /\ list' = NoList
  /\ renaming' = NoRoom /\ deleting' = NoRoom
  /\ change' = [r \in Room |-> [change[r] EXCEPT !.heard = FALSE]]
  /\ UNCHANGED <<server, page, astray>>

\* The network is back, and the list is older than staleTime.
Reconnect ==
  /\ list.there /\ get = NoGet
  /\ Fetches
  /\ UNCHANGED <<server, list, page, renaming, deleting, change, astray>>

-----------------------------------------------------------------------------
(* get_rooms.                                                              *)

Hit ==
  /\ get.at = "asked" /\ kept.there
  /\ get' = [at |-> "answered", got |-> kept.rooms]
  /\ UNCHANGED <<server, late, list, page, renaming, deleting, change, astray>>

Read ==
  /\ get.at = "asked" /\ ~kept.there
  /\ get' = [at |-> "read", got |-> exist]
  /\ UNCHANGED <<server, late, list, page, renaming, deleting, change, astray>>

Keep ==
  /\ get.at = "read"
  /\ kept' = List(get.got)
  /\ get' = [get EXCEPT !.at = "answered"]
  /\ UNCHANGED <<exist, gone, home, late, list, page, renaming, deleting, change, astray>>

LateRead(g) ==
  /\ g.at = "asked"
  /\ late' = (late \ {g}) \cup (IF kept.there THEN {} ELSE {[at |-> "read", got |-> exist]})
  /\ UNCHANGED <<server, get, list, page, renaming, deleting, change, astray>>

LateKeep(g) ==
  /\ g.at = "read"
  /\ late' = late \ {g}
  /\ kept' = List(g.got)
  /\ UNCHANGED <<exist, gone, home, get, list, page, renaming, deleting, change, astray>>

Expire ==
  /\ kept.there /\ kept' = NoList
  /\ UNCHANGED <<exist, gone, home, late, get, list, page, renaming, deleting, change, astray>>

Fill ==
  /\ get.at = "answered"
  /\ list' = List(get.got)
  /\ page' = Lands(page, list')
  /\ get' = NoGet
  /\ UNCHANGED <<server, late, renaming, deleting, change, astray>>

\* The GET fails, and so does its retry; the server may not know.
GetFails ==
  /\ get # NoGet
  /\ get' = NoGet
  /\ GivesUp
  /\ UNCHANGED <<server, list, page, renaming, deleting, change, astray>>

-----------------------------------------------------------------------------
(* The dialogues of the sidebar.  They cover the page.                     *)

Uncovered == renaming = NoRoom /\ deleting = NoRoom

RenameClick(r) ==
  /\ Uncovered /\ r \in Items \ {Main}
  /\ renaming' = r
  /\ UNCHANGED <<server, late, get, list, page, deleting, change, astray>>

DeleteClick(r) ==
  /\ Uncovered /\ r \in Items \ {Main}
  /\ deleting' = r
  /\ UNCHANGED <<server, late, get, list, page, renaming, change, astray>>

CloseModal ==
  /\ ~Uncovered
  /\ renaming' = NoRoom /\ deleting' = NoRoom
  /\ UNCHANGED <<server, late, get, list, page, change, astray>>

Starts(r, to) ==
  /\ change[r] = NoChange
  /\ change' = [change EXCEPT ![r] = [to |-> to, at |-> "asked", heard |-> TRUE]]
  /\ UNCHANGED <<server, late, get, list, page, renaming, deleting, astray>>

RenameSave == renaming # NoRoom /\ Starts(renaming, "rename")
DeleteConfirm == deleting # NoRoom /\ Starts(deleting, "delete")

\* The dialogue of RoomCreation, in the page's ChatInput, ends with a POST.
Create(r) ==
  /\ Uncovered /\ Content \in {"review", "messages"}
  /\ r \in (Sub \cup Review) \ (exist \cup gone)
  /\ Starts(r, "create")

-----------------------------------------------------------------------------
(* The server changes the database, removes the kept list, and answers.    *)

Under(r) == {r} \cup {v \in Review : home[v] = r}

Stores(r, to, after) ==
  /\ change[r].to = to /\ change[r].at = "asked"
  /\ change' = [change EXCEPT ![r].at = after]
  /\ UNCHANGED <<kept, late, get, list, page, renaming, deleting, astray>>

StoreSub(s) ==
  /\ s \in Sub
  /\ exist' = exist \cup {s}
  /\ UNCHANGED <<gone, home>>
  /\ Stores(s, "create", "stored")

\* create_interactive_review
StoreReview(v) ==
  /\ v \in Review
  /\ \E s \in Sub \cap exist : home' = [home EXCEPT ![v] = s]
  /\ exist' = exist \cup {v}
  /\ UNCHANGED gone
  /\ Stores(v, "create", "done")

StoreName(r) ==
  /\ r \in exist
  /\ UNCHANGED <<exist, gone, home>>
  /\ Stores(r, "rename", "stored")

\* The rooms under it go with it.
StoreDeletion(r) ==
  /\ r \in exist
  /\ exist' = exist \ Under(r)
  /\ gone' = gone \cup (Under(r) \cap exist)
  /\ UNCHANGED home
  /\ Stores(r, "delete", "stored")

\* The room is gone, the parent is, or a query fails.
Refuse(r) ==
  /\ change[r].at = "asked"
  /\ change' = [change EXCEPT ![r] = NoChange]
  /\ UNCHANGED <<server, late, get, list, page, renaming, deleting, astray>>

\* A GET with a list from before a change has yet to keep it, or to arrive.
Outdated(r) ==
  \E g \in late \cup {get} : g.at \in {"read", "answered"} /\ ((r \in g.got) # (r \in exist))

\* Slip: the kept list stays.
RemoveKeptNot(r) ==
  /\ change[r].at = "stored"
  /\ change' = [change EXCEPT ![r].at = "done"]
  /\ UNCHANGED <<server, late, get, list, page, renaming, deleting, astray>>

RemoveKept(r) ==
  /\ change[r].at = "stored"
  /\ kept' = NoList
  /\ astray' = astray \cup {x \in Under(r) : Outdated(x)}
  /\ change' = [change EXCEPT ![r].at = "done"]
  /\ UNCHANGED <<exist, gone, home, late, get, list, page, renaming, deleting>>

\* The process dies in between.
Crash(r) ==
  /\ change[r].at = "stored"
  /\ astray' = astray \cup Under(r)
  /\ change' = [change EXCEPT ![r] = NoChange]
  /\ UNCHANGED <<server, late, get, list, page, renaming, deleting>>

\* The answer is lost, or nobody waits for it.
Unheard(r) ==
  /\ change[r].at = "done"
  /\ change' = [change EXCEPT ![r] = NoChange]
  /\ UNCHANGED <<server, late, get, list, page, renaming, deleting, astray>>

Heard(r, to) ==
  /\ change[r].to = to /\ change[r].at = "done" /\ change[r].heard
  /\ change' = [change EXCEPT ![r] = NoChange]
  /\ UNCHANGED <<server, astray>>

SubCreated(s) ==
  /\ s \in Sub /\ Heard(s, "create")
  /\ Fetches
  /\ page' = Lands(s, list)
  /\ UNCHANGED <<list, renaming, deleting>>

\* The room is added to the client's list without asking.
ReviewCreated(v) ==
  /\ v \in Review /\ Heard(v, "create")
  /\ list' = List(list.rooms \cup {v})
  /\ page' = Lands(v, list')
  /\ UNCHANGED <<late, get, renaming, deleting>>

\* onSuccess closes the dialogue that is open now.
Renamed(r) ==
  /\ Heard(r, "rename")
  /\ Fetches
  /\ renaming' = NoRoom
  /\ UNCHANGED <<list, page, deleting>>

Deleted(r) ==
  /\ Heard(r, "delete")
  /\ Fetches
  /\ deleting' = NoRoom
  /\ page' = Lands(NoRoom, list)
  /\ UNCHANGED <<list, renaming>>

Next ==
  \/ Reload \/ Reconnect \/ CloseModal \/ RenameSave \/ DeleteConfirm
  \/ Hit \/ Read \/ Keep \/ Fill \/ GetFails \/ Expire
  \/ \E g \in late : LateRead(g) \/ LateKeep(g)
  \/ \E r \in Room :
       \/ Go(r) \/ RenameClick(r) \/ DeleteClick(r) \/ Create(r)
       \/ StoreSub(r) \/ StoreReview(r) \/ StoreName(r) \/ StoreDeletion(r)
       \/ Refuse(r) \/ RemoveKept(r) \/ Crash(r) \/ Unheard(r)
       \/ SubCreated(r) \/ ReviewCreated(r) \/ Renamed(r) \/ Deleted(r)

Spec == Init /\ [][Next]_vars

-----------------------------------------------------------------------------
Wrong(l, r) == (r \in l.rooms) # (r \in exist)
Changing(r) == \E x \in Room : r \in Under(x) /\ change[x].at = "stored"

\* The list in Redis is wrong about a room only while the kept list is about
\* to be removed, or because a GET had read the list before the change and
\* kept it after, or the change was cut off, or the room is a review room,
\* whose creation leaves the kept list alone.
ListAccounted ==
  kept.there => \A r \in Room : Wrong(kept, r) =>
    Changing(r) \/ r \in astray \/ (r \in Review /\ r \in exist)

\* A list that arrives turns the user out of a room there is only for these
\* reasons.
StaysInRoom ==
  [][ Fill /\ page \in exist /\ page' # page
        => page \in Review \/ page \in astray \/ Changing(page) ]_vars
=============================================================================
