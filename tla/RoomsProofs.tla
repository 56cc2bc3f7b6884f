---------------------------- MODULE RoomsProofs ----------------------------
(***************************************************************************)
(* Proofs about RoomList and RoomCreation, the sidebar's two machines:     *)
(* what the kept list may be wrong about and what turns a user out of a    *)
(* room; which prompts are in the lists of messages, and when a dialogue   *)
(* about a review ends.  The two have no variable in common.               *)
(*                                                                         *)
(* RoomList's properties are not inductive: the kept list is wrong because *)
(* a GET had read the database before a change, and the user is turned out *)
(* because such a list arrived.  The invariant Sound says of every copy of *)
(* the list, the kept one and those of the GETs under way or given up,     *)
(* what ListAccounted says of the first.                                   *)
(*                                                                         *)
(* Nor are RoomCreation's: a submission that is answered late takes away   *)
(* the prompt it knows of, so Housed says who knows which prompt; and what *)
(* the server asks next depends on the dialogue that was sent along, so    *)
(* InTurns says when that is the dialogue there is.                        *)
(***************************************************************************)
EXTENDS RoomList, RoomCreation, FiniteSetTheorems, SequenceTheorems, TLAPS

-----------------------------------------------------------------------------
(* The list of rooms: what is said of every copy.                          *)

Change == [to : {"none", "create", "rename", "delete"},
           at : {"none", "asked", "stored", "done"}, heard : BOOLEAN]
Get == [at : {"none", "asked", "read", "answered"}, got : SUBSET Room]

\* A GET that has the rooms, and has yet to keep or to deliver them.
Held == {"read", "answered"}

\* The copies of the list that can still end in Redis or in the client.
Copies ==
  {l.rooms : l \in {x \in {kept} : x.there}}
    \cup {g.got : g \in {x \in late \cup {get} : x.at \in Held}}

\* A list may be wrong about a room for one of three reasons.
Excused(r) == Changing(r) \/ r \in astray \/ (r \in Review /\ r \in exist)
Fair(rooms) == \A r \in Room : (r \in rooms) # (r \in exist) => Excused(r)

Sound == \A rooms \in Copies : Fair(rooms)

-----------------------------------------------------------------------------
(* Types.                                                                  *)

LEMMA InitTyped == Init => TypeOK
BY RoomListAssumption DEF Init, TypeOK, Room, NoChange, NoList, Lists, Asked

\* The change of a room moves on: nothing else of it matters.
LEMMA ChangeTyped ==
  ASSUME TypeOK, NEW r \in Room, NEW a \in {"none", "asked", "stored", "done"},
         change' = [change EXCEPT ![r].at = a]
  PROVE  /\ change' \in [Room -> Change]
         /\ change'[r].at = a
         /\ \A x \in Room : x # r => change'[x] = change[x]
<1>1. change[r] \in Change  BY DEF TypeOK, Change
<1>2. [change[r] EXCEPT !.at = a] \in Change /\ [change[r] EXCEPT !.at = a].at = a
  BY <1>1 DEF Change
<1>3. change' = [change EXCEPT ![r] = [change[r] EXCEPT !.at = a]]
  OBVIOUS
<1> QED BY <1>2, <1>3 DEF TypeOK, Change

\* Another GET, or none, after the last is done with or given up.
LEMMA GetTyped ==
  ASSUME TypeOK, GivesUp
  PROVE  late' \subseteq [at : {"asked", "read"}, got : SUBSET Room]
<1>1. get.at \in {"asked", "read"} => get \in [at : {"asked", "read"}, got : SUBSET Room]
  BY DEF TypeOK
<1> QED BY <1>1 DEF TypeOK, GivesUp

LEMMA LandsInRoom ==
  ASSUME NEW p \in Room \cup {NoRoom}, NEW l
  PROVE  Lands(p, l) \in Room \cup {NoRoom}
BY DEF Lands, Room

LEMMA StepKeepsTyped == TypeOK /\ [Next]_vars => TypeOK'
<1> SUFFICES ASSUME TypeOK, [Next]_vars PROVE TypeOK'
  OBVIOUS
<1> USE RoomListAssumption
<1>1. NoGet \in Get /\ Asked \in Get /\ NoList \in Lists
  BY DEF NoGet, Asked, Get, NoList, Lists
<1>2. \A rooms \in SUBSET Room : List(rooms) \in Lists
  BY DEF List, Lists
<1>3. ASSUME NEW r \in Room, change' = [change EXCEPT ![r] = NoChange]
      PROVE  change' \in [Room -> Change]
  BY <1>3 DEF TypeOK, Change, NoChange
<1>4. get.got \in SUBSET Room
  BY DEF TypeOK
<1>5. Items \subseteq Room
  BY DEF Items, Drawn, Tops, Children, TypeOK, Lists
<1>6. ASSUME NEW r \in Room, Go(r) \/ RenameClick(r) \/ DeleteClick(r)
      PROVE  TypeOK'
  BY <1>5, <1>6 DEF Go, RenameClick, DeleteClick, TypeOK, server
<1>7. CASE Reload
  <2> DEFINE Unheeded(r) == [change[r] EXCEPT !.heard = FALSE]
  <2>1. \A r \in Room : Unheeded(r) \in Change
    <3>1. \A c \in Change : [c EXCEPT !.heard = FALSE] \in Change
      BY DEF Change
    <3> QED BY <3>1 DEF TypeOK, Change
  <2>2. change' = [r \in Room |-> Unheeded(r)]
    BY <1>7, Zenon DEF Reload
  <2> HIDE DEF Unheeded
  <2>3. change' \in [Room -> Change]
    BY <2>1, <2>2
  <2>4. /\ get' = Asked /\ GivesUp /\ list' = NoList /\ renaming' = NoRoom /\ deleting' = NoRoom
        /\ UNCHANGED <<server, page, astray>>
    BY <1>7 DEF Reload, Fetches
  <2> QED BY <1>1, <2>3, <2>4, GetTyped DEF TypeOK, server, Change, Get
<1>8. CASE Reconnect
  BY <1>1, <1>8, GetTyped DEF Reconnect, Fetches, TypeOK, server, Get
<1>9. CASE CloseModal \/ Expire
  BY <1>1, <1>9 DEF CloseModal, Expire, TypeOK, server
<1>10. CASE Hit \/ Read
  <2>1. get' \in Get
    BY <1>10 DEF Hit, Read, TypeOK, Lists, Get
  <2> QED BY <1>10, <2>1 DEF Hit, Read, TypeOK, server, Get
<1>11. CASE Keep
  <2>1. get' \in Get
    BY <1>11 DEF Keep, TypeOK, Get
  <2> QED BY <1>2, <1>4, <1>11, <2>1 DEF Keep, TypeOK, Get
<1>12. CASE Fill
  BY <1>1, <1>2, <1>4, <1>12, LandsInRoom DEF Fill, TypeOK, server, Get
<1>13. CASE GetFails
  BY <1>1, <1>13, GetTyped DEF GetFails, TypeOK, server, Get
<1>14. ASSUME NEW g \in late, LateRead(g)
       PROVE  TypeOK'
  <2>1. [at |-> "read", got |-> exist] \in [at : {"asked", "read"}, got : SUBSET Room]
    BY DEF TypeOK
  <2> QED BY <1>14, <2>1 DEF LateRead, TypeOK, server
<1>15. ASSUME NEW g \in late, LateKeep(g)
       PROVE  TypeOK'
  <2>1. g.got \in SUBSET Room
    BY DEF TypeOK
  <2> QED BY <1>2, <1>15, <2>1 DEF LateKeep, TypeOK
<1>16. ASSUME NEW r, NEW to \in {"create", "rename", "delete"}, Starts(r, to)
       PROVE  TypeOK'
  <2>1. [to |-> to, at |-> "asked", heard |-> TRUE] \in Change
    BY DEF Change
  <2>2. change' \in [Room -> Change]
    BY <1>16, <2>1 DEF Starts, TypeOK, Change
  <2> QED BY <1>16, <2>2 DEF Starts, TypeOK, server, Change
<1>17. CASE RenameSave \/ DeleteConfirm
  BY <1>16, <1>17 DEF RenameSave, DeleteConfirm
<1>18. ASSUME NEW r \in Room, Create(r)
       PROVE  TypeOK'
  BY <1>16, <1>18 DEF Create
<1>19. ASSUME NEW r \in Room, StoreSub(r)
       PROVE  TypeOK'
  BY <1>19, ChangeTyped DEF StoreSub, Stores, TypeOK, Change
<1>20. ASSUME NEW r \in Room, StoreReview(r)
       PROVE  TypeOK'
  <2>1. PICK s \in Sub : home' = [home EXCEPT ![r] = s]
    BY <1>20 DEF StoreReview
  <2>2. home' \in [Review -> Sub \cup {NoRoom}]
    BY <2>1 DEF TypeOK
  <2> QED BY <1>20, <2>2, ChangeTyped DEF StoreReview, Stores, TypeOK, Change
<1>21. ASSUME NEW r \in Room, StoreName(r) \/ StoreDeletion(r)
       PROVE  TypeOK'
  BY <1>21, ChangeTyped DEF StoreName, StoreDeletion, Stores, TypeOK, Change
<1>22. ASSUME NEW r \in Room
       PROVE  Under(r) \subseteq Room
  BY DEF Under, Room
<1>23. ASSUME NEW r \in Room, RemoveKept(r)
       PROVE  TypeOK'
  BY <1>1, <1>22, <1>23, ChangeTyped DEF RemoveKept, TypeOK, Change
<1>24. ASSUME NEW r \in Room, Refuse(r) \/ Crash(r) \/ Unheard(r)
       PROVE  TypeOK'
  BY <1>3, <1>22, <1>24 DEF Refuse, Crash, Unheard, TypeOK, server, Change
<1>25. ASSUME NEW r \in Room, SubCreated(r) \/ Renamed(r) \/ Deleted(r)
       PROVE  TypeOK'
  <2>1. get' \in Get /\ GivesUp /\ change' \in [Room -> Change] /\ UNCHANGED <<server, astray, list>>
    BY <1>1, <1>3, <1>25 DEF SubCreated, Renamed, Deleted, Heard, Fetches
  <2>2. page' \in Room \cup {NoRoom} /\ {renaming', deleting'} \subseteq Room \cup {NoRoom}
    BY <1>25, LandsInRoom DEF SubCreated, Renamed, Deleted, TypeOK
  <2> QED BY <2>1, <2>2, GetTyped DEF TypeOK, server, Change, Get
<1>26. ASSUME NEW r \in Room, ReviewCreated(r)
       PROVE  TypeOK'
  <2>1. list' \in Lists
    BY <1>2, <1>26 DEF ReviewCreated, TypeOK, Lists
  <2> QED
    BY <1>3, <1>26, <2>1, LandsInRoom DEF ReviewCreated, Heard, TypeOK, server, Change
<1>27. CASE UNCHANGED vars
  BY <1>27 DEF vars, server, TypeOK
<1> QED
  BY <1>6, <1>7, <1>8, <1>9, <1>10, <1>11, <1>12, <1>13, <1>14, <1>15, <1>17, <1>18, <1>19,
     <1>20, <1>21, <1>23, <1>24, <1>25, <1>26, <1>27 DEF Next

\* The types are right in every run.
THEOREM TypeCorrect == Spec => []TypeOK
<1>1. TypeOK /\ [Next]_vars => TypeOK'  BY StepKeepsTyped
<1> QED BY InitTyped, <1>1, PTL DEF Spec

-----------------------------------------------------------------------------
(* Every copy of the list is excused for what it is wrong about.           *)

LEMMA InitSound == Init => Sound
BY DEF Init, Sound, Copies, NoList, Asked, Held

\* An excuse stands while the rooms do not change and no change ends that the
\* kept list still has to hear of.
LEMMA ExcusesStand ==
  ASSUME exist' = exist, home' = home, astray \subseteq astray',
         \A x \in Room : change[x].at = "stored" => change'[x].at = "stored"
  PROVE  \A rooms : Fair(rooms) => Fair(rooms)'
BY DEF Fair, Excused, Changing, Under

\* A step is sound if it copies what there is, and excuses the rest.
LEMMA CopiesSound ==
  ASSUME Sound,
         \A rooms \in Copies : Fair(rooms) => Fair(rooms)',
         Copies' \subseteq Copies \cup {exist'}
  PROVE  Sound'
<1>1. \A rooms \in Copies : Fair(rooms)'
  BY DEF Sound
<1>2. \A rooms : rooms = exist' => Fair(rooms)'
  BY DEF Fair
<1>3. \A rooms \in Copies' : Fair(rooms)'
  BY <1>1, <1>2
<1> QED BY <1>3 DEF Sound

\* GETs are made and given up: the copies they had are still there, or lost.
LEMMA GivingUpCopies ==
  ASSUME TypeOK, GivesUp, get' \in {NoGet, Asked}, kept' = kept
  PROVE  Copies' \subseteq Copies
<1>1. \A g \in late' : g \in late \cup {get}
  BY DEF GivesUp
<1>2. get'.at \notin Held
  BY DEF NoGet, Asked, Held
<1> QED BY <1>1, <1>2 DEF Copies

LEMMA StepKeepsSound == TypeOK /\ Sound /\ [Next]_vars => Sound'
<1> SUFFICES ASSUME TypeOK, Sound, [Next]_vars PROVE Sound'
  OBVIOUS
<1>1. \A x \in Room : change[x] \in Change
  BY DEF TypeOK, Change
<1>2. ASSUME UNCHANGED <<exist, home, change, astray>>
      PROVE  \A rooms : Fair(rooms) => Fair(rooms)'
  BY <1>2, ExcusesStand
<1>3. ASSUME UNCHANGED <<kept, late, get>>
      PROVE  Copies' = Copies
  BY <1>3 DEF Copies
<1>4. CASE UNCHANGED <<exist, home, change, astray, kept, late, get>>
  BY <1>2, <1>3, <1>4, CopiesSound
<1>5. CASE Reload
  <2>1. \A x \in Room : change'[x].at = change[x].at
    <3> SUFFICES ASSUME NEW x \in Room PROVE change'[x].at = change[x].at
      OBVIOUS
    <3>1. change'[x] = [change[x] EXCEPT !.heard = FALSE]
      BY <1>5 DEF Reload
    <3> QED BY <1>1, <3>1 DEF Change
  <2>2. UNCHANGED <<exist, home, kept, astray>> /\ GivesUp /\ get' = Asked
    BY <1>5 DEF Reload, Fetches, server
  <2> QED BY <2>1, <2>2, ExcusesStand, GivingUpCopies, CopiesSound
<1>6. CASE Reconnect \/ GetFails
  BY <1>2, <1>6, GivingUpCopies, CopiesSound DEF Reconnect, Fetches, GetFails, server
<1>7. CASE Hit \/ Read
  <2>1. Copies' \subseteq Copies \cup {exist'}
    BY <1>7 DEF Hit, Read, Copies, server
  <2> QED BY <1>2, <1>7, <2>1, CopiesSound DEF Hit, Read, server
<1>8. CASE Keep
  <2>1. get.at \in Held /\ get'.got = get.got /\ kept'.rooms = get.got /\ late' = late
    BY <1>8 DEF Keep, TypeOK, List, Held
  <2>2. Copies' \subseteq Copies
    BY <2>1 DEF Copies
  <2> QED BY <1>2, <1>8, <2>2, CopiesSound DEF Keep
<1>9. CASE Fill \/ Expire
  <2>1. Copies' \subseteq Copies
    BY <1>9 DEF Fill, Expire, Copies, Held, NoGet, NoList, server
  <2> QED BY <1>2, <1>9, <2>1, CopiesSound DEF Fill, Expire, server
<1>10. ASSUME NEW g \in late, LateRead(g)
       PROVE  Sound'
  <2>1. Copies' \subseteq Copies \cup {exist'}
    BY <1>10 DEF LateRead, Copies, server
  <2> QED BY <1>2, <1>10, <2>1, CopiesSound DEF LateRead, server
<1>11. ASSUME NEW g \in late, LateKeep(g)
       PROVE  Sound'
  <2>1. Copies' \subseteq Copies
    BY <1>11 DEF LateKeep, Copies, Held, List
  <2> QED BY <1>2, <1>11, <2>1, CopiesSound DEF LateKeep
<1>12. ASSUME NEW r, NEW to, Starts(r, to)
       PROVE  Sound'
  <2>1. UNCHANGED <<server, late, get, astray>>
    BY <1>12 DEF Starts
  <2>2. \A x \in Room : change[x].at = "stored" => change'[x].at = "stored"
    BY <1>12 DEF Starts, TypeOK, NoChange
  <2> QED BY <2>1, <2>2, <1>3, ExcusesStand, CopiesSound DEF server
<1>13. CASE RenameSave \/ DeleteConfirm
  BY <1>12, <1>13 DEF RenameSave, DeleteConfirm
<1>14. ASSUME NEW r \in Room, Create(r)
       PROVE  Sound'
  BY <1>12, <1>14 DEF Create
\* What was stored of other changes is stored still.
<1>15. ASSUME NEW r \in Room, NEW to, NEW after \in {"stored", "done"}, Stores(r, to, after)
       PROVE  /\ UNCHANGED <<kept, late, get, astray>>
              /\ change'[r].at = after
              /\ \A x \in Room : change[x].at = "stored" => change'[x].at = "stored"
  BY <1>15, ChangeTyped DEF Stores
<1>16. ASSUME NEW r \in Room, StoreSub(r)
       PROVE  Sound'
  <2>1. exist' = exist \cup {r} /\ home' = home /\ Stores(r, "create", "stored")
    BY <1>16 DEF StoreSub
  <2>2. \A rooms \in Copies : Fair(rooms) => Fair(rooms)'
    BY <1>15, <2>1 DEF Fair, Excused, Changing, Under
  <2> QED BY <1>3, <1>15, <2>1, <2>2, CopiesSound
<1>17. ASSUME NEW r \in Room, StoreReview(r)
       PROVE  Sound'
  <2>1. /\ r \in Review /\ exist' = exist \cup {r} /\ Stores(r, "create", "done")
        /\ \A v \in Review : v # r => home'[v] = home[v]
    BY <1>17 DEF StoreReview, TypeOK
  <2>2. \A rooms \in Copies : Fair(rooms) => Fair(rooms)'
    BY <1>15, <2>1 DEF Fair, Excused, Changing, Under
  <2> QED BY <1>3, <1>15, <2>1, <2>2, CopiesSound
<1>18. ASSUME NEW r \in Room, StoreName(r)
       PROVE  Sound'
  <2>1. exist' = exist /\ home' = home /\ Stores(r, "rename", "stored")
    BY <1>18 DEF StoreName
  <2> QED BY <1>3, <1>15, <2>1, ExcusesStand, CopiesSound
<1>19. ASSUME NEW r \in Room, StoreDeletion(r)
       PROVE  Sound'
  <2>1. exist' = exist \ Under(r) /\ home' = home /\ Stores(r, "delete", "stored")
    BY <1>19 DEF StoreDeletion
  <2>2. \A rooms \in Copies : Fair(rooms) => Fair(rooms)'
    BY <1>15, <2>1 DEF Fair, Excused, Changing, Under
  <2> QED BY <1>3, <1>15, <2>1, <2>2, CopiesSound
\* The kept list goes, and what a GET under way was wrong about is astray.
<1>20. ASSUME NEW r \in Room, RemoveKept(r)
       PROVE  Sound'
  <2>1. /\ kept' = NoList /\ astray' = astray \cup {x \in Under(r) : Outdated(x)}
        /\ UNCHANGED <<exist, home, late, get>>
        /\ \A x \in Room : x # r => change'[x] = change[x]
    BY <1>20, ChangeTyped DEF RemoveKept
  <2>2. Copies' \subseteq {g.got : g \in {x \in late \cup {get} : x.at \in Held}}
    BY <2>1 DEF Copies, NoList
  <2>3. ASSUME NEW g \in late \cup {get}, g.at \in Held
        PROVE  Fair(g.got)'
    <3>1. Fair(g.got)
      BY <2>3 DEF Sound, Copies
    <3>2. \A x \in Room : x \in Under(r) /\ ((x \in g.got) # (x \in exist)) => x \in astray'
      BY <2>1, <2>3 DEF Outdated, Held
    <3> QED BY <2>1, <3>1, <3>2 DEF Fair, Excused, Changing, Under
  <2> QED BY <2>2, <2>3 DEF Sound
<1>21. ASSUME NEW r \in Room, Crash(r)
       PROVE  Sound'
  <2>1. \A rooms \in Copies : Fair(rooms) => Fair(rooms)'
    BY <1>21 DEF Crash, TypeOK, Fair, Excused, Changing, Under, server
  <2> QED BY <1>3, <1>21, <2>1, CopiesSound DEF Crash, server
\* A change that has not been stored, or whose kept list is removed, ends.
<1>22. ASSUME NEW r \in Room, change[r].at # "stored", change' = [change EXCEPT ![r] = NoChange],
              UNCHANGED <<server, astray>>
       PROVE  \A rooms : Fair(rooms) => Fair(rooms)'
  <2>1. \A x \in Room : change[x].at = "stored" => change'[x].at = "stored"
    BY <1>22 DEF TypeOK
  <2> QED BY <1>22, <2>1, ExcusesStand DEF server
<1>23. ASSUME NEW r \in Room, Refuse(r) \/ Unheard(r)
       PROVE  Sound'
  BY <1>3, <1>22, <1>23, CopiesSound DEF Refuse, Unheard, server
<1>24. ASSUME NEW r \in Room, SubCreated(r) \/ Renamed(r) \/ Deleted(r)
       PROVE  Sound'
  <2>1. Fetches /\ \E to : Heard(r, to)
    BY <1>24 DEF SubCreated, Renamed, Deleted
  <2> QED BY <1>22, <2>1, GivingUpCopies, CopiesSound DEF Heard, Fetches, server
<1>25. ASSUME NEW r \in Room, ReviewCreated(r)
       PROVE  Sound'
  BY <1>3, <1>22, <1>25, CopiesSound DEF ReviewCreated, Heard, server
<1>26. CASE UNCHANGED vars
  BY <1>4, <1>26 DEF vars, server
<1>27. CASE CloseModal
  BY <1>4, <1>27 DEF CloseModal, server
<1>28. ASSUME NEW r \in Room, Go(r) \/ RenameClick(r) \/ DeleteClick(r)
       PROVE  Sound'
  BY <1>4, <1>28 DEF Go, RenameClick, DeleteClick, server
<1> QED
  BY <1>5, <1>6, <1>7, <1>8, <1>9, <1>10, <1>11, <1>13, <1>14, <1>16, <1>17, <1>18, <1>19, <1>20,
     <1>21, <1>23, <1>24, <1>25, <1>26, <1>27, <1>28 DEF Next

LEMMA SoundHolds == Spec => [](TypeOK /\ Sound)
<1>1. Init => TypeOK /\ Sound
  BY InitTyped, InitSound
<1>2. TypeOK /\ Sound /\ [Next]_vars => (TypeOK /\ Sound)'
  BY StepKeepsTyped, StepKeepsSound
<1> QED BY <1>1, <1>2, PTL DEF Spec

\* For any rooms and any number of GETs given up: the list that Redis has is
\* wrong about a room only while a change of it is between the database and
\* the removal of the kept list, or a GET had read before such a change what
\* it kept after it, or the server died in between, or the room is a review
\* room, whose creation removes nothing.
THEOREM KeptListExcused == Spec => []ListAccounted
<1>1. Sound => ListAccounted
  BY DEF Sound, Copies, Fair, Excused, ListAccounted, Wrong
<1> QED BY SoundHolds, <1>1, PTL

\* A list that arrives turns the user out of a room that there is only for one
\* of these reasons: a list is no worse when it arrives than when it was kept.
THEOREM NoEviction == Spec => StaysInRoom
<1>1. TypeOK /\ Sound /\ [Next]_vars =>
        [ Fill /\ page \in exist /\ page' # page
            => page \in Review \/ page \in astray \/ Changing(page) ]_vars
  <2> SUFFICES ASSUME TypeOK, Sound, Fill, page \in exist, page' # page
               PROVE  page \in Review \/ page \in astray \/ Changing(page)
    OBVIOUS
  <2>1. page \in Room /\ page \notin get.got
    BY DEF Fill, Lands, List, TypeOK
  <2>2. Fair(get.got)
    BY DEF Fill, Sound, Copies, Held
  <2> QED BY <2>1, <2>2 DEF Fair, Excused
<1> QED BY SoundHolds, <1>1, PTL DEF Spec, StaysInRoom

-----------------------------------------------------------------------------
(* Creating rooms: what is said of the prompts and of the dialogue.        *)

Mutation == [at : {"none", "asked", "over"}, type : {"none", "sub", "review"},
             parent : Place \cup {Elsewhere}, prompt : Prompt, history : Seq(Text),
             saw : SubRoom \cup {Elsewhere}, here : BOOLEAN]

Request == [type : {"none", "sub", "review"}, parent : Place \cup {Elsewhere},
            text : Text, prompt : Prompt]
Conversation == [parent : SubRoom \cup {Elsewhere}, history : Seq(Text)]

\* Requests and submissions are of the rooms their kind is for.
CreationTypes ==
  /\ place \in Place \cup {Elsewhere}
  /\ request \in Request
  /\ review \in Conversation
  /\ prompts \subseteq Place \X Prompt /\ saved \subseteq Place \X Prompt
  /\ posts \in [Post -> Mutation]
  /\ clicks \in 0..MaxClicks
  /\ replaced \subseteq Prompt /\ overlapped \in BOOLEAN
  /\ review.parent = Elsewhere => review = NoReview
  /\ request.type # "none" => request.parent \in Place
  /\ request.type = "review" =>
       /\ request.parent \in SubRoom
       /\ request.text.by \in {"review?", "question", "offer"}
  /\ \A i \in Post : Awaited(i) =>
       /\ posts[i].parent \in Place
       /\ posts[i].type = "review" => posts[i].parent \in SubRoom

\* The ids given out.
Used == 1..clicks \cup {PromptOf(i) : i \in {j \in Post : posts[j].at = "over"}}
Belongs(p, r) == \A x \in prompts \cup saved : x[2] = p => x[1] = r

\* A prompt is in one room only, which who holds its id knows.
Housed ==
  /\ \A x \in prompts \cup saved : x[2] \in Used
  /\ request.prompt \in Used \cup {0} /\ Belongs(request.prompt, request.parent)
  /\ \A i \in Post : Awaited(i) =>
       posts[i].prompt \in Used \cup {0} /\ Belongs(posts[i].prompt, posts[i].parent)

Reviewing(i) == Awaited(i) /\ posts[i].type = "review"

\* A dialogue in which the user and the server take turns.
InTurns ==
  /\ \A i, j \in Post : Reviewing(i) /\ Reviewing(j) => i = j
  /\ \A i \in Post : Reviewing(i) =>
       /\ review = [parent |-> posts[i].parent, history |-> posts[i].history]
       /\ posts[i].here \/ posts[i].saw = posts[i].parent
  /\ request.type = "review" /\ request.text # Said("review?") =>
       /\ review.parent = request.parent
       /\ request.text.by = "question" => request.text \in Questions(review.history)
  /\ review.parent # Elsewhere =>
       /\ review.history # <<>> /\ review.history[1] = Said("review?")
       /\ Cardinality(Questions(review.history)) <= MaxAttempts - 1

-----------------------------------------------------------------------------
(* Dialogues.                                                              *)

LEMMA TextsTyped ==
  /\ \A by \in {"sub?", "review?", "line", "offer"} : Said(by) \in Text /\ Said(by).by = by
  /\ \A i \in Post : Question(i) \in Text /\ Question(i).by = "question"
BY DEF Said, Question, Text

LEMMA QuestionsJoin ==
  ASSUME NEW g \in Seq(Text), NEW h \in Seq(Text)
  PROVE  Questions(g \o h) = Questions(g) \cup Questions(h)
<1>1. ASSUME NEW x \in Questions(g \o h) PROVE x \in Questions(g) \cup Questions(h)
  <2>1. PICK n \in 1..Len(g \o h) : (g \o h)[n].by = "question" /\ x = (g \o h)[n]
    BY <1>1 DEF Questions
  <2>2. CASE n <= Len(g)
    BY <2>1, <2>2 DEF Questions
  <2>3. CASE n > Len(g)
    <3>1. n - Len(g) \in 1..Len(h) /\ (g \o h)[n] = h[n - Len(g)]
      BY <2>1, <2>3
    <3> QED
      BY <2>1, <3>1 DEF Questions
  <2> QED
    BY <2>2, <2>3
<1>2. ASSUME NEW x \in Questions(g) PROVE x \in Questions(g \o h)
  <2>1. PICK n \in 1..Len(g) : g[n].by = "question" /\ x = g[n]
    BY <1>2 DEF Questions
  <2>2. n \in 1..Len(g \o h) /\ (g \o h)[n] = g[n]
    OBVIOUS
  <2> QED
    BY <2>1, <2>2 DEF Questions
<1>3. ASSUME NEW x \in Questions(h) PROVE x \in Questions(g \o h)
  <2>1. PICK n \in 1..Len(h) : h[n].by = "question" /\ x = h[n]
    BY <1>3 DEF Questions
  <2>2. n + Len(g) \in 1..Len(g \o h) /\ (g \o h)[n + Len(g)] = h[n]
    OBVIOUS
  <2> QED
    BY <2>1, <2>2 DEF Questions
<1> QED
  BY <1>1, <1>2, <1>3

LEMMA QuestionsShort ==
  ASSUME NEW s \in Text, NEW t \in Text, t.by # "question"
  PROVE  /\ Questions(<<>>) = {}
         /\ Questions(<<s>>) = IF s.by = "question" THEN {s} ELSE {}
         /\ Questions(<<s, t>>) = IF s.by = "question" THEN {s} ELSE {}
<1>1. Questions(<<>>) = {}
  BY DEF Questions
<1>2. Questions(<<s>>) = IF s.by = "question" THEN {s} ELSE {}
  BY DEF Questions
<1>3. Questions(<<s, t>>) = IF s.by = "question" THEN {s} ELSE {}
  <2> DEFINE h == <<s, t>>
  <2>1. 1..Len(h) = {1, 2} /\ h[1] = s /\ h[2] = t
    OBVIOUS
  <2> HIDE DEF h
  <2>2. Questions(h) = IF s.by = "question" THEN {s} ELSE {}
    BY <2>1 DEF Questions
  <2> QED
    BY <2>2 DEF h
<1> QED
  BY <1>1, <1>2, <1>3

LEMMA Joined ==
  ASSUME NEW s \in Text, NEW t \in Text
  PROVE  <<s>> \o <<t>> = <<s, t>> /\ <<>> \o <<t>> = <<t>> /\ <<>> \o <<s, t>> = <<s, t>>
<1>1. <<s>> \in Seq(Text) /\ <<t>> \in Seq(Text) /\ <<s, t>> \in Seq(Text)
  OBVIOUS
<1>2. <<s>> \o <<t>> \in Seq(Text) /\ Len(<<s>> \o <<t>>) = 2 /\ (<<s>> \o <<t>>)[1] = s /\ (<<s>> \o <<t>>)[2] = t
  BY <1>1, ConcatProperties
<1>3. <<s>> \o <<t>> = <<s, t>>
  <2>1. \A i \in 1..2 : (<<s>> \o <<t>>)[i] = <<s, t>>[i]
    BY <1>2
  <2> QED
    BY <1>1, <1>2, <2>1, SeqEqual
<1> QED
  BY <1>1, <1>3, ConcatEmptySeq

\* The sidebar's prompt opens the dialogue, so there are fewer questions in it
\* than prompts, however often a question was repeated.
LEMMA FewerQuestions ==
  ASSUME NEW h \in Seq(Text), h # <<>>, h[1] = Said("review?")
  PROVE  /\ IsFiniteSet(Questions(h))
         /\ Cardinality(Questions(h)) \in Nat /\ Cardinality(Prompts(h)) \in Nat
         /\ Cardinality(Questions(h)) <= Cardinality(Prompts(h)) - 1
<1> DEFINE S == {m \in 1..Len(h) : h[m].by = "question"}
           P == Prompts(h) \ {1}
           f == [m \in S |-> h[m]]
<1>1. Len(h) \in Nat /\ Len(h) >= 1
  OBVIOUS
<1>2. IsFiniteSet(1..Len(h))
  BY <1>1, FS_Interval
<1>3. IsFiniteSet(Prompts(h))
  BY <1>2, FS_Subset DEF Prompts
<1>4. 1 \in Prompts(h)
  BY <1>1 DEF Prompts, Prompting, Said
<1>5. IsFiniteSet(P) /\ Cardinality(P) = Cardinality(Prompts(h)) - 1
  BY <1>3, <1>4, FS_RemoveElement
<1>6. S \subseteq P
  BY DEF Prompts, Prompting, Said
<1>7. IsFiniteSet(S) /\ Cardinality(S) <= Cardinality(P)
  BY <1>5, <1>6, FS_Subset
<1>8. f \in Surjection(S, Questions(h))
  BY DEF Questions, Surjection
<1>9. IsFiniteSet(Questions(h)) /\ Cardinality(Questions(h)) <= Cardinality(S)
  BY <1>7, <1>8, FS_Surjection
<1>10. /\ Cardinality(P) \in Nat /\ Cardinality(S) \in Nat
       /\ Cardinality(Questions(h)) \in Nat /\ Cardinality(Prompts(h)) \in Nat
  BY <1>3, <1>5, <1>7, <1>9, FS_CardinalityType
<1> QED
  BY <1>5, <1>7, <1>9, <1>10

-----------------------------------------------------------------------------
(* Types.                                                                  *)

LEMMA NothingTyped ==
  /\ MainRoom \in Place /\ SubRoom \subseteq Place /\ Elsewhere \notin Place
  /\ NoRequest \in Request /\ NoRequest.type = "none" /\ NoRequest.prompt = 0
  /\ NoReview \in Conversation /\ NoReview.parent = Elsewhere /\ NoReview.history = <<>>
  /\ NoPost \in Mutation /\ NoPost.at = "none"
  /\ Over \in Mutation /\ Over.at = "over"
  /\ 0 \in Prompt /\ \A i \in Post : PromptOf(i) \in Prompt /\ PromptOf(i) > MaxClicks
  /\ \A n \in 0..MaxClicks : n \in Prompt
<1>1. <<>> \in Seq(Text)
  OBVIOUS
<1>2. MainRoom \in Place /\ SubRoom \subseteq Place /\ Elsewhere \notin Place
  BY RoomCreationAssumption DEF Place
<1>3. /\ 0 \in Prompt /\ \A n \in 0..MaxClicks : n \in Prompt
      /\ \A i \in Post : PromptOf(i) \in Prompt /\ PromptOf(i) > MaxClicks
  BY RoomCreationAssumption DEF Prompt, PromptOf, Post
<1>4. NoPost \in Mutation /\ NoPost.at = "none"
  BY <1>1, <1>3 DEF NoPost, Mutation
<1>5. Over \in Mutation /\ Over.at = "over"
  BY <1>4 DEF Over, Mutation
<1> QED
  BY <1>1, <1>2, <1>3, <1>4, <1>5, TextsTyped DEF NoRequest, NoReview, Request, Conversation

\* A submission whose ChatInput is taken off the page.
Left(m, r) == [m EXCEPT !.here = FALSE, !.saw = r]

LEMMA LeavingTyped ==
  ASSUME NEW m \in Mutation, NEW r \in SubRoom \cup {Elsewhere}
  PROVE  /\ Left(m, r) \in Mutation
         /\ Left(m, r).at = m.at /\ Left(m, r).type = m.type /\ Left(m, r).parent = m.parent
         /\ Left(m, r).prompt = m.prompt /\ Left(m, r).history = m.history
         /\ Left(m, r).here = FALSE /\ Left(m, r).saw = r
BY DEF Mutation, Left

LEMMA AllLeave ==
  ASSUME posts \in [Post -> Mutation], NEW r \in SubRoom \cup {Elsewhere}
  PROVE  \A i \in Post :
           /\ posts[i] \in Mutation /\ Left(posts[i], r) \in Mutation
           /\ Left(posts[i], r).at = posts[i].at /\ Left(posts[i], r).type = posts[i].type
           /\ Left(posts[i], r).parent = posts[i].parent /\ Left(posts[i], r).prompt = posts[i].prompt
           /\ Left(posts[i], r).history = posts[i].history
           /\ Left(posts[i], r).here = FALSE /\ Left(posts[i], r).saw = r
<1> SUFFICES ASSUME NEW i \in Post PROVE posts[i] \in Mutation
  BY LeavingTyped
<1> QED
  OBVIOUS

LEMMA MutationFields ==
  ASSUME NEW m \in Mutation
  PROVE  m.at \in {"none", "asked", "over"} /\ m.history \in Seq(Text)
BY DEF Mutation

\* A dialogue that goes on.
LEMMA HistoryGrows ==
  ASSUME review \in Conversation, review.parent = Elsewhere => review = NoReview,
         NEW h \in Seq(Text), AddReviewRoomHistory(h)
  PROVE  /\ review' \in Conversation /\ review'.parent = review.parent
         /\ review'.parent = Elsewhere => review' = NoReview
         /\ review # NoReview => review'.history = review.history \o h
<1>1. CASE review = NoReview
  BY <1>1 DEF AddReviewRoomHistory
<1>2. CASE review # NoReview
  <2>1. review.history \o h \in Seq(Text)
    BY DEF Conversation
  <2>2. review' = [review EXCEPT !.history = review.history \o h]
    BY <1>2 DEF AddReviewRoomHistory
  <2> QED
    BY <1>2, <2>1, <2>2 DEF Conversation
<1> QED
  BY <1>1, <1>2

\* The user turns to a page.
LEMMA TurnTyped ==
  ASSUME posts \in [Post -> Mutation], review \in Conversation, NEW p \in Place \cup {Elsewhere},
         NEW keeps \in BOOLEAN, Turn(p, keeps)
  PROVE  /\ posts' \in [Post -> Mutation]
         /\ \A j \in Post :
              /\ posts'[j].at = posts[j].at /\ posts'[j].type = posts[j].type
              /\ posts'[j].parent = posts[j].parent /\ posts'[j].prompt = posts[j].prompt
              /\ posts'[j].history = posts[j].history
              /\ posts'[j].here \/ posts'[j].saw = IF posts[j].here THEN review.parent ELSE posts[j].saw
<1> DEFINE left(j) == Left(posts[j], review.parent)
<1>1. review.parent \in SubRoom \cup {Elsewhere}
  BY DEF Conversation
<1>2. \A j \in Post : /\ posts[j] \in Mutation /\ left(j) \in Mutation /\ left(j).at = posts[j].at
                      /\ left(j).type = posts[j].type /\ left(j).parent = posts[j].parent
                      /\ left(j).prompt = posts[j].prompt /\ left(j).history = posts[j].history
                      /\ left(j).saw = review.parent
  BY <1>1, AllLeave
<1>3. UNCHANGED posts \/ posts' = [j \in Post |-> IF posts[j].here THEN left(j) ELSE posts[j]]
  BY DEF Turn, Left
<1> HIDE DEF left
<1> QED
  BY <1>2, <1>3

\* A submission ends, and with it the page.
LEMMA EndsTyped ==
  ASSUME posts \in [Post -> Mutation], review' \in Conversation, NEW i \in Post, Ends(i)
  PROVE  /\ posts' \in [Post -> Mutation] /\ posts'[i].at = "over"
         /\ \A j \in Post \ {i} :
              /\ posts'[j].at = posts[j].at /\ posts'[j].type = posts[j].type
              /\ posts'[j].parent = posts[j].parent /\ posts'[j].prompt = posts[j].prompt
              /\ posts'[j].history = posts[j].history
              /\ posts'[j].here \/ posts'[j].saw = IF posts[j].here THEN review'.parent ELSE posts[j].saw
<1> DEFINE left(j) == Left(posts[j], review'.parent)
<1>1. review'.parent \in SubRoom \cup {Elsewhere}
  BY DEF Conversation
<1>2. \A j \in Post : /\ posts[j] \in Mutation /\ left(j) \in Mutation /\ left(j).at = posts[j].at
                      /\ left(j).type = posts[j].type /\ left(j).parent = posts[j].parent
                      /\ left(j).prompt = posts[j].prompt /\ left(j).history = posts[j].history
                      /\ left(j).saw = review'.parent
  BY <1>1, AllLeave
<1>3. posts' = [j \in Post |-> IF j = i THEN Over ELSE IF posts[j].here THEN left(j) ELSE posts[j]]
  BY DEF Ends, Left
<1> HIDE DEF left
<1> QED
  BY <1>2, <1>3, NothingTyped

LEMMA CreationInitTyped == CreationInit => CreationTypes
<1> SUFFICES ASSUME CreationInit PROVE CreationTypes
  OBVIOUS
<1>1. posts \in [Post -> Mutation] /\ \A i \in Post : posts[i].at = "none"
  BY NothingTyped DEF CreationInit
<1>2. /\ request.type = "none" /\ request \in Request /\ review \in Conversation /\ review = NoReview
      /\ place \in Place
  BY NothingTyped DEF CreationInit
<1>3. clicks \in 0..MaxClicks
  BY RoomCreationAssumption DEF CreationInit
<1> QED
  BY <1>1, <1>2, <1>3 DEF CreationInit, CreationTypes, Awaited

\* Submissions keep their types when ChatInputs are taken off the page.
LEMMA CreationTyped == CreationTypes /\ [CreationNext]_creation => CreationTypes'
<1> SUFFICES ASSUME CreationTypes, [CreationNext]_creation PROVE CreationTypes'
  OBVIOUS
<1> USE RoomCreationAssumption, TextsTyped, NothingTyped, MutationFields DEF CreationTypes, Awaited
<1>0. review.parent \in SubRoom \cup {Elsewhere} /\ review.history \in Seq(Text)
  BY DEF Conversation
<1>1. ASSUME NEW p \in Place \cup {Elsewhere}, Visit(p) PROVE CreationTypes'
  <2>1. PICK keeps \in BOOLEAN : Turn(p, keeps)
    BY <1>1 DEF Visit
  <2>2. place' = p
    BY <2>1 DEF Turn
  <2> QED
    BY <1>1, <2>1, <2>2, TurnTyped DEF Visit
<1>2. ASSUME NEW r \in Place, Refetch(r) PROVE CreationTypes'
  BY <1>2 DEF Refetch
<1>3. ASSUME CreateSubRoom PROVE CreationTypes'
  BY <1>3 DEF CreateSubRoom, PlusButton, StartRoomCreation, Request
<1>4. ASSUME NEW s \in SubRoom, CreateReviewRoom(s) PROVE CreationTypes'
  BY <1>4 DEF CreateReviewRoom, PlusButton, StartRoomCreation, Request
<1>5. CASE CancelCreation
  BY <1>5 DEF CancelCreation, RemovePrompt
<1>6. ASSUME NEW i \in Post, SubmitName(i) PROVE CreationTypes'
  BY <1>6 DEF Mutation, SubmitName, Submits, Requested, Request
<1>7. ASSUME NEW i \in Post, SubmitTopic(i) PROVE CreationTypes'
  <2>1. place \in SubRoom /\ request.text \in Text /\ request.prompt \in Prompt
    BY <1>7 DEF SubmitTopic, Requested, Request
  <2>2. Added \in Seq(Text) /\ Dialogue \in Seq(Text)
    <3>1. <<request.text>> \in Seq(Text) /\ <<Said("line")>> \in Seq(Text) /\ <<>> \in Seq(Text)
      BY <2>1
    <3>2. Added \in Seq(Text)
      BY <3>1 DEF Added
    <3> QED
      BY <1>0, <3>1, <3>2 DEF Dialogue, Before
  <2>3. /\ review' \in Conversation
        /\ review'.parent = Elsewhere => review' = NoReview
    BY <1>7, <2>1, <2>2, HistoryGrows DEF SubmitTopic, StartReviewRoomCreation, Conversation
  <2>4. posts' \in [Post -> Mutation]
    BY <1>7, <2>1, <2>2 DEF SubmitTopic, Submits, Mutation
  <2>5. \A j \in Post : posts'[j].at = "asked" =>
          \/ posts'[j] = posts[j]
          \/ posts'[j].type = "review" /\ posts'[j].parent \in SubRoom
    BY <1>7, <2>1 DEF SubmitTopic, Submits
  <2> QED
    BY <1>7, <2>3, <2>4, <2>5 DEF SubmitTopic, Submits
<1>8. ASSUME NEW i \in Post, SubRoomCreated(i) PROVE CreationTypes'
  <2>1. review' = review /\ Ends(i)
    BY <1>8 DEF SubRoomCreated
  <2>2. /\ place' \in Place \cup {Elsewhere} /\ request' = NoRequest /\ prompts' \subseteq Place \X Prompt
        /\ replaced' \subseteq Prompt /\ UNCHANGED <<saved, clicks, overlapped>>
    BY <1>8 DEF SubRoomCreated, RemovePrompt, ClearRoomCreation, Request
  <2> QED
    BY <2>1, <2>2, EndsTyped
<1>9. ASSUME NEW i \in Post, ReviewRoomCreated(i) PROVE CreationTypes'
  <2>1. review' = NoReview /\ Ends(i)
    BY <1>9 DEF ReviewRoomCreated
  <2>2. /\ place' \in Place \cup {Elsewhere} /\ request' = NoRequest /\ prompts' \subseteq Place \X Prompt
        /\ replaced' \subseteq Prompt /\ UNCHANGED <<saved, clicks, overlapped>>
    BY <1>9 DEF ReviewRoomCreated, RemovePrompt, ClearRoomCreation, Request
  <2> QED
    BY <2>1, <2>2, EndsTyped
<1>10. ASSUME NEW i \in Post, NeedsMoreContext(i) PROVE CreationTypes'
  <2>1. PICK text \in Wants(i) : /\ AddsQuestion(i, text)
                                 /\ StartRoomCreation(posts[i].parent, "review", text, PromptOf(i))
    BY <1>10 DEF NeedsMoreContext
  <2>2. text \in Text /\ text.by \in {"question", "offer"}
    BY <2>1 DEF Wants
  <2>3. <<text>> \in Seq(Text)
    BY <2>2
  <2>4. /\ review' \in Conversation
        /\ review'.parent = Elsewhere => review' = NoReview
    BY <2>1, <2>3, HistoryGrows DEF AddsQuestion
  <2>5. posts[i].parent \in SubRoom
    BY <1>10 DEF NeedsMoreContext
  <2>6. /\ request' \in Request /\ request'.type = "review"
        /\ request'.parent = posts[i].parent /\ request'.text = text
    BY <2>1, <2>2, <2>5 DEF StartRoomCreation, Request
  <2>7. replaced' \subseteq Prompt
    BY <2>1 DEF StartRoomCreation, Request
  <2>8. /\ posts' \in [Post -> Mutation]
        /\ \A j \in Post : posts'[j].at = "asked" => posts'[j] = posts[j]
    BY <1>10 DEF NeedsMoreContext
  <2>9. /\ UNCHANGED <<place, clicks, overlapped>>
        /\ prompts' \subseteq Place \X Prompt /\ saved' \subseteq Place \X Prompt
    BY <1>10, <2>5 DEF NeedsMoreContext
  <2> QED
    BY <2>2, <2>4, <2>5, <2>6, <2>7, <2>8, <2>9
<1>11. ASSUME NEW i \in Post, Fails(i) PROVE CreationTypes'
  BY <1>11 DEF Mutation, Fails
<1>12. CASE UNCHANGED creation
  BY <1>12 DEF creation
<1> QED
  BY <1>1, <1>2, <1>3, <1>4, <1>5, <1>6, <1>7, <1>8, <1>9, <1>10, <1>11, <1>12 DEF CreationNext

-----------------------------------------------------------------------------
(* The prompts.                                                            *)

\* A prompt that is new is in no list yet, and nobody holds its id.
LEMMA FreshIds ==
  ASSUME CreationTypes
  PROVE  /\ 0 \notin Used
         /\ clicks + 1 \notin Used \cup {0} \/ clicks = MaxClicks
         /\ \A i \in Post : posts[i].at # "over" => PromptOf(i) \notin Used \cup {0}
BY RoomCreationAssumption DEF CreationTypes, Used, PromptOf, Post

LEMMA InitHoused == CreationInit => Housed /\ PromptsAccounted
BY NothingTyped DEF CreationInit, Housed, Belongs, Used, PromptsAccounted, NoRequest, NoPost, Awaited

LEMMA StepHoused ==
  CreationTypes /\ Housed /\ PromptsAccounted /\ [CreationNext]_creation => Housed' /\ PromptsAccounted'
<1> SUFFICES ASSUME CreationTypes, Housed, PromptsAccounted, [CreationNext]_creation
             PROVE  Housed' /\ PromptsAccounted'
  OBVIOUS
<1> USE DEF Housed, PromptsAccounted, Belongs, Awaited
<1>0. /\ posts \in [Post -> Mutation] /\ clicks \in Nat /\ review \in Conversation
      /\ prompts \subseteq Place \X Prompt /\ saved \subseteq Place \X Prompt
  BY RoomCreationAssumption DEF CreationTypes
<1>1. ASSUME NEW p \in Place \cup {Elsewhere}, Visit(p) PROVE Housed' /\ PromptsAccounted'
  <2>1. PICK keeps \in BOOLEAN : Turn(p, keeps)
    BY <1>1 DEF Visit
  <2>2. \A j \in Post : /\ posts'[j].at = posts[j].at /\ posts'[j].prompt = posts[j].prompt
                        /\ posts'[j].parent = posts[j].parent
    BY <1>0, <2>1, TurnTyped
  <2>3. Used' = Used
    BY <1>1, <2>2 DEF Visit, Used
  <2> QED
    BY <1>1, <2>2, <2>3 DEF Visit
<1>2. ASSUME NEW r \in Place, Refetch(r) PROVE Housed' /\ PromptsAccounted'
  BY <1>2 DEF Refetch, Used
<1>3. ASSUME NEW r \in Place, NEW type, NEW text, PlusButton(r, type, text) PROVE Housed' /\ PromptsAccounted'
  <2>1. clicks + 1 \notin Used \cup {0} /\ 0 \notin Used
    BY <1>3, <1>0, FreshIds DEF PlusButton
  <2>2. Used' = Used \cup {clicks + 1}
    BY <1>3, <1>0 DEF PlusButton, Used
  <2>3. /\ prompts' = prompts \cup {<<r, clicks + 1>>} /\ UNCHANGED <<saved, posts>>
        /\ request'.parent = r /\ request'.prompt = clicks + 1
        /\ replaced' = replaced \cup ({request.prompt} \ {0, clicks + 1})
    BY <1>3 DEF PlusButton, StartRoomCreation
  <2>4. Housed'
    BY <2>1, <2>2, <2>3
  <2>5. PromptsAccounted'
    <3> SUFFICES ASSUME NEW x \in prompts' \ saved' PROVE x[2] = request'.prompt \/ x[2] \in replaced'
      OBVIOUS
    <3> QED
      BY <2>1, <2>3
  <2> QED
    BY <2>4, <2>5
<1>4. CASE CancelCreation
  <2>1. Used' = Used
    BY <1>4 DEF CancelCreation, Used
  <2>2. /\ prompts' = prompts \ {<<request.parent, request.prompt>>} /\ UNCHANGED <<saved, posts, replaced>>
        /\ request' = request \/ request' = NoRequest
    BY <1>4 DEF CancelCreation, RemovePrompt
  <2>3. \A x \in prompts' : x[2] # request.prompt
    BY <1>0, <2>2
  <2>4. 0 \notin Used /\ NoRequest.prompt = 0
    BY <1>0, NothingTyped, RoomCreationAssumption DEF Used, PromptOf, Post
  <2> QED
    BY <2>1, <2>2, <2>3, <2>4
<1>5. ASSUME NEW i \in Post, NEW type, NEW history, Submits(i, type, history), Requested(place)
      PROVE  Housed' /\ PromptsAccounted'
  <2>1. Used' = Used
    BY <1>0, <1>5 DEF Submits, Used
  <2>2. UNCHANGED <<request, prompts, saved, replaced>>
    BY <1>5 DEF Submits
  <2>3. /\ posts'[i].prompt = request.prompt /\ posts'[i].parent = request.parent
        /\ \A j \in Post \ {i} : posts'[j] = posts[j]
    BY <1>0, <1>5 DEF Submits, Requested
  <2> QED
    BY <2>1, <2>2, <2>3
<1>6. ASSUME NEW i \in Post, Awaited(i), Ends(i), review' \in Conversation,
             RemovePrompt(posts[i].parent, posts[i].prompt), ClearRoomCreation(posts[i].prompt),
             UNCHANGED <<saved, clicks>>
      PROVE  Housed' /\ PromptsAccounted'
  <2>1. /\ posts'[i].at = "over"
        /\ \A j \in Post \ {i} : /\ posts'[j].at = posts[j].at /\ posts'[j].prompt = posts[j].prompt
                                 /\ posts'[j].parent = posts[j].parent
    BY <1>0, <1>6, EndsTyped
  <2>2. Used \subseteq Used'
    BY <1>6, <2>1 DEF Used
  <2>3. /\ prompts' = prompts \ {<<posts[i].parent, posts[i].prompt>>} /\ request' = NoRequest
        /\ replaced' = replaced \cup ({request.prompt} \ {0, posts[i].prompt})
    BY <1>6 DEF RemovePrompt, ClearRoomCreation
  <2>4. \A x \in prompts' : x[2] # posts[i].prompt
    BY <1>0, <1>6, <2>3
  <2>5. 0 \notin Used' /\ NoRequest.prompt = 0 /\ 0 \notin Used
    BY <1>0, <1>6, NothingTyped, RoomCreationAssumption DEF Used, PromptOf, Post
  <2>6. Housed'
    BY <1>6, <2>1, <2>2, <2>3, <2>5
  <2>7. PromptsAccounted'
    BY <1>6, <2>3, <2>4, <2>5
  <2> QED
    BY <2>6, <2>7
<1>7. ASSUME NEW i \in Post, NeedsMoreContext(i) PROVE Housed' /\ PromptsAccounted'
  <2>1. PromptOf(i) \notin Used \cup {0} /\ 0 \notin Used
    BY <1>7, FreshIds DEF NeedsMoreContext
  <2>2. posts'[i].at = "over" /\ \A j \in Post \ {i} : posts'[j] = posts[j]
    BY <1>0, <1>7, NothingTyped DEF NeedsMoreContext
  <2>3. Used' = Used \cup {PromptOf(i)}
    BY <1>7, <2>2 DEF NeedsMoreContext, Used
  <2>4. /\ prompts' = prompts \cup {<<posts[i].parent, PromptOf(i)>>}
        /\ saved' = saved \/ saved' = saved \cup {<<posts[i].parent, PromptOf(i)>>}
        /\ request'.parent = posts[i].parent /\ request'.prompt = PromptOf(i)
        /\ replaced' = replaced \cup ({request.prompt} \ {0, PromptOf(i)})
    BY <1>7 DEF NeedsMoreContext, StartRoomCreation
  <2>5. Housed'
    BY <2>1, <2>2, <2>3, <2>4
  <2>6. PromptsAccounted'
    BY <2>1, <2>4
  <2> QED
    BY <2>5, <2>6
<1>8. ASSUME NEW i \in Post, Fails(i) PROVE Housed' /\ PromptsAccounted'
  <2>1. posts'[i].at = "over" /\ \A j \in Post \ {i} : posts'[j] = posts[j]
    BY <1>0, <1>8, NothingTyped DEF Fails
  <2>2. Used \subseteq Used'
    BY <1>8, <2>1 DEF Fails, Used
  <2> QED
    BY <1>8, <2>1, <2>2 DEF Fails
<1>9. CASE UNCHANGED creation
  BY <1>9 DEF creation, Used
<1> QED
  <2>1. ASSUME CreateSubRoom \/ \E s \in SubRoom : CreateReviewRoom(s) PROVE Housed' /\ PromptsAccounted'
    BY <1>3, <2>1, NothingTyped DEF CreateSubRoom, CreateReviewRoom
  <2>2. ASSUME NEW i \in Post, SubmitName(i) \/ SubmitTopic(i) PROVE Housed' /\ PromptsAccounted'
    BY <1>5, <2>2 DEF SubmitName, SubmitTopic
  <2>3. ASSUME NEW i \in Post, SubRoomCreated(i) \/ ReviewRoomCreated(i) PROVE Housed' /\ PromptsAccounted'
    BY <1>0, <1>6, <2>3, NothingTyped DEF SubRoomCreated, ReviewRoomCreated
  <2> QED
    BY <1>1, <1>2, <1>4, <1>7, <1>8, <1>9, <2>1, <2>2, <2>3 DEF CreationNext

-----------------------------------------------------------------------------
(* The dialogue.                                                           *)

LEMMA InitInTurns == CreationInit => InTurns
BY NothingTyped DEF CreationInit, InTurns, Reviewing, Awaited, NoPost

LEMMA StepInTurns ==
  CreationTypes /\ (~overlapped => InTurns) /\ [CreationNext]_creation => (~overlapped => InTurns)'
<1> SUFFICES ASSUME CreationTypes, ~overlapped => InTurns, [CreationNext]_creation, ~overlapped'
             PROVE  InTurns'
  OBVIOUS
<1>0. InTurns
  BY DEF CreationNext, creation, Visit, Refetch, CreateSubRoom, CreateReviewRoom, PlusButton, CancelCreation,
         SubmitName, SubmitTopic, SubRoomCreated, ReviewRoomCreated, NeedsMoreContext, Fails
<1>t. /\ posts \in [Post -> Mutation] /\ review \in Conversation /\ request \in Request
      /\ review.parent = Elsewhere => review = NoReview
      /\ \A i \in Post : Reviewing(i) => posts[i].parent \in SubRoom
      /\ request.type = "review" => request.parent \in SubRoom /\ request.text.by \in {"review?", "question", "offer"}
      /\ Elsewhere \notin SubRoom
  BY RoomCreationAssumption DEF CreationTypes, Reviewing
<1> USE <1>0, <1>t DEF Awaited, InTurns, Reviewing
<1>1. ASSUME NEW p \in Place \cup {Elsewhere}, Visit(p) PROVE InTurns'
  <2>1. PICK keeps \in BOOLEAN : Turn(p, keeps)
    BY <1>1 DEF Visit
  <2>2. \A j \in Post : /\ posts'[j].at = posts[j].at /\ posts'[j].type = posts[j].type
                        /\ posts'[j].history = posts[j].history /\ posts'[j].parent = posts[j].parent
                        /\ posts'[j].here \/ posts'[j].saw = IF posts[j].here THEN review.parent ELSE posts[j].saw
    BY <2>1, TurnTyped
  <2>3. \A j \in Post : Reviewing(j) => posts'[j].here \/ posts'[j].saw = posts[j].parent
    BY <2>2
  <2> QED
    BY <1>1, <2>2, <2>3 DEF Visit
<1>2. ASSUME NEW r \in Place, Refetch(r) PROVE InTurns'
  BY <1>2 DEF Refetch
<1>3. ASSUME CreateSubRoom PROVE InTurns'
  BY <1>3 DEF CreateSubRoom, PlusButton, StartRoomCreation
<1>4. ASSUME NEW s \in SubRoom, CreateReviewRoom(s) PROVE InTurns'
  BY <1>4 DEF CreateReviewRoom, PlusButton, StartRoomCreation
<1>5. CASE CancelCreation
  <2>1. \A i \in Post : ~Reviewing(i)
    BY <1>5 DEF CancelCreation
  <2>2. /\ UNCHANGED posts
        /\ request' = IF Requested(place) THEN NoRequest ELSE request
        /\ review' = IF Talking(place) THEN NoReview ELSE review
    BY <1>5 DEF CancelCreation
  <2> QED
    BY <2>1, <2>2, NothingTyped DEF Requested, Talking
<1>6. ASSUME NEW i \in Post, SubmitName(i) PROVE InTurns'
  <2>1. UNCHANGED <<request, review>>
    BY <1>6 DEF SubmitName, Submits
  <2>2. posts'[i].type = "sub" /\ \A j \in Post \ {i} : posts'[j] = posts[j]
    BY <1>6 DEF SubmitName, Submits
  <2> QED
    BY <2>1, <2>2
<1>7. ASSUME NEW i \in Post, SubmitTopic(i) PROVE InTurns'
  <2> DEFINE line == Said("line")
  <2>1. \A j \in Post : ~Reviewing(j)
    BY <1>7 DEF SubmitTopic
  <2>2. /\ request.type = "review" /\ place = request.parent /\ place \in SubRoom /\ request.text \in Text
        /\ line \in Text /\ line.by = "line" /\ UNCHANGED request
    BY <1>7, TextsTyped DEF SubmitTopic, Requested, Submits, Request
  <2>3. /\ posts'[i].parent = place /\ posts'[i].history = Dialogue /\ posts'[i].here
        /\ \A j \in Post \ {i} : posts'[j] = posts[j]
    BY <1>7 DEF SubmitTopic, Submits
  <2>4. CASE Talking(place)
    <3>1. review.history \in Seq(Text) /\ review.parent = place /\ review # NoReview
      BY <2>2, <2>4, NothingTyped DEF Conversation, Talking
    <3>2. Added \in {<<line>>, <<request.text, line>>}
      BY <2>2, Joined DEF Added
    <3>3. Added \in Seq(Text)
      <4>1. <<line>> \in Seq(Text) /\ <<request.text, line>> \in Seq(Text)
        BY <2>2
      <4> QED
        BY <3>2, <4>1
    <3>4. review' \in Conversation /\ review'.parent = place /\ review'.history = review.history \o Added
      BY <1>7, <2>4, <3>1, <3>3, HistoryGrows DEF SubmitTopic
    <3>5. review' = [parent |-> place, history |-> Dialogue]
      BY <2>4, <3>4 DEF Conversation, Dialogue, Before
    <3>6. Questions(review'.history) = Questions(review.history) \cup Questions(Added)
      BY <3>1, <3>3, <3>4, QuestionsJoin
    <3>7. Questions(Added) \subseteq {x \in {request.text} : x.by = "question"}
      BY <2>2, <3>2, QuestionsShort
    <3>8. Questions(review'.history) = Questions(review.history)
      BY <2>2, <3>1, <3>6, <3>7, TextsTyped
    <3>9. review'.history # <<>> /\ review'.history[1] = review.history[1]
      BY <2>2, <3>1, <3>3, <3>4
    <3> QED
      BY <2>1, <2>2, <2>3, <3>1, <3>4, <3>5, <3>8, <3>9
  <2>5. CASE ~Talking(place)
    <3>1. request.text = Said("review?")
      BY <2>2, <2>5 DEF Talking
    <3>2. Dialogue = <<request.text, line>>
      BY <2>2, <2>5, Joined DEF Dialogue, Before, Added
    <3>3. review' = [parent |-> place, history |-> Dialogue]
      BY <1>7, <2>5 DEF SubmitTopic, StartReviewRoomCreation
    <3>4. Questions(review'.history) = {}
      BY <2>2, <3>1, <3>2, <3>3, QuestionsShort, TextsTyped
    <3>5. Cardinality(Questions(review'.history)) <= MaxAttempts - 1
      BY <3>4, FS_EmptySet, RoomCreationAssumption
    <3> QED
      BY <2>1, <2>2, <2>3, <3>1, <3>2, <3>3, <3>5
  <2> QED
    BY <2>4, <2>5
<1>8. ASSUME NEW i \in Post, SubRoomCreated(i) PROVE InTurns'
  <2>1. /\ review' = review /\ request' = NoRequest /\ Ends(i) /\ posts[i].type = "sub"
    BY <1>8 DEF SubRoomCreated, ClearRoomCreation
  <2>2. /\ posts'[i].at = "over"
        /\ \A j \in Post \ {i} :
             /\ posts'[j].at = posts[j].at /\ posts'[j].type = posts[j].type
             /\ posts'[j].history = posts[j].history /\ posts'[j].parent = posts[j].parent
             /\ posts'[j].here \/ posts'[j].saw = IF posts[j].here THEN review'.parent ELSE posts[j].saw
    BY <2>1, EndsTyped
  <2>3. \A j \in Post : Reviewing(j)' =>
          /\ Reviewing(j) /\ posts'[j].history = posts[j].history /\ posts'[j].parent = posts[j].parent
          /\ posts'[j].here \/ posts'[j].saw = posts[j].parent
    <3> SUFFICES ASSUME NEW j \in Post, posts'[j].at = "asked", posts'[j].type = "review"
                 PROVE  /\ Reviewing(j) /\ posts'[j].history = posts[j].history /\ posts'[j].parent = posts[j].parent
                        /\ posts'[j].here \/ posts'[j].saw = posts[j].parent
      OBVIOUS
    <3>1. j \in Post \ {i}
      BY <2>2
    <3>2. /\ posts'[j].at = posts[j].at /\ posts'[j].type = posts[j].type
          /\ posts'[j].history = posts[j].history /\ posts'[j].parent = posts[j].parent
          /\ posts'[j].here \/ posts'[j].saw = IF posts[j].here THEN review'.parent ELSE posts[j].saw
      BY <2>2, <3>1
    <3>3. Reviewing(j)
      BY <3>2
    <3>4. review.parent = posts[j].parent /\ (posts[j].here \/ posts[j].saw = posts[j].parent)
      BY <3>3
    <3> QED
      BY <2>1, <3>2, <3>3, <3>4
  <2>4. \A j \in Post : Reviewing(j)' =>
          /\ review' = [parent |-> posts'[j].parent, history |-> posts'[j].history]
          /\ posts'[j].here \/ posts'[j].saw = posts'[j].parent
    BY <2>1, <2>3
  <2>5. \A j, k \in Post : Reviewing(j)' /\ Reviewing(k)' => j = k
    BY <2>3
  <2> QED
    BY <2>1, <2>4, <2>5, NothingTyped
<1>9. ASSUME NEW i \in Post, ReviewRoomCreated(i) PROVE InTurns'
  <2>1. /\ review' = NoReview /\ request' = NoRequest /\ Ends(i) /\ Reviewing(i)
    BY <1>9 DEF ReviewRoomCreated, ClearRoomCreation
  <2>2. /\ posts'[i].at = "over"
        /\ \A j \in Post \ {i} : posts'[j].at = posts[j].at /\ posts'[j].type = posts[j].type
    BY <2>1, EndsTyped, NothingTyped
  <2>3. \A j \in Post : ~Reviewing(j)'
    BY <2>1, <2>2
  <2> QED
    BY <2>1, <2>3, NothingTyped
<1>10. ASSUME NEW i \in Post, NeedsMoreContext(i) PROVE InTurns'
  <2> DEFINE h == review.history
  <2>1. PICK text \in Wants(i) : /\ AddsQuestion(i, text)
                                 /\ StartRoomCreation(posts[i].parent, "review", text, PromptOf(i))
    BY <1>10 DEF NeedsMoreContext
  <2>2. Reviewing(i) /\ posts'[i].at = "over" /\ \A j \in Post \ {i} : posts'[j] = posts[j]
    BY <1>10, NothingTyped DEF NeedsMoreContext
  <2>3. \A j \in Post : ~Reviewing(j)'
    BY <2>2
  <2>4. /\ review.parent = posts[i].parent /\ h = posts[i].history /\ review.parent \in SubRoom /\ h \in Seq(Text)
        /\ review # NoReview /\ h # <<>> /\ h[1] = Said("review?")
    BY <2>2, NothingTyped DEF Conversation
  <2>5. text \in Text /\ <<text>> \in Seq(Text)
    BY <2>1, TextsTyped DEF Wants
  <2>6. AddReviewRoomHistory(<<text>>)
    BY <2>1, <2>2, <2>4 DEF AddsQuestion
  <2>7. review' \in Conversation /\ review'.parent = review.parent /\ review'.history = h \o <<text>>
    BY <2>4, <2>5, <2>6, HistoryGrows
  <2>8. request'.parent = review'.parent /\ request'.text = text
    BY <2>1, <2>4, <2>7 DEF StartRoomCreation
  <2>9. Questions(review'.history) = Questions(h) \cup (IF text.by = "question" THEN {text} ELSE {})
    <3>1. Questions(<<text>>) = IF text.by = "question" THEN {text} ELSE {}
      <4>1. Said("line") \in Text /\ Said("line").by # "question"
        BY TextsTyped
      <4> QED
        BY <2>5, <4>1, QuestionsShort
    <3> QED
      BY <2>4, <2>5, <2>7, <3>1, QuestionsJoin
  <2>10. review'.history # <<>> /\ review'.history[1] = Said("review?")
    BY <2>4, <2>5, <2>7
  <2>11. Cardinality(Questions(review'.history)) <= MaxAttempts - 1
    <3>1. IsFiniteSet(Questions(h)) /\ Cardinality(Questions(h)) \in Nat /\ Cardinality(Prompts(h)) \in Nat
          /\ Cardinality(Questions(h)) <= Cardinality(Prompts(h)) - 1
      BY <2>4, FewerQuestions
    <3>2. CASE text.by = "question"
      <4>1. Cardinality(Prompts(h)) < MaxAttempts
        BY <2>1, <2>4, <3>2, TextsTyped DEF Wants
      <4>2. Cardinality(Questions(h) \cup {text}) <= Cardinality(Questions(h)) + 1
        <5>1. Cardinality(Questions(h) \cup {text}) = IF text \in Questions(h) THEN Cardinality(Questions(h))
                                                      ELSE Cardinality(Questions(h)) + 1
          BY <3>1, FS_AddElement
        <5> QED
          BY <3>1, <5>1
      <4>3. Cardinality(Questions(h) \cup {text}) \in Nat
        BY <3>1, FS_AddElement, FS_CardinalityType
      <4> QED
        BY <2>9, <3>1, <3>2, <4>1, <4>2, <4>3, RoomCreationAssumption
    <3>3. CASE text.by # "question"
      BY <2>4, <2>9, <3>3
    <3> QED
      BY <3>2, <3>3
  <2> QED
    BY <2>3, <2>8, <2>9, <2>10, <2>11
<1>11. ASSUME NEW i \in Post, Fails(i) PROVE InTurns'
  <2>1. posts'[i].at = "over" /\ \A j \in Post \ {i} : posts'[j] = posts[j]
    BY <1>11, NothingTyped DEF Fails
  <2> QED
    BY <1>11, <2>1 DEF Fails
<1>12. CASE UNCHANGED creation
  BY <1>12 DEF creation
<1> QED
  BY <1>1, <1>2, <1>3, <1>4, <1>5, <1>6, <1>7, <1>8, <1>9, <1>10, <1>11, <1>12 DEF CreationNext

-----------------------------------------------------------------------------
(* All together.                                                           *)

CreationInv == CreationTypes /\ Housed /\ PromptsAccounted /\ (~overlapped => InTurns)

LEMMA CreationInvHolds == CreationSpec => []CreationInv
<1>1. CreationInit => CreationInv
  BY CreationInitTyped, InitHoused, InitInTurns DEF CreationInv
<1>2. CreationInv /\ [CreationNext]_creation => CreationInv'
  BY CreationTyped, StepHoused, StepInTurns DEF CreationInv
<1> QED
  BY <1>1, <1>2, PTL DEF CreationSpec

\* Requests, dialogues, prompts and submissions keep their types, for any
\* number of clicks, submissions and sub rooms.
THEOREM CreationTypeCorrect == CreationSpec => []CreationTypeOK
<1>1. CreationInv => CreationTypeOK
  BY MutationFields DEF CreationInv, CreationTypes, CreationTypeOK, Request, Conversation
<1> QED
  BY <1>1, CreationInvHolds, PTL

\* No prompt of the client's own stays in a list without its request, unless
\* another request took that one's place: however late submissions are
\* answered, and wherever the user is by then.
THEOREM PromptsHaveRequests == CreationSpec => []PromptsAccounted
<1>1. CreationInv => PromptsAccounted
  BY DEF CreationInv
<1> QED
  BY <1>1, CreationInvHolds, PTL

\* While the user waits for the server's answers, it asks fewer than
\* MaxAttempts questions in one dialogue, failed submissions included.
THEOREM DialogueEnds == CreationSpec => []ScopingEnds
<1>1. CreationInv => ScopingEnds
  <2> SUFFICES ASSUME CreationInv, ~overlapped
               PROVE  Cardinality(Questions(review.history)) <= MaxAttempts - 1
    BY DEF ScopingEnds
  <2>1. CASE review.parent # Elsewhere
    BY <2>1 DEF CreationInv, InTurns
  <2>2. CASE review.parent = Elsewhere
    <3>1. Questions(review.history) = {}
      BY <2>2, NothingTyped DEF CreationInv, CreationTypes, Questions
    <3> QED
      BY <3>1, FS_EmptySet, RoomCreationAssumption
  <2> QED
    BY <2>1, <2>2
<1> QED
  BY <1>1, CreationInvHolds, PTL
=============================================================================
