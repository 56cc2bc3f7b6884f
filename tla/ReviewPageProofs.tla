-------------------------- MODULE ReviewPageProofs --------------------------
(***************************************************************************)
(* Proofs about ReviewPage: the header and the input, the timeline and the *)
(* thread of the page agree with the review that is selected.              *)
(*                                                                         *)
(* The page's state is written by answers and events of whatever review    *)
(* the page asked for or listened to last.  It is the selected one, or one *)
(* that is gone (Selection): a selection changes only when the review is   *)
(* missing from the list, or with the whole instance.  InputKnows,         *)
(* TimelineKnows and ThreadKnows are then the properties without what the  *)
(* page shows, and without their being about rooms that are still there.   *)
(***************************************************************************)
EXTENDS ReviewPage, WellFoundedInduction, TLAPS

\* The reviews there are or were: they are created in their order, so there is
\* a last one.
Started == {r \in Review : row[r] # "none"}
Numbered == \E b \in Nat : \A r \in Started : r <= b

\* What the page took a review for, it still is, or the review is gone.
Selection ==
  /\ list.got \subseteq Started /\ sel \in Started \cup {None}
  /\ \A r \in Review : metaGet[r].mine => r = sel \/ row[r] = "gone"
  /\ hears # None => hears = sel \/ row[hears] = "gone"
  /\ status # Loading => status.of = sel \/ row[status.of] = "gone"

\* Messages are kept with their review.
Sorted ==
  /\ \A r \in Review : hist[r].got \subseteq Of(r)
  /\ due \/ live \subseteq Of(sel)

Idle == Open /\ ~due /\ sel # None

InputKnows ==
  Idle /\ sel \in told /\ metaGet[sel].at = "none" /\ status.is # "completed" => excused

\* A completed review stays so, and its date is written with its status.
Done == {"completed", "undated"}
Dates ==
  \A r \in Review, l \in Done :
    /\ meta[r].got = {l} \/ metaGet[r].got = {l} => row[r] \in {l, "gone"}
    /\ meta[r].got = {l} /\ metaGet[r].at = "read" => metaGet[r].got = {l}

TimelineKnows ==
  Idle =>
    /\ meta[sel].got = {"completed"} => noted # {}
    /\ status = Is("completed", sel) => "event" \in noted \/ \E l \in Done : meta[sel].got = {l}

ThreadKnows == \A m \in said : m \in passed \/ m \in live \/ m \in hist[m[1]].got

IndInv ==
  /\ TypeOK /\ Numbered /\ Selection /\ Sorted /\ Dates
  /\ InputKnows /\ TimelineKnows /\ ThreadKnows

-----------------------------------------------------------------------------
(* The least and the greatest of a set of numbers.                         *)

LEMMA LeastNumber ==
  ASSUME NEW S \in SUBSET Nat, S # {}
  PROVE  \E x \in S : \A y \in S : x <= y
<1> DEFINE Less == {ss \in Nat \X Nat : ss[1] < ss[2]}
<1>1. IsWellFoundedOn(Less, Nat)
  BY NatLessThanWellFounded, Zenon DEF OpToRel
<1>2. ASSUME NEW x \in Nat, NEW y \in Nat, y < x
      PROVE  <<y, x>> \in Less
  <2>1. <<y, x>> \in Nat \X Nat /\ <<y, x>>[1] = y /\ <<y, x>>[2] = x
    OBVIOUS
  <2> QED BY <1>2, <2>1
<1> HIDE DEF Less
<1>3. PICK x \in S : \A y \in S : ~ (<<y, x>> \in Less)
  BY <1>1, WFMin
<1>4. ASSUME NEW y \in S PROVE x <= y
  <2>1. x \in Nat /\ y \in Nat
    OBVIOUS
  <2>2. ~ (y < x)
    BY <1>2, <1>3, <2>1
  <2> QED BY <2>1, <2>2
<1> QED BY <1>4

LEMMA MinIs ==
  ASSUME NEW S \in SUBSET Nat, S # {}
  PROVE  Min(S) \in S
BY LeastNumber DEF Min

\* Of the bounds of S, the least is its greatest member.
LEMMA MaxIs ==
  ASSUME NEW S \in SUBSET Nat, S # {}, NEW b \in Nat, \A x \in S : x <= b
  PROVE  Max(S) \in S
<1> DEFINE Bounds == {c \in Nat : \A x \in S : x <= c}
<1>1. PICK c \in Bounds : \A d \in Bounds : c <= d
  BY LeastNumber
<1>2. c \in S
  <2> SUFFICES ASSUME c \notin S PROVE FALSE
    OBVIOUS
  <2>1. ASSUME NEW x \in S PROVE x < c
    <3>1. x <= c /\ x # c /\ x \in Nat /\ c \in Nat
      BY <1>1
    <3> QED BY <3>1
  <2>2. c - 1 \in Nat /\ \A x \in S : x <= c - 1
    <3>1. PICK x \in S : TRUE
      OBVIOUS
    <3>2. c \in Nat /\ x \in Nat /\ x < c
      BY <1>1, <2>1, <3>1
    <3>3. \A y \in S : y \in Nat /\ y < c
      BY <2>1
    <3> QED BY <3>2, <3>3
  <2> QED BY <1>1, <2>2
<1>3. \E x \in S : \A y \in S : x >= y
  BY <1>1, <1>2
<1> QED BY <1>3 DEF Max

-----------------------------------------------------------------------------
(* Requests and answers.                                                   *)

Rows == {"none", "gone"} \cup Label

LEMMA GetsAre ==
  /\ NoGet \in Gets(Labels) /\ Asked \in Gets(Labels) /\ NoGet # Asked
  /\ NoGet.at = "none" /\ ~NoGet.mine /\ Asked.at = "asked" /\ Asked.mine
BY DEF NoGet, Asked, Gets, Labels

LEMMA AskIs ==
  /\ \A get \in Gets(Labels) : Ask(get) \in Gets(Labels) /\ Ask(get).at # "none"
  /\ \A get \in {NoGet, Asked} : Ask(get) \in {NoGet, Asked}
BY GetsAre DEF Ask

LEMMA LeftIs ==
  \A get \in Gets(Labels) : Left(get) \in Gets(Labels) /\ ~Left(get).mine
BY DEF Left, Gets

LEMMA ReadIs ==
  ASSUME NEW get \in Gets(Labels), NEW label \in Label
  PROVE  LET read == [[get EXCEPT !.at = "read"] EXCEPT !.got = {label}]
         IN  /\ read \in Gets(Labels) /\ read.at = "read" /\ read.got = {label}
             /\ read.mine = get.mine
BY DEF Gets, Labels

\* What is asked for and what is left, per review.
LEMMA AskingIs ==
  ASSUME TypeOK
  PROVE  /\ \A r : AskReview(r) => /\ metaGet' \in [Review -> Gets(Labels)]
                                   /\ \A x \in Review : x # r => metaGet'[x] = metaGet[x]
                                   /\ r \in Review => metaGet'[r].at # "none"
         /\ \A r : AskMessages(r) => histGet' \in [Review -> {NoGet, Asked}]
         /\ AskList => listGet' \in {NoGet, Asked}
<1>1. ASSUME NEW r, AskReview(r)
      PROVE  /\ metaGet' \in [Review -> Gets(Labels)]
             /\ \A x \in Review : x # r => metaGet'[x] = metaGet[x]
             /\ r \in Review => metaGet'[r].at # "none"
  BY <1>1, AskIs DEF AskReview, TypeOK
<1>2. ASSUME NEW r, AskMessages(r)
      PROVE  histGet' \in [Review -> {NoGet, Asked}]
  BY <1>2, AskIs DEF AskMessages, TypeOK
<1>3. ASSUME AskList
      PROVE  listGet' \in {NoGet, Asked}
  BY <1>3, AskIs DEF AskList, TypeOK
<1> QED BY <1>1, <1>2, <1>3

LEMMA LeavingIs ==
  ASSUME TypeOK, metaGet' = [x \in Review |-> Left(metaGet[x])]
  PROVE  metaGet' \in [Review -> Gets(Labels)] /\ \A x \in Review : ~metaGet'[x].mine
BY LeftIs DEF TypeOK

LEMMA MessagesAre ==
  ASSUME NEW m \in Message
  PROVE  /\ m[1] \in Review /\ m[2] \in 1..Len(Script[m[1]]) /\ m \in Of(m[1])
         /\ RoundOf(m) \in 0..4 /\ m[2] \in Nat
<1>1. PICK r \in Review : m \in {r} \X (1..Len(Script[r]))
  BY DEF Message
<1>2. m[1] = r /\ m[2] \in 1..Len(Script[r])
  BY <1>1
<1>3. Script[r] \in Seq(0..4)
  BY ReviewPageAssumption
<1> QED BY <1>2, <1>3 DEF Of, RoundOf

LEMMA PairsAre ==
  ASSUME NEW r \in Review, NEW i \in 1..Len(Script[r])
  PROVE  <<r, i>> \in Message /\ <<r, i>> \in Of(r) /\ \A x : <<r, i>> \in Of(x) => x = r
BY DEF Message, Of

-----------------------------------------------------------------------------
(* The reviews.                                                            *)

LEMMA AliveIs == Alive \subseteq Started
BY DEF Alive, Started, Label

\* A review that was created is there or gone, and one that is gone stays so.
LEMMA RowMoves ==
  ASSUME TypeOK, Numbered, [Next]_vars
  PROVE  /\ row' \in [Review -> Rows] /\ Numbered'
         /\ \A r \in Review : /\ row[r] = "gone" => row'[r] = "gone"
                              /\ row[r] # "none" => row'[r] # "none"
                              /\ row[r] \in Done => row'[r] \in {row[r], "gone"}
<1> DEFINE Moves == /\ row' \in [Review -> Rows] /\ Numbered'
                    /\ \A r \in Review : /\ row[r] = "gone" => row'[r] = "gone"
                                         /\ row[r] # "none" => row'[r] # "none"
                                         /\ row[r] \in Done => row'[r] \in {row[r], "gone"}
<1>1. CASE row' = row
  BY <1>1 DEF TypeOK, Rows, Numbered, Started
<1>2. ASSUME NEW r \in Review, row[r] \in Label, NEW to \in Label \cup {"gone"},
             to = "gone" \/ row[r] = "other",
             row' = [row EXCEPT ![r] = to]
      PROVE  Moves
  BY <1>2 DEF TypeOK, Rows, Numbered, Started, Label, Done
<1>3. ASSUME NEW r \in Review, Completes(r) \/ Deletes(r)
      PROVE  Moves
  BY <1>2, <1>3 DEF Completes, Deletes, Alive, Label
<1>4. ASSUME NEW r \in Review, Starts(r)
      PROVE  Moves
  <2>1. row' = [row EXCEPT ![r] = "other"] /\ row[r] = "none"
    BY <1>4 DEF Starts
  <2>2. PICK b \in Nat : \A x \in Started : x <= b
    BY DEF Numbered
  <2>3. r \in Nat /\ \A x \in Started : x \in Nat
    BY ReviewPageAssumption DEF Started
  <2>4. \A x \in Started' : x \in Started \/ x = r
    BY <2>1 DEF Started, TypeOK
  <2>5. \E c \in Nat : \A x \in Started' : x <= c
    <3>1. CASE r <= b
      BY <2>2, <2>3, <2>4, <3>1
    <3>2. CASE b <= r
      BY <2>2, <2>3, <2>4, <3>2
    <3> QED BY <2>3, <3>1, <3>2
  <2>6. Numbered'
    BY <2>5 DEF Numbered
  <2> QED BY <2>1, <2>6 DEF TypeOK, Rows, Label, Done
<1>5. CASE Rest \/ Escape \/ GoBack \/ Focus \/ Effects \/ Listens \/ Lapses \/ GotList \/ ListFails
  BY <1>1, <1>5
     DEF Rest, Escape, GoBack, Leaves, Focus, Effects, Listens, Lapses, GotList, ListFails, vars, server
<1>6. ASSUME NEW r \in Review, Enter(r) \/ Switch(r)
      PROVE  Moves
  BY <1>1, <1>6 DEF Enter, Switch, Mounts, server
<1>7. ASSUME NEW r \in Review,
             ReadReview(r) \/ GotReview(r) \/ ReviewFails(r) \/ GotMessages(r) \/ MessagesFail(r)
      PROVE  Moves
  BY <1>1, <1>7 DEF ReadReview, GotReview, ReviewFails, GotMessages, MessagesFail, server
<1>8. ASSUME NEW r \in Review, Tells(r) \/ \E i \in 1..Len(Script[r]) : Says(r, i)
      PROVE  Moves
  BY <1>1, <1>8 DEF Tells, Says
<1>9. CASE UNCHANGED vars
  BY <1>1, <1>9 DEF vars, server
<1> HIDE DEF Moves
<1>10. Moves
  BY <1>3, <1>4, <1>5, <1>6, <1>7, <1>8, <1>9, <1>1 DEF Next, Moves
<1> QED BY <1>10 DEF Moves

\* The review that is selected is one of the list, and the same one if it can be.
LEMMA ChooseIs ==
  ASSUME Numbered, NEW rs \in SUBSET Started, NEW r
  PROVE  /\ Choose(r, rs) \in rs \cup {None}
         /\ r \in rs => Choose(r, rs) = r
<1>1. rs # {} => Max(rs) \in rs
  BY MaxIs, ReviewPageAssumption DEF Numbered, Started
<1> QED BY <1>1 DEF Choose

-----------------------------------------------------------------------------
(* Types.                                                                  *)

LEMMA FirstIs == Min(Review) \in Review
BY MinIs, ReviewPageAssumption

LEMMA InitTyped == Init => TypeOK /\ Numbered
<1> SUFFICES ASSUME Init PROVE TypeOK /\ Numbered
  OBVIOUS
<1>1. Numbered
  <2>1. Started = {Min(Review)}
    BY FirstIs DEF Init, Started
  <2>2. Min(Review) \in Nat
    BY FirstIs, ReviewPageAssumption
  <2>3. \A r \in Started : r = Min(Review)
    BY <2>1
  <2>4. \A r \in Started : r <= Min(Review)
    BY <2>2, <2>3
  <2> QED BY <2>2, <2>4 DEF Numbered
<1>2. NoAnswer \in Answers(SUBSET Review) \cap Answers(Labels) \cap Answers(SUBSET Message)
  BY DEF NoAnswer, Answers, Labels
<1>3. /\ list \in Answers(SUBSET Review) /\ listGet \in {NoGet, Asked}
      /\ meta \in [Review -> Answers(Labels)] /\ metaGet \in [Review -> Gets(Labels)]
      /\ hist \in [Review -> Answers(SUBSET Message)] /\ histGet \in [Review -> {NoGet, Asked}]
  BY <1>2, GetsAre DEF Init
<1>4. /\ row \in [Review -> {"none", "gone"} \cup Label] /\ told \subseteq Review /\ said \subseteq Message
      /\ {room, sel, hears} \subseteq Review \cup {None} /\ due \in BOOLEAN /\ noted \subseteq Source
      /\ live \subseteq Message /\ status = Loading
  BY FirstIs DEF Init, Label
<1>5. visits \in 0..MaxVisits /\ passed \subseteq Message /\ excused \in BOOLEAN
  <2>1. visits = 0 /\ passed = {} /\ excused = FALSE
    BY DEF Init
  <2>2. 0 \in 0..MaxVisits
    BY ReviewPageAssumption, SMTT(30)
  <2>3. passed \subseteq Message /\ excused \in BOOLEAN
    BY <2>1
  <2> QED BY <2>1, <2>2, <2>3
<1>6. TypeOK
  BY <1>3, <1>4, <1>5 DEF TypeOK
<1> QED BY <1>1, <1>6

LEMMA StepKeepsTyped == TypeOK /\ Numbered /\ Selection /\ [Next]_vars => TypeOK'
<1> SUFFICES ASSUME TypeOK, Numbered, Selection, [Next]_vars PROVE TypeOK'
  OBVIOUS
<1> USE DEF Label
<1>1. Loading \in [is : Label, of : Review] \cup {Loading}
  OBVIOUS
<1>2. \A l \in Label, r \in Review : Is(l, r) \in [is : Label, of : Review]
  BY DEF Is
<1>3. \A S, got : got \in S => Kept(got) \in Answers(S)
  BY DEF Kept, Answers
<1>4. Alive \subseteq Review /\ Started \subseteq Review
  BY DEF Alive, Started
<1>5. \A r, rs : rs \subseteq Started => Choose(r, rs) \in Review \cup {None}
  BY <1>4, ChooseIs
<1>6. CASE UNCHANGED vars
  BY <1>6 DEF vars, server, page, queries, history, TypeOK
<1>7. CASE Rest
  BY <1>6, <1>7 DEF Rest
<1>8. ASSUME Clear
      PROVE  /\ live' \subseteq Message /\ status' \in [is : Label, of : Review] \cup {Loading}
             /\ noted' \subseteq Source /\ hears' \in Review \cup {None} /\ passed' \subseteq Message
  BY <1>8 DEF Clear, TypeOK
<1>9. CASE Escape \/ GoBack
  <2>1. Leaves
    BY <1>9 DEF Escape, GoBack
  <2>2. metaGet' \in [Review -> Gets(Labels)]
    BY <2>1, LeavingIs DEF Leaves
  <2>3. /\ UNCHANGED <<server, list, listGet, meta, hist, histGet, visits>>
        /\ room' = None /\ sel' = None /\ due' = FALSE /\ Clear /\ excused' = FALSE
    BY <2>1 DEF Leaves
  <2> QED BY <1>8, <2>2, <2>3 DEF TypeOK, server
<1>10. ASSUME Turns
       PROVE  visits' \in 0..MaxVisits
  BY <1>10, ReviewPageAssumption DEF Turns, TypeOK
<1>11. ASSUME NEW r \in Review, Enter(r) \/ Switch(r)
       PROVE  TypeOK'
  <2>1. Mounts(r)
    BY <1>11 DEF Enter, Switch
  <2>2. metaGet' \in [Review -> Gets(Labels)] /\ listGet' \in {NoGet, Asked}
    BY <2>1, LeavingIs, AskingIs DEF Mounts
  <2>3. sel' \in Review \cup {None}
    BY <1>5, <2>1 DEF Mounts, Selection
  <2>4. /\ UNCHANGED <<server, list, meta, hist, histGet>>
        /\ room' = r /\ due' = TRUE /\ Clear /\ excused' = FALSE /\ Turns
    BY <2>1 DEF Mounts
  <2> QED BY <1>8, <1>10, <2>2, <2>3, <2>4 DEF TypeOK, server
<1>12. CASE Focus
  <2>1. metaGet' \in [Review -> Gets(Labels)]
    BY <1>12, AskingIs DEF Focus, TypeOK
  <2>2. listGet' \in {NoGet, Asked} /\ histGet' \in [Review -> {NoGet, Asked}]
    BY <1>12, AskingIs DEF Focus
  <2>3. UNCHANGED <<server, page, list, meta, hist, passed, excused>> /\ visits' \in 0..MaxVisits
    BY <1>10, <1>12 DEF Focus
  <2> QED BY <2>1, <2>2, <2>3 DEF TypeOK, server, page
<1>13. CASE Effects
  <2>1. metaGet' \in [Review -> Gets(Labels)]
    BY <1>13, AskingIs DEF Effects, TypeOK
  <2>2. histGet' \in [Review -> {NoGet, Asked}]
    BY <1>13, AskingIs DEF Effects
  <2>3. /\ UNCHANGED <<server, room, sel, list, listGet, meta, hist, visits>>
        /\ due' = FALSE /\ live' = {} /\ passed' = passed \cup live /\ status' = Loading
        /\ excused' = FALSE /\ noted' \subseteq Source /\ hears' = None
    BY <1>13 DEF Effects, DateIn, Source
  <2> QED BY <2>1, <2>2, <2>3 DEF TypeOK, server
<1>14. CASE Listens \/ Lapses
  BY <1>14 DEF Listens, Lapses, Source, server, queries, history, TypeOK
<1>15. CASE GotList
  <2>1. list' \in Answers(SUBSET Review) /\ listGet' = NoGet
    BY <1>3, <1>4, <1>15 DEF GotList
  <2>2. sel' \in Review \cup {None} /\ due' \in BOOLEAN
    BY <1>5, <1>15, AliveIs DEF GotList, Selects, TypeOK
  <2>3. UNCHANGED <<server, room, live, status, noted, hears, meta, metaGet, hist, histGet, history>>
    BY <1>15 DEF GotList
  <2> QED BY <2>1, <2>2, <2>3 DEF TypeOK, server, history
<1>16. CASE ListFails
  BY <1>16 DEF ListFails, server, page, history, TypeOK
<1>17. ASSUME NEW r \in Review, ReadReview(r)
       PROVE  TypeOK'
  <2>1. metaGet' = [metaGet EXCEPT ![r] = [[metaGet[r] EXCEPT !.at = "read"] EXCEPT !.got = {row[r]}]]
    BY <1>17 DEF ReadReview, TypeOK
  <2>2. row[r] \in Label
    BY <1>17 DEF ReadReview, Alive
  <2>3. metaGet[r] \in Gets(Labels)
    BY DEF TypeOK
  <2> DEFINE read == [[metaGet[r] EXCEPT !.at = "read"] EXCEPT !.got = {row[r]}]
  <2>4. read \in Gets(Labels)
    BY <2>2, <2>3, ReadIs
  <2> HIDE DEF read
  <2>5. metaGet' = [metaGet EXCEPT ![r] = read]
    BY <2>1 DEF read
  <2>6. UNCHANGED <<server, page, list, listGet, meta, hist, histGet, history>>
    BY <1>17 DEF ReadReview
  <2> QED BY <2>4, <2>5, <2>6 DEF TypeOK, server, page, history
<1>18. ASSUME NEW r \in Review, GotReview(r)
       PROVE  TypeOK'
  <2>1. PICK label \in metaGet[r].got :
               /\ status' = IF metaGet[r].mine THEN Is(label, r) ELSE status
               /\ noted' = IF Open /\ r = sel /\ meta[r].got # {label} THEN noted \cup DateIn(label) ELSE noted
               /\ excused' = Misleads(r, label, metaGet[r].mine)
    BY <1>18 DEF GotReview
  <2>2. metaGet[r].got \in Labels /\ metaGet[r].mine \in BOOLEAN
    BY DEF TypeOK, Gets
  <2>3. label \in Label
    BY <2>2 DEF Labels
  <2>4. status' \in [is : Label, of : Review] \cup {Loading}
    BY <1>2, <2>1, <2>3 DEF TypeOK
  <2>5. noted' \subseteq Source /\ excused' \in BOOLEAN
    BY <2>1, <2>2 DEF TypeOK, DateIn, Source, Misleads
  <2>6. meta' \in [Review -> Answers(Labels)] /\ metaGet' \in [Review -> Gets(Labels)]
    BY <1>3, <1>18, <2>2, GetsAre DEF GotReview, TypeOK
  <2>7. histGet' \in [Review -> {NoGet, Asked}]
    BY <1>18, AskingIs DEF GotReview, TypeOK
  <2>8. UNCHANGED <<server, room, sel, due, live, hears, list, listGet, hist, visits, passed>>
    BY <1>18 DEF GotReview
  <2> QED BY <2>4, <2>5, <2>6, <2>7, <2>8 DEF TypeOK, server
<1>19. ASSUME NEW r \in Review, GotMessages(r)
       PROVE  TypeOK'
  <2>1. hist' \in [Review -> Answers(SUBSET Message)]
    BY <1>3, <1>19 DEF GotMessages, TypeOK
  <2> QED BY <1>19, <2>1 DEF GotMessages, TypeOK, server, page
<1>20. ASSUME NEW r \in Review, ReviewFails(r) \/ MessagesFail(r)
       PROVE  TypeOK'
  <2>1. metaGet' \in [Review -> Gets(Labels)] /\ histGet' \in [Review -> {NoGet, Asked}]
    BY <1>20, GetsAre DEF ReviewFails, MessagesFail, TypeOK
  <2>2. excused' \in BOOLEAN
    BY <1>20 DEF ReviewFails, MessagesFail, history, TypeOK
  <2>3. UNCHANGED <<server, page, list, listGet, meta, hist, visits, passed>>
    BY <1>20 DEF ReviewFails, MessagesFail, history
  <2> QED BY <2>1, <2>2, <2>3 DEF TypeOK, server, page
<1>21. row' \in [Review -> {"none", "gone"} \cup Label]
  BY RowMoves DEF Rows
<1>22. ASSUME NEW r \in Review, Starts(r) \/ Completes(r) \/ Deletes(r)
       PROVE  TypeOK'
  <2>1. said' \subseteq Message /\ UNCHANGED <<told, page, queries, history>>
    BY <1>22 DEF Starts, Completes, Deletes, TypeOK
  <2> QED BY <1>21, <2>1 DEF TypeOK, page, queries, history
<1>23. ASSUME NEW r \in Review, Tells(r)
       PROVE  TypeOK'
  <2>1. status' \in [is : Label, of : Review] \cup {Loading}
    BY <1>2, <1>23 DEF Tells, TypeOK
  <2>2. noted' \subseteq Source /\ excused' \in BOOLEAN /\ told' \subseteq Review
    BY <1>23 DEF Tells, Source, TypeOK
  <2>3. UNCHANGED <<row, said, room, sel, due, live, hears, queries, visits, passed>>
    BY <1>23 DEF Tells
  <2> QED BY <2>1, <2>2, <2>3 DEF TypeOK, queries
<1>24. ASSUME NEW r \in Review, NEW i \in 1..Len(Script[r]), Says(r, i)
       PROVE  TypeOK'
  <2>1. said' \subseteq Message /\ live' \subseteq Message /\ passed' \subseteq Message
    BY <1>24, PairsAre DEF Says, TypeOK
  <2>2. UNCHANGED <<row, told, room, sel, due, status, noted, hears, queries, visits, excused>>
    BY <1>24 DEF Says
  <2> QED BY <2>1, <2>2 DEF TypeOK, queries
<1> QED
  BY <1>6, <1>7, <1>9, <1>11, <1>12, <1>13, <1>14, <1>15, <1>16, <1>17, <1>18, <1>19, <1>20,
     <1>22, <1>23, <1>24 DEF Next

-----------------------------------------------------------------------------
(* What the page took a review for.                                        *)

LEMMA InitSelection == Init => Selection /\ Sorted
<1> SUFFICES ASSUME Init PROVE Selection /\ Sorted
  OBVIOUS
<1>1. /\ list.got = {} /\ sel = None /\ hears = None /\ status = Loading /\ due = TRUE
      /\ \A r \in Review : ~metaGet[r].mine /\ hist[r].got = {}
  BY GetsAre DEF Init, NoAnswer
<1> QED BY <1>1 DEF Selection, Sorted

\* A new selection is made of the list, when the old one is not on it.
LEMMA StepKeepsSelection == TypeOK /\ Numbered /\ Selection /\ [Next]_vars => Selection'
<1> SUFFICES ASSUME TypeOK, Numbered, Selection, [Next]_vars PROVE Selection'
  OBVIOUS
<1>1. /\ \A r \in Review : row[r] = "gone" => row'[r] = "gone"
      /\ Started \subseteq Started'
  BY RowMoves DEF Started
<1>2. /\ sel \in Review \cup {None} /\ hears \in Review \cup {None}
      /\ status # Loading => status.of \in Review
  BY DEF TypeOK
\* What has to be shown of a step.
<1>3. ASSUME list'.got \subseteq Started', sel' \in Started' \cup {None},
             \A r \in Review : metaGet'[r].mine => r = sel' \/ row'[r] = "gone",
             hears' # None => hears' = sel' \/ row'[hears'] = "gone",
             status' # Loading => status'.of = sel' \/ row'[status'.of] = "gone"
      PROVE  Selection'
  BY <1>3 DEF Selection
<1>4. CASE UNCHANGED <<list, sel, hears, status>>
           /\ \A r \in Review : metaGet'[r].mine => metaGet[r].mine \/ r = sel
  BY <1>1, <1>2, <1>3, <1>4 DEF Selection
<1>5. CASE UNCHANGED <<list, sel, hears, status, metaGet>>
  BY <1>4, <1>5
<1>6. CASE Rest \/ ListFails \/ UNCHANGED vars
  BY <1>5, <1>6 DEF Rest, ListFails, page, vars, queries
<1>7. ASSUME NEW r \in Review, GotMessages(r) \/ MessagesFail(r) \/ Starts(r) \/ Completes(r) \/ Deletes(r)
      PROVE  Selection'
  BY <1>5, <1>7 DEF GotMessages, MessagesFail, Starts, Completes, Deletes, page, queries
<1>8. ASSUME NEW r \in Review, NEW i \in 1..Len(Script[r]), Says(r, i)
      PROVE  Selection'
  BY <1>5, <1>8 DEF Says, queries
\* Another instance of the page, or none: nothing is asked for by it yet.
<1>9. ASSUME Clear, metaGet' = [x \in Review |-> Left(metaGet[x])], list' = list,
             sel' \in Started \cup {None}
      PROVE  Selection'
  <2>1. \A r \in Review : ~metaGet'[r].mine
    BY <1>9, LeavingIs
  <2>2. hears' = None /\ status' = Loading
    BY <1>9 DEF Clear
  <2> QED BY <1>1, <1>3, <1>9, <2>1, <2>2 DEF Selection
<1>10. CASE Escape \/ GoBack
  BY <1>9, <1>10 DEF Escape, GoBack, Leaves
<1>11. ASSUME NEW r \in Review, Enter(r) \/ Switch(r)
       PROVE  Selection'
  <2>1. Mounts(r)
    BY <1>11 DEF Enter, Switch
  <2>2. sel' \in Started \cup {None}
    BY <2>1, ChooseIs DEF Mounts, Selection
  <2> QED BY <1>9, <2>1, <2>2 DEF Mounts
<1>12. CASE Focus
  <2>1. \A r \in Review : metaGet'[r].mine => metaGet[r].mine \/ r = sel
    BY <1>12, AskingIs DEF Focus
  <2> QED BY <1>4, <1>12, <2>1 DEF Focus, page
<1>13. CASE Effects
  <2>1. \A r \in Review : metaGet'[r].mine => metaGet[r].mine \/ r = sel
    BY <1>13, AskingIs DEF Effects
  <2>2. UNCHANGED <<row, sel, list>> /\ hears' = None /\ status' = Loading
    BY <1>13 DEF Effects, server
  <2> QED BY <1>1, <1>3, <2>1, <2>2 DEF Selection
<1>14. CASE Listens \/ Lapses
  <2>1. UNCHANGED <<sel, status, list, metaGet>> /\ hears' \in {None, sel}
    BY <1>14 DEF Listens, Lapses, queries
  <2> QED BY <1>1, <1>2, <1>3, <2>1 DEF Selection
\* What was asked for or heard of the selection before is gone.
<1>15. CASE GotList
  <2>1. /\ list'.got = Alive /\ UNCHANGED <<row, hears, status, metaGet>>
        /\ sel' = sel \/ sel' = Choose(sel, Alive)
    BY <1>15 DEF GotList, Kept, Selects, server
  <2>2. sel' \in Started \cup {None}
    BY <2>1, ChooseIs, AliveIs DEF Selection
  <2>3. sel' = sel \/ sel = None \/ row[sel] = "gone"
    <3>1. sel \in Alive => sel' = sel
      BY <2>1, ChooseIs, AliveIs
    <3>2. sel \in Started /\ sel \notin Alive => row[sel] = "gone"
      BY DEF Started, Alive, TypeOK
    <3> QED BY <3>1, <3>2 DEF Selection
  <2>4. \A r \in Review : r = sel => r = sel' \/ row'[r] = "gone"
    BY <2>1, <2>3, ReviewPageAssumption
  <2> QED BY <1>1, <1>2, <1>3, <2>1, <2>2, <2>4, AliveIs DEF Selection
<1>16. ASSUME NEW r \in Review, ReadReview(r)
       PROVE  Selection'
  <2>1. \A x \in Review : metaGet'[x].mine = metaGet[x].mine
    <3>1. \A get \in Gets(Labels) : [[get EXCEPT !.at = "read"] EXCEPT !.got = {row[r]}].mine = get.mine
      BY DEF Gets
    <3>2. metaGet' = [metaGet EXCEPT ![r] = [[metaGet[r] EXCEPT !.at = "read"] EXCEPT !.got = {row[r]}]]
      BY <1>16 DEF ReadReview, TypeOK
    <3>3. /\ metaGet'[r] = [[metaGet[r] EXCEPT !.at = "read"] EXCEPT !.got = {row[r]}]
          /\ \A x \in Review : x # r => metaGet'[x] = metaGet[x]
      BY <3>2 DEF TypeOK
    <3> QED BY <3>1, <3>3 DEF TypeOK
  <2> QED BY <1>4, <1>16, <2>1 DEF ReadReview, page
<1>17. ASSUME NEW r \in Review, GotReview(r)
       PROVE  Selection'
  <2>1. UNCHANGED <<sel, hears, list>>
    BY <1>17 DEF GotReview
  <2>2. \A x \in Review : metaGet'[x].mine => metaGet[x].mine
    BY <1>17, GetsAre DEF GotReview, TypeOK
  <2>3. status' = status \/ (metaGet[r].mine /\ status'.of = r)
    BY <1>17 DEF GotReview, Is
  <2> QED BY <1>1, <1>2, <1>3, <2>1, <2>2, <2>3 DEF Selection
<1>18. ASSUME NEW r \in Review, ReviewFails(r)
       PROVE  Selection'
  <2>1. \A x \in Review : metaGet'[x].mine => metaGet[x].mine
    BY <1>18, GetsAre DEF ReviewFails, TypeOK
  <2> QED BY <1>4, <1>18, <2>1 DEF ReviewFails, page
\* Who is told of a completion listens to a review that is there.
<1>19. ASSUME NEW r \in Review, Tells(r)
       PROVE  Selection'
  <2>1. UNCHANGED <<sel, hears, list, metaGet, row>>
    BY <1>19 DEF Tells, queries
  <2>2. status' = status \/ (hears = r /\ row[r] # "gone" /\ status'.of = r)
    BY <1>19 DEF Tells, Is, Alive, Label
  <2>3. hears = r /\ row[r] # "gone" => r = sel
    BY ReviewPageAssumption DEF Selection
  <2> QED BY <1>1, <1>2, <1>3, <2>1, <2>2, <2>3 DEF Selection
<1> QED
  BY <1>6, <1>7, <1>8, <1>10, <1>11, <1>12, <1>13, <1>14, <1>15, <1>16, <1>17, <1>18, <1>19 DEF Next

-----------------------------------------------------------------------------
(* The messages of a review.                                               *)

LEMMA StepKeepsSorted == TypeOK /\ Selection /\ Sorted /\ [Next]_vars => Sorted'
<1> SUFFICES ASSUME TypeOK, Selection, Sorted, [Next]_vars PROVE Sorted'
  OBVIOUS
<1>1. CASE UNCHANGED <<hist, due, live, sel>>
  BY <1>1 DEF Sorted
<1>2. CASE Rest \/ Focus \/ Listens \/ Lapses \/ ListFails \/ UNCHANGED vars
  BY <1>1, <1>2 DEF Rest, Focus, Listens, Lapses, ListFails, page, queries, vars
<1>3. ASSUME NEW r \in Review,
             \/ ReadReview(r) \/ GotReview(r) \/ ReviewFails(r) \/ MessagesFail(r)
             \/ Starts(r) \/ Completes(r) \/ Tells(r) \/ Deletes(r)
      PROVE  Sorted'
  BY <1>1, <1>3
     DEF ReadReview, GotReview, ReviewFails, MessagesFail, Starts, Completes, Tells, Deletes, page, queries
<1>4. CASE Escape \/ GoBack
  BY <1>4 DEF Escape, GoBack, Leaves, Clear, Sorted
<1>5. ASSUME NEW r \in Review, Enter(r) \/ Switch(r)
      PROVE  Sorted'
  BY <1>5 DEF Enter, Switch, Mounts, Clear, Sorted
<1>6. CASE Effects
  BY <1>6 DEF Effects, Sorted
<1>7. CASE GotList
  BY <1>7 DEF GotList, Selects, Sorted
<1>8. ASSUME NEW r \in Review, GotMessages(r)
      PROVE  Sorted'
  <2>1. hist'[r].got \subseteq Of(r) /\ \A x \in Review : x # r => hist'[x] = hist[x]
    BY <1>8 DEF GotMessages, Kept, TypeOK
  <2> QED BY <1>8, <2>1 DEF GotMessages, Sorted, page
<1>9. ASSUME NEW r \in Review, NEW i \in 1..Len(Script[r]), Says(r, i)
      PROVE  Sorted'
  <2>1. /\ UNCHANGED <<hist, due, sel>> /\ row[r] # "gone"
        /\ live' = live \/ (hears = r /\ live' = live \cup {<<r, i>>})
    BY <1>9 DEF Says, queries, Alive, Label
  <2>2. hears = r => r = sel
    BY <2>1, ReviewPageAssumption DEF Selection
  <2> QED BY <2>1, <2>2, PairsAre DEF Sorted
<1> QED
  BY <1>2, <1>3, <1>4, <1>5, <1>6, <1>7, <1>8, <1>9 DEF Next

-----------------------------------------------------------------------------
(* What the page knows.                                                    *)

\* A selection that stays is the only one a list leaves without effects to run.
LEMMA ListKeepsIdle == GotList /\ Idle' => Idle /\ sel' = sel
BY DEF GotList, Selects, Idle, Open

\* An answer is for its own review.
LEMMA AnswerIs ==
  ASSUME TypeOK, NEW r \in Review, GotReview(r)
  PROVE  /\ \E label \in Label :
              /\ meta'[r].got = {label}
              /\ status' = IF metaGet[r].mine THEN Is(label, r) ELSE status
              /\ noted' = IF Open /\ r = sel /\ meta[r].got # {label} THEN noted \cup DateIn(label) ELSE noted
              /\ excused' = Misleads(r, label, metaGet[r].mine)
         /\ \A x \in Review : x # r => meta'[x] = meta[x] /\ metaGet'[x] = metaGet[x]
         /\ metaGet[r].mine \in BOOLEAN /\ metaGet[r].at = "read" /\ meta'[r].got = metaGet[r].got
<1>1. PICK label \in metaGet[r].got :
             /\ status' = IF metaGet[r].mine THEN Is(label, r) ELSE status
             /\ noted' = IF Open /\ r = sel /\ meta[r].got # {label} THEN noted \cup DateIn(label) ELSE noted
             /\ excused' = Misleads(r, label, metaGet[r].mine)
  BY DEF GotReview
<1>2. metaGet[r].got \in Labels /\ metaGet[r].mine \in BOOLEAN
  BY DEF TypeOK, Gets
<1>3. label \in Label /\ metaGet[r].got = {label}
  BY <1>2 DEF Labels
<1>4. /\ meta'[r].got = metaGet[r].got
      /\ \A x \in Review : x # r => meta'[x] = meta[x] /\ metaGet'[x] = metaGet[x]
  BY DEF GotReview, Kept, TypeOK
<1>5. metaGet[r].at = "read"
  BY DEF GotReview
<1> QED BY <1>1, <1>2, <1>3, <1>4, <1>5

LEMMA StepKeepsInput == TypeOK /\ InputKnows /\ [Next]_vars => InputKnows'
<1> SUFFICES ASSUME TypeOK, InputKnows, [Next]_vars PROVE InputKnows'
  OBVIOUS
<1>1. CASE UNCHANGED <<told, room, sel, due, status, metaGet, excused>>
  BY <1>1 DEF InputKnows, Idle, Open
<1>2. CASE Rest \/ Listens \/ Lapses \/ ListFails \/ UNCHANGED vars
  BY <1>1, <1>2 DEF Rest, Listens, Lapses, ListFails, server, page, queries, history, vars
<1>3. ASSUME NEW r \in Review,
             \/ GotMessages(r) \/ MessagesFail(r)
             \/ Starts(r) \/ Completes(r) \/ Deletes(r)
      PROVE  InputKnows'
  BY <1>1, <1>3
     DEF GotMessages, MessagesFail, Starts, Completes, Deletes, server, page, queries, history
<1>4. ASSUME NEW r \in Review, NEW i \in 1..Len(Script[r]), Says(r, i)
      PROVE  InputKnows'
  BY <1>1, <1>4 DEF Says, queries
<1>5. CASE Escape \/ GoBack
  BY <1>5 DEF Escape, GoBack, Leaves, InputKnows, Idle, Open
<1>6. ASSUME NEW r \in Review, Enter(r) \/ Switch(r)
      PROVE  InputKnows'
  BY <1>6 DEF Enter, Switch, Mounts, InputKnows, Idle
\* What the page shows is asked for when it has been selected, and again.
<1>7. CASE Focus \/ Effects
  <2>1. sel' = sel /\ sel \in Review \cup {None}
    BY <1>7 DEF Focus, Effects, page, TypeOK
  <2>2. sel # None => metaGet'[sel].at # "none"
    BY <1>7, <2>1, AskingIs DEF Focus, Effects
  <2> QED BY <2>1, <2>2 DEF InputKnows, Idle
<1>8. CASE GotList
  <2>1. UNCHANGED <<told, metaGet, status, excused>>
    BY <1>8 DEF GotList, server, history
  <2> QED BY <1>8, <2>1, ListKeepsIdle DEF InputKnows
<1>9. ASSUME NEW r \in Review, ReadReview(r)
      PROVE  InputKnows'
  <2>1. UNCHANGED <<told, room, sel, due, status, excused>>
    BY <1>9 DEF ReadReview, server, page, history
  <2>2. metaGet[r].at # "none" /\ \A x \in Review : x # r => metaGet'[x] = metaGet[x]
    BY <1>9 DEF ReadReview, TypeOK
  <2>3. metaGet'[r].at # "none"
    <3>1. metaGet' = [metaGet EXCEPT ![r] = [[metaGet[r] EXCEPT !.at = "read"] EXCEPT !.got = {row[r]}]]
      BY <1>9 DEF ReadReview, TypeOK
    <3>2. row[r] \in Label /\ metaGet[r] \in Gets(Labels)
      BY <1>9 DEF ReadReview, Alive, TypeOK
    <3> QED BY <3>1, <3>2, ReadIs DEF TypeOK
  <2>4. sel \in Review \cup {None}
    BY DEF TypeOK
  <2> QED BY <2>1, <2>2, <2>3, <2>4 DEF InputKnows, Idle, Open
<1>10. ASSUME NEW r \in Review, GotReview(r)
       PROVE  InputKnows'
  <2>1. PICK label \in Label :
               /\ status' = IF metaGet[r].mine THEN Is(label, r) ELSE status
               /\ excused' = Misleads(r, label, metaGet[r].mine)
    BY <1>10, AnswerIs
  <2>2. UNCHANGED <<told, room, sel, due>> /\ \A x \in Review : x # r => metaGet'[x] = metaGet[x]
    BY <1>10, AnswerIs DEF GotReview, server
  <2>3. CASE r = sel
    BY <2>1, <2>2, <2>3 DEF InputKnows, Idle, Open, Misleads, Is
  <2>4. CASE r # sel /\ metaGet[r].mine
    BY <2>1, <2>4 DEF InputKnows, Misleads
  <2>5. CASE r # sel /\ ~metaGet[r].mine
    <3>1. Idle' => Idle /\ sel \in Review
      BY <2>2 DEF Idle, Open, TypeOK
    <3>2. excused' = excused /\ status' = status
      BY <2>1, <2>5 DEF Misleads, TypeOK
    <3> QED BY <2>2, <2>5, <3>1, <3>2 DEF InputKnows
  <2> QED BY <2>3, <2>4, <2>5
<1>11. ASSUME NEW r \in Review, ReviewFails(r)
       PROVE  InputKnows'
  <2>1. /\ UNCHANGED <<told, room, sel, due, status>> /\ excused' = (excused \/ r = sel)
        /\ \A x \in Review : x # r => metaGet'[x] = metaGet[x]
    BY <1>11 DEF ReviewFails, server, page, TypeOK
  <2>2. sel \in Review \cup {None}
    BY DEF TypeOK
  <2> QED BY <2>1, <2>2 DEF InputKnows, Idle, Open
<1>12. ASSUME NEW r \in Review, Tells(r)
       PROVE  InputKnows'
  <2>1. UNCHANGED <<room, sel, due, metaGet>> /\ told' = told \cup {r}
    BY <1>12 DEF Tells, queries
  <2>2. CASE hears = r
    BY <1>12, <2>2 DEF Tells, Is, InputKnows
  <2>3. CASE hears # r
    <3>1. status' = status /\ (excused \/ r = sel => excused')
      BY <1>12, <2>3 DEF Tells
    <3> QED BY <2>1, <3>1 DEF InputKnows, Idle, Open
  <2> QED BY <2>2, <2>3
<1> QED
  BY <1>2, <1>3, <1>4, <1>5, <1>6, <1>7, <1>8, <1>9, <1>10, <1>11, <1>12 DEF Next

\* What an answer says of a completed review, the next one says again.
LEMMA StepKeepsDates == TypeOK /\ Numbered /\ Dates /\ [Next]_vars => Dates'
<1> SUFFICES ASSUME TypeOK, Numbered, Dates, [Next]_vars PROVE Dates'
  OBVIOUS
<1>1. \A r \in Review, l \in Done : row[r] \in {l, "gone"} => row'[r] \in {l, "gone"}
  BY RowMoves DEF Done
\* What has to be shown of a step.
<1>2. ASSUME UNCHANGED meta,
             \A x \in Review : \/ metaGet'[x] = metaGet[x]
                               \/ metaGet'[x].at # "read" /\ metaGet'[x].got \in {metaGet[x].got, {}}
      PROVE  Dates'
  <2>1. \A l : {l} # {}
    OBVIOUS
  <2> QED BY <1>1, <1>2, <2>1 DEF Dates
<1>3. CASE UNCHANGED <<meta, metaGet>>
  BY <1>2, <1>3
<1>4. NoGet.got = {} /\ Asked.got = {} /\ NoGet.at # "read" /\ Asked.at # "read"
  BY DEF NoGet, Asked
<1>5. \A r : AskReview(r) => \A x \in Review : metaGet'[x] \in {metaGet[x], Asked}
  BY DEF AskReview, Ask, TypeOK
<1>6. CASE Rest \/ Listens \/ Lapses \/ GotList \/ ListFails \/ UNCHANGED vars
  BY <1>3, <1>6 DEF Rest, Listens, Lapses, GotList, ListFails, queries, vars
<1>7. ASSUME NEW r \in Review,
             \/ GotMessages(r) \/ MessagesFail(r)
             \/ Starts(r) \/ Completes(r) \/ Tells(r) \/ Deletes(r)
      PROVE  Dates'
  BY <1>3, <1>7 DEF GotMessages, MessagesFail, Starts, Completes, Tells, Deletes, queries
<1>8. ASSUME NEW r \in Review, NEW i \in 1..Len(Script[r]), Says(r, i)
      PROVE  Dates'
  BY <1>3, <1>8 DEF Says, queries
<1>9. ASSUME UNCHANGED meta, metaGet' = [x \in Review |-> Left(metaGet[x])]
      PROVE  Dates'
  <2>1. \A x \in Review : metaGet'[x].at = metaGet[x].at /\ metaGet'[x].got = metaGet[x].got
    BY <1>9 DEF Left, Gets, TypeOK
  <2> QED BY <1>1, <1>9, <2>1 DEF Dates
<1>10. CASE Escape \/ GoBack
  BY <1>9, <1>10 DEF Escape, GoBack, Leaves
<1>11. ASSUME NEW r \in Review, Enter(r) \/ Switch(r)
       PROVE  Dates'
  BY <1>9, <1>11 DEF Enter, Switch, Mounts
<1>12. CASE Focus \/ Effects
  <2>1. UNCHANGED meta /\ \A x \in Review : metaGet'[x] \in {metaGet[x], Asked}
    BY <1>5, <1>12 DEF Focus, Effects
  <2> QED BY <1>2, <1>4, <2>1
<1>13. ASSUME NEW r \in Review, ReviewFails(r)
       PROVE  Dates'
  <2>1. UNCHANGED meta /\ \A x \in Review : metaGet'[x] \in {metaGet[x], NoGet}
    BY <1>13 DEF ReviewFails, TypeOK
  <2> QED BY <1>2, <1>4, <2>1
<1>14. ASSUME NEW r \in Review, ReadReview(r)
       PROVE  Dates'
  <2>1. UNCHANGED <<row, meta>> /\ row[r] \in Label
    BY <1>14 DEF ReadReview, Alive, server
  <2>2. metaGet'[r].got = {row[r]} /\ \A x \in Review : x # r => metaGet'[x] = metaGet[x]
    <3>1. metaGet' = [metaGet EXCEPT ![r] = [[metaGet[r] EXCEPT !.at = "read"] EXCEPT !.got = {row[r]}]]
      BY <1>14 DEF ReadReview, TypeOK
    <3>2. metaGet[r] \in Gets(Labels)
      BY DEF TypeOK
    <3> QED BY <2>1, <3>1, <3>2, ReadIs DEF TypeOK
  <2>3. \A l \in Done : meta[r].got = {l} => row[r] = l
    BY <2>1 DEF Dates, Label
  <2>4. \A l : {row[r]} = {l} => row[r] = l
    OBVIOUS
  <2> QED BY <2>1, <2>2, <2>3, <2>4 DEF Dates
<1>15. ASSUME NEW r \in Review, GotReview(r)
       PROVE  Dates'
  <2>1. /\ meta'[r].got = metaGet[r].got
        /\ \A x \in Review : x # r => meta'[x] = meta[x] /\ metaGet'[x] = metaGet[x]
    BY <1>15, AnswerIs
  <2>2. metaGet'[r] = NoGet /\ UNCHANGED row
    BY <1>15 DEF GotReview, server, TypeOK
  <2>3. \A l : {l} # {}
    OBVIOUS
  <2> QED BY <1>4, <2>1, <2>2, <2>3 DEF Dates
<1> QED
  BY <1>6, <1>7, <1>8, <1>10, <1>11, <1>12, <1>13, <1>14, <1>15 DEF Next

LEMMA StepKeepsTimeline == TypeOK /\ Dates /\ TimelineKnows /\ [Next]_vars => TimelineKnows'
<1> SUFFICES ASSUME TypeOK, Dates, TimelineKnows, [Next]_vars PROVE TimelineKnows'
  OBVIOUS
<1>1. CASE UNCHANGED <<room, sel, due, status, meta, noted>>
  BY <1>1 DEF TimelineKnows, Idle, Open
<1>2. CASE Rest \/ Focus \/ Lapses \/ ListFails \/ UNCHANGED vars
  BY <1>1, <1>2 DEF Rest, Focus, Lapses, ListFails, page, queries, vars
<1>3. ASSUME NEW r \in Review,
             \/ ReadReview(r) \/ ReviewFails(r) \/ GotMessages(r) \/ MessagesFail(r)
             \/ Starts(r) \/ Completes(r) \/ Deletes(r)
      PROVE  TimelineKnows'
  BY <1>1, <1>3
     DEF ReadReview, ReviewFails, GotMessages, MessagesFail, Starts, Completes, Deletes, page, queries
<1>4. ASSUME NEW r \in Review, NEW i \in 1..Len(Script[r]), Says(r, i)
      PROVE  TimelineKnows'
  BY <1>1, <1>4 DEF Says, queries
<1>5. CASE Escape \/ GoBack
  BY <1>5 DEF Escape, GoBack, Leaves, TimelineKnows, Idle, Open
<1>6. ASSUME NEW r \in Review, Enter(r) \/ Switch(r)
      PROVE  TimelineKnows'
  BY <1>6 DEF Enter, Switch, Mounts, TimelineKnows, Idle
\* What is known of the review is noted first.
<1>7. CASE Effects
  <2>1. /\ UNCHANGED <<sel, meta>> /\ status' = Loading
        /\ sel # None /\ meta[sel].got = {"completed"} => noted' = {"date"}
    BY <1>7 DEF Effects, DateIn
  <2>2. Loading # Is("completed", sel)
    BY DEF Loading, Is
  <2> QED BY <2>1, <2>2 DEF TimelineKnows, Idle
<1>8. CASE Listens
  <2>1. UNCHANGED <<room, sel, due, status, meta>> /\ noted \subseteq noted'
    BY <1>8 DEF Listens, queries
  <2> QED BY <2>1 DEF TimelineKnows, Idle, Open
<1>9. CASE GotList
  <2>1. UNCHANGED <<meta, status, noted>>
    BY <1>9 DEF GotList
  <2> QED BY <1>9, <2>1, ListKeepsIdle DEF TimelineKnows
<1>10. ASSUME NEW r \in Review, GotReview(r)
       PROVE  TimelineKnows'
  <2>1. PICK label \in Label :
               /\ meta'[r].got = {label}
               /\ status' = IF metaGet[r].mine THEN Is(label, r) ELSE status
               /\ noted' = IF Open /\ r = sel /\ meta[r].got # {label} THEN noted \cup DateIn(label) ELSE noted
    BY <1>10, AnswerIs
  <2>2. UNCHANGED <<room, sel, due>> /\ \A x \in Review : x # r => meta'[x] = meta[x]
    BY <1>10, AnswerIs DEF GotReview
  <2>3. Idle' => Idle /\ Open /\ sel \in Review
    BY <2>2 DEF Idle, Open, TypeOK
  <2>4. noted \subseteq noted'
    BY <2>1
  <2>5. Idle' /\ meta'[sel].got = {"completed"} => noted' # {}
    <3>1. CASE r = sel /\ meta[r].got # {"completed"} /\ label = "completed"
      BY <2>1, <2>3, <3>1 DEF DateIn
    <3>2. CASE r = sel /\ label # "completed"
      BY <2>1, <3>2
    <3>3. CASE r # sel \/ meta[r].got = {"completed"}
      <4>1. Idle' /\ meta'[sel].got = {"completed"} => Idle /\ meta[sel].got = {"completed"}
        BY <2>2, <2>3, <3>3
      <4> QED BY <2>4, <4>1 DEF TimelineKnows
    <3> QED BY <3>1, <3>2, <3>3
  <2>6. Idle' /\ status' = Is("completed", sel) =>
          "event" \in noted' \/ \E l \in Done : meta'[sel].got = {l}
    <3>1. CASE r = sel /\ metaGet[r].mine
      <4>1. status' = Is("completed", sel) => label # "other"
        BY <2>1, <3>1 DEF Is
      <4> QED BY <2>1, <3>1, <4>1 DEF Label, Done
    <3>2. CASE r # sel \/ ~metaGet[r].mine
      <4>1. status' = Is("completed", sel) => status = Is("completed", sel)
        BY <2>1, <3>2 DEF Is
      <4>2. \A l \in Done : Idle' /\ meta[sel].got = {l} => meta'[sel].got = {l}
        <5>1. \A l \in Done : meta[r].got = {l} => meta'[r].got = {l}
          BY <1>10, AnswerIs DEF Dates
        <5> QED BY <2>2, <2>3, <5>1
      <4> QED BY <2>3, <2>4, <4>1, <4>2 DEF TimelineKnows
    <3> QED BY <3>1, <3>2
  <2> QED BY <2>2, <2>5, <2>6 DEF TimelineKnows
<1>11. ASSUME NEW r \in Review, Tells(r)
       PROVE  TimelineKnows'
  <2>1. CASE hears = r
    BY <1>11, <2>1 DEF Tells, TimelineKnows
  <2>2. CASE hears # r
    BY <1>1, <1>11, <2>2 DEF Tells, queries
  <2> QED BY <2>1, <2>2
<1> QED
  BY <1>2, <1>3, <1>4, <1>5, <1>6, <1>7, <1>8, <1>9, <1>10, <1>11 DEF Next

LEMMA StepKeepsThread == TypeOK /\ ThreadKnows /\ [Next]_vars => ThreadKnows'
<1> SUFFICES ASSUME TypeOK, ThreadKnows, [Next]_vars PROVE ThreadKnows'
  OBVIOUS
<1>1. CASE said' \subseteq said /\ UNCHANGED <<passed, live, hist>>
  BY <1>1 DEF ThreadKnows
<1>2. CASE Rest \/ Focus \/ Listens \/ Lapses \/ GotList \/ ListFails \/ UNCHANGED vars
  BY <1>1, <1>2
     DEF Rest, Focus, Listens, Lapses, GotList, ListFails, server, page, queries, history, vars
<1>3. ASSUME NEW r \in Review,
             \/ ReadReview(r) \/ GotReview(r) \/ ReviewFails(r) \/ MessagesFail(r)
             \/ Starts(r) \/ Completes(r) \/ Tells(r) \/ Deletes(r)
      PROVE  ThreadKnows'
  BY <1>1, <1>3
     DEF ReadReview, GotReview, ReviewFails, MessagesFail, Starts, Completes, Tells, Deletes,
         server, page, queries, history
\* What is dropped has passed.
<1>4. CASE UNCHANGED <<said, hist>> /\ live' = {} /\ passed' = passed \cup live
  BY <1>4 DEF ThreadKnows
<1>5. CASE Escape \/ GoBack \/ Effects
  BY <1>4, <1>5 DEF Escape, GoBack, Leaves, Clear, Effects, server
<1>6. ASSUME NEW r \in Review, Enter(r) \/ Switch(r)
      PROVE  ThreadKnows'
  BY <1>4, <1>6 DEF Enter, Switch, Mounts, Clear, server
<1>7. ASSUME NEW r \in Review, GotMessages(r)
      PROVE  ThreadKnows'
  <2>1. /\ UNCHANGED <<said, live>> /\ hist'[r].got = said \cap Of(r)
        /\ passed' = passed \ (said \cap Of(r))
        /\ \A x \in Review : x # r => hist'[x] = hist[x]
    BY <1>7 DEF GotMessages, Kept, server, page, TypeOK
  <2>2. \A m \in said : m \in Message /\ m[1] \in Review /\ (m \in Of(r) => m[1] = r)
    BY MessagesAre DEF TypeOK, Of
  <2>3. \A m \in said : m[1] = r => m \in Of(r)
    BY <2>2 DEF Of
  <2> QED BY <2>1, <2>2, <2>3 DEF ThreadKnows
<1>8. ASSUME NEW r \in Review, NEW i \in 1..Len(Script[r]), Says(r, i)
      PROVE  ThreadKnows'
  BY <1>8 DEF Says, queries, ThreadKnows
<1> QED
  BY <1>2, <1>3, <1>5, <1>6, <1>7, <1>8 DEF Next

-----------------------------------------------------------------------------
(* The theorems.                                                           *)

LEMMA IndInvHolds == Spec => []IndInv
<1>1. Init => IndInv
  <2> SUFFICES ASSUME Init PROVE IndInv
    OBVIOUS
  <2>1. /\ sel = None /\ said = {}
        /\ \A r \in Review : meta[r] = NoAnswer /\ metaGet[r] = NoGet
    BY DEF Init
  <2>2. Dates
    BY <2>1 DEF Dates, NoAnswer, NoGet
  <2> QED BY <2>1, <2>2, InitTyped, InitSelection DEF IndInv, InputKnows, TimelineKnows, ThreadKnows, Idle
<1>2. IndInv /\ [Next]_vars => IndInv'
  BY RowMoves, StepKeepsTyped, StepKeepsSelection, StepKeepsSorted, StepKeepsDates, StepKeepsInput,
     StepKeepsTimeline, StepKeepsThread
     DEF IndInv
<1> QED BY <1>1, <1>2, PTL DEF Spec

\* What is kept of the queries, of the page and of the server are values of
\* their kinds.
THEOREM TypeCorrect == Spec => []TypeOK
<1>1. IndInv => TypeOK
  BY DEF IndInv
<1> QED BY <1>1, IndInvHolds, PTL

\* Whatever reviews the page asked for before, the status in the header is one
\* of the review it shows, or the other one is gone; the panel in the header
\* and the thread are of the review of the title.
THEOREM HeaderIsOfReview == Spec => []HeaderAccounted
<1>1. IndInv => HeaderAccounted
  <2> SUFFICES ASSUME IndInv, Settled PROVE HeaderAccounted
    BY DEF HeaderAccounted
  <2>1. sel \in Review /\ ~due /\ Current = sel
    BY DEF Settled, Shows, Current, IndInv, TypeOK
  <2>2. Messages \subseteq Of(sel)
    BY <2>1 DEF Messages, IndInv, Sorted
  <2>3. Section.spoken = Messages 
    BY DEF Section, Spoken
  <2>4. status # Loading => status.of = sel \/ row[status.of] = "gone"
    BY DEF IndInv, Selection
  <2> QED BY <2>2, <2>3, <2>4 DEF HeaderAccounted
<1> QED BY <1>1, IndInvHolds, PTL

\* An input that stays locked after the completion was announced, with no
\* answer awaited, does so for one of the reasons named.
THEOREM LockHasReason == Spec => []InputAccounted
<1>1. IndInv => InputAccounted
  BY DEF IndInv, InputKnows, InputAccounted, Settled, Shows, Unlocked, Idle
<1> QED BY <1>1, IndInvHolds, PTL

\* The timeline has the completion that the header tells of, unless the page has
\* it from an answer without a date, or too many events are dated later.
THEOREM TimelineHasCompletion == Spec => []TimelineAgrees
<1>1. IndInv => TimelineAgrees
  <2> SUFFICES ASSUME IndInv, Settled, status = Is("completed", sel), Section.past # {"completed"}
               PROVE  "event" \notin noted /\ (meta[sel].got = {"undated"} \/ Late[sel] >= Last)
    BY DEF TimelineAgrees
  <2>1. Idle /\ sel \in Review
    BY DEF Settled, Shows, Idle, IndInv, TypeOK
  <2>2. Timeline # {"completed"}
    BY DEF Section
  <2>3. "event" \notin noted /\ ("date" \in noted => ~(Late[sel] < Last))
    BY <2>2 DEF Timeline
  <2>4. PICK l \in Done : meta[sel].got = {l}
    BY <2>1, <2>3 DEF IndInv, TimelineKnows
  <2>5. CASE l = "completed"
    <3>1. noted # {} /\ noted \subseteq Source
      BY <2>1, <2>4, <2>5 DEF IndInv, TimelineKnows, TypeOK
    <3>2. "date" \in noted
      BY <2>3, <3>1 DEF Source
    <3>3. Late[sel] \in Nat /\ Last \in Nat
      BY <2>1, ReviewPageAssumption
    <3> QED BY <2>3, <3>2, <3>3
  <2> QED BY <2>3, <2>4, <2>5 DEF Done
<1> QED BY <1>1, IndInvHolds, PTL

\* Every turn the page has not missed is in one section of the thread, and once
\* there is a closing turn there is a summary.
THEOREM TurnHasPlace == Spec => []ThreadAccounted
<1>1. IndInv => ThreadAccounted
  <2> SUFFICES ASSUME IndInv, Settled, NEW m \in (said \cap Of(sel)) \ passed, RoundOf(m) # 0
               PROVE  \/ m \in Cards /\ m \notin Discussion \cup Summary
                      \/ m \in Discussion /\ m \notin Cards \cup Summary
                      \/ RoundOf(m) = 4 /\ Exported # {} /\ m \notin Cards \cup Discussion
    BY DEF ThreadAccounted
  <2>1. sel \in Review /\ Current = sel
    BY DEF Settled, Shows, Current, IndInv, TypeOK
  <2>2. m \in Message /\ m[1] = sel
    BY DEF Of
  <2>3. m \in Entries
    BY <2>1, <2>2 DEF IndInv, ThreadKnows, Messages, Entries
  <2>4. RoundOf(m) \in {1, 2, 3, 4}
    BY <2>2, MessagesAre
  <2>5. \A n \in Summary : RoundOf(n) = 4
    BY DEF Summary, Closings
  <2>6. CASE RoundOf(m) = 4
    <3>1. m \in Closings
      BY <2>3, <2>6 DEF Closings
    <3>2. Closings \subseteq Message
      BY <2>1 DEF Closings, Entries, Messages, IndInv, TypeOK, Answers
    <3> DEFINE places == {n[2] : n \in Closings}
    <3>3. places \subseteq Nat /\ places # {}
      BY <3>1, <3>2, MessagesAre
    <3>4. PICK i \in places : \A j \in places : i <= j
      BY <3>3, LeastNumber
    <3>5. PICK n \in Closings : n[2] = i
      BY <3>4
    <3>6. n \in Summary
      BY <3>4, <3>5 DEF Summary
    <3> QED BY <2>6, <3>6 DEF Exported, Cards, Discussion
  <2>7. CASE RoundOf(m) = 1
    BY <2>3, <2>5, <2>7 DEF Cards, Discussion
  <2>8. CASE RoundOf(m) \in {2, 3}
    BY <2>3, <2>5, <2>8 DEF Cards, Discussion
  <2> QED BY <2>4, <2>6, <2>7, <2>8
<1> QED BY <1>1, IndInvHolds, PTL
=============================================================================
