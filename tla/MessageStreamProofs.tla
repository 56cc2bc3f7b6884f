-------------------------- MODULE MessageStreamProofs --------------------------
(***************************************************************************)
(* Proofs about MessageStream, for any number of turns and of streams, any *)
(* budget and any length of answers.                                       *)
(***************************************************************************)
EXTENDS MessageStream, FiniteSetTheorems, WellFoundedInduction, TLAPS

-----------------------------------------------------------------------------
(* Sums over finite sets                                                   *)

LEMMA LeastNumber ==
  ASSUME NEW S \in SUBSET Nat, S # {}
  PROVE  \E x \in S : \A y \in S : x <= y
<1> DEFINE Less == {ss \in Nat \X Nat : ss[1] < ss[2]}
<1>1. IsWellFoundedOn(Less, Nat)
  BY NatLessThanWellFounded, Zenon DEF OpToRel
<1>2. ASSUME NEW x \in Nat, NEW y \in Nat, y < x
      PROVE  <<y, x>> \in Less
  <2>1. <<y, x>> \in Nat \X Nat /\ <<y, x>>[1] = y /\ <<y, x>>[2] = x
    OBVIOUS
  <2> QED BY <1>2, <2>1
<1> HIDE DEF Less
<1>3. PICK x \in S : \A y \in S : ~ (<<y, x>> \in Less)
  BY <1>1, WFMin
<1>4. ASSUME NEW y \in S PROVE x <= y
  <2>1. x \in Nat /\ y \in Nat
    OBVIOUS
  <2>2. ~ (y < x)
    BY <1>2, <1>3, <2>1
  <2> QED BY <2>1, <2>2
<1> QED BY <1>4

\* MapThenSumSet, with a function for what is summed up.  Rec says which
\* function its recursion defines.
Some(S) == CHOOSE x \in S : TRUE
Sum(f, S) ==
  LET iter[T \in SUBSET S] == IF T = {} THEN 0 ELSE f[Some(T)] + iter[T \ {Some(T)}]
  IN  iter[S]
Rec(f, S, g) == g = [T \in SUBSET S |-> IF T = {} THEN 0 ELSE f[Some(T)] + g[T \ {Some(T)}]]

LEMMA SomeIs == ASSUME NEW S, S # {} PROVE Some(S) \in S
BY DEF Some

LEMMA Smaller ==
  ASSUME NEW S, IsFiniteSet(S), NEW x \in S
  PROVE  /\ IsFiniteSet(S \ {x})
         /\ Cardinality(S) \in Nat /\ Cardinality(S \ {x}) \in Nat
         /\ Cardinality(S \ {x}) < Cardinality(S)
<1>1. IsFiniteSet(S \ {x}) /\ Cardinality(S \ {x}) = Cardinality(S) - 1
  BY FS_RemoveElement
<1>2. Cardinality(S) \in Nat /\ Cardinality(S \ {x}) \in Nat
  BY <1>1, FS_CardinalityType
<1> QED BY <1>1, <1>2

LEMMA RecExists ==
  ASSUME NEW S, IsFiniteSet(S), NEW f, \A x \in S : f[x] \in Nat
  PROVE  \E g \in [SUBSET S -> Nat] : Rec(f, S, g)
<1> DEFINE Next1(g, T) == IF T = {} THEN 0 ELSE f[Some(T)] + g[T \ {Some(T)}]
           Good(n) == \E g \in [SUBSET S -> Nat] :
                        \A T \in SUBSET S : Cardinality(T) <= n => g[T] = Next1(g, T)
<1>1. Good(0)
  <2> DEFINE g == [T \in SUBSET S |-> 0]
  <2>1. g \in [SUBSET S -> Nat]
    OBVIOUS
  <2>2. ASSUME NEW T \in SUBSET S, Cardinality(T) <= 0 PROVE g[T] = Next1(g, T)
    <3>1. IsFiniteSet(T) /\ Cardinality(T) \in Nat
      BY FS_Subset, FS_CardinalityType
    <3>2. Cardinality(T) = 0
      BY <2>2, <3>1
    <3>3. T = {}
      BY <3>1, <3>2, FS_EmptySet
    <3> QED BY <3>3
  <2> QED BY <2>1, <2>2
<1>2. ASSUME NEW n \in Nat, Good(n) PROVE Good(n + 1)
  <2>1. PICK g \in [SUBSET S -> Nat] :
               \A T \in SUBSET S : Cardinality(T) <= n => g[T] = Next1(g, T)
    BY <1>2
  <2> DEFINE h == [T \in SUBSET S |-> Next1(g, T)]
  <2>2. ASSUME NEW T \in SUBSET S, T # {}
        PROVE  Some(T) \in S /\ T \ {Some(T)} \in SUBSET S /\ f[Some(T)] \in Nat
    BY <2>2, SomeIs
  <2>3. h \in [SUBSET S -> Nat]
    <3> SUFFICES ASSUME NEW T \in SUBSET S PROVE Next1(g, T) \in Nat
      OBVIOUS
    <3>1. CASE T = {}
      BY <3>1
    <3>2. CASE T # {}
      <4>1. g[T \ {Some(T)}] \in Nat /\ f[Some(T)] \in Nat
        BY <2>1, <2>2, <3>2
      <4> QED BY <3>2, <4>1
    <3> QED BY <3>1, <3>2
  <2>4. ASSUME NEW T \in SUBSET S, Cardinality(T) <= n + 1 PROVE h[T] = Next1(h, T)
    <3>1. CASE T = {}
      BY <3>1
    <3>2. CASE T # {}
      <4> DEFINE U == T \ {Some(T)}
      <4>1. U \in SUBSET S
        BY <2>2, <3>2
      <4>2. IsFiniteSet(T)
        BY FS_Subset
      <4>3. Cardinality(U) <= n
        <5>1. Cardinality(U) \in Nat /\ Cardinality(T) \in Nat /\ Cardinality(U) < Cardinality(T)
          BY <3>2, <4>2, SomeIs, Smaller
        <5> HIDE DEF U
        <5> QED BY <2>4, <5>1
      <4>4. h[U] = g[U]
        BY <2>1, <4>1, <4>3
      <4>5. h[T] = f[Some(T)] + g[U]
        BY <3>2
      <4> QED BY <3>2, <4>4, <4>5
    <3> QED BY <3>1, <3>2
  <2> HIDE DEF h
  <2> QED BY <2>3, <2>4
<1>3. \A n \in Nat : Good(n)
  <2> DEFINE Bad == {n \in Nat : ~Good(n)}
  <2> HIDE DEF Good
  <2> SUFFICES ASSUME Bad # {} PROVE FALSE
    OBVIOUS
  <2>1. PICK m \in Bad : \A k \in Bad : m <= k
    BY LeastNumber
  <2>2. m \in Nat /\ m # 0
    BY <1>1
  <2>3. m - 1 \in Nat /\ ~ (m <= m - 1) /\ (m - 1) + 1 = m
    BY <2>2
  <2>4. Good(m - 1)
    BY <2>1, <2>3
  <2>5. Good((m - 1) + 1)
    BY <1>2, <2>3, <2>4
  <2> QED BY <2>1, <2>3, <2>5
<1>4. PICK g \in [SUBSET S -> Nat] :
             \A T \in SUBSET S : Cardinality(T) <= Cardinality(S) => g[T] = Next1(g, T)
  BY <1>3, FS_CardinalityType
<1>5. \A T \in SUBSET S : g[T] = Next1(g, T)
  BY <1>4, FS_Subset
<1>6. g = [T \in SUBSET S |-> Next1(g, T)]
  BY <1>5
<1> QED BY <1>6 DEF Rec

\* Two such functions agree on the sets that both know.
LEMMA RecAgrees ==
  ASSUME NEW S, NEW T \in SUBSET S, IsFiniteSet(S), NEW f, NEW e, NEW g, NEW h,
         Rec(f, S, g), Rec(e, T, h), \A x \in T : e[x] = f[x]
  PROVE  g[T] = h[T]
<1> DEFINE Bad == {n \in Nat : \E U \in SUBSET T : Cardinality(U) = n /\ g[U] # h[U]}
<1>1. ASSUME Bad # {} PROVE FALSE
  <2>1. PICK m \in Bad : \A k \in Bad : m <= k
    BY <1>1, LeastNumber
  <2>2. PICK U \in SUBSET T : Cardinality(U) = m /\ g[U] # h[U]
    OBVIOUS
  <2>3. /\ g[U] = IF U = {} THEN 0 ELSE f[Some(U)] + g[U \ {Some(U)}]
        /\ h[U] = IF U = {} THEN 0 ELSE e[Some(U)] + h[U \ {Some(U)}]
    BY DEF Rec
  <2>4. U # {}
    BY <2>2, <2>3
  <2>5. Some(U) \in T /\ Some(U) \in U /\ U \ {Some(U)} \in SUBSET T
    BY <2>4, SomeIs
  <2>6. g[U \ {Some(U)}] # h[U \ {Some(U)}]
    BY <2>2, <2>3, <2>4, <2>5
  <2>7. IsFiniteSet(U)
    BY FS_Subset
  <2>8. /\ Cardinality(U \ {Some(U)}) \in Nat /\ Cardinality(U) \in Nat
        /\ Cardinality(U \ {Some(U)}) < Cardinality(U)
    BY <2>5, <2>7, Smaller
  <2>9. Cardinality(U \ {Some(U)}) \in Bad
    BY <2>5, <2>6, <2>8
  <2> HIDE DEF Bad
  <2> QED BY <2>1, <2>2, <2>8, <2>9
<1>2. IsFiniteSet(T) /\ Cardinality(T) \in Nat
  BY FS_Subset, FS_CardinalityType
<1> QED BY <1>1, <1>2

LEMMA SumIs ==
  ASSUME NEW S, IsFiniteSet(S), NEW f, \A x \in S : f[x] \in Nat,
         NEW T \in SUBSET S, NEW g, Rec(f, S, g)
  PROVE  Sum(f, T) = g[T] /\ g[T] \in Nat
<1> DEFINE iter == CHOOSE h : Rec(f, T, h)
<1>1. IsFiniteSet(T)
  BY FS_Subset
<1>2. PICK k \in [SUBSET S -> Nat] : Rec(f, S, k)
  BY RecExists
<1>3. Rec(f, T, iter)
  BY <1>1, RecExists
<1>4. Sum(f, T) = iter[T]
  BY Zenon DEF Sum, Rec
<1>5. g[T] = iter[T] /\ k[T] = iter[T]
  <2> HIDE DEF iter
  <2> QED BY <1>2, <1>3, RecAgrees
<1> QED BY <1>2, <1>4, <1>5

LEMMA SumUnfolds ==
  ASSUME NEW S, IsFiniteSet(S), NEW f, \A x \in S : f[x] \in Nat
  PROVE  /\ Sum(f, S) \in Nat
         /\ S = {} => Sum(f, S) = 0
         /\ S # {} => Sum(f, S) = f[Some(S)] + Sum(f, S \ {Some(S)})
<1>1. PICK g \in [SUBSET S -> Nat] : Rec(f, S, g)
  BY RecExists
<1>2. g[S] = IF S = {} THEN 0 ELSE f[Some(S)] + g[S \ {Some(S)}]
  BY <1>1 DEF Rec
<1>3. Sum(f, S) = g[S] /\ g[S] \in Nat
  BY <1>1, SumIs
<1>4. Sum(f, S \ {Some(S)}) = g[S \ {Some(S)}]
  BY <1>1, SumIs
<1> QED BY <1>2, <1>3, <1>4

LEMMA SumSame ==
  ASSUME NEW S, IsFiniteSet(S), NEW f, NEW e, \A x \in S : f[x] \in Nat /\ e[x] = f[x]
  PROVE  Sum(e, S) = Sum(f, S)
<1>1. PICK g \in [SUBSET S -> Nat] : Rec(f, S, g)
  BY RecExists
<1>2. PICK h \in [SUBSET S -> Nat] : Rec(e, S, h)
  BY RecExists
<1>3. g[S] = h[S]
  BY <1>1, <1>2, RecAgrees
<1>4. Sum(f, S) = g[S] /\ Sum(e, S) = h[S]
  BY <1>1, <1>2, SumIs
<1> QED BY <1>3, <1>4

\* It does not matter which member is taken first.
LEMMA SumRemoves ==
  ASSUME NEW S, IsFiniteSet(S), NEW f, \A x \in S : f[x] \in Nat, NEW a \in S
  PROVE  Sum(f, S) = f[a] + Sum(f, S \ {a})
<1> DEFINE Bad == {n \in Nat : \E T \in SUBSET S : \E y \in T :
                       Cardinality(T) = n /\ Sum(f, T) # f[y] + Sum(f, T \ {y})}
<1>1. ASSUME Bad # {} PROVE FALSE
  <2>1. PICK m \in Bad : \A k \in Bad : m <= k
    BY <1>1, LeastNumber
  <2>2. PICK T \in SUBSET S : \E y \in T : Cardinality(T) = m /\ Sum(f, T) # f[y] + Sum(f, T \ {y})
    OBVIOUS
  <2>3. PICK y \in T : Cardinality(T) = m /\ Sum(f, T) # f[y] + Sum(f, T \ {y})
    BY <2>2
  <2> DEFINE z == Some(T)
  <2>4. IsFiniteSet(T) /\ z \in T /\ T # {}
    BY FS_Subset, SomeIs
  <2>5. Sum(f, T) = f[z] + Sum(f, T \ {z})
    BY <2>4, SumUnfolds
  <2>6. y # z
    BY <2>3, <2>5
  <2> HIDE DEF z
  <2>7. ASSUME NEW u \in T, NEW v \in T \ {u}
        PROVE  Sum(f, T \ {u}) = f[v] + Sum(f, (T \ {u}) \ {v})
    <3>1. Cardinality(T \ {u}) \in Nat /\ Cardinality(T \ {u}) < m
      BY <2>3, <2>4, Smaller
    <3>2. m \in Nat
      OBVIOUS
    <3>3. Cardinality(T \ {u}) \notin Bad
      <4> HIDE DEF Bad
      <4> QED BY <2>1, <3>1, <3>2
    <3> QED BY <3>1, <3>3
  <2>8. Sum(f, T \ {z}) = f[y] + Sum(f, (T \ {z}) \ {y})
    BY <2>4, <2>6, <2>7
  <2>9. Sum(f, T \ {y}) = f[z] + Sum(f, (T \ {y}) \ {z})
    BY <2>4, <2>6, <2>7
  <2>10. (T \ {z}) \ {y} = (T \ {y}) \ {z}
    OBVIOUS
  <2>11. f[z] \in Nat /\ f[y] \in Nat /\ Sum(f, (T \ {y}) \ {z}) \in Nat
    <3>1. IsFiniteSet((T \ {y}) \ {z})
      BY <2>4, FS_Subset
    <3>2. \A x \in (T \ {y}) \ {z} : f[x] \in Nat
      OBVIOUS
    <3>3. Sum(f, (T \ {y}) \ {z}) \in Nat
      <4> DEFINE U == (T \ {y}) \ {z}
      <4> HIDE DEF U
      <4>1. IsFiniteSet(U) /\ \A x \in U : f[x] \in Nat
        BY <3>1, <3>2 DEF U
      <4>2. Sum(f, U) \in Nat
        BY <4>1, SumUnfolds
      <4> QED BY <4>2 DEF U
    <3>4. f[z] \in Nat /\ f[y] \in Nat
      BY <2>4
    <3> QED BY <3>3, <3>4
  <2> QED BY <2>3, <2>5, <2>8, <2>9, <2>10, <2>11
<1>2. Cardinality(S) \in Nat
  BY FS_CardinalityType
<1> QED BY <1>1, <1>2

\* Where the sets and what is summed up differ in one place, so do the sums.
Share(f, S, a) == IF a \in S THEN f[a] ELSE 0

LEMMA SumsDiffer ==
  ASSUME NEW S, IsFiniteSet(S), NEW T, IsFiniteSet(T), NEW f, NEW e, NEW a,
         \A x \in S : f[x] \in Nat, \A x \in T : e[x] \in Nat,
         \A x \in S \cup T : x # a => x \in S /\ x \in T /\ e[x] = f[x]
  PROVE  \E rest \in Nat : Sum(f, S) = rest + Share(f, S, a) /\ Sum(e, T) = rest + Share(e, T, a)
<1> DEFINE rest == Sum(f, S \ {a})
<1>1. IsFiniteSet(S \ {a}) /\ S \ {a} = T \ {a}
  BY FS_Subset
<1>2. rest \in Nat /\ Sum(e, T \ {a}) = rest
  <2>1. rest \in Nat
    BY <1>1, SumUnfolds
  <2>2. Sum(e, S \ {a}) = Sum(f, S \ {a})
    BY <1>1, SumSame
  <2> QED BY <1>1, <2>1, <2>2
<1>3. Sum(f, S) = rest + Share(f, S, a)
  <2>1. CASE a \in S
    <3>1. Sum(f, S) = f[a] + Sum(f, S \ {a}) /\ f[a] \in Nat
      BY <2>1, SumRemoves
    <3>2. Share(f, S, a) = f[a]
      BY <2>1 DEF Share
    <3>3. Sum(f, S \ {a}) = rest /\ rest \in Nat
      BY <1>2
    <3> HIDE DEF rest
    <3> QED BY <3>1, <3>2, <3>3
  <2>2. CASE a \notin S
    <3>1. S \ {a} = S /\ Share(f, S, a) = 0
      BY <2>2 DEF Share
    <3>2. Sum(f, S \ {a}) = rest /\ rest \in Nat
      BY <1>2
    <3> HIDE DEF rest
    <3> QED BY <3>1, <3>2
  <2> QED BY <2>1, <2>2
<1>4. Sum(e, T) = rest + Share(e, T, a)
  <2>1. CASE a \in T
    <3>1. Sum(e, T) = e[a] + Sum(e, T \ {a}) /\ e[a] \in Nat
      BY <2>1, SumRemoves
    <3>2. Share(e, T, a) = e[a]
      BY <2>1 DEF Share
    <3>3. Sum(e, T \ {a}) = rest /\ rest \in Nat
      BY <1>2
    <3> HIDE DEF rest
    <3> QED BY <3>1, <3>2, <3>3
  <2>2. CASE a \notin T
    <3>1. T \ {a} = T /\ Share(e, T, a) = 0
      BY <2>2 DEF Share
    <3>2. Sum(e, T \ {a}) = rest /\ rest \in Nat
      BY <1>2
    <3> HIDE DEF rest
    <3> QED BY <3>1, <3>2
  <2> QED BY <2>1, <2>2
<1> HIDE DEF rest
<1> QED BY <1>2, <1>3, <1>4

\* The sums of this module are sums of a function's values.
LEMMA SumsAre ==
  ASSUME NEW D, NEW m, NEW S \in SUBSET D
  PROVE  MapThenSumSet(LAMBDA x : m[x].tokens, S) = Sum([x \in D |-> m[x].tokens], S)
BY Zenon DEF MapThenSumSet, MapThenFoldSet, Sum, Some

-----------------------------------------------------------------------------
(* Types                                                                   *)

\* The state without its types' names, for the leaves that need all of it.
USE StreamAssumption DEF vars

\* A stream that was opened has a turn.
Opened == \A s \in Stream : stream[s].at # "off" => stream[s].of \in Turn

TInv == TypeOK /\ Opened

LEMMA InitTyped == Init => TInv
<1> SUFFICES ASSUME Init PROVE TInv
  OBVIOUS
<1>1. NoAnswer \in Answer /\ Fresh("off", NoTurn) \in StreamState
  BY DEF NoAnswer, Answer, Fresh, StreamState
<1> QED
  <2>1. stream \in [Stream -> StreamState] /\ Opened
    BY <1>1 DEF Init, Opened, Fresh
  <2>2. answer \in [Turn -> Answer] /\ request \in [Turn -> {"new", "checked", "waved", "asked", "made", "failed"}]
    BY <1>1 DEF Init
  <2>3. asked \in Seq(Turn) /\ edited \subseteq Turn /\ cancel \subseteq Turn
    BY DEF Init
  <2>4. gone \in BOOLEAN /\ used \in Nat /\ lost \in Nat
    BY DEF Init
  <2> QED
    BY <2>1, <2>2, <2>3, <2>4 DEF TInv, TypeOK

\* What one stream becomes changes nothing about the others.
LEMMA BecomesTyped ==
  ASSUME stream \in [Stream -> StreamState], Opened, NEW s \in Stream,
         NEW r \in StreamState, r.of \in Turn, Becomes(s, r)
  PROVE  stream' \in [Stream -> StreamState] /\ Opened'
BY DEF Becomes, Opened

\* Every step keeps the types.
LEMMA StepTyped == TInv /\ [Next]_vars => TInv'
<1> SUFFICES ASSUME TypeOK, Opened, [Next]_vars PROVE TypeOK' /\ Opened'
  BY DEF TInv
<1>0. \A s \in Stream : stream[s] \in StreamState
  BY DEF TypeOK
<1>1. ASSUME NEW t \in Turn, CheckBudget(t) \/ AskFails(t) \/ Cancel(t) \/ Expire(t)
      PROVE  TypeOK' /\ Opened'
  BY <1>1 DEF CheckBudget, AskFails, Cancel, Expire, Moves, TypeOK, Opened, Admitted
<1>2. ASSUME NEW t \in Turn, Ask(t) PROVE TypeOK' /\ Opened'
  BY <1>2 DEF Ask, Moves, TypeOK, Opened, Admitted
<1>3. ASSUME NEW t \in Turn, MakeDraft(t) PROVE TypeOK' /\ Opened'
  <2>1. Draft \in Answer
    BY DEF Draft, NoAnswer, Answer
  <2> QED
    BY <1>3, <2>1 DEF MakeDraft, Moves, TypeOK, Opened
<1>4. ASSUME NEW s \in Stream, NEW t \in Turn, Open(s, t) PROVE TypeOK' /\ Opened'
  <2>1. Fresh("opened", t) \in StreamState /\ Fresh("opened", t).of \in Turn
    BY DEF Fresh, StreamState, Live
  <2> QED
    BY <1>4, <2>1, BecomesTyped DEF Open, TypeOK
<1>5. ASSUME NEW s \in Stream, Recall(s) PROVE TypeOK' /\ Opened'
  <2> DEFINE r == [stream[s] EXCEPT !.at = "listening", !.query = Newest]
  <2>1. Newest \in Turn \cup {NoTurn}
    BY DEF Newest, TypeOK
  <2>2. r \in StreamState /\ r.of \in Turn /\ Becomes(s, r)
    BY <1>0, <1>5, <2>1 DEF Recall, At, StreamState, Live, Opened
  <2> QED
    BY <1>5, <2>2, BecomesTyped DEF Recall, TypeOK
<1>6. ASSUME NEW s \in Stream, Delta(s) PROVE TypeOK' /\ Opened'
  <2>1. PICK n \in {stream[s].tokens, stream[s].deltas + 1} :
          Becomes(s, [stream[s] EXCEPT !.deltas = @ + 1, !.tokens = n])
    BY <1>6 DEF Delta, Usage
  <2>2. stream[s].deltas \in Nat /\ stream[s].deltas + 1 \in 0..DeltaCap /\ n \in 0..DeltaCap
    BY <1>0, <1>6 DEF Delta, StreamState
  <2> DEFINE r == [stream[s] EXCEPT !.deltas = @ + 1, !.tokens = n]
  <2>3. r \in StreamState /\ r.of \in Turn
    BY <1>0, <1>6, <2>2 DEF Delta, At, StreamState, Opened
  <2> QED
    BY <1>6, <2>1, <2>3, BecomesTyped DEF Delta, TypeOK
<1>7. ASSUME NEW s \in Stream, NEW to \in Live \cup {"over"}, NEW told \in {stream[s].told, "error", "done"},
             stream[s].at \in Live, Becomes(s, [stream[s] EXCEPT !.at = to, !.told = told])
      PROVE  stream' \in [Stream -> StreamState] /\ Opened'
  <2> DEFINE r == [stream[s] EXCEPT !.at = to, !.told = told]
  <2>1. r \in StreamState /\ r.of \in Turn
    BY <1>0, <1>7 DEF StreamState, Opened, Live
  <2> QED
    BY <1>7, <2>1, BecomesTyped DEF TypeOK
<1>8. ASSUME NEW s \in Stream, NEW to \in Live \cup {"over"}, stream[s].at \in Live,
             Becomes(s, [stream[s] EXCEPT !.at = to])
      PROVE  stream' \in [Stream -> StreamState] /\ Opened'
  <2>1. [stream[s] EXCEPT !.at = to] = [stream[s] EXCEPT !.at = to, !.told = stream[s].told]
    BY <1>0 DEF StreamState
  <2> QED
    BY <1>7, <1>8, <2>1
<1>9. ASSUME NEW s \in Stream, Heed(s) \/ Clear(s) \/ Done(s) \/ Error(s) \/ WriteFails(s)
                                 \/ Tell(s) \/ Leave(s)
      PROVE  TypeOK' /\ Opened'
  <2>1. stream' \in [Stream -> StreamState] /\ Opened'
    <3>1. CASE Error(s) \/ Tell(s)
      BY <1>7, <3>1 DEF Error, Tell, At, Live
    <3>2. CASE Heed(s) \/ Clear(s) \/ Done(s) \/ WriteFails(s) \/ Leave(s)
      BY <1>8, <3>2 DEF Heed, Clear, Done, WriteFails, Leave, Goes, At, Live
    <3> QED
      BY <1>9, <3>1, <3>2
  <2> QED
    BY <1>9, <2>1 DEF Heed, Clear, Done, Error, WriteFails, Tell, Leave, TypeOK
<1>10. ASSUME NEW s \in Stream, Write(s) PROVE TypeOK' /\ Opened'
  <2>1. stream' \in [Stream -> StreamState] /\ Opened'
    BY <1>8, <1>10 DEF Write, Goes, At, Live
  <2>2. [status |-> "complete", by |-> s, deltas |-> stream[s].deltas, tokens |-> stream[s].tokens] \in Answer
    BY <1>0 DEF StreamState, Answer
  <2> QED
    BY <1>10, <2>1, <2>2 DEF Write, TypeOK
<1>11. ASSUME NEW s \in Stream, Count(s) \/ Crash(s) PROVE TypeOK' /\ Opened'
  <2>1. stream' \in [Stream -> StreamState] /\ Opened'
    BY <1>8, <1>11 DEF Count, Crash, Goes, At, Live
  <2>2. stream[s].tokens \in Nat
    BY <1>0 DEF StreamState
  <2> QED
    BY <1>11, <2>1, <2>2 DEF Count, Crash, TypeOK
<1>12. CASE DeleteThread
  <2>1. NoAnswer \in Answer
    BY DEF NoAnswer, Answer
  <2> QED
    BY <1>12, <2>1 DEF DeleteThread, TypeOK, Opened
<1>13. CASE UNCHANGED vars
  BY <1>13 DEF TypeOK, Opened
<1> QED
  BY <1>1, <1>2, <1>3, <1>4, <1>5, <1>6, <1>9, <1>10, <1>11, <1>12, <1>13 DEF Next, Work

\* Requests, messages, keys and streams keep their types.
THEOREM TypeCorrect == Spec => []TypeOK
<1>1. Spec => []TInv
  BY InitTyped, StepTyped, PTL DEF Spec
<1>2. TInv => TypeOK
  BY DEF TInv
<1> QED
  BY <1>1, <1>2, PTL

-----------------------------------------------------------------------------
(* The thread: who asked, and in which order                               *)

InThread(t) == \E i \in DOMAIN asked : asked[i] = t

\* A draft is made for a question that is in the thread, and streamed once it is
\* made: this is what keeps a stream from an older question.
Placed ==
  /\ \A t \in Turn : request[t] \in {"asked", "made"} => InThread(t)
  /\ \A t \in Turn : answer[t] # NoAnswer => request[t] = "made"
  /\ \A s \in Stream : stream[s].at # "off" => request[stream[s].of] = "made"

LEMMA InitPlaced == Init => Placed /\ NeverStale
BY DEF Init, Placed, NeverStale, Fresh

\* A stream that goes on with the turn and the question it has.
LEMMA GoesOnPlaced ==
  ASSUME TInv, Placed, NeverStale, NEW s \in Stream, NEW r \in StreamState, Becomes(s, r),
         stream[s].at # "off", r.of = stream[s].of, r.query = stream[s].query,
         UNCHANGED <<request, asked>>,
         \A t \in Turn : answer'[t] # answer[t] => request[t] = "made"
  PROVE  Placed' /\ NeverStale'
<1>1. \A x \in Stream : stream'[x] = IF x = s THEN r ELSE stream[x]
  BY DEF Becomes, TInv, TypeOK
<1>2. Placed'
  BY <1>1 DEF Placed, InThread
<1>3. NeverStale'
  BY <1>1 DEF NeverStale
<1> QED
  BY <1>2, <1>3

\* No step breaks the order of the thread.
LEMMA StepPlaced == TInv /\ Placed /\ NeverStale /\ [Next]_vars => Placed' /\ NeverStale'
<1> SUFFICES ASSUME TInv, Placed, NeverStale, [Next]_vars PROVE Placed' /\ NeverStale'
  OBVIOUS
<1>0. /\ asked \in Seq(Turn) /\ request \in [Turn -> {"new", "checked", "waved", "asked", "made", "failed"}]
      /\ answer \in [Turn -> Answer] /\ stream \in [Stream -> StreamState]
      /\ \A s \in Stream : stream[s] \in StreamState
      /\ \A s \in Stream : stream[s].at # "off" => stream[s].of \in Turn
  BY DEF TInv, TypeOK, Opened
<1>1. ASSUME NEW t \in Turn, CheckBudget(t) \/ AskFails(t) PROVE Placed' /\ NeverStale'
  <2>1. /\ request[t] \in {"new", "checked", "waved", "asked"} /\ UNCHANGED <<asked, answer, stream>>
        /\ request' = [request EXCEPT ![t] = request'[t]] /\ request'[t] \in {"checked", "waved", "failed"}
    BY <1>0, <1>1 DEF CheckBudget, AskFails, Moves, Admitted
  <2>2. \A u \in Turn : request'[u] # request[u] => u = t
    BY <1>0, <2>1
  <2>3. Placed'
    BY <1>0, <2>1, <2>2 DEF Placed, InThread
  <2> QED
    BY <2>1, <2>3 DEF NeverStale
<1>2. ASSUME NEW t \in Turn, Ask(t) PROVE Placed' /\ NeverStale'
  <2>1. /\ DOMAIN asked \subseteq DOMAIN asked' /\ \A i \in DOMAIN asked : asked'[i] = asked[i]
        /\ Len(asked') \in DOMAIN asked' /\ asked'[Len(asked')] = t
    BY <1>0, <1>2 DEF Ask
  <2>2. /\ \A u \in Turn : request'[u] # request[u] => u = t
        /\ request[t] \in {"checked", "waved"} /\ UNCHANGED <<answer, stream>>
    BY <1>0, <1>2 DEF Ask, Moves, Admitted
  <2>3. InThread(t)' /\ \A u \in Turn : InThread(u) => InThread(u)'
    BY <2>1 DEF InThread
  <2>4. Placed'
    BY <1>0, <2>2, <2>3 DEF Placed
  <2>5. NeverStale'
    BY <2>1, <2>2 DEF NeverStale
  <2> QED
    BY <2>4, <2>5
<1>3. ASSUME NEW t \in Turn, MakeDraft(t) PROVE Placed' /\ NeverStale'
  <2>1. /\ request[t] = "asked" /\ request'[t] = "made" /\ UNCHANGED <<asked, stream>>
        /\ \A u \in Turn : u # t => request'[u] = request[u] /\ answer'[u] = answer[u]
    BY <1>0, <1>3 DEF MakeDraft, Moves
  <2>2. Placed'
    BY <1>0, <2>1 DEF Placed, InThread
  <2> QED
    BY <2>1, <2>2 DEF NeverStale
<1>4. ASSUME NEW s \in Stream, NEW t \in Turn, Open(s, t) PROVE Placed' /\ NeverStale'
  <2>1. /\ \A x \in Stream : stream'[x] = IF x = s THEN Fresh("opened", t) ELSE stream[x]
        /\ request[t] = "made" /\ UNCHANGED <<asked, request, answer>>
    BY <1>0, <1>4 DEF Open, Becomes, Placed
  <2>2. Placed'
    BY <2>1 DEF Placed, InThread, Fresh
  <2>3. NeverStale'
    BY <2>1 DEF NeverStale, Fresh
  <2> QED
    BY <2>2, <2>3
<1>5. ASSUME NEW s \in Stream, Recall(s) PROVE Placed' /\ NeverStale'
  <2> DEFINE r == [stream[s] EXCEPT !.at = "listening", !.query = Newest]
  <2>1. /\ \A x \in Stream : stream'[x] = IF x = s THEN r ELSE stream[x]
        /\ r.of = stream[s].of /\ r.query = Newest
        /\ stream[s].at = "opened" /\ UNCHANGED <<asked, request, answer>>
    BY <1>0, <1>5 DEF Recall, Becomes, At, StreamState
  <2> HIDE DEF r
  <2>2. InThread(stream[s].of)
    BY <1>0, <2>1 DEF Placed
  <2>3. Placed'
    BY <2>1 DEF Placed, InThread
  <2>4. ASSUME Newest # NoTurn
        PROVE  \E i, j \in DOMAIN asked : i <= j /\ asked[i] = stream[s].of /\ asked[j] = Newest
    <3>1. PICK i \in DOMAIN asked : asked[i] = stream[s].of
      BY <2>2 DEF InThread
    <3>2. i <= Len(asked) /\ Len(asked) \in DOMAIN asked /\ Newest = asked[Len(asked)]
      BY <1>0, <2>4, <3>1 DEF Newest
    <3> QED
      BY <3>1, <3>2
  <2>5. NeverStale'
    BY <2>1, <2>4 DEF NeverStale
  <2> QED
    BY <2>3, <2>5
<1>6. ASSUME NEW s \in Stream,
             Delta(s) \/ Heed(s) \/ Clear(s) \/ Done(s) \/ Error(s) \/ Write(s) \/ WriteFails(s)
               \/ Count(s) \/ Tell(s) \/ Leave(s) \/ Crash(s)
      PROVE  Placed' /\ NeverStale'
  <2>1. stream[s].at # "off" /\ UNCHANGED <<request, asked>>
    <3>1. stream[s].at \in Live
      BY <1>6 DEF Delta, Heed, Clear, Done, Error, Write, WriteFails, Count, Tell, Leave, Crash,
           Goes, At, Live
    <3>2. UNCHANGED <<request, asked>>
      BY <1>6 DEF Delta, Heed, Clear, Done, Error, Write, WriteFails, Count, Tell, Leave, Crash
    <3> QED
      BY <3>1, <3>2 DEF Live
  <2>5. \A t \in Turn : answer'[t] # answer[t] => t = stream[s].of
    <3>1. CASE Write(s)
      BY <1>0, <3>1 DEF Write, Turning
    <3>2. CASE ~Write(s)
      BY <1>6, <3>2 DEF Delta, Heed, Clear, Done, Error, WriteFails, Count, Tell, Leave, Crash
    <3> QED
      BY <3>1, <3>2
  <2> DEFINE r == stream'[s]
  <2>2. Becomes(s, r) /\ r.of = stream[s].of /\ r.query = stream[s].query
    <3>1. CASE Delta(s)
      <4>1. PICK n : Becomes(s, [stream[s] EXCEPT !.deltas = @ + 1, !.tokens = n])
        BY <3>1 DEF Delta
      <4>2. r = [stream[s] EXCEPT !.deltas = @ + 1, !.tokens = n]
        BY <1>0, <4>1 DEF Becomes
      <4> QED
        BY <1>0, <4>1, <4>2 DEF StreamState, Becomes
    <3>2. CASE Error(s) \/ Tell(s)
      <4>1. PICK told \in {"error", "done"} : Becomes(s, [stream[s] EXCEPT !.at = "over", !.told = told])
        BY <3>2 DEF Error, Tell
      <4>2. r = [stream[s] EXCEPT !.at = "over", !.told = told]
        BY <1>0, <4>1 DEF Becomes
      <4> QED
        BY <1>0, <4>1, <4>2 DEF StreamState, Becomes
    <3>3. CASE Heed(s) \/ Clear(s) \/ Done(s) \/ Write(s) \/ WriteFails(s) \/ Count(s) \/ Leave(s) \/ Crash(s)
      BY <1>0, <3>3 DEF Heed, Clear, Done, Write, WriteFails, Count, Leave, Crash, Goes, Becomes, StreamState
    <3> QED
      BY <1>6, <3>1, <3>2, <3>3
  <2>3. r \in StreamState
    BY StepTyped DEF TInv, TypeOK
  <2>4. \A t \in Turn : answer'[t] # answer[t] => request[t] = "made"
    BY <2>1, <2>5 DEF Placed
  <2> QED
    BY <2>1, <2>2, <2>3, <2>4, GoesOnPlaced
<1>7. CASE DeleteThread
  BY <1>0, <1>7 DEF DeleteThread, Placed, NeverStale, InThread
<1>8. ASSUME NEW t \in Turn, Cancel(t) \/ Expire(t) PROVE Placed' /\ NeverStale'
  BY <1>8 DEF Cancel, Expire, Placed, NeverStale, InThread
<1>9. CASE UNCHANGED vars
  BY <1>9 DEF Placed, NeverStale, InThread
<1> QED
  BY <1>1, <1>2, <1>3, <1>4, <1>5, <1>6, <1>7, <1>8, <1>9 DEF Next, Work

\* No model is asked a question older than the one the draft was made for,
\* however requests and streams interleave and whenever the thread is deleted.
THEOREM NothingStale == Spec => []NeverStale
<1>1. Spec => [](TInv /\ Placed /\ NeverStale)
  BY InitTyped, InitPlaced, StepTyped, StepPlaced, PTL DEF Spec
<1> QED
  BY <1>1, PTL

-----------------------------------------------------------------------------
(* The answers: who wrote them, and who was told so                        *)

After == {"counting", "telling", "over"}

\* A client is told how its stream ended when it has ended.
ToldAtLast == \A s \in Stream : stream[s].told # "nothing" => stream[s].at = "over"

\* The writer of a complete answer is past its writing, and changes no more.
WriterKnown ==
  \A t \in Turn : answer[t].status = "complete" =>
    /\ answer[t].by \in Stream
    /\ stream[answer[t].by].of = t /\ stream[answer[t].by].at \in After
    /\ stream[answer[t].by].told # "error"
    /\ answer[t].deltas = stream[answer[t].by].deltas
    /\ answer[t].tokens = stream[answer[t].by].tokens

\* Past its writing, and until its client is told, a stream's message is complete.
WrittenKept ==
  \A s \in Stream : stream[s].at \in {"counting", "telling"} \/ stream[s].told = "done" =>
    gone \/ answer[stream[s].of].status = "complete"

AInv == ToldAtLast /\ WriterKnown /\ WrittenKept

LEMMA InitAnswers == Init => AInv
BY DEF Init, AInv, ToldAtLast, WriterKnown, WrittenKept, Fresh, NoAnswer

\* Steps of a stream that write no answer.
LEMMA StreamOnlyAnswers ==
  ASSUME TInv, AInv, NEW s \in Stream, NEW r \in StreamState, Becomes(s, r),
         UNCHANGED <<answer, gone>>,
         r.told # "nothing" => r.at = "over",
         stream[s].at \in After => /\ r.of = stream[s].of /\ r.deltas = stream[s].deltas
                                   /\ r.tokens = stream[s].tokens
                                   /\ r.at \in After /\ r.told # "error",
         r.at \in {"counting", "telling"} \/ r.told = "done" =>
           stream[s].at \in {"counting", "telling"} /\ r.of = stream[s].of
  PROVE  AInv'
<1>1. \A x \in Stream : stream'[x] = IF x = s THEN r ELSE stream[x]
  BY DEF Becomes, TInv, TypeOK
<1>2. ToldAtLast'
  BY <1>1 DEF AInv, ToldAtLast
<1>3. WriterKnown'
  BY <1>1 DEF AInv, WriterKnown
<1>4. WrittenKept'
  BY <1>1 DEF AInv, WrittenKept
<1> QED
  BY <1>2, <1>3, <1>4 DEF AInv

SettledStep ==
  \A t \in Turn : answer[t].status = "complete" /\ answer'[t] # answer[t] =>
    \/ gone'
    \/ /\ answer'[t].status = "complete" /\ answer'[t].by # answer[t].by
       /\ stream[answer'[t].by].of = t

\* Every step keeps the answers, and replaces one only by another stream's.
LEMMA StepAnswers == TInv /\ Placed /\ AInv /\ [Next]_vars => AInv' /\ SettledStep
<1> SUFFICES ASSUME TInv, Placed, AInv, [Next]_vars PROVE AInv' /\ SettledStep
  OBVIOUS
<1>0. /\ answer \in [Turn -> Answer] /\ stream \in [Stream -> StreamState]
      /\ \A s \in Stream : stream[s] \in StreamState
      /\ \A s \in Stream : stream[s].at # "off" => stream[s].of \in Turn
      /\ \A s \in Stream : stream'[s] \in StreamState
  BY StepTyped DEF TInv, TypeOK, Opened
<1>1. UNCHANGED answer => SettledStep
  BY DEF SettledStep
<1>2. UNCHANGED <<answer, gone, stream>> => AInv' /\ SettledStep
  BY <1>1 DEF AInv, ToldAtLast, WriterKnown, WrittenKept
<1>3. ASSUME NEW t \in Turn, CheckBudget(t) \/ Ask(t) \/ AskFails(t) \/ Cancel(t) \/ Expire(t)
      PROVE  AInv' /\ SettledStep
  BY <1>2, <1>3 DEF CheckBudget, Ask, AskFails, Cancel, Expire
<1>4. ASSUME NEW t \in Turn, MakeDraft(t) PROVE AInv' /\ SettledStep
  <2>1. /\ answer[t].status # "complete" /\ answer'[t].status # "complete"
        /\ \A u \in Turn : u # t => answer'[u] = answer[u]
        /\ UNCHANGED <<gone, stream>>
    BY <1>0, <1>4 DEF MakeDraft, Moves, Placed, NoAnswer, Draft
  <2>2. SettledStep
    BY <2>1 DEF SettledStep
  <2>3. ToldAtLast' /\ WriterKnown'
    BY <2>1 DEF AInv, ToldAtLast, WriterKnown
  <2>4. WrittenKept'
    BY <1>0, <2>1 DEF AInv, ToldAtLast, WrittenKept
  <2> QED
    BY <2>2, <2>3, <2>4 DEF AInv
<1>5. ASSUME NEW s \in Stream, NEW t \in Turn, Open(s, t) PROVE AInv' /\ SettledStep
  <2>1. Fresh("opened", t) \in StreamState
    BY DEF Fresh, StreamState, Live
  <2> QED
    BY <1>1, <1>5, <2>1, StreamOnlyAnswers DEF Open, At, After, Fresh
<1>6. ASSUME NEW s \in Stream,
             Recall(s) \/ Delta(s) \/ Heed(s) \/ Clear(s) \/ Done(s) \/ Error(s) \/ WriteFails(s)
      PROVE  AInv' /\ SettledStep
  <2> DEFINE r == stream'[s]
  <2>1. stream[s].at \in {"opened", "listening", "cancelling", "writing"}
    BY <1>6 DEF Recall, Delta, Heed, Clear, Done, Error, WriteFails, Goes, At
  <2>2. /\ Becomes(s, r) /\ r.at \notin {"counting", "telling"} /\ r.told # "done"
        /\ r.told # "nothing" => r.at = "over"
    <3>0. stream[s].told = "nothing"
      BY <2>1 DEF AInv, ToldAtLast
    <3>1. CASE Recall(s)
      BY <1>0, <3>0, <3>1 DEF Recall, Becomes, StreamState
    <3>2. CASE Delta(s)
      <4>1. PICK n : Becomes(s, [stream[s] EXCEPT !.deltas = @ + 1, !.tokens = n])
        BY <3>2 DEF Delta
      <4>2. r = [stream[s] EXCEPT !.deltas = @ + 1, !.tokens = n]
        BY <1>0, <4>1 DEF Becomes
      <4> QED
        BY <1>0, <2>1, <3>0, <4>1, <4>2 DEF StreamState, Becomes
    <3>3. CASE Heed(s) \/ Clear(s) \/ Done(s) \/ WriteFails(s)
      BY <1>0, <3>0, <3>3 DEF Heed, Clear, Done, WriteFails, Goes, Becomes, StreamState
    <3>4. CASE Error(s)
      <4>1. r = [stream[s] EXCEPT !.at = "over", !.told = "error"]
        BY <1>0, <3>4 DEF Error, Becomes
      <4> QED
        BY <1>0, <3>4, <4>1 DEF Error, Becomes, StreamState
    <3> QED
      BY <1>6, <3>1, <3>2, <3>3, <3>4
  <2>3. UNCHANGED <<answer, gone>>
    BY <1>6 DEF Recall, Delta, Heed, Clear, Done, Error, WriteFails
  <2> HIDE DEF r
  <2>4. r \in StreamState
    BY <1>0 DEF r
  <2> QED
    BY <1>1, <2>1, <2>2, <2>3, <2>4, StreamOnlyAnswers DEF After
<1>7. ASSUME NEW s \in Stream, Write(s) PROVE AInv' /\ SettledStep
  <2> DEFINE r == [stream[s] EXCEPT !.at = "counting"]
  <2>1. /\ \A x \in Stream : stream'[x] = IF x = s THEN r ELSE stream[x]
        /\ stream[s].at = "writing" /\ stream[s].told = "nothing"
        /\ r.at = "counting" /\ r.told = "nothing" /\ r.of = stream[s].of
        /\ r.deltas = stream[s].deltas /\ r.tokens = stream[s].tokens
        /\ stream[s].of \in Turn /\ UNCHANGED gone
    BY <1>0, <1>7 DEF Write, Goes, At, Becomes, StreamState, AInv, ToldAtLast
  <2> HIDE DEF r
  <2>2. CASE gone
    <3>1. UNCHANGED answer
      BY <1>7, <2>2 DEF Write
    <3>2. ToldAtLast' /\ WrittenKept'
      BY <2>1, <2>2 DEF AInv, ToldAtLast, WrittenKept
    <3>3. WriterKnown'
      BY <2>1, <3>1 DEF AInv, WriterKnown, After
    <3> QED
      BY <1>1, <3>1, <3>2, <3>3 DEF AInv
  <2>3. CASE ~gone
    <3>1. /\ answer'[stream[s].of] = [status |-> "complete", by |-> s,
                                      deltas |-> stream[s].deltas, tokens |-> stream[s].tokens]
          /\ \A t \in Turn : t # stream[s].of => answer'[t] = answer[t]
      BY <1>0, <1>7, <2>1, <2>3 DEF Write, Turning
    <3>2. ToldAtLast'
      BY <2>1 DEF AInv, ToldAtLast
    <3>3. WrittenKept'
      BY <1>0, <2>1, <3>1 DEF AInv, ToldAtLast, WrittenKept
    <3>4. WriterKnown'
      BY <2>1, <3>1 DEF AInv, WriterKnown, After
    <3>5. SettledStep
      BY <2>1, <3>1 DEF AInv, WriterKnown, After, SettledStep
    <3> QED
      BY <3>2, <3>3, <3>4, <3>5 DEF AInv
  <2> QED
    BY <2>2, <2>3
<1>8. ASSUME NEW s \in Stream, Count(s) \/ Tell(s) \/ Leave(s) \/ Crash(s)
      PROVE  AInv' /\ SettledStep
  <2> DEFINE r == stream'[s]
  <2>1. stream[s].at \in Live /\ stream[s].told = "nothing"
    BY <1>8 DEF Count, Tell, Leave, Crash, Goes, At, Live, AInv, ToldAtLast
  <2>2. /\ Becomes(s, r) /\ r.of = stream[s].of
        /\ r.deltas = stream[s].deltas /\ r.tokens = stream[s].tokens
        /\ \/ r.at = "telling" /\ r.told = "nothing" /\ stream[s].at = "counting"
           \/ r.at = "over" /\ r.told = "done" /\ stream[s].at = "telling"
           \/ r.at = "over" /\ r.told = "nothing"
    <3>1. CASE Count(s)
      BY <1>0, <2>1, <3>1 DEF Count, Goes, At, Becomes, StreamState
    <3>2. CASE Tell(s)
      <4>1. r = [stream[s] EXCEPT !.at = "over", !.told = "done"]
        BY <1>0, <3>2 DEF Tell, Becomes
      <4> QED
        BY <1>0, <3>2, <4>1 DEF Tell, At, Becomes, StreamState
    <3>3. CASE Leave(s) \/ Crash(s)
      BY <1>0, <2>1, <3>3 DEF Leave, Crash, Becomes, StreamState
    <3> QED
      BY <1>8, <3>1, <3>2, <3>3
  <2>3. UNCHANGED <<answer, gone>>
    BY <1>8 DEF Count, Tell, Leave, Crash
  <2> HIDE DEF r
  <2>4. r \in StreamState
    BY <1>0 DEF r
  <2> QED
    BY <1>1, <2>1, <2>2, <2>3, <2>4, StreamOnlyAnswers DEF After
<1>9. CASE DeleteThread
  <2>1. gone' /\ UNCHANGED stream /\ \A t \in Turn : answer'[t].status # "complete"
    BY <1>9 DEF DeleteThread, NoAnswer
  <2> QED
    BY <2>1 DEF AInv, ToldAtLast, WriterKnown, WrittenKept, SettledStep
<1>10. CASE UNCHANGED vars
  BY <1>2, <1>10
<1> QED
  BY <1>3, <1>4, <1>5, <1>6, <1>7, <1>8, <1>9, <1>10 DEF Next, Work

LEMMA AllTogether == Spec => [](TInv /\ Placed /\ NeverStale /\ AInv)
<1>1. TInv /\ Placed /\ NeverStale /\ AInv /\ [Next]_vars => (TInv /\ Placed /\ NeverStale /\ AInv)'
  BY StepTyped, StepPlaced, StepAnswers
<1> QED
  BY <1>1, InitTyped, InitPlaced, InitAnswers, PTL DEF Spec

\* A complete answer is what one stream of its message passed on, without error:
\* any number of streams of one message may overlap.
THEOREM OneStream == Spec => []OneStreamsAnswer
<1>1. TInv /\ AInv => OneStreamsAnswer
  BY DEF AInv, WriterKnown, OneStreamsAnswer
<1> QED
  BY <1>1, AllTogether, PTL

\* Who was told "done" finds the message complete, unless the thread is deleted.
THEOREM DoneKept == Spec => []DoneIsKept
<1>1. AInv => DoneIsKept
  BY DEF AInv, WrittenKept, DoneIsKept
<1> QED
  BY <1>1, AllTogether, PTL

\* A complete answer never becomes a draft again, and only another stream of
\* the message replaces it.
THEOREM AnswersSettle == Spec => Settled
<1>1. TInv /\ Placed /\ AInv /\ [Next]_vars => [SettledStep]_vars
  BY StepAnswers
<1> QED
  BY <1>1, AllTogether, PTL DEF Spec, Settled, SettledStep

-----------------------------------------------------------------------------
(* The usage: what answers cost, and what is counted                       *)

Begun(m) == {s \in Stream : m[s].at # "off"}
Counting(m) == {s \in Stream : m[s].at = "counting"}
Paying(m) == {s \in Stream : m[s].at \in After /\ m[s].told # "error"}
Full(m) == {t \in Turn : m[t].status = "complete"}
AllPaid == Tokens({s \in Stream : stream[s].at \in {"counting", "telling", "over"} /\ stream[s].told # "error"})

\* What one stream, and one answer, adds to the sums.
Due(r) == IF r.at = "counting" THEN r.tokens ELSE 0
Paid(r) == IF r.at \in After /\ r.told # "error" THEN r.tokens ELSE 0
Worth(a) == IF a.status = "complete" THEN a.tokens ELSE 0

\* What is summed up is finite, however many turns and streams there may be.
UInv == IsFiniteSet(Begun(stream)) /\ IsFiniteSet(Full(answer)) /\ UsageFollows

LEMMA UsageSums ==
  /\ Underway = Sum([x \in Stream |-> stream[x].tokens], Counting(stream))
  /\ Underway' = Sum([x \in Stream |-> stream'[x].tokens], Counting(stream'))
  /\ AllPaid = Sum([x \in Stream |-> stream[x].tokens], Paying(stream))
  /\ AllPaid' = Sum([x \in Stream |-> stream'[x].tokens], Paying(stream'))
  /\ Stored = Sum([x \in Turn |-> answer[x].tokens], Full(answer))
  /\ Stored' = Sum([x \in Turn |-> answer'[x].tokens], Full(answer'))
<1>1. \A m : Counting(m) \in SUBSET Stream /\ Paying(m) \in SUBSET Stream /\ Full(m) \in SUBSET Turn
  BY DEF Counting, Paying, Full
<1>2. ASSUME NEW m
      PROVE  /\ MapThenSumSet(LAMBDA x : m[x].tokens, Counting(m)) = Sum([x \in Stream |-> m[x].tokens], Counting(m))
             /\ MapThenSumSet(LAMBDA x : m[x].tokens, Paying(m)) = Sum([x \in Stream |-> m[x].tokens], Paying(m))
             /\ MapThenSumSet(LAMBDA x : m[x].tokens, Full(m)) = Sum([x \in Turn |-> m[x].tokens], Full(m))
  BY <1>1, SumsAre
<1>3. /\ Underway = MapThenSumSet(LAMBDA x : stream[x].tokens, Counting(stream))
      /\ Underway' = MapThenSumSet(LAMBDA x : stream'[x].tokens, Counting(stream'))
  BY Zenon DEF Underway, Tokens, Counting, At, MapThenSumSet, MapThenFoldSet
<1>4. /\ AllPaid = MapThenSumSet(LAMBDA x : stream[x].tokens, Paying(stream))
      /\ AllPaid' = MapThenSumSet(LAMBDA x : stream'[x].tokens, Paying(stream'))
  BY Zenon DEF AllPaid, Tokens, Paying, After, MapThenSumSet, MapThenFoldSet
<1>5. /\ Stored = MapThenSumSet(LAMBDA x : answer[x].tokens, Full(answer))
      /\ Stored' = MapThenSumSet(LAMBDA x : answer'[x].tokens, Full(answer'))
  BY Zenon DEF Stored, Full, MapThenSumSet, MapThenFoldSet
<1> QED
  BY <1>2, <1>3, <1>4, <1>5, Zenon

LEMMA UsageTyped ==
  ASSUME TInv, UInv
  PROVE  Underway \in Nat /\ AllPaid \in Nat /\ Stored \in Nat
<1>1. Counting(stream) \in SUBSET Begun(stream) /\ Paying(stream) \in SUBSET Begun(stream)
  BY DEF Counting, Paying, Begun, After
<1>2. IsFiniteSet(Counting(stream)) /\ IsFiniteSet(Paying(stream)) /\ IsFiniteSet(Full(answer))
  BY <1>1, FS_Subset DEF UInv
<1>3. /\ \A x \in Stream : [y \in Stream |-> stream[y].tokens][x] \in Nat
      /\ \A x \in Turn : [y \in Turn |-> answer[y].tokens][x] \in Nat
  BY DEF TInv, TypeOK, StreamState, Answer
<1>4. Counting(stream) \subseteq Stream /\ Paying(stream) \subseteq Stream /\ Full(answer) \subseteq Turn
  BY DEF Counting, Paying, Full
<1> QED
  BY <1>2, <1>3, <1>4, UsageSums, SumUnfolds, Zenon

\* The sums after a step of one stream.
LEMMA StreamSums ==
  ASSUME TInv, TInv', UInv, NEW s \in Stream, \A x \in Stream : x # s => stream'[x] = stream[x]
  PROVE  /\ IsFiniteSet(Begun(stream'))
         /\ \E n \in Nat : Underway = n + Due(stream[s]) /\ Underway' = n + Due(stream'[s])
         /\ \E n \in Nat : AllPaid = n + Paid(stream[s]) /\ AllPaid' = n + Paid(stream'[s])
<1> DEFINE f == [x \in Stream |-> stream[x].tokens]
           e == [x \in Stream |-> stream'[x].tokens]
<1>1. \A x \in Stream : f[x] \in Nat /\ e[x] \in Nat /\ (x # s => e[x] = f[x])
  BY DEF TInv, TypeOK, StreamState
<1>2. IsFiniteSet(Begun(stream'))
  <2>1. Begun(stream') \in SUBSET (Begun(stream) \cup {s})
    BY DEF Begun
  <2> QED
    BY <2>1, FS_AddElement, FS_Subset DEF UInv
<1>3. \A m : /\ Counting(m) \in SUBSET Begun(m) /\ Paying(m) \in SUBSET Begun(m)
             /\ Counting(m) \subseteq Stream /\ Paying(m) \subseteq Stream
  BY DEF Counting, Paying, Begun, After
<1>4. /\ IsFiniteSet(Counting(stream)) /\ IsFiniteSet(Paying(stream))
      /\ IsFiniteSet(Counting(stream')) /\ IsFiniteSet(Paying(stream'))
  BY <1>2, <1>3, FS_Subset DEF UInv
<1>5. \A x \in Stream : x # s => /\ x \in Counting(stream) <=> x \in Counting(stream')
                                 /\ x \in Paying(stream) <=> x \in Paying(stream')
  BY DEF Counting, Paying
<1>6. /\ Share(f, Counting(stream), s) = Due(stream[s]) /\ Share(e, Counting(stream'), s) = Due(stream'[s])
      /\ Share(f, Paying(stream), s) = Paid(stream[s]) /\ Share(e, Paying(stream'), s) = Paid(stream'[s])
  BY DEF Share, Due, Paid, Counting, Paying
<1>7. /\ Underway = Sum(f, Counting(stream)) /\ Underway' = Sum(e, Counting(stream'))
      /\ AllPaid = Sum(f, Paying(stream)) /\ AllPaid' = Sum(e, Paying(stream'))
  BY UsageSums, Zenon
<1> HIDE DEF f, e
<1>8. \E n \in Nat : /\ Sum(f, Counting(stream)) = n + Share(f, Counting(stream), s)
                     /\ Sum(e, Counting(stream')) = n + Share(e, Counting(stream'), s)
  BY <1>1, <1>3, <1>4, <1>5, SumsDiffer
<1>9. \E n \in Nat : /\ Sum(f, Paying(stream)) = n + Share(f, Paying(stream), s)
                     /\ Sum(e, Paying(stream')) = n + Share(e, Paying(stream'), s)
  BY <1>1, <1>3, <1>4, <1>5, SumsDiffer
<1> QED
  BY <1>2, <1>6, <1>7, <1>8, <1>9, Zenon

\* The sum after a change of one answer.
LEMMA AnswerSums ==
  ASSUME TInv, TInv', UInv, NEW t \in Turn, \A x \in Turn : x # t => answer'[x] = answer[x]
  PROVE  /\ IsFiniteSet(Full(answer'))
         /\ \E n \in Nat : Stored = n + Worth(answer[t]) /\ Stored' = n + Worth(answer'[t])
<1> DEFINE f == [x \in Turn |-> answer[x].tokens]
           e == [x \in Turn |-> answer'[x].tokens]
<1>1. \A x \in Turn : f[x] \in Nat /\ e[x] \in Nat /\ (x # t => e[x] = f[x])
  BY DEF TInv, TypeOK, Answer
<1>2. IsFiniteSet(Full(answer'))
  <2>1. Full(answer') \in SUBSET (Full(answer) \cup {t})
    BY DEF Full
  <2> QED
    BY <2>1, FS_AddElement, FS_Subset DEF UInv
<1>3. \A m : Full(m) \subseteq Turn
  BY DEF Full
<1>4. IsFiniteSet(Full(answer))
  BY DEF UInv
<1>5. \A x \in Turn : x # t => (x \in Full(answer) <=> x \in Full(answer'))
  BY DEF Full
<1>6. Share(f, Full(answer), t) = Worth(answer[t]) /\ Share(e, Full(answer'), t) = Worth(answer'[t])
  BY DEF Share, Worth, Full
<1>7. Stored = Sum(f, Full(answer)) /\ Stored' = Sum(e, Full(answer'))
  BY UsageSums, Zenon
<1> HIDE DEF f, e
<1>8. \E n \in Nat : /\ Sum(f, Full(answer)) = n + Share(f, Full(answer), t)
                     /\ Sum(e, Full(answer')) = n + Share(e, Full(answer'), t)
  BY <1>1, <1>2, <1>3, <1>4, <1>5, SumsDiffer
<1> QED
  BY <1>2, <1>6, <1>7, <1>8, Zenon

LEMMA UsageIs ==
  /\ UsageFollows <=> Stored <= used + lost + Underway /\ used + lost + Underway <= AllPaid
  /\ UsageFollows' <=> Stored' <= used' + lost' + Underway' /\ used' + lost' + Underway' <= AllPaid'
BY Zenon DEF UsageFollows, AllPaid

\* A step of a stream that pays for what it counts.
LEMMA StreamPays ==
  ASSUME TInv, TInv', UInv, UNCHANGED answer,
         NEW s \in Stream, \A x \in Stream : x # s => stream'[x] = stream[x],
         used' + lost' + Due(stream'[s]) = used + lost + Due(stream[s]),
         Paid(stream[s]) <= Paid(stream'[s])
  PROVE  UInv'
<1>1. IsFiniteSet(Begun(stream')) /\ IsFiniteSet(Full(answer'))
  BY StreamSums DEF UInv
<1>2. PICK n \in Nat : Underway = n + Due(stream[s]) /\ Underway' = n + Due(stream'[s])
  BY StreamSums
<1>3. PICK k \in Nat : AllPaid = k + Paid(stream[s]) /\ AllPaid' = k + Paid(stream'[s])
  BY StreamSums
<1>4. Stored' = Stored /\ Stored \in Nat
  BY UsageSums, UsageTyped
<1>5. /\ used \in Nat /\ lost \in Nat /\ used' \in Nat /\ lost' \in Nat
      /\ Due(stream[s]) \in Nat /\ Due(stream'[s]) \in Nat
      /\ Paid(stream[s]) \in Nat /\ Paid(stream'[s]) \in Nat
  BY DEF TInv, TypeOK, StreamState, Due, Paid
<1>6. Stored <= used + lost + Underway /\ used + lost + Underway <= AllPaid
  BY UsageIs DEF UInv
<1>7. Stored' <= used' + lost' + Underway' /\ used' + lost' + Underway' <= AllPaid'
  BY <1>2, <1>3, <1>4, <1>5, <1>6
<1>8. UsageFollows'
  BY <1>7, UsageIs
<1> QED
  BY <1>1, <1>8 DEF UInv

LEMMA StepUsage == TInv /\ AInv /\ UInv /\ [Next]_vars => UInv'
<1> SUFFICES ASSUME TInv, AInv, UInv, [Next]_vars PROVE UInv'
  OBVIOUS
<1>0. /\ TInv' /\ used \in Nat /\ lost \in Nat
      /\ answer \in [Turn -> Answer] /\ stream \in [Stream -> StreamState]
      /\ \A s \in Stream : stream[s] \in StreamState /\ stream[s].tokens \in Nat
      /\ \A s \in Stream : stream[s].at \in Live => stream[s].of \in Turn /\ stream[s].told = "nothing"
  BY StepTyped DEF TInv, TypeOK, Opened, StreamState, Live, AInv, ToldAtLast
<1>1. CASE UNCHANGED <<answer, used, lost, stream>>
  <2>1. Underway' = Underway /\ AllPaid' = AllPaid /\ Stored' = Stored
    BY <1>1, UsageSums
  <2>2. UsageFollows'
    <3>1. Stored <= used + lost + Underway /\ used + lost + Underway <= AllPaid
      BY UsageIs DEF UInv
    <3>2. Stored' <= used' + lost' + Underway' /\ used' + lost' + Underway' <= AllPaid'
      BY <1>1, <2>1, <3>1
    <3> QED
      BY <3>2, UsageIs
  <2> QED
    BY <1>1, <2>2 DEF UInv
<1>2. ASSUME NEW t \in Turn, CheckBudget(t) \/ Ask(t) \/ AskFails(t) \/ Cancel(t) \/ Expire(t)
      PROVE  UInv'
  BY <1>1, <1>2 DEF CheckBudget, Ask, AskFails, Cancel, Expire
\* A draft costs nothing yet.
<1>3. ASSUME NEW t \in Turn, MakeDraft(t) PROVE UInv'
  <2>1. /\ \A x \in Turn : x # t => answer'[x] = answer[x]
        /\ Worth(answer'[t]) = 0 /\ UNCHANGED <<used, lost, stream>>
    BY <1>0, <1>3 DEF MakeDraft, Worth, Draft, NoAnswer
  <2>2. IsFiniteSet(Full(answer')) /\ Stored' <= Stored
    <3>1. PICK n \in Nat : Stored = n + Worth(answer[t]) /\ Stored' = n + Worth(answer'[t])
      BY <1>0, <2>1, AnswerSums
    <3>2. Worth(answer[t]) \in Nat
      BY <1>0 DEF Worth, Answer
    <3> QED
      BY <1>0, <2>1, <3>1, <3>2, AnswerSums
  <2>3. Underway' = Underway /\ AllPaid' = AllPaid /\ Underway \in Nat /\ Stored \in Nat /\ Stored' \in Nat
    <3>1. Underway' = Underway /\ AllPaid' = AllPaid
      BY <2>1, UsageSums
    <3>2. Stored' \in Nat
      <4>1. PICK n \in Nat : Stored' = n + Worth(answer'[t])
        BY <1>0, <2>1, AnswerSums
      <4> QED
        BY <2>1, <4>1
    <3> QED
      BY <3>1, <3>2, UsageTyped
  <2>4. Stored <= used + lost + Underway /\ used + lost + Underway <= AllPaid
    BY UsageIs DEF UInv
  <2>5. Stored' <= used' + lost' + Underway' /\ used' + lost' + Underway' <= AllPaid'
    BY <1>0, <2>1, <2>2, <2>3, <2>4
  <2>6. UsageFollows'
    BY <2>5, UsageIs
  <2> QED
    BY <2>1, <2>2, <2>6 DEF UInv
\* Before its answer is written, a stream costs nothing, and counts nothing.
<1>4. ASSUME NEW s \in Stream,
             \/ Recall(s) \/ Delta(s) \/ Heed(s) \/ Clear(s) \/ Done(s) \/ Error(s)
             \/ WriteFails(s) \/ \E t \in Turn : Open(s, t)
      PROVE  UInv'
  <2>1. /\ UNCHANGED <<answer, used, lost>> /\ \A x \in Stream : x # s => stream'[x] = stream[x]
        /\ stream[s].at \in {"off", "opened", "listening", "cancelling", "writing"}
        /\ stream'[s].at # "counting"
    <3>1. CASE \E t \in Turn : Open(s, t)
      BY <1>0, <3>1 DEF Open, At, Becomes, Fresh
    <3>2. CASE Recall(s)
      BY <1>0, <3>2 DEF Recall, At, Becomes, StreamState
    <3>3. CASE Delta(s)
      <4>1. PICK n : Becomes(s, [stream[s] EXCEPT !.deltas = @ + 1, !.tokens = n])
        BY <3>3 DEF Delta
      <4>2. stream'[s].at = stream[s].at
        BY <1>0, <4>1 DEF Becomes, StreamState
      <4> QED
        BY <1>0, <3>3, <4>1, <4>2 DEF Delta, At, Becomes
    <3>4. CASE Heed(s) \/ Clear(s) \/ Done(s) \/ WriteFails(s)
      BY <1>0, <3>4 DEF Heed, Clear, Done, WriteFails, Goes, At, Becomes, StreamState
    <3>5. CASE Error(s)
      BY <1>0, <3>5 DEF Error, Becomes, StreamState
    <3> QED
      BY <1>4, <3>1, <3>2, <3>3, <3>4, <3>5
  <2>2. Due(stream[s]) = 0 /\ Due(stream'[s]) = 0 /\ Paid(stream[s]) = 0 /\ Paid(stream'[s]) \in Nat
    <3>1. stream'[s] \in StreamState
      BY <1>0 DEF TInv, TypeOK
    <3> QED
      BY <2>1, <3>1 DEF Due, Paid, After, StreamState
  <2> QED
    BY <1>0, <2>1, <2>2, StreamPays
\* A stream writes once, and is then to be counted: its answer may be worth less than before.
<1>5. ASSUME NEW s \in Stream, Write(s) PROVE UInv'
  <2>1. /\ \A x \in Stream : x # s => stream'[x] = stream[x]
        /\ stream'[s] = [stream[s] EXCEPT !.at = "counting"]
        /\ stream[s].at = "writing" /\ stream[s].told = "nothing" /\ stream[s].of \in Turn
        /\ UNCHANGED <<used, lost>>
    BY <1>0, <1>5 DEF Write, Goes, At, Becomes, Live
  <2>2. /\ Due(stream[s]) = 0 /\ Due(stream'[s]) = stream[s].tokens
        /\ Paid(stream[s]) = 0 /\ Paid(stream'[s]) = stream[s].tokens
    BY <1>0, <2>1 DEF Due, Paid, After, StreamState
  <2>3. /\ \A x \in Turn : x # stream[s].of => answer'[x] = answer[x]
        /\ Worth(answer'[stream[s].of]) \in {Worth(answer[stream[s].of]), stream[s].tokens}
    BY <1>0, <1>5, <2>1 DEF Write, Turning, Worth
  <2> DEFINE k == stream[s].tokens
  <2>4. k \in Nat
    BY <1>0
  <2> HIDE DEF k
  <2>5. PICK n \in Nat : Underway = n /\ Underway' = n + k
    <3>1. PICK n \in Nat : Underway = n + Due(stream[s]) /\ Underway' = n + Due(stream'[s])
      BY <1>0, <2>1, StreamSums
    <3> QED
      BY <2>2, <3>1 DEF k
  <2>6. PICK n1 \in Nat : AllPaid = n1 /\ AllPaid' = n1 + k
    <3>1. PICK n1 \in Nat : AllPaid = n1 + Paid(stream[s]) /\ AllPaid' = n1 + Paid(stream'[s])
      BY <1>0, <2>1, StreamSums
    <3> QED
      BY <2>2, <3>1 DEF k
  <2>7. Stored \in Nat /\ Stored' \in Nat /\ Stored' <= Stored + k
    <3>1. PICK c \in Nat : /\ Stored = c + Worth(answer[stream[s].of])
                           /\ Stored' = c + Worth(answer'[stream[s].of])
      BY <1>0, <2>1, <2>3, AnswerSums
    <3>2. Worth(answer[stream[s].of]) \in Nat
      BY <1>0, <2>1 DEF Worth, Answer
    <3> QED
      BY <2>3, <2>4, <3>1, <3>2 DEF k
  <2>8. Stored <= used + lost + Underway /\ used + lost + Underway <= AllPaid
    BY UsageIs DEF UInv
  <2>9. Stored' <= used' + lost' + Underway' /\ used' + lost' + Underway' <= AllPaid'
    BY <1>0, <2>1, <2>4, <2>5, <2>6, <2>7, <2>8
  <2>10. UsageFollows'
    BY <2>9, UsageIs
  <2>11. IsFiniteSet(Begun(stream')) /\ IsFiniteSet(Full(answer'))
    BY <1>0, <2>1, <2>3, StreamSums, AnswerSums
  <2> QED
    BY <2>10, <2>11 DEF UInv
\* What was to be counted is counted, or known to be lost.
<1>6. ASSUME NEW s \in Stream, Count(s) \/ Tell(s) \/ Leave(s) \/ Crash(s) PROVE UInv'
  <2>1. /\ UNCHANGED answer /\ \A x \in Stream : x # s => stream'[x] = stream[x]
        /\ stream[s].at \in Live /\ stream'[s].at \in {"telling", "over"}
        /\ stream'[s].told \in {stream[s].told, "done"} /\ stream'[s].tokens = stream[s].tokens
    <3>1. CASE Count(s)
      BY <1>0, <3>1 DEF Count, Goes, At, Becomes, StreamState, Live
    <3>2. CASE Tell(s)
      <4>1. stream'[s] = [stream[s] EXCEPT !.at = "over", !.told = "done"]
        BY <1>0, <3>2 DEF Tell, Becomes
      <4> QED
        BY <1>0, <3>2, <4>1 DEF Tell, At, Becomes, StreamState, Live
    <3>3. CASE Leave(s) \/ Crash(s)
      BY <1>0, <3>3 DEF Leave, Crash, Becomes, StreamState, Live
    <3> QED
      BY <1>6, <3>1, <3>2, <3>3
  <2>2. used' + lost' = used + lost + Due(stream[s])
    <3>1. CASE stream[s].at = "counting"
      BY <1>0, <1>6, <3>1 DEF Count, Tell, Leave, Crash, At, Due
    <3>2. CASE stream[s].at # "counting"
      BY <1>0, <1>6, <3>2 DEF Count, Tell, Leave, Crash, Goes, At, Due
    <3> QED
      BY <3>1, <3>2
  <2>3. Due(stream'[s]) = 0 /\ Paid(stream[s]) <= Paid(stream'[s]) /\ Due(stream[s]) \in Nat
    BY <1>0, <2>1 DEF Due, Paid, After, Live
  <2>4. used' + lost' + Due(stream'[s]) = used + lost + Due(stream[s])
    <3>1. used' \in Nat /\ lost' \in Nat
      BY <1>0 DEF TInv, TypeOK
    <3> QED
      BY <1>0, <2>2, <2>3, <3>1
  <2> QED
    BY <1>0, <2>1, <2>3, <2>4, StreamPays
<1>7. CASE DeleteThread
  <2>1. Full(answer') = {} /\ UNCHANGED <<used, lost, stream>>
    BY <1>7 DEF DeleteThread, Full, NoAnswer
  <2>2. IsFiniteSet(Full(answer'))
    BY <2>1, FS_EmptySet
  <2>3. Stored' = 0
    BY <2>1, <2>2, UsageSums, SumUnfolds
  <2>4. Underway' = Underway /\ AllPaid' = AllPaid /\ Underway \in Nat
    BY <2>1, UsageSums, UsageTyped
  <2>5. used + lost + Underway <= AllPaid
    BY UsageIs DEF UInv
  <2>6. Stored' <= used' + lost' + Underway' /\ used' + lost' + Underway' <= AllPaid'
    BY <1>0, <2>1, <2>3, <2>4, <2>5
  <2>7. UsageFollows'
    BY <2>6, UsageIs
  <2> QED
    BY <2>1, <2>2, <2>7 DEF UInv
<1>8. CASE UNCHANGED vars
  BY <1>1, <1>8
<1> QED
  BY <1>2, <1>3, <1>4, <1>5, <1>6, <1>7, <1>8 DEF Next, Work

LEMMA InitUsage == Init => UInv
<1> SUFFICES ASSUME Init PROVE UInv
  OBVIOUS
<1>1. Begun(stream) = {} /\ Counting(stream) = {} /\ Paying(stream) = {} /\ Full(answer) = {}
  BY DEF Init, Begun, Counting, Paying, Full, After, Fresh, NoAnswer
<1>2. IsFiniteSet(Begun(stream)) /\ IsFiniteSet(Full(answer))
  BY <1>1, FS_EmptySet
<1>3. Underway = 0 /\ AllPaid = 0 /\ Stored = 0
  BY <1>1, UsageSums, SumUnfolds, FS_EmptySet
<1>4. used = 0 /\ lost = 0
  BY DEF Init
<1> QED
  BY <1>2, <1>3, <1>4, UsageIs DEF UInv

LEMMA UsageHolds == Spec => [](TInv /\ AInv /\ UInv)
<1>1. TInv /\ AInv /\ UInv /\ [Next]_vars => UInv'
  BY StepUsage
<1> QED
  BY <1>1, AllTogether, InitUsage, PTL DEF Spec

\* What complete answers cost is counted, about to be counted or known to be
\* lost, and no stream is counted twice, or at all when it failed: for any
\* number of turns and of streams, finite or not.
THEOREM UsageIsCounted == Spec => []UsageFollows
<1>1. UInv => UsageFollows
  BY DEF UInv
<1> QED
  BY <1>1, UsageHolds, PTL

\* The gate of the budget is as good as the count: who is let in although the
\* count could be read finds stored answers that cost less than the budget, but
\* for what is not counted yet.
THEOREM BudgetGates == Spec => AdmittedWithinBudget
<1> DEFINE Admits == \A t \in Turn : request[t] = "new" /\ request'[t] # "new" /\ Budget > 0 =>
                       request'[t] = "waved" \/ Stored < Budget + lost + Underway
<1>1. TInv /\ UInv /\ [Next]_vars => [Admits]_vars
  <2> SUFFICES ASSUME TInv, UInv, Next, NEW t \in Turn, request[t] = "new", request'[t] # "new", Budget > 0,
                      request'[t] # "waved"
               PROVE  Stored < Budget + lost + Underway
    OBVIOUS
  <2>0. request \in [Turn -> {"new", "checked", "waved", "asked", "made", "failed"}]
    BY DEF TInv, TypeOK
  <2>1. used < Budget
    <3>1. ASSUME NEW u \in Turn, CheckBudget(u) PROVE used < Budget
      <4>1. u = t
        BY <2>0, <3>1 DEF CheckBudget, Moves
      <4> QED
        BY <2>0, <3>1, <4>1 DEF CheckBudget, Moves
    <3>2. ASSUME NEW u \in Turn, Ask(u) \/ MakeDraft(u) \/ AskFails(u) \/ Cancel(u) \/ Expire(u)
          PROVE  FALSE
      BY <2>0, <3>2 DEF Ask, MakeDraft, AskFails, Cancel, Expire, Moves, Admitted
    <3>3. ASSUME NEW s \in Stream, Work(s) \/ Leave(s) \/ Crash(s) \/ \E u \in Turn : Open(s, u)
          PROVE  FALSE
      BY <3>3 DEF Work, Recall, Delta, Heed, Clear, Done, Error, Write, WriteFails, Count, Tell, Leave, Crash, Open
    <3>4. ~DeleteThread
      BY DEF DeleteThread
    <3> QED
      BY <3>1, <3>2, <3>3, <3>4 DEF Next
  <2>2. Stored <= used + lost + Underway
    BY UsageIs DEF UInv
  <2>3. used \in Nat /\ lost \in Nat /\ Stored \in Nat /\ Underway \in Nat
    BY UsageTyped DEF TInv, TypeOK
  <2> QED
    BY <2>1, <2>2, <2>3
<1> QED
  BY <1>1, UsageHolds, PTL DEF Spec, AdmittedWithinBudget
=============================================================================
