------------------------- MODULE ConversationProofs -------------------------
(***************************************************************************)
(* What Conversation.tla promises for every vocabulary, every length of a  *)
(* thread, every window and every setting of the trim_history strategy.    *)
(***************************************************************************)
EXTENDS Conversation, Sums, SequenceTheorems

Messages == Prompts \cup Questions \cup Answers \cup {Notice}

LEMMA MessageTokens == \A m \in Messages : m.tokens \in Nat
<1>1. \A m \in Message : m.tokens \in Nat
  BY DEF Message
<1>2. QED
  BY <1>1, ConversationAssumption, ContextFitAssumption DEF Messages

---------------------------------------------------------------------------
(***************************************************************************)
(* Counting tokens                                                         *)
(***************************************************************************)
TokensOf(thread) == [i \in 1..Len(thread) |-> 4 + thread[i].tokens]

LEMMA CountIsSum ==
  ASSUME NEW thread, Len(thread) \in Nat
  PROVE  CountTokens(thread) = SumOf(TokensOf(thread), 1..Len(thread)) + 3
<1> DEFINE S == 1..Len(thread)
           Running(g) ==
             g = [T \in SUBSET S |-> IF T = {} THEN 0
                                     ELSE (4 + thread[Chosen(T)].tokens) + g[T \ {Chosen(T)}]]
<1>1. ASSUME NEW g PROVE Running(g) <=> PartialSums(g, TokensOf(thread), S)
  <2>1. \A T \in SUBSET S : T # {} =>
           TokensOf(thread)[Chosen(T)] = 4 + thread[Chosen(T)].tokens
    BY ChosenIn DEF TokensOf
  <2>2. [T \in SUBSET S |-> IF T = {} THEN 0
                            ELSE (4 + thread[Chosen(T)].tokens) + g[T \ {Chosen(T)}]]
          = [T \in SUBSET S |-> IF T = {} THEN 0
                                ELSE TokensOf(thread)[Chosen(T)] + g[T \ {Chosen(T)}]]
    <3> HIDE DEF S
    <3>1. QED
      BY <2>1
  <2>3. QED
    <3> HIDE DEF S
    <3>1. QED
      BY <2>2 DEF PartialSums
<1>2. IsFiniteSet(S)
  BY FS_Interval
<1>3. Running(CHOOSE g : Running(g))
  <2>1. \E g : Running(g)
    BY <1>1, <1>2, PartialSumsExist
  <2> HIDE DEF Running
  <2>2. QED
    BY <2>1
<1>4. CountTokens(thread) = (CHOOSE g : Running(g))[S] + 3
  BY DEF CountTokens, MapThenSumSet, MapThenFoldSet, Chosen
<1>5. QED
  <2> HIDE DEF Running, S
  <2>1. PartialSums(CHOOSE g : Running(g), TokensOf(thread), S)
    BY <1>1, <1>3
  <2>2. SumOf(TokensOf(thread), S) = (CHOOSE g : Running(g))[S]
    BY <1>2, <2>1, SumIsPartial
  <2>3. QED
    BY <1>4, <2>2 DEF S

LEMMA CountType ==
  ASSUME NEW thread \in Seq(Messages)
  PROVE  CountTokens(thread) \in Nat /\ CountTokens(thread) >= 3
<1>1. IsFiniteSet(1..Len(thread))
  BY FS_Interval, LenProperties
<1>2. \A i \in 1..Len(thread) : TokensOf(thread)[i] \in Nat
  BY ElementOfSeq, MessageTokens DEF TokensOf
<1>3. SumOf(TokensOf(thread), 1..Len(thread)) \in Nat
  BY <1>1, <1>2, SumNat
<1>4. QED
  BY <1>3, CountIsSum, LenProperties

LEMMA MinOfTwo ==
  ASSUME NEW a \in Int, NEW b \in Int
  PROVE  Min({a, b}) = IF a <= b THEN a ELSE b
  BY DEF Min

LEMMA MaxOfTwo ==
  ASSUME NEW a \in Int, NEW b \in Int
  PROVE  Max({a, b}) = IF a >= b THEN a ELSE b
  BY DEF Max

(* A thread within the budget fits the model: the budget leaves room for   *)
(* the output, or is too small for any thread at all.                      *)
LEMMA WithinBudgetFits ==
  ASSUME NEW thread \in Seq(Messages), CountTokens(thread) <= Budget
  PROVE  Fits(thread)
<1> DEFINE target == (ContextWindow * TargetRatio) \div 100
           left == ContextWindow - ReserveOutput
<1>1. /\ ContextWindow \in Nat /\ ReserveOutput \in Nat /\ TargetRatio \in Nat
      /\ target \in Int /\ left \in Int
      /\ target <= ContextWindow
  <2>1. ContextWindow \in Nat /\ TargetRatio \in Nat /\ TargetRatio <= 100
        /\ ReserveOutput \in Nat
    BY ContextFitAssumption
  <2>2. ContextWindow * TargetRatio <= ContextWindow * 100
        /\ ContextWindow * TargetRatio \in Nat
    BY <2>1
  <2>3. \A n \in Nat : n <= ContextWindow * 100 => n \div 100 <= ContextWindow /\ n \div 100 \in Int
    BY <2>1
  <2>4. QED
    BY <2>1, <2>2, <2>3
<1> HIDE DEF target, left
<1>2. Budget = Max({1, IF ReserveOutput > 0 THEN Min({target, left}) ELSE target})
  BY DEF Budget, target, left
<1>3. CASE ReserveOutput > 0
  <2> DEFINE room == Min({target, left})
  <2>1. room \in Int /\ room <= left
    BY <1>1, MinOfTwo
  <2>2. Budget = Max({1, room})
    BY <1>2, <1>3
  <2> HIDE DEF room
  <2>3. Budget = IF 1 >= room THEN 1 ELSE room
    BY <2>1, <2>2, MaxOfTwo
  <2>4. QED
    BY <1>1, <2>1, <2>3, CountType DEF Fits, left
<1>4. CASE ReserveOutput = 0
  <2>1. Budget = IF 1 >= target THEN 1 ELSE target
    BY <1>1, <1>2, <1>4, MaxOfTwo
  <2>2. QED
    BY <1>1, <1>4, <2>1, CountType DEF Fits
<1>5. QED
  BY <1>1, <1>3, <1>4

---------------------------------------------------------------------------
(***************************************************************************)
(* The loop                                                                *)
(***************************************************************************)
Shape(thread) ==
    /\ Lead(thread) \in 0..Len(thread)
    /\ Trail(thread) \in 0..(Len(thread) - Lead(thread))
    /\ Middle(thread) \in Seq(Messages)
    /\ Len(Middle(thread)) = Len(thread) - Lead(thread) - Trail(thread)

LEMMA ShapeOfThread ==
  ASSUME NEW thread \in Seq(Messages)
  PROVE  Shape(thread)
<1> DEFINE N == Len(thread)
           first == Lead(thread) + 1
           last == Len(thread) - Trail(thread)
<1>1. N \in Nat /\ KeepLeading \in Nat /\ KeepTrailing \in Nat
  BY LenProperties, ContextFitAssumption
<1>2. Lead(thread) \in 0..N
  BY <1>1, MinOfTwo DEF Lead
<1>3. Trail(thread) \in 0..(N - Lead(thread))
  <2>1. N - Lead(thread) \in Int
    BY <1>1, <1>2
  <2>2. Trail(thread) = IF KeepTrailing <= N - Lead(thread) THEN KeepTrailing
                                                           ELSE N - Lead(thread)
    BY <1>1, <2>1, MinOfTwo DEF Trail
  <2>3. QED
    BY <1>1, <1>2, <2>2
<1>4. first \in Int /\ last \in Int /\ \A i \in first..last : thread[i] \in Messages
  BY <1>1, <1>2, <1>3, ElementOfSeq
<1>5. /\ SubSeq(thread, first, last) \in Seq(Messages)
      /\ Len(SubSeq(thread, first, last)) = IF first <= last THEN last - first + 1 ELSE 0
  <2> HIDE DEF first, last
  <2>1. QED
    BY <1>4, SubSeqProperties
<1>6. QED
  BY <1>1, <1>2, <1>3, <1>5 DEF Shape, Middle

\* What ends the loop, and where it ends when it starts from n.
Ends(thread, n) == n = Len(Middle(thread)) \/ Stops(thread, n)

FirstEnd(thread, n, k) ==
    /\ k \in n..Len(Middle(thread))
    /\ Ends(thread, k)
    /\ \A j \in n..(k - 1) : ~Ends(thread, j)

\* The loop of Removed as a recursive function.
Loop(thread, g) ==
    g = [n \in 0..Len(Middle(thread)) |-> IF Ends(thread, n) THEN n ELSE g[n + 1]]

(* Induction downwards from n, for a claim given as the set G of the       *)
(* numbers of which it holds.                                              *)
LEMMA Downwards ==
  ASSUME NEW n \in Nat, NEW G, n \in G,
         \A k \in 0..(n - 1) : k + 1 \in G => k \in G
  PROVE  \A k \in 0..n : k \in G
<1> DEFINE Bad == {d \in Nat : d <= n /\ n - d \notin G}
<1> SUFFICES ASSUME Bad # {} PROVE FALSE
  <2> SUFFICES ASSUME Bad = {}, NEW k \in 0..n, k \notin G PROVE FALSE
    OBVIOUS
  <2>1. n - k \in Nat /\ n - k <= n /\ n - (n - k) = k
    OBVIOUS
  <2>2. n - k \in Bad
    BY <2>1
  <2>3. QED
    BY <2>2
<1>1. Bad \subseteq Nat /\ Bad # {}
  OBVIOUS
<1>2. \A d \in Bad : d \in Nat /\ d <= n /\ n - d \notin G
  OBVIOUS
<1>3. \A d \in Nat : d <= n /\ n - d \notin G => d \in Bad
  OBVIOUS
<1> HIDE DEF Bad
<1>4. PICK d \in Bad : \A e \in Bad : ~(<<e, d>> \in OpToRel(<, Nat))
  BY <1>1, NatLessThanWellFounded, WFMin
<1>5. d # 0
  BY <1>2
<1>6. d - 1 \in Nat /\ d - 1 < d /\ n - (d - 1) = (n - d) + 1 /\ n - d \in 0..(n - 1)
  BY <1>2, <1>5
<1>7. d - 1 \notin Bad
  BY <1>1, <1>4, <1>6 DEF OpToRel
<1>8. (n - d) + 1 \in G
  BY <1>2, <1>3, <1>6, <1>7
<1>9. QED
  BY <1>2, <1>6, <1>8

LEMMA EndExists ==
  ASSUME NEW thread \in Seq(Messages)
  PROVE  \A n \in 0..Len(Middle(thread)) : \E k : FirstEnd(thread, n, k)
<1> DEFINE size == Len(Middle(thread))
           G == {n \in 0..size : \E k : FirstEnd(thread, n, k)}
<1>1. size \in Nat
  BY ShapeOfThread DEF Shape
<1>2. size \in G
  <2>1. FirstEnd(thread, size, size)
    BY <1>1 DEF FirstEnd, Ends
  <2>2. QED
    BY <1>1, <2>1
<1>3. ASSUME NEW n \in 0..(size - 1), n + 1 \in G PROVE n \in G
  <2>1. CASE Ends(thread, n)
    <3>1. FirstEnd(thread, n, n)
      BY <1>1, <1>3, <2>1 DEF FirstEnd
    <3>2. QED
      BY <1>1, <3>1
  <2>2. CASE ~Ends(thread, n)
    <3>1. PICK k : FirstEnd(thread, n + 1, k)
      BY <1>3
    <3>2. FirstEnd(thread, n, k)
      <4>1. \A j \in n..(k - 1) : j = n \/ j \in (n + 1)..(k - 1)
        BY <1>1, <3>1 DEF FirstEnd
      <4>2. QED
        BY <1>1, <2>2, <3>1, <4>1 DEF FirstEnd
    <3>3. QED
      BY <1>1, <3>2
  <2>3. QED
    BY <2>1, <2>2
<1>4. \A n \in 0..size : n \in G
  <2> HIDE DEF G, size
  <2>1. QED
    BY <1>1, <1>2, <1>3, Downwards
<1>5. QED
  BY <1>4

LEMMA LoopExists ==
  ASSUME NEW thread \in Seq(Messages)
  PROVE  \E g : Loop(thread, g)
<1> DEFINE size == Len(Middle(thread))
           end(n) == CHOOSE k : FirstEnd(thread, n, k)
           g == [n \in 0..size |-> end(n)]
<1>1. size \in Nat
  BY ShapeOfThread DEF Shape
<1>2. \A n \in 0..size : FirstEnd(thread, n, end(n))
  BY EndExists
<1>3. ASSUME NEW n, NEW j, NEW k, FirstEnd(thread, n, j), FirstEnd(thread, n, k), n \in 0..size
      PROVE  j = k
  <2>1. j \in Int /\ k \in Int /\ n <= j /\ n <= k /\ n \in Int
    BY <1>1, <1>3 DEF FirstEnd
  <2>2. ~(j < k) /\ ~(k < j)
    BY <1>3, <2>1 DEF FirstEnd
  <2>3. QED
    BY <2>1, <2>2
<1>4. ASSUME NEW n \in 0..size
      PROVE  end(n) = IF Ends(thread, n) THEN n ELSE g[n + 1]
  <2>1. CASE Ends(thread, n)
    <3>1. FirstEnd(thread, n, n)
      BY <1>1, <2>1 DEF FirstEnd
    <3> HIDE DEF end
    <3>2. QED
      BY <1>2, <1>3, <2>1, <3>1
  <2>2. CASE ~Ends(thread, n)
    <3>1. n + 1 \in 0..size
      BY <1>1, <2>2 DEF Ends
    <3>2. FirstEnd(thread, n + 1, end(n + 1))
      BY <1>2, <3>1
    <3>3. g[n + 1] = end(n + 1)
      BY <3>1
    <3> HIDE DEF end
    <3>4. FirstEnd(thread, n, end(n + 1))
      <4>1. \A j \in n..(end(n + 1) - 1) : j = n \/ j \in (n + 1)..(end(n + 1) - 1)
        BY <1>1, <3>2 DEF FirstEnd
      <4>2. QED
        BY <1>1, <2>2, <3>2, <4>1 DEF FirstEnd
    <3>5. end(n) = end(n + 1)
      BY <1>2, <1>3, <3>4
    <3>6. QED
      BY <2>2, <3>3, <3>5
  <2>3. QED
    BY <2>1, <2>2
<1>5. Loop(thread, g)
  <2>1. g = [n \in 0..size |-> IF Ends(thread, n) THEN n ELSE g[n + 1]]
    <3> DEFINE h == [n \in 0..size |-> IF Ends(thread, n) THEN n ELSE g[n + 1]]
    <3>1. \A n \in 0..size : g[n] = h[n]
      <4> HIDE DEF end
      <4>1. QED
        BY <1>4
    <3>2. g = [n \in 0..size |-> g[n]] /\ h = [n \in 0..size |-> h[n]]
      OBVIOUS
    <3> HIDE DEF g, h
    <3>3. g = h
      BY <3>1, <3>2
    <3>4. QED
      BY <3>3 DEF h
  <2> HIDE DEF g
  <2>2. QED
    BY <2>1 DEF Loop
<1>6. QED
  BY <1>5

(* The loop ends where it first may.                                       *)
LEMMA RemovedIsFirstEnd ==
  ASSUME NEW thread \in Seq(Messages)
  PROVE  FirstEnd(thread, 0, Removed(thread))
<1> DEFINE size == Len(Middle(thread))
           g == CHOOSE h : Loop(thread, h)
           G == {n \in 0..size : FirstEnd(thread, n, g[n])}
<1>1. size \in Nat
  BY ShapeOfThread DEF Shape
<1>2. Loop(thread, g)
  BY LoopExists
<1>3. Removed(thread) = g[0]
  BY DEF Removed, Loop, Ends
<1> HIDE DEF g
<1>4. \A n \in 0..size : g[n] = IF Ends(thread, n) THEN n ELSE g[n + 1]
  BY <1>2 DEF Loop
<1>5. size \in G
  BY <1>1, <1>4 DEF FirstEnd, Ends
<1>6. ASSUME NEW n \in 0..(size - 1), n + 1 \in G PROVE n \in G
  <2>1. n \in 0..size /\ n \in Nat
    BY <1>1
  <2>2. CASE Ends(thread, n)
    BY <1>1, <1>4, <2>1, <2>2 DEF FirstEnd
  <2>3. CASE ~Ends(thread, n)
    <3>1. g[n] = g[n + 1] /\ FirstEnd(thread, n + 1, g[n + 1])
      BY <1>4, <1>6, <2>1, <2>3
    <3>2. \A j \in n..(g[n] - 1) : j = n \/ j \in (n + 1)..(g[n] - 1)
      BY <1>1, <2>1, <3>1 DEF FirstEnd
    <3>3. QED
      BY <1>1, <2>1, <2>3, <3>1, <3>2 DEF FirstEnd
  <2>4. QED
    BY <2>2, <2>3
<1>7. \A n \in 0..size : n \in G
  <2> HIDE DEF G, size
  <2>1. QED
    BY <1>1, <1>5, <1>6, Downwards
<1>8. QED
  BY <1>1, <1>3, <1>7

---------------------------------------------------------------------------
(***************************************************************************)
(* What is kept                                                            *)
(***************************************************************************)
Rest(thread, n) == SubSeq(thread, Lead(thread) + 1 + n, Len(thread))

LEMMA PartTypes ==
  ASSUME NEW thread \in Seq(Messages), NEW n \in 0..Len(Middle(thread))
  PROVE  /\ Opening(thread) \in Seq(Messages)
         /\ Len(Opening(thread)) = Lead(thread)
         /\ \A i \in 1..Lead(thread) : Opening(thread)[i] = thread[i]
         /\ Rest(thread, n) \in Seq(Messages)
         /\ Len(Rest(thread, n)) = Len(thread) - Lead(thread) - n
         /\ PopOldest(Middle(thread), n) \in Seq(Messages)
         /\ Closing(thread) \in Seq(Messages)
<1> DEFINE N == Len(thread)
           L == Lead(thread)
           from == Lead(thread) + 1 + n
           last == Len(thread) - Trail(thread) + 1
<1>1. /\ N \in Nat /\ L \in 0..N /\ Trail(thread) \in 0..(N - L)
      /\ Middle(thread) \in Seq(Messages) /\ Len(Middle(thread)) = N - L - Trail(thread)
  BY ShapeOfThread, LenProperties DEF Shape
<1>2. \A i \in 1..N : thread[i] \in Messages
  BY ElementOfSeq
<1>3. /\ Opening(thread) \in Seq(Messages)
      /\ Len(Opening(thread)) = L
      /\ \A i \in 1..L : Opening(thread)[i] = thread[i]
  <2>1. \A i \in 1..L : thread[i] \in Messages
    BY <1>1, <1>2
  <2> HIDE DEF L
  <2>2. /\ SubSeq(thread, 1, L) \in Seq(Messages)
        /\ Len(SubSeq(thread, 1, L)) = IF 1 <= L THEN L - 1 + 1 ELSE 0
        /\ \A i \in 1..(L - 1 + 1) : SubSeq(thread, 1, L)[i] = thread[1 + i - 1]
    BY <1>1, <2>1, SubSeqProperties
  <2>3. \A i \in 1..L : i \in 1..(L - 1 + 1) /\ 1 + i - 1 = i
    BY <1>1
  <2>4. QED
    BY <1>1, <2>2, <2>3 DEF Opening, L
<1>4. Rest(thread, n) \in Seq(Messages) /\ Len(Rest(thread, n)) = N - L - n
  <2>1. \A i \in from..N : thread[i] \in Messages
    BY <1>1, <1>2
  <2>2. from \in Int /\ N \in Int /\ from >= 1 /\ N - from + 1 = N - L - n /\ N - L - n >= 0
    BY <1>1
  <2> HIDE DEF from, N
  <2>3. /\ SubSeq(thread, from, N) \in Seq(Messages)
        /\ Len(SubSeq(thread, from, N)) = IF from <= N THEN N - from + 1 ELSE 0
    BY <2>1, <2>2, SubSeqProperties
  <2>4. QED
    BY <2>2, <2>3 DEF Rest, from, N
<1>5. PopOldest(Middle(thread), n) \in Seq(Messages)
  <2>1. \A i \in (n + 1)..Len(Middle(thread)) : Middle(thread)[i] \in Messages
    BY <1>1, ElementOfSeq
  <2>2. n + 1 \in Int /\ Len(Middle(thread)) \in Int
    BY <1>1
  <2>3. QED
    BY <2>1, <2>2, SubSeqProperties DEF PopOldest
<1>6. Closing(thread) \in Seq(Messages)
  <2>1. last \in Int /\ N \in Int /\ \A i \in last..N : thread[i] \in Messages
    BY <1>1, <1>2
  <2> HIDE DEF last, N
  <2>2. SubSeq(thread, last, N) \in Seq(Messages)
    BY <2>1, SubSeqProperties
  <2>3. QED
    BY <2>2 DEF Closing, last, N
<1>7. QED
  BY <1>3, <1>4, <1>5, <1>6

LEMMA TailOfPiece ==
  ASSUME NEW S, NEW s \in Seq(S), NEW a \in Int, NEW b \in Int, NEW n \in Nat,
         1 <= a, b <= Len(s), n <= b - a + 1
  PROVE  SubSeq(SubSeq(s, a, b), n + 1, Len(SubSeq(s, a, b))) = SubSeq(s, a + n, b)
<1>1. \A i \in a..b : s[i] \in S
  BY LenProperties, ElementOfSeq
<1>2. Len(SubSeq(s, a, b)) = b - a + 1
  BY <1>1, SubSeqProperties
<1>3. CASE n = b - a + 1
  <2>1. b - a + 1 < n + 1 /\ b < a + n /\ n + 1 \in Int /\ b - a + 1 \in Int /\ a + n \in Int
    BY <1>3
  <2>2. SubSeq(s, a + n, b) = << >>
    BY <2>1, SubSeqEmpty
  <2>3. SubSeq(SubSeq(s, a, b), n + 1, b - a + 1) = << >>
    BY <2>1, SubSeqEmpty
  <2>4. QED
    BY <1>2, <2>2, <2>3
<1>4. CASE n < b - a + 1
  <2>1. /\ Len(s) \in Nat
        /\ a \in 1..Len(s) /\ b \in 1..Len(s)
        /\ n + 1 \in 1..(b - a + 1) /\ b - a + 1 \in 1..(b - a + 1)
    BY <1>4, LenProperties
  <2>2. SubSeq(SubSeq(s, a, b), n + 1, b - a + 1)
          = SubSeq(s, a + (n + 1) - 1, a + (b - a + 1) - 1)
    BY <2>1, SubSeqOfSubSeq
  <2>3. a + (n + 1) - 1 = a + n /\ a + (b - a + 1) - 1 = b
    OBVIOUS
  <2>4. QED
    BY <1>2, <2>2, <2>3
<1>5. QED
  BY <1>3, <1>4

(* What is left of the middle and the closing turns are one piece.         *)
LEMMA RestInOnePiece ==
  ASSUME NEW thread \in Seq(Messages), NEW n \in 0..Len(Middle(thread))
  PROVE  PopOldest(Middle(thread), n) \o Closing(thread) = Rest(thread, n)
<1> DEFINE N == Len(thread)
           L == Lead(thread)
           T == Trail(thread)
<1>1. /\ N \in Nat /\ L \in 0..N /\ T \in 0..(N - L)
      /\ n \in 0..(N - L - T)
  BY ShapeOfThread, LenProperties DEF Shape
<1> HIDE DEF N, L, T
<1>2. /\ n \in Nat
      /\ L + 1 \in Int /\ 1 <= L + 1 /\ N - T \in Int /\ N - T <= N
      /\ n <= N - T - (L + 1) + 1
  BY <1>1
<1>3. PopOldest(Middle(thread), n) = SubSeq(thread, L + 1 + n, N - T)
  BY <1>2, TailOfPiece DEF PopOldest, Middle, N, L, T
<1>4. L + 1 + n \in 1..(N + 1) /\ N - T \in (L + 1 + n - 1)..N /\ N \in (N - T)..N
  BY <1>1
<1>5. SubSeq(thread, L + 1 + n, N - T) \o SubSeq(thread, N - T + 1, N)
        = SubSeq(thread, L + 1 + n, N)
  <2> DEFINE m == L + 1 + n
             k == N - T
  <2>1. m \in 1..(Len(thread) + 1) /\ k \in (m - 1)..Len(thread) /\ Len(thread) \in k..Len(thread)
    <3>1. Len(thread) \in Nat
      BY LenProperties
    <3>2. m \in 1..(N + 1) /\ k \in (m - 1)..N /\ N \in k..N
      BY <1>1, <1>4
    <3> HIDE DEF m, k
    <3>3. QED
      BY <3>1, <3>2 DEF N
  <2> HIDE DEF m, k
  <2>2. SubSeq(thread, m, k) \o SubSeq(thread, k + 1, Len(thread)) = SubSeq(thread, m, Len(thread))
    BY <2>1, ConcatAdjacentSubSeq
  <2>3. QED
    BY <2>2 DEF N, m, k
<1>6. QED
  BY <1>3, <1>5 DEF Closing, Rest, N, L, T

LEMMA WholeInTwo ==
  ASSUME NEW thread \in Seq(Messages)
  PROVE  Opening(thread) \o Rest(thread, 0) = thread
<1> DEFINE N == Len(thread)
           L == Lead(thread)
<1>1. N \in Nat /\ L \in 0..N
  BY ShapeOfThread, LenProperties DEF Shape
<1>2. /\ 1 \in 1..(N + 1) /\ L \in (1 - 1)..N /\ N \in L..N
      /\ L + 1 + 0 = L + 1
  BY <1>1
<1>3. SubSeq(thread, 1, L) \o SubSeq(thread, L + 1, N) = SubSeq(thread, 1, N)
  <2> HIDE DEF L
  <2>1. QED
    BY <1>2, ConcatAdjacentSubSeq
<1>4. SubSeq(thread, 1, N) = thread
  BY SubSeqFull
<1>5. QED
  BY <1>2, <1>3, <1>4 DEF Opening, Rest

LEMMA PiecesOfConcat ==
  ASSUME NEW S, NEW s \in Seq(S), NEW t \in Seq(S)
  PROVE  /\ SubSeq(s \o t, 1, Len(s)) = s
         /\ SubSeq(s \o t, Len(s) + 1, Len(s \o t)) = t
<1> DEFINE a == Len(s)
           b == Len(s \o t)
           u == s \o t
<1>1. /\ a \in Nat /\ Len(t) \in Nat
      /\ u \in Seq(S) /\ b = a + Len(t)
      /\ \A i \in 1..b : u[i] = IF i <= a THEN s[i] ELSE t[i - a]
  BY ConcatProperties, LenProperties
<1>2. \A i \in 1..b : u[i] \in S
  BY <1>1, ElementOfSeq
<1> HIDE DEF a, b, u
<1>3. SubSeq(u, 1, a) = s
  <2>1. /\ SubSeq(u, 1, a) \in Seq(S)
        /\ Len(SubSeq(u, 1, a)) = IF 1 <= a THEN a - 1 + 1 ELSE 0
        /\ \A i \in 1..(a - 1 + 1) : SubSeq(u, 1, a)[i] = u[1 + i - 1]
    BY <1>1, <1>2, SubSeqProperties
  <2>2. Len(SubSeq(u, 1, a)) = Len(s)
    BY <1>1, <2>1 DEF a
  <2>3. \A i \in 1..Len(s) : SubSeq(u, 1, a)[i] = s[i]
    BY <1>1, <2>1 DEF a
  <2>4. QED
    BY <2>1, <2>2, <2>3, SeqEqual
<1>4. SubSeq(u, a + 1, b) = t
  <2>1. /\ SubSeq(u, a + 1, b) \in Seq(S)
        /\ Len(SubSeq(u, a + 1, b)) = IF a + 1 <= b THEN b - (a + 1) + 1 ELSE 0
        /\ \A i \in 1..(b - (a + 1) + 1) : SubSeq(u, a + 1, b)[i] = u[a + 1 + i - 1]
    BY <1>1, <1>2, SubSeqProperties
  <2>2. Len(SubSeq(u, a + 1, b)) = Len(t)
    BY <1>1, <2>1
  <2>3. ASSUME NEW i \in 1..Len(t) PROVE SubSeq(u, a + 1, b)[i] = t[i]
    <3>1. i \in 1..(b - (a + 1) + 1) /\ a + 1 + i - 1 \in 1..b
          /\ ~(a + 1 + i - 1 <= a) /\ a + 1 + i - 1 - a = i
      BY <1>1
    <3>2. SubSeq(u, a + 1, b)[i] = u[a + 1 + i - 1]
      BY <2>1, <3>1
    <3>3. \A k \in 1..b : ~(k <= a) => u[k] = t[k - a]
      BY <1>1
    <3> DEFINE k == a + 1 + i - 1
    <3>4. k \in 1..b /\ ~(k <= a) /\ k - a = i
      BY <1>1, <3>1
    <3> HIDE DEF k
    <3>5. u[k] = t[i]
      BY <3>3, <3>4
    <3>6. QED
      BY <3>2, <3>5 DEF k
  <2>4. QED
    BY <2>1, <2>2, <2>3, SeqEqual
<1>5. QED
  BY <1>3, <1>4 DEF a, b, u

LEMMA ThreeInARow ==
  \A a, b, c \in Seq(Messages) : a \o b \o c = a \o (b \o c)
<1> TAKE a, b, c \in Seq(Messages)
<1>1. QED
  BY ConcatAssociative

(* What the loop counts, and what the trim sends without its notice.       *)
Left(thread, n) == Opening(thread) \o Rest(thread, n)

LEMMA LeftOver ==
  ASSUME NEW thread \in Seq(Messages), NEW n \in 0..Len(Middle(thread))
  PROVE  /\ Left(thread, n) \in Seq(Messages)
         /\ Opening(thread) \o PopOldest(Middle(thread), n) \o Closing(thread) = Left(thread, n)
         /\ SubSeq(Left(thread, n), 1, Lead(thread)) = Opening(thread)
         /\ SubSeq(Left(thread, n), Lead(thread) + 1, Len(Left(thread, n))) = Rest(thread, n)
<1>1. /\ Opening(thread) \in Seq(Messages) /\ Len(Opening(thread)) = Lead(thread)
      /\ Rest(thread, n) \in Seq(Messages)
      /\ PopOldest(Middle(thread), n) \in Seq(Messages)
      /\ Closing(thread) \in Seq(Messages)
  BY PartTypes
<1>2. Left(thread, n) \in Seq(Messages)
  BY <1>1, ConcatProperties DEF Left
<1>3. Opening(thread) \o PopOldest(Middle(thread), n) \o Closing(thread)
        = Opening(thread) \o (PopOldest(Middle(thread), n) \o Closing(thread))
  BY <1>1, ThreeInARow
<1>4. PopOldest(Middle(thread), n) \o Closing(thread) = Rest(thread, n)
  BY RestInOnePiece
<1>5. /\ SubSeq(Opening(thread) \o Rest(thread, n), 1, Len(Opening(thread))) = Opening(thread)
      /\ SubSeq(Opening(thread) \o Rest(thread, n), Len(Opening(thread)) + 1,
                Len(Opening(thread) \o Rest(thread, n))) = Rest(thread, n)
  BY <1>1, PiecesOfConcat
<1>6. QED
  BY <1>1, <1>2, <1>3, <1>4, <1>5 DEF Left

(* The result of a trim that removed n messages.                           *)
LEMMA ResultOfTrim ==
  ASSUME NEW thread \in Seq(Messages), NEW n \in 0..Len(Middle(thread))
  PROVE  LET result == Opening(thread) \o Elision(n)
                         \o PopOldest(Middle(thread), n) \o Closing(thread)
         IN  /\ result \in Seq(Messages)
             /\ result = Opening(thread) \o Elision(n) \o Rest(thread, n)
<1>1. /\ Opening(thread) \in Seq(Messages) /\ Rest(thread, n) \in Seq(Messages)
      /\ PopOldest(Middle(thread), n) \in Seq(Messages)
      /\ Closing(thread) \in Seq(Messages)
  BY PartTypes
<1>2. Elision(n) \in Seq(Messages)
  <2>1. <<Notice>> \in Seq(Messages)
    <3>1. Notice \in Messages
      BY DEF Messages
    <3>2. QED
      BY <3>1
  <2>2. << >> \in Seq(Messages)
    OBVIOUS
  <2>3. QED
    BY <2>1, <2>2 DEF Elision
<1> DEFINE head == Opening(thread) \o Elision(n)
<1>3. head \in Seq(Messages)
  BY <1>1, <1>2, ConcatProperties
<1> HIDE DEF head
<1>4. head \o PopOldest(Middle(thread), n) \o Closing(thread)
        = head \o (PopOldest(Middle(thread), n) \o Closing(thread))
  BY <1>1, <1>3, ThreeInARow
<1>5. PopOldest(Middle(thread), n) \o Closing(thread) = Rest(thread, n)
  BY RestInOnePiece
<1>6. head \o Rest(thread, n) \in Seq(Messages)
  BY <1>1, <1>3, ConcatProperties
<1>7. QED
  BY <1>4, <1>5, <1>6 DEF head

---------------------------------------------------------------------------
(***************************************************************************)
(* What is sent upstream                                                   *)
(***************************************************************************)
LEMMA WithoutIsLeft ==
  ASSUME messages \in Seq(Messages), NEW n \in 0..Len(Middle(messages))
  PROVE  Without(n) = Left(messages, n)
<1>1. Lead(messages) \in Nat /\ n \in Nat
  BY ShapeOfThread, LenProperties DEF Shape
<1>2. (Lead(messages) + 1) - 1 = Lead(messages)
  BY <1>1
<1>3. Without(n) = SubSeq(messages, 1, (Lead(messages) + 1) - 1)
                     \o SubSeq(messages, Lead(messages) + 1 + n, Len(messages))
  BY DEF Without
<1>4. Left(messages, n) = SubSeq(messages, 1, Lead(messages))
                            \o SubSeq(messages, Lead(messages) + 1 + n, Len(messages))
  BY DEF Left, Opening, Rest
<1>5. QED
  BY <1>2, <1>3, <1>4

\* The cut that TrimSound expects of n messages.
Spliced(n) == Opening(messages) \o Elision(n) \o Rest(messages, n)

LEMMA SplicedIsCut ==
  ASSUME messages \in Seq(Messages), NEW n \in 0..Len(Middle(messages))
  PROVE  LET kept == Without(n)
             cut == IF n > 0 /\ InsertNotice THEN <<Notice>> ELSE <<>>
         IN  SubSeq(kept, 1, Lead(messages)) \o cut
               \o SubSeq(kept, Lead(messages) + 1, Len(kept)) = Spliced(n)
  BY WithoutIsLeft, LeftOver DEF Spliced, Elision

LEMMA TokensBudget == Budget \in Int
<1> DEFINE target == (ContextWindow * TargetRatio) \div 100
           left == ContextWindow - ReserveOutput
<1>1. target \in Int /\ left \in Int
  <2>1. ContextWindow \in Nat /\ TargetRatio \in Nat /\ ReserveOutput \in Nat
    BY ContextFitAssumption
  <2>2. ContextWindow * TargetRatio \in Nat
    BY <2>1
  <2>3. QED
    BY <2>1, <2>2
<1> DEFINE room == IF ReserveOutput > 0 THEN Min({target, left}) ELSE target
<1>2. room \in Int
  <2> HIDE DEF target, left
  <2>1. QED
    BY <1>1, MinOfTwo
<1>3. Budget = Max({1, room})
  BY DEF Budget
<1> HIDE DEF room
<1>4. QED
  BY <1>2, <1>3, MaxOfTwo

LEMMA NothingRemoved ==
  ASSUME messages \in Seq(Messages), upstream = Untouched(messages),
         Fits(messages) \/ Middle(messages) = <<>>
  PROVE  TrimSound
<1>1. upstream.removed = 0 /\ upstream.messages = messages
  BY DEF Untouched
<1>2. Shape(messages) /\ Len(messages) \in Nat /\ 0 \in 0..Len(Middle(messages))
  BY ShapeOfThread, LenProperties DEF Shape
<1>3. Spliced(0) = messages
  <2>1. Opening(messages) \in Seq(Messages)
    BY <1>2, PartTypes
  <2>2. Elision(0) = <<>>
    BY DEF Elision
  <2>3. Opening(messages) \o <<>> = Opening(messages)
    BY <2>1, ConcatEmptySeq
  <2>4. QED
    BY <2>2, <2>3, WholeInTwo DEF Spliced
<1>4. 0 <= Len(messages) - Lead(messages) - Trail(messages)
  BY <1>2 DEF Shape
<1>5. ~(0 > 0)
  OBVIOUS
<1>6. QED
  BY <1>1, <1>2, <1>3, <1>4, <1>5, SplicedIsCut DEF TrimSound

LEMMA SomeRemoved ==
  ASSUME messages \in Seq(Messages), upstream = TrimToFit(messages),
         ~Fits(messages), upstream.removed # 0
  PROVE  TrimSound
<1> DEFINE n == Removed(messages)
           size == Len(Middle(messages))
<1>1. CountTokens(messages) > Budget
  BY WithinBudgetFits, CountType, TokensBudget
<1>2. ~(CountTokens(messages) <= Budget)
  BY <1>1, CountType, TokensBudget
<1>3. /\ upstream.removed = n
      /\ upstream.messages = Opening(messages) \o Elision(n)
                               \o PopOldest(Middle(messages), n) \o Closing(messages)
      /\ upstream.notes = Notes(n, CountTokens(upstream.messages))
  BY <1>2 DEF TrimToFit
<1>4. FirstEnd(messages, 0, n) /\ Shape(messages) /\ size \in Nat /\ Len(messages) \in Nat
  BY RemovedIsFirstEnd, ShapeOfThread, LenProperties DEF Shape
<1>5. n \in 0..size /\ n # 0 /\ Ends(messages, n) /\ \A j \in 0..(n - 1) : ~Ends(messages, j)
  BY <1>3, <1>4 DEF FirstEnd
<1> HIDE DEF n, size
<1>6. n \in Nat /\ n > 0 /\ n - 1 \in 0..(n - 1) /\ n - 1 \in 0..size
  BY <1>4, <1>5
<1>7. upstream.messages = Spliced(n) /\ upstream.messages \in Seq(Messages)
  BY <1>3, <1>5, ResultOfTrim DEF Spliced, size
<1>8. n <= Len(messages) - Lead(messages) - Trail(messages)
  BY <1>4, <1>5 DEF Shape, size
<1>9. \A k \in 0..size : Stops(messages, k) <=> CountTokens(Without(k)) <= Budget
  BY LeftOver, WithoutIsLeft DEF Stops, size
<1>10. CountTokens(Without(n - 1)) > Budget
  <2>1. ~Stops(messages, n - 1)
    BY <1>5, <1>6 DEF Ends
  <2>2. Without(n - 1) \in Seq(Messages)
    BY <1>6, LeftOver, WithoutIsLeft DEF size
  <2>3. QED
    BY <1>6, <1>9, <2>1, <2>2, CountType, TokensBudget
<1>11. n < size => CountTokens(Without(n)) <= Budget
  BY <1>4, <1>5, <1>9 DEF Ends, size
<1>12. CountTokens(Spliced(n)) > Budget <=> "over budget" \in upstream.notes
  BY <1>3, <1>7 DEF Notes
<1>13. ~Fits(upstream.messages) => "over budget" \in upstream.notes
  <2>1. Fits(Spliced(n)) \/ CountTokens(Spliced(n)) > Budget
    <3>1. CountTokens(Spliced(n)) <= Budget => Fits(Spliced(n))
      BY <1>7, WithinBudgetFits
    <3>2. CountTokens(Spliced(n)) \in Int
      BY <1>7, CountType
    <3>3. QED
      BY <3>1, <3>2, TokensBudget
  <2>2. QED
    BY <1>7, <1>12, <2>1
<1>14. QED
  BY <1>3, <1>5, <1>6, <1>7, <1>8, <1>10, <1>11, <1>12, <1>13, SplicedIsCut
     DEF TrimSound, size

(* Whatever the thread, what _apply_context_overflow makes of it is sound. *)
LEMMA OverflowIsSound ==
  ASSUME messages \in Seq(Messages), upstream = ApplyContextOverflow(messages)
  PROVE  TrimSound
<1>1. CASE Fits(messages)
  BY <1>1, NothingRemoved DEF ApplyContextOverflow
<1>2. CASE ~Fits(messages) /\ TrimToFit(messages).removed # 0
  BY <1>2, SomeRemoved DEF ApplyContextOverflow
<1>3. CASE ~Fits(messages) /\ TrimToFit(messages).removed = 0
  <2> DEFINE n == Removed(messages)
             size == Len(Middle(messages))
  <2>1. upstream = Untouched(messages)
    BY <1>3 DEF ApplyContextOverflow
  <2>2. ~(CountTokens(messages) <= Budget)
    BY <1>3, WithinBudgetFits
  <2>3. n = 0
    BY <1>3, <2>2 DEF TrimToFit
  <2>4. Ends(messages, 0) /\ size \in Nat
    BY <2>3, RemovedIsFirstEnd, ShapeOfThread, LenProperties DEF FirstEnd, Shape
  <2>5. ~Stops(messages, 0)
    <3>1. 0 \in 0..size
      BY <2>4
    <3>2. Opening(messages) \o PopOldest(Middle(messages), 0) \o Closing(messages) = messages
      BY <3>1, LeftOver, WholeInTwo DEF Left
    <3>3. QED
      BY <2>2, <3>2 DEF Stops
  <2>6. Middle(messages) = <<>>
    BY <2>4, <2>5, ShapeOfThread, EmptySeq DEF Ends, Shape
  <2>7. QED
    BY <2>1, <2>6, NothingRemoved
<1>4. QED
  BY <1>1, <1>2, <1>3

---------------------------------------------------------------------------
(***************************************************************************)
(* The score never falls when a message shows more (EvidenceNeverCheapens) *)
(*                                                                         *)
(* The steps of the analysis are shown monotonic one by one: the arithmetic*)
(* with its rounding, the greatest of a set, the recency weights, a turn's *)
(* evidence, the weighted mean and the memory of the peak, the ten signals,*)
(* their blend, the shortcut of a trivial turn and the inheritance of a    *)
(* follow-up.                                                              *)
(***************************************************************************)
LEMMA Product ==
  \A a, b, c, d \in Nat :
    a <= b /\ c <= d => a * c <= b * d /\ a * c \in Nat /\ b * d \in Nat
<1> TAKE a, b, c, d \in Nat
<1> HAVE a <= b /\ c <= d
<1>1. a * c <= b * c
  OBVIOUS
<1>2. b * c <= b * d
  OBVIOUS
<1>3. a * c \in Nat /\ b * c \in Nat /\ b * d \in Nat
  OBVIOUS
<1>4. QED
  BY <1>1, <1>2, <1>3

LEMMA Quotient ==
  ASSUME NEW a \in Nat, NEW d \in Nat \ {0}
  PROVE  /\ a \div d \in Nat
         /\ d * (a \div d) <= a
         /\ a < d * (a \div d) + d
  OBVIOUS

LEMMA AtMostQuotient ==
  ASSUME NEW a \in Nat, NEW d \in Nat \ {0}, NEW q \in Nat, d * q <= a
  PROVE  q <= a \div d
<1>1. a \div d \in Nat /\ a < d * (a \div d) + d
  BY Quotient
<1> DEFINE p == a \div d
<1> HIDE DEF p
<1>2. SUFFICES ASSUME p + 1 <= q PROVE FALSE
  BY <1>1 DEF p
<1>3. p + 1 \in Nat /\ d \in Nat
  BY <1>1 DEF p
<1>4. d * (p + 1) <= d * q
  BY <1>2, <1>3, Product
<1>5. d * (p + 1) = d * p + d
  BY <1>1 DEF p
<1>6. QED
  BY <1>1, <1>4, <1>5 DEF p

LEMMA QuotientMonotone ==
  ASSUME NEW a \in Nat, NEW b \in Nat, NEW d \in Nat \ {0}, a <= b
  PROVE  a \div d \in Nat /\ b \div d \in Nat /\ a \div d <= b \div d
<1>1. a \div d \in Nat /\ b \div d \in Nat /\ d * (a \div d) <= a /\ d * (a \div d) \in Nat
  BY Quotient
<1> DEFINE p == a \div d
<1> HIDE DEF p
<1>2. p \in Nat /\ d * p <= b
  BY <1>1 DEF p
<1>3. QED
  BY <1>1, <1>2, AtMostQuotient DEF p

LEMMA ClampRange == \A a \in Int : Clamp(a) \in 0..One
  BY DEF Clamp, One
LEMMA ClampMonotone == \A a, b \in Int : a <= b => Clamp(a) <= Clamp(b)
  BY DEF Clamp, One

LEMMA SaturatingRange ==
  ASSUME NEW v \in Nat, NEW half \in Nat
  PROVE  Saturating(v, half) \in 0..One
<1>1. CASE v = 0
  BY <1>1 DEF Saturating, One
<1>2. CASE v # 0
  <2> DEFINE a == v * 10 * One
             d == v * 10 + half
             q == a \div d
  <2>1. a \in Nat /\ d \in Nat \ {0} /\ a = (v * 10) * 1000
    BY <1>2 DEF One
  <2>2. d >= v * 10 /\ v * 10 \in Nat \ {0}
    BY <1>2
  <2> HIDE DEF d, a
  <2>3. q \in Nat /\ d * q <= a
    BY <2>1, Quotient
  <2> HIDE DEF q
  <2>4. (v * 10) * q <= d * q
    BY <2>1, <2>2, <2>3, Product
  <2>5. (v * 10) * q <= (v * 10) * 1000
    BY <2>1, <2>2, <2>3, <2>4
  <2>6. q <= 1000
    BY <2>2, <2>3, <2>5
  <2>7. QED
    BY <1>2, <2>3, <2>6 DEF Saturating, One, a, d, q
<1>3. QED
  BY <1>1, <1>2

LEMMA SaturatingMonotone ==
  ASSUME NEW v \in Nat, NEW w \in Nat, NEW half \in Nat, v <= w
  PROVE  Saturating(v, half) <= Saturating(w, half)
<1>1. CASE v = 0
  BY <1>1, SaturatingRange DEF Saturating, One
<1>2. CASE v # 0
  <2> DEFINE q == Saturating(v, half)
  <2>1. q \in Nat /\ q <= 1000
    <3>1. Saturating(v, half) \in 0..One
      BY SaturatingRange
    <3>2. QED
      BY <3>1 DEF One
  <2>2. q = (v * 10 * 1000) \div (v * 10 + half)
    BY <1>2 DEF Saturating, One
  <2>3. v * 10 * 1000 \in Nat /\ v * 10 + half \in Nat \ {0}
        /\ w * 10 * 1000 \in Nat /\ w * 10 + half \in Nat \ {0} /\ w # 0
    BY <1>2
  <2> HIDE DEF q
  <2>4. (v * 10 + half) * q <= v * 10 * 1000
    BY <2>2, <2>3, Quotient
  <2>5. ((w - v) * 10) * q <= ((w - v) * 10) * 1000
    <3>1. (w - v) * 10 \in Nat
      OBVIOUS
    <3> DEFINE x == (w - v) * 10
    <3> HIDE DEF x
    <3>2. x * q <= x * 1000
      BY <2>1, <3>1, Product DEF x
    <3>3. QED
      BY <3>2 DEF x
  <2>6. (w * 10 + half) * q = (v * 10 + half) * q + ((w - v) * 10) * q
    BY <2>1
  <2>7. (w * 10 + half) * q <= w * 10 * 1000
    <3>1. v * 10 * 1000 + ((w - v) * 10) * 1000 = w * 10 * 1000
      OBVIOUS
    <3>2. (v * 10 + half) * q \in Int /\ ((w - v) * 10) * q \in Int
      BY <2>1
    <3>3. QED
      BY <2>4, <2>5, <2>6, <3>1, <3>2
  <2>8. q <= (w * 10 * 1000) \div (w * 10 + half)
    BY <2>1, <2>3, <2>7, AtMostQuotient
  <2>9. QED
    BY <1>2, <2>3, <2>8 DEF Saturating, One, q
<1>3. QED
  BY <1>1, <1>2

\* A value on its way to a greater one, by a share of the distance.
Raised(value, top, share) ==
    value + (share * (IF top - value > 0 THEN top - value ELSE 0)) \div 100

LEMMA RaisedRange ==
  ASSUME NEW a \in Nat, NEW p \in Nat, NEW share \in 0..100
  PROVE  Raised(a, p, share) \in Nat /\ a <= Raised(a, p, share)
                                     /\ (a <= p => Raised(a, p, share) <= p)
                                     /\ (p <= a => Raised(a, p, share) = a)
<1>1. CASE p - a > 0
  <2> DEFINE x == p - a
             q == (share * x) \div 100
  <2>1. x \in Nat /\ share \in Nat /\ share <= 100
    BY <1>1
  <2>2. share * x \in Nat /\ share * x <= 100 * x
    <3> HIDE DEF x
    <3>1. QED
      BY <2>1, Product
  <2>3. q \in Nat /\ q <= x
    <3> DEFINE y == share * x
    <3>1. y \in Nat /\ y <= 100 * x /\ x \in Nat
      BY <2>1, <2>2
    <3> HIDE DEF x, y
    <3>2. y \div 100 \in Nat /\ y \div 100 <= x
      BY <3>1
    <3>3. QED
      BY <3>2 DEF y
  <2>4. Raised(a, p, share) = a + q
    BY <1>1 DEF Raised
  <2> HIDE DEF q
  <2>5. QED
    BY <1>1, <2>3, <2>4
<1>2. CASE ~(p - a > 0)
  <2>1. Raised(a, p, share) = a + (share * 0) \div 100
    BY <1>2 DEF Raised
  <2>2. share * 0 = 0
    OBVIOUS
  <2>3. Raised(a, p, share) = a
    BY <2>1, <2>2
  <2>4. QED
    BY <1>2, <2>3
<1>3. QED
  BY <1>1, <1>2

LEMMA RaisedMonotone ==
  ASSUME NEW a \in Nat, NEW b \in Nat, NEW p \in Nat, NEW r \in Nat, NEW share \in 0..100,
         a <= b, p <= r
  PROVE  Raised(a, p, share) <= Raised(b, r, share)
<1>0. /\ Raised(a, p, share) \in Nat /\ Raised(b, r, share) \in Nat
      /\ b <= Raised(b, r, share)
      /\ a <= p => Raised(a, p, share) <= p
      /\ p <= a => Raised(a, p, share) = a
  BY RaisedRange
<1> DEFINE x == Raised(a, p, share)
           y == Raised(b, r, share)
<1>1. CASE p <= b
  <2>1. x \in Nat /\ y \in Nat /\ b <= y /\ (a <= p => x <= p) /\ (p <= a => x = a)
    BY <1>0
  <2> HIDE DEF x, y
  <2>2. x <= y
    BY <1>1, <2>1
  <2>3. QED
    BY <2>2 DEF x, y
<1>3. CASE b < p
  <2> DEFINE q == (share * (p - a)) \div 100
             t == (share * (r - b)) \div 100
  <2>1. share \in Nat /\ share <= 100 /\ p - a \in Nat /\ r - b \in Nat /\ p - b \in Nat /\ b - a \in Nat
    BY <1>3
  <2>2. share * (p - a) \in Nat /\ share * (r - b) \in Nat
    BY <2>1, Product
  <2>3. q \in Nat /\ 100 * q <= share * (p - a) /\ t \in Nat
    BY <2>2, Quotient
  <2>4. Raised(a, p, share) = a + q /\ Raised(b, r, share) = b + t
    BY <1>3 DEF Raised
  <2> HIDE DEF q, t
  <2>5. CASE q <= b - a
    BY <2>3, <2>4, <2>5
  <2>6. CASE q > b - a
    <3> DEFINE d == q - (b - a)
    <3>1. d \in Nat
      BY <2>1, <2>3, <2>6
    <3>2. share * (b - a) <= 100 * (b - a) /\ share * (b - a) \in Nat
      BY <2>1, Product
    <3>3. share * (p - b) <= share * (r - b)
      BY <2>1, Product
    <3>4. share * (p - a) = share * (b - a) + share * (p - b)
      OBVIOUS
    <3>5. 100 * d = 100 * q - 100 * (b - a)
      BY <2>3
    <3> HIDE DEF d
    <3>6. 100 * d <= share * (r - b)
      <4>1. share * (p - b) \in Int
        OBVIOUS
      <4>2. QED
        BY <2>2, <2>3, <3>1, <3>2, <3>3, <3>4, <3>5, <4>1
    <3>7. d <= t
      BY <2>2, <3>1, <3>6, AtMostQuotient DEF t
    <3>8. QED
      BY <2>3, <2>4, <3>7 DEF d
  <2>7. QED
    BY <2>1, <2>3, <2>5, <2>6
<1>4. QED
  BY <1>1, <1>3

LEMMA GreatestExists ==
  ASSUME NEW S, IsFiniteSet(S), S \subseteq Nat, S # {}
  PROVE  \E x \in S : \A y \in S : x >= y
<1> DEFINE G == {T \in SUBSET S : T = {} \/ \E x \in T : \A y \in T : x >= y}
<1>1. ASSUME NEW T \in SUBSET S, \A U \in SUBSET T : U # T => U \in G
      PROVE  T \in G
  <2>1. CASE T = {}
    BY <2>1
  <2>2. CASE T # {}
    <3> DEFINE c == Chosen(T)
               U == T \ {c}
    <3>1. c \in T
      BY <2>2, ChosenIn
    <3> HIDE DEF c
    <3>2. U \in G
      BY <1>1, <3>1
    <3>3. \A y \in T : y = c \/ y \in U
      OBVIOUS
    <3>4. U \subseteq T /\ T \subseteq Nat
      OBVIOUS
    <3>5. CASE U = {}
      BY <3>1, <3>3, <3>4, <3>5
    <3>6. CASE U # {}
      <4>1. PICK x \in U : \A y \in U : x >= y
        BY <3>2, <3>6
      <4> HIDE DEF U
      <4>2. CASE c >= x
        <5>1. \A y \in T : c >= y
          BY <3>1, <3>3, <3>4, <4>1, <4>2
        <5>2. QED
          BY <3>1, <5>1
      <4>3. CASE ~(c >= x)
        <5>1. x \in T /\ \A y \in T : x >= y
          BY <3>1, <3>3, <3>4, <4>1, <4>3
        <5>2. QED
          BY <5>1
      <4>4. QED
        BY <4>2, <4>3
    <3>7. QED
      BY <3>5, <3>6
  <2>3. QED
    BY <2>1, <2>2
<1>2. S \in G
  <2> HIDE DEF G
  <2>1. QED
    BY <1>1, SubsetInduction
<1>3. QED
  BY <1>2

LEMMA GreatestOf ==
  ASSUME NEW S, IsFiniteSet(S), S \subseteq Nat
  PROVE  /\ MaxOf(S) \in Nat
         /\ MaxOf(S) \in S \cup {0}
         /\ \A y \in S : y <= MaxOf(S)
<1> DEFINE R == S \cup {0}
<1>1. IsFiniteSet(R) /\ R \subseteq Nat /\ R # {}
  BY FS_AddElement
<1>2. S \subseteq R
  OBVIOUS
<1> HIDE DEF R
<1>3. \E x \in R : \A y \in R : x >= y
  BY <1>1, GreatestExists
<1>4. Max(R) \in R /\ \A y \in R : Max(R) >= y
  BY <1>3 DEF Max
<1>5. QED
  BY <1>1, <1>2, <1>4 DEF MaxOf, R

LEMMA GreaterOf ==
  ASSUME NEW S, IsFiniteSet(S), S \subseteq Nat, NEW R, IsFiniteSet(R), R \subseteq Nat,
         \A x \in S : \E y \in R : x <= y
  PROVE  MaxOf(S) <= MaxOf(R)
<1>1. /\ MaxOf(S) \in Nat /\ MaxOf(S) \in S \cup {0}
      /\ MaxOf(R) \in Nat /\ \A y \in R : y <= MaxOf(R)
  BY GreatestOf
<1>2. CASE MaxOf(S) = 0
  BY <1>1, <1>2
<1>3. CASE MaxOf(S) \in S
  <2>1. PICK y \in R : MaxOf(S) <= y
    BY <1>3
  <2>2. QED
    BY <1>1, <2>1
<1>4. QED
  BY <1>1, <1>2, <1>3

LEMMA PairOf ==
  ASSUME NEW a \in Nat, NEW b \in Nat
  PROVE  MaxOf({a, b}) = IF a >= b THEN a ELSE b
<1>1. IsFiniteSet({a, b}) /\ {a, b} \subseteq Nat
  <2>1. IsFiniteSet({a} \cup {b})
    BY FS_Singleton, FS_AddElement
  <2>2. {a} \cup {b} = {a, b}
    OBVIOUS
  <2>3. QED
    BY <2>1, <2>2
<1>2. MaxOf({a, b}) \in Nat /\ MaxOf({a, b}) \in {a, b, 0}
      /\ a <= MaxOf({a, b}) /\ b <= MaxOf({a, b})
  <2> DEFINE S == {a, b}
  <2>1. a \in S /\ b \in S /\ S \cup {0} = {a, b, 0}
    OBVIOUS
  <2> HIDE DEF S
  <2>2. MaxOf(S) \in Nat /\ MaxOf(S) \in S \cup {0} /\ \A y \in S : y <= MaxOf(S)
    BY <1>1, GreatestOf DEF S
  <2>3. QED
    BY <2>1, <2>2 DEF S
<1>3. QED
  BY <1>2

\* What a function takes on a finite set.
LEMMA ImageIsFinite ==
  ASSUME NEW S, IsFiniteSet(S), NEW f, \A x \in S : f[x] \in Nat
  PROVE  IsFiniteSet({f[x] : x \in S}) /\ {f[x] : x \in S} \subseteq Nat
<1> DEFINE R == {f[x] : x \in S}
           g == [x \in S |-> f[x]]
<1>1. g \in [S -> R] /\ \A r \in R : \E x \in S : g[x] = r
  OBVIOUS
<1> HIDE DEF R, g
<1>2. g \in Surjection(S, R)
  BY <1>1 DEF Surjection
<1>3. IsFiniteSet(R)
  BY <1>2, FS_Surjection
<1>4. QED
  BY <1>3 DEF R

LEMMA Upwards ==
  ASSUME NEW G, 0 \in G, \A n \in Nat : n \in G => n + 1 \in G
  PROVE  \A n \in Nat : n \in G
<1> DEFINE Bad == {n \in Nat : n \notin G}
<1> SUFFICES ASSUME Bad # {} PROVE FALSE
  OBVIOUS
<1>1. Bad \subseteq Nat /\ Bad # {} /\ (\A n \in Bad : n \in Nat /\ n \notin G)
      /\ (\A n \in Nat : n \notin G => n \in Bad)
  OBVIOUS
<1> HIDE DEF Bad
<1>2. PICK n \in Bad : \A m \in Bad : ~(<<m, n>> \in OpToRel(<, Nat))
  BY <1>1, NatLessThanWellFounded, WFMin
<1>3. n # 0 /\ n \in Nat
  BY <1>1
<1>4. n - 1 \in Nat /\ n - 1 < n /\ (n - 1) + 1 = n
  BY <1>3
<1>5. n - 1 \notin Bad
  BY <1>1, <1>2, <1>4 DEF OpToRel
<1>6. QED
  BY <1>1, <1>4, <1>5

---------------------------------------------------------------------------
(***************************************************************************)
(* The recency weights                                                     *)
(***************************************************************************)
\* The recursion of DecayPower up to n.
PowersTo(n, g) ==
    g = [k \in 0..n |-> IF k = 0 THEN One ELSE (g[k - 1] * RecencyDecay) \div 100]

LEMMA PowersExist == \A n \in Nat : \E g : PowersTo(n, g)
<1> DEFINE P(n) == \E g : PowersTo(n, g)
<1>1. P(0)
  <2> DEFINE g == [k \in 0..0 |-> One]
  <2>1. g = [k \in 0..0 |-> IF k = 0 THEN One ELSE (g[k - 1] * RecencyDecay) \div 100]
    OBVIOUS
  <2> HIDE DEF g
  <2>2. QED
    BY <2>1 DEF PowersTo
<1>2. ASSUME NEW n \in Nat, P(n) PROVE P(n + 1)
  <2>1. PICK g : PowersTo(n, g)
    BY <1>2
  <2> DEFINE h == [k \in 0..(n + 1) |-> IF k <= n THEN g[k]
                                        ELSE (g[n] * RecencyDecay) \div 100]
             r == [k \in 0..(n + 1) |-> IF k = 0 THEN One ELSE (h[k - 1] * RecencyDecay) \div 100]
  <2>2. \A k \in 0..n : g[k] = IF k = 0 THEN One ELSE (g[k - 1] * RecencyDecay) \div 100
    BY <2>1 DEF PowersTo
  <2>3. ASSUME NEW k \in 0..(n + 1) PROVE h[k] = r[k]
    <3>1. CASE k = 0
      BY <2>2, <3>1
    <3>2. CASE k # 0 /\ k <= n
      <4>1. k \in 0..n /\ k - 1 \in 0..(n + 1) /\ k - 1 <= n
        BY <3>2
      <4>2. h[k] = g[k] /\ h[k - 1] = g[k - 1]
        BY <3>2, <4>1
      <4>3. r[k] = (h[k - 1] * RecencyDecay) \div 100
        BY <3>2
      <4>4. QED
        BY <2>2, <3>2, <4>1, <4>2, <4>3
    <3>3. CASE k = n + 1
      <4>1. k # 0 /\ k - 1 = n /\ ~(k <= n) /\ n \in 0..(n + 1) /\ n <= n
        BY <3>3
      <4>2. h[k] = (g[n] * RecencyDecay) \div 100 /\ h[n] = g[n]
        BY <4>1
      <4>3. r[k] = (h[k - 1] * RecencyDecay) \div 100
        BY <4>1
      <4>4. QED
        BY <4>1, <4>2, <4>3
    <3>4. QED
      BY <3>1, <3>2, <3>3
  <2>4. h = [k \in 0..(n + 1) |-> h[k]] /\ r = [k \in 0..(n + 1) |-> r[k]]
    OBVIOUS
  <2>5. h = r
    <3> HIDE DEF h, r
    <3>1. QED
      BY <2>3, <2>4
  <2> HIDE DEF h
  <2>6. PowersTo(n + 1, h)
    BY <2>5 DEF PowersTo
  <2>7. QED
    BY <2>6
<1> DEFINE G == {n \in Nat : P(n)}
<1> HIDE DEF P
<1>3. 0 \in G /\ \A n \in Nat : n \in G => n + 1 \in G
  BY <1>1, <1>2
<1>4. \A n \in Nat : n \in G
  <2> HIDE DEF G
  <2>1. QED
    BY <1>3, Upwards
<1>5. QED
  BY <1>4 DEF P

LEMMA PowersUnique ==
  \A n \in Nat : \A g, h : PowersTo(n, g) /\ PowersTo(n + 1, h) => g = [k \in 0..n |-> h[k]]
<1> TAKE n \in Nat
<1> TAKE g, h
<1> HAVE PowersTo(n, g) /\ PowersTo(n + 1, h)
<1>1. /\ \A k \in 0..n : g[k] = IF k = 0 THEN One ELSE (g[k - 1] * RecencyDecay) \div 100
      /\ \A k \in 0..(n + 1) : h[k] = IF k = 0 THEN One ELSE (h[k - 1] * RecencyDecay) \div 100
      /\ g = [k \in 0..n |-> g[k]]
  BY DEF PowersTo
<1> DEFINE G == {k \in Nat : k <= n => g[k] = h[k]}
<1>2. 0 \in G
  <2>1. 0 \in 0..n /\ 0 \in 0..(n + 1)
    OBVIOUS
  <2>2. g[0] = One /\ h[0] = One
    BY <1>1, <2>1
  <2>3. QED
    BY <2>2
<1>3. ASSUME NEW k \in Nat, k \in G PROVE k + 1 \in G
  <2>1. CASE k + 1 <= n
    <3>1. k + 1 \in 0..n /\ k + 1 \in 0..(n + 1) /\ k + 1 # 0 /\ (k + 1) - 1 = k /\ k <= n
      BY <2>1
    <3>2. g[k + 1] = (g[k] * RecencyDecay) \div 100 /\ h[k + 1] = (h[k] * RecencyDecay) \div 100
      BY <1>1, <3>1
    <3>3. QED
      BY <1>3, <3>1, <3>2
  <2>2. QED
    BY <2>1
<1>4. \A k \in Nat : k \in G
  <2> HIDE DEF G
  <2>1. QED
    BY <1>2, <1>3, Upwards
<1>5. \A k \in 0..n : g[k] = h[k]
  BY <1>4
<1>6. [k \in 0..n |-> g[k]] = [k \in 0..n |-> h[k]]
  BY <1>5
<1>7. QED
  BY <1>1, <1>6

LEMMA PowersUnfold ==
  \A k \in Nat : DecayPower[k] = IF k = 0 THEN One ELSE (DecayPower[k - 1] * RecencyDecay) \div 100
<1> DEFINE upTo(n) == CHOOSE g : PowersTo(n, g)
           f == [n \in Nat |-> upTo(n)[n]]
           Fixed(g) == g = [k \in Nat |-> IF k = 0 THEN One
                                          ELSE (g[k - 1] * RecencyDecay) \div 100]
<1>1. \A n \in Nat : PowersTo(n, upTo(n))
  BY PowersExist
<1>2. ASSUME NEW k \in Nat
      PROVE  f[k] = IF k = 0 THEN One ELSE (f[k - 1] * RecencyDecay) \div 100
  <2> HIDE DEF upTo
  <2>1. \A j \in 0..k : upTo(k)[j] = IF j = 0 THEN One
                                     ELSE (upTo(k)[j - 1] * RecencyDecay) \div 100
    BY <1>1 DEF PowersTo
  <2>2. CASE k = 0
    BY <2>1, <2>2
  <2>3. CASE k # 0
    <3>1. k - 1 \in Nat /\ (k - 1) + 1 = k /\ k - 1 \in 0..(k - 1) /\ k \in 0..k
      BY <2>3
    <3>2. upTo(k - 1) = [j \in 0..(k - 1) |-> upTo(k)[j]]
      <4>1. PowersTo(k - 1, upTo(k - 1)) /\ PowersTo((k - 1) + 1, upTo(k))
        BY <1>1, <3>1
      <4> DEFINE m == k - 1
                 g == upTo(k - 1)
                 h == upTo(k)
      <4>2. m \in Nat /\ PowersTo(m, g) /\ PowersTo(m + 1, h)
        BY <3>1, <4>1
      <4> HIDE DEF m, g, h
      <4>3. g = [j \in 0..m |-> h[j]]
        BY <4>2, PowersUnique
      <4>4. QED
        BY <4>3 DEF m, g, h
    <3>3. upTo(k - 1)[k - 1] = upTo(k)[k - 1]
      BY <3>1, <3>2
    <3>4. f[k - 1] = upTo(k)[k - 1] /\ f[k] = upTo(k)[k]
      BY <3>1, <3>3
    <3> HIDE DEF f
    <3>5. QED
      BY <2>1, <2>3, <3>1, <3>4
  <2>4. QED
    BY <2>2, <2>3
<1>3. Fixed(f)
  <2> DEFINE r == [k \in Nat |-> IF k = 0 THEN One ELSE (f[k - 1] * RecencyDecay) \div 100]
  <2>1. \A k \in Nat : f[k] = r[k]
    <3> HIDE DEF f
    <3>1. QED
      BY <1>2
  <2>2. f = [k \in Nat |-> f[k]] /\ r = [k \in Nat |-> r[k]]
    OBVIOUS
  <2> HIDE DEF f, r
  <2>3. f = r
    BY <2>1, <2>2
  <2>4. QED
    BY <2>3 DEF r
<1>4. Fixed(CHOOSE g : Fixed(g))
  <2> HIDE DEF Fixed
  <2>1. QED
    BY <1>3
<1>5. Fixed(DecayPower)
  BY <1>4 DEF DecayPower
<1> HIDE DEF f
<1>6. QED
  BY <1>5

LEMMA PowersType == DecayPower[0] = One /\ \A k \in Nat : DecayPower[k] \in Nat
<1>1. DecayPower[0] = One
  BY PowersUnfold
<1> DEFINE G == {k \in Nat : DecayPower[k] \in Nat}
<1>2. 0 \in G
  BY <1>1 DEF One
<1>3. ASSUME NEW k \in Nat, k \in G PROVE k + 1 \in G
  <2>1. k + 1 \in Nat /\ k + 1 # 0 /\ (k + 1) - 1 = k
    OBVIOUS
  <2>2. DecayPower[k + 1] = (DecayPower[k] * RecencyDecay) \div 100
    BY <2>1, PowersUnfold
  <2>3. DecayPower[k] \in Nat /\ RecencyDecay \in Nat
    BY <1>3, ComplexityAssumption
  <2>4. DecayPower[k] * RecencyDecay \in Nat
    BY <2>3
  <2>5. (DecayPower[k] * RecencyDecay) \div 100 \in Nat
    BY <2>4, Quotient
  <2>6. QED
    BY <2>2, <2>5
<1>4. \A k \in Nat : k \in G
  <2> HIDE DEF G
  <2>1. QED
    BY <1>2, <1>3, Upwards
<1>5. QED
  BY <1>1, <1>4

---------------------------------------------------------------------------
(***************************************************************************)
(* Weighted and Aggregate as sums                                          *)
(***************************************************************************)
TermOf(e, attr) == [i \in Positions(e) |-> e[i][attr] * DecayPower[Len(e) - i]]
WeightOf(e) == [i \in Positions(e) |-> DecayPower[Len(e) - i]]

LEMMA WeightedIsQuotient ==
  ASSUME NEW e, NEW attr, Len(e) \in Nat
  PROVE  Weighted(e, attr) = SumOf(TermOf(e, attr), Positions(e))
                               \div SumOf(WeightOf(e), Positions(e))
<1> DEFINE S == Positions(e)
           Terms(g) ==
             g = [T \in SUBSET S |->
                    IF T = {} THEN 0
                    ELSE e[Chosen(T)][attr] * DecayPower[Len(e) - Chosen(T)] + g[T \ {Chosen(T)}]]
           Weights(g) ==
             g = [T \in SUBSET S |->
                    IF T = {} THEN 0 ELSE DecayPower[Len(e) - Chosen(T)] + g[T \ {Chosen(T)}]]
<1>1. IsFiniteSet(S)
  BY FS_Interval DEF Positions
<1>2. \A T \in SUBSET S : T # {} => Chosen(T) \in S
  BY ChosenIn
<1>3. ASSUME NEW g PROVE Terms(g) <=> PartialSums(g, TermOf(e, attr), S)
  <2>1. \A T \in SUBSET S : T # {} =>
           TermOf(e, attr)[Chosen(T)] = e[Chosen(T)][attr] * DecayPower[Len(e) - Chosen(T)]
    BY <1>2 DEF TermOf
  <2> HIDE DEF S
  <2>2. [T \in SUBSET S |->
           IF T = {} THEN 0
           ELSE e[Chosen(T)][attr] * DecayPower[Len(e) - Chosen(T)] + g[T \ {Chosen(T)}]]
          = [T \in SUBSET S |-> IF T = {} THEN 0
                                ELSE TermOf(e, attr)[Chosen(T)] + g[T \ {Chosen(T)}]]
    BY <2>1
  <2>3. QED
    BY <2>2 DEF PartialSums
<1>4. ASSUME NEW g PROVE Weights(g) <=> PartialSums(g, WeightOf(e), S)
  <2>1. \A T \in SUBSET S : T # {} =>
           WeightOf(e)[Chosen(T)] = DecayPower[Len(e) - Chosen(T)]
    BY <1>2 DEF WeightOf
  <2> HIDE DEF S
  <2>2. [T \in SUBSET S |->
           IF T = {} THEN 0 ELSE DecayPower[Len(e) - Chosen(T)] + g[T \ {Chosen(T)}]]
          = [T \in SUBSET S |-> IF T = {} THEN 0
                                ELSE WeightOf(e)[Chosen(T)] + g[T \ {Chosen(T)}]]
    BY <2>1
  <2>3. QED
    BY <2>2 DEF PartialSums
<1>5. Weighted(e, attr) = (CHOOSE g : Terms(g))[S] \div (CHOOSE g : Weights(g))[S]
  BY DEF Weighted, Sum, MapThenSumSet, MapThenFoldSet, Chosen
<1>6. Terms(CHOOSE g : Terms(g)) /\ Weights(CHOOSE g : Weights(g))
  <2>1. (\E g : Terms(g)) /\ (\E g : Weights(g))
    BY <1>1, <1>3, <1>4, PartialSumsExist
  <2> HIDE DEF Terms, Weights
  <2>2. QED
    BY <2>1
<1> HIDE DEF Terms, Weights
<1>7. /\ PartialSums(CHOOSE g : Terms(g), TermOf(e, attr), S)
      /\ PartialSums(CHOOSE g : Weights(g), WeightOf(e), S)
  BY <1>3, <1>4, <1>6
<1> HIDE DEF S
<1>8. /\ SumOf(TermOf(e, attr), S) = (CHOOSE g : Terms(g))[S]
      /\ SumOf(WeightOf(e), S) = (CHOOSE g : Weights(g))[S]
  BY <1>1, <1>7, SumIsPartial
<1>9. QED
  BY <1>5, <1>8 DEF S

Total(values) == SumOf([s \in Signals |-> values[s] * SignalWeights[s]], Signals)
TotalWeight == SumOf(SignalWeights, Signals)

LEMMA SignalsFinite == IsFiniteSet(Signals)
<1>1. /\ IsFiniteSet({"conversation_depth", "context_length"})
      /\ IsFiniteSet({"conversation_depth", "context_length", "reasoning_keywords", "code_content"})
  <2>1. IsFiniteSet({"conversation_depth"} \cup {"context_length"})
    BY FS_Singleton, FS_AddElement
  <2>2. {"conversation_depth"} \cup {"context_length"} = {"conversation_depth", "context_length"}
    OBVIOUS
  <2>3. IsFiniteSet(({"conversation_depth", "context_length"} \cup {"reasoning_keywords"})
                      \cup {"code_content"})
    BY <2>1, <2>2, FS_AddElement
  <2>4. ({"conversation_depth", "context_length"} \cup {"reasoning_keywords"}) \cup {"code_content"}
          = {"conversation_depth", "context_length", "reasoning_keywords", "code_content"}
    OBVIOUS
  <2>5. QED
    BY <2>1, <2>2, <2>3, <2>4
<1> DEFINE A == {"conversation_depth", "context_length", "reasoning_keywords", "code_content"}
           B == A \cup {"structured_output"}
           C == B \cup {"tool_usage"}
           D == C \cup {"multilingual"}
           E == D \cup {"unresolved_thread"}
           F == E \cup {"instruction_density"}
<1>2. IsFiniteSet(F \cup {"requested_output_size"})
  <2> HIDE DEF A
  <2>1. IsFiniteSet(B)
    BY <1>1, FS_AddElement DEF A
  <2> HIDE DEF B
  <2>2. IsFiniteSet(C)
    BY <2>1, FS_AddElement
  <2> HIDE DEF C
  <2>3. IsFiniteSet(D)
    BY <2>2, FS_AddElement
  <2> HIDE DEF D
  <2>4. IsFiniteSet(E)
    BY <2>3, FS_AddElement
  <2> HIDE DEF E
  <2>5. IsFiniteSet(F)
    BY <2>4, FS_AddElement
  <2> HIDE DEF F
  <2>6. QED
    BY <2>5, FS_AddElement
<1>3. F \cup {"requested_output_size"} = Signals
  BY DEF Signals
<1>4. QED
  BY <1>2, <1>3

LEMMA AggregateIsBlend ==
  ASSUME NEW values
  PROVE  Aggregate(values) = Blend(Total(values) \div MaxOf({1, TotalWeight}), Dominant(values))
<1> DEFINE S == Signals
           term == [s \in Signals |-> values[s] * SignalWeights[s]]
           Terms(g) ==
             g = [T \in SUBSET S |->
                    IF T = {} THEN 0
                    ELSE values[Chosen(T)] * SignalWeights[Chosen(T)] + g[T \ {Chosen(T)}]]
           Weights(g) ==
             g = [T \in SUBSET S |->
                    IF T = {} THEN 0 ELSE SignalWeights[Chosen(T)] + g[T \ {Chosen(T)}]]
<1>1. IsFiniteSet(S)
  BY SignalsFinite
<1>2. \A T \in SUBSET S : T # {} => Chosen(T) \in S
  BY ChosenIn
<1>3. ASSUME NEW g PROVE Terms(g) <=> PartialSums(g, term, S)
  <2>1. \A T \in SUBSET S : T # {} =>
           term[Chosen(T)] = values[Chosen(T)] * SignalWeights[Chosen(T)]
    BY <1>2
  <2> HIDE DEF S, term
  <2>2. [T \in SUBSET S |->
           IF T = {} THEN 0
           ELSE values[Chosen(T)] * SignalWeights[Chosen(T)] + g[T \ {Chosen(T)}]]
          = [T \in SUBSET S |-> IF T = {} THEN 0
                                ELSE term[Chosen(T)] + g[T \ {Chosen(T)}]]
    BY <2>1
  <2>3. QED
    BY <2>2 DEF PartialSums
<1>4. ASSUME NEW g PROVE Weights(g) <=> PartialSums(g, SignalWeights, S)
  BY DEF PartialSums
<1>5. Aggregate(values) = Blend((CHOOSE g : Terms(g))[S] \div MaxOf({1, (CHOOSE g : Weights(g))[S]}),
                                Dominant(values))
  BY DEF Aggregate, Sum, MapThenSumSet, MapThenFoldSet, Chosen
<1> HIDE DEF term
<1>6. Terms(CHOOSE g : Terms(g)) /\ Weights(CHOOSE g : Weights(g))
  <2>1. (\E g : Terms(g)) /\ (\E g : Weights(g))
    BY <1>1, <1>3, <1>4, PartialSumsExist
  <2> HIDE DEF Terms, Weights
  <2>2. QED
    BY <2>1
<1> HIDE DEF Terms, Weights
<1>7. /\ PartialSums(CHOOSE g : Terms(g), term, S)
      /\ PartialSums(CHOOSE g : Weights(g), SignalWeights, S)
  BY <1>3, <1>4, <1>6
<1> HIDE DEF S
<1>8. /\ SumOf(term, S) = (CHOOSE g : Terms(g))[S]
      /\ SumOf(SignalWeights, S) = (CHOOSE g : Weights(g))[S]
  BY <1>1, <1>7, SumIsPartial
<1>9. QED
  BY <1>5, <1>8 DEF S, term, Total, TotalWeight

---------------------------------------------------------------------------
(***************************************************************************)
(* A harder message gives no weaker evidence                               *)
(***************************************************************************)
TurnEvidence ==
    [reasoning : 0..One, code : 0..One, structured : 0..One, long_output : 0..One,
     dissatisfaction : 0..One, instruction_density : 0..One, multilingual : 0..One,
     trivial : BOOLEAN, anaphoric : BOOLEAN]

\* Message w shows all that m shows and is otherwise like it.
AsHard(m, w) ==
    /\ w.role = m.role /\ w.blank = m.blank /\ w.marks = m.marks
    /\ w.markers = m.markers /\ w.tokens = m.tokens
    /\ m.strongest <= w.strongest /\ m.demands <= w.demands
    /\ m.fences <= w.fences /\ m.hints <= w.hints

\* What grows with it, and what stays.
AsStrong(e, v) ==
    /\ e.reasoning <= v.reasoning /\ e.code <= v.code
    /\ v.structured = e.structured /\ v.long_output = e.long_output
    /\ v.dissatisfaction = e.dissatisfaction /\ v.multilingual = e.multilingual
    /\ v.instruction_density = e.instruction_density
    /\ v.trivial = e.trivial /\ v.anaphoric = e.anaphoric

ReasoningOf(m) ==
    IF m.demands = 0 THEN 0 ELSE Clamp(100 * m.strongest + 80 * (m.demands - 1))
CodeOf(m) ==
    Clamp(Clamp((Saturating(m.fences, 10) * 7) \div 10 + Saturating(m.hints, 60) \div 2)
            + Marked(m, "trace", 350))

LEMMA MessageFields ==
  ASSUME NEW m \in Message
  PROVE  /\ m.blank \in BOOLEAN /\ m.strongest \in Nat /\ m.demands \in Nat
         /\ m.fences \in Nat /\ m.hints \in Nat /\ m.markers \in Nat /\ m.tokens \in Nat
  BY DEF Message

LEMMA AsHardAsItself == \A m \in Message : AsHard(m, m)
<1> TAKE m \in Message
<1>1. QED
  BY MessageFields DEF AsHard

LEMMA CodeRange ==
  ASSUME NEW m \in Message
  PROVE  /\ CodeOf(m) \in 0..One
         /\ (Saturating(m.fences, 10) * 7) \div 10 + Saturating(m.hints, 60) \div 2 \in Nat
<1>1. m.fences \in Nat /\ m.hints \in Nat
  BY MessageFields
<1> DEFINE f == Saturating(m.fences, 10)
           h == Saturating(m.hints, 60)
<1>2. f \in 0..One /\ h \in 0..One
  BY <1>1, SaturatingRange
<1> HIDE DEF f, h
<1>3. (f * 7) \div 10 + h \div 2 \in Nat
  BY <1>2 DEF One
<1> DEFINE c == (f * 7) \div 10 + h \div 2
           x == Marked(m, "trace", 350)
<1>4. x \in Nat
  BY DEF Marked
<1>5. Clamp(c) \in 0..One
  <2> HIDE DEF c
  <2>1. QED
    BY <1>3, ClampRange DEF c
<1>6. Clamp(c) + x \in Int
  <2> HIDE DEF c, x
  <2>1. QED
    BY <1>4, <1>5 DEF One
<1>7. CodeOf(m) \in 0..One
  <2>1. CodeOf(m) = Clamp(Clamp(c) + x)
    BY DEF CodeOf, f, h
  <2> HIDE DEF c, x
  <2>2. QED
    BY <1>6, <2>1, ClampRange
<1>8. QED
  BY <1>3, <1>7 DEF f, h

LEMMA CodeGrows ==
  ASSUME NEW m \in Message, NEW w \in Message, AsHard(m, w)
  PROVE  CodeOf(m) <= CodeOf(w)
<1> DEFINE c(n) == (Saturating(n.fences, 10) * 7) \div 10 + Saturating(n.hints, 60) \div 2
           x == Marked(m, "trace", 350)
<1>1. c(m) \in Nat /\ c(w) \in Nat
  BY CodeRange
<1>2. c(m) <= c(w)
  <2> DEFINE f == Saturating(m.fences, 10)
             g == Saturating(w.fences, 10)
             h == Saturating(m.hints, 60)
             k == Saturating(w.hints, 60)
  <2>1. m.fences \in Nat /\ m.hints \in Nat /\ w.fences \in Nat /\ w.hints \in Nat
    BY MessageFields
  <2>2. m.fences <= w.fences /\ m.hints <= w.hints
    BY DEF AsHard
  <2>3. f \in 0..One /\ g \in 0..One /\ h \in 0..One /\ k \in 0..One
    BY <2>1, SaturatingRange
  <2>4. f <= g /\ h <= k
    BY <2>1, <2>2, SaturatingMonotone
  <2> HIDE DEF f, g, h, k
  <2>5. (f * 7) \div 10 + h \div 2 <= (g * 7) \div 10 + k \div 2
    BY <2>3, <2>4 DEF One
  <2>6. QED
    BY <2>5 DEF f, g, h, k
<1>3. x \in Nat
  BY DEF Marked
<1>4. CodeOf(m) = Clamp(Clamp(c(m)) + x) /\ CodeOf(w) = Clamp(Clamp(c(w)) + x)
  BY DEF CodeOf, Marked, AsHard
<1> DEFINE a == c(m)
           b == c(w)
<1>5. a \in Int /\ b \in Int /\ a <= b
  BY <1>1, <1>2
<1> HIDE DEF a, b, x
<1>6. Clamp(a) \in Int /\ Clamp(b) \in Int /\ Clamp(a) <= Clamp(b)
  <2>1. Clamp(a) \in 0..One /\ Clamp(b) \in 0..One
    BY <1>5, ClampRange
  <2>2. Clamp(a) <= Clamp(b)
    BY <1>5, ClampMonotone
  <2>3. QED
    BY <2>1, <2>2 DEF One
<1>7. Clamp(Clamp(a) + x) <= Clamp(Clamp(b) + x)
  BY <1>3, <1>6, ClampMonotone
<1>8. QED
  BY <1>4, <1>7 DEF a, b

LEMMA ReasoningGrows ==
  ASSUME NEW m \in Message, NEW w \in Message, AsHard(m, w)
  PROVE  /\ ReasoningOf(m) \in 0..One /\ ReasoningOf(w) \in 0..One
         /\ ReasoningOf(m) <= ReasoningOf(w)
<1>1. /\ m.strongest \in Nat /\ m.demands \in Nat /\ w.strongest \in Nat /\ w.demands \in Nat
      /\ m.strongest <= w.strongest /\ m.demands <= w.demands
  BY MessageFields DEF AsHard
<1> DEFINE a == 100 * m.strongest + 80 * (m.demands - 1)
           b == 100 * w.strongest + 80 * (w.demands - 1)
<1>2. a \in Int /\ b \in Int /\ a <= b
  BY <1>1
<1>3. /\ ReasoningOf(m) = IF m.demands = 0 THEN 0 ELSE Clamp(a)
      /\ ReasoningOf(w) = IF w.demands = 0 THEN 0 ELSE Clamp(b)
  BY DEF ReasoningOf
<1> HIDE DEF a, b
<1>4. Clamp(a) \in 0..One /\ Clamp(b) \in 0..One /\ Clamp(a) <= Clamp(b)
  BY <1>2, ClampRange, ClampMonotone
<1>5. m.demands # 0 => w.demands # 0
  BY <1>1
<1>6. QED
  BY <1>3, <1>4, <1>5 DEF One

LEMMA TurnOf ==
  ASSUME NEW m
  PROVE  AnalyseTurn(m) =
           IF m.blank
             THEN [NoEvidence EXCEPT !.reasoning = IF m.role = "tool" THEN 300 ELSE 0]
             ELSE [reasoning |-> ReasoningOf(m),
                   code |-> CodeOf(m),
                   structured |-> Marked(m, "format", 700),
                   long_output |-> IF m.role = "user" THEN Marked(m, "long", 800) ELSE 0,
                   dissatisfaction |-> IF m.role = "user" THEN Marked(m, "unhappy", One) ELSE 0,
                   instruction_density |-> Saturating(m.markers, 50),
                   multilingual |-> Marked(m, "mixed", 600),
                   trivial |-> m.role = "user" /\ "trivial" \in m.marks,
                   anaphoric |-> m.role = "user" /\ "followup" \in m.marks]
  BY DEF AnalyseTurn, ReasoningOf, CodeOf

LEMMA EvidenceType ==
  ASSUME NEW m \in Message
  PROVE  AnalyseTurn(m) \in TurnEvidence
<1>1. CASE m.blank
  <2> DEFINE r == IF m.role = "tool" THEN 300 ELSE 0
  <2>1. AnalyseTurn(m) = [NoEvidence EXCEPT !.reasoning = r]
    BY <1>1, TurnOf
  <2>2. r \in 0..One /\ 0 \in 0..One
    BY DEF One
  <2> DEFINE R == 0..One
  <2> HIDE DEF r, R
  <2>3. QED
    BY <2>1, <2>2 DEF TurnEvidence, NoEvidence, R
<1>2. CASE ~m.blank
  <2>1. AsHard(m, m)
    BY MessageFields DEF AsHard
  <2>2. /\ ReasoningOf(m) \in 0..One /\ CodeOf(m) \in 0..One
        /\ Saturating(m.markers, 50) \in 0..One
    BY <2>1, ReasoningGrows, CodeRange, MessageFields, SaturatingRange
  <2>3. /\ Marked(m, "format", 700) \in 0..One /\ Marked(m, "mixed", 600) \in 0..One
        /\ Marked(m, "long", 800) \in 0..One /\ Marked(m, "unhappy", One) \in 0..One /\ 0 \in 0..One
    BY DEF Marked, One
  <2>4. QED
    BY <1>2, <2>2, <2>3, TurnOf DEF TurnEvidence
<1>3. QED
  BY <1>1, <1>2

LEMMA EvidenceFields ==
  ASSUME NEW e \in TurnEvidence
  PROVE  /\ e.reasoning \in Nat /\ e.code \in Nat /\ e.structured \in Nat
         /\ e.long_output \in Nat /\ e.dissatisfaction \in Nat
         /\ e.instruction_density \in Nat /\ e.multilingual \in Nat
         /\ e.trivial \in BOOLEAN /\ e.anaphoric \in BOOLEAN
<1>1. \A x \in 0..One : x \in Nat
  BY DEF One
<1> DEFINE R == 0..One
<1> HIDE DEF R
<1>2. /\ e.reasoning \in R /\ e.code \in R /\ e.structured \in R /\ e.long_output \in R
      /\ e.dissatisfaction \in R /\ e.instruction_density \in R /\ e.multilingual \in R
      /\ e.trivial \in BOOLEAN /\ e.anaphoric \in BOOLEAN
  BY DEF TurnEvidence, R
<1>3. QED
  BY <1>1, <1>2 DEF R

LEMMA EvidenceGrows ==
  ASSUME NEW m \in Message, NEW w \in Message, AsHard(m, w)
  PROVE  AsStrong(AnalyseTurn(m), AnalyseTurn(w))
<1>1. w.blank = m.blank /\ w.role = m.role /\ w.marks = m.marks /\ w.markers = m.markers
  BY DEF AsHard
<1>2. CASE m.blank
  <2>1. AnalyseTurn(w) = AnalyseTurn(m)
    BY <1>1, <1>2 DEF AnalyseTurn
  <2>2. AnalyseTurn(m).reasoning \in Int /\ AnalyseTurn(m).code \in Int
    <3>1. AnalyseTurn(m) \in TurnEvidence
      BY EvidenceType
    <3>2. QED
      BY <3>1, EvidenceFields
  <2>3. QED
    BY <2>1, <2>2 DEF AsStrong
<1>3. CASE ~m.blank
  <2>1. ReasoningOf(m) <= ReasoningOf(w) /\ CodeOf(m) <= CodeOf(w)
    BY ReasoningGrows, CodeGrows
  <2>2. QED
    BY <1>1, <1>3, <2>1, TurnOf DEF AsStrong, Marked
<1>4. QED
  BY <1>2, <1>3

---------------------------------------------------------------------------
(***************************************************************************)
(* The weighted mean, the peak and the memory                              *)
(***************************************************************************)
LEMMA WeightsType ==
  ASSUME NEW e, Len(e) \in Nat \ {0}
  PROVE  /\ IsFiniteSet(Positions(e))
         /\ \A i \in Positions(e) : DecayPower[Len(e) - i] \in Nat
         /\ SumOf(WeightOf(e), Positions(e)) \in Nat \ {0}
<1>1. IsFiniteSet(Positions(e))
  BY FS_Interval DEF Positions
<1>2. \A i \in Positions(e) : Len(e) - i \in Nat
  BY DEF Positions
<1>3. \A i \in Positions(e) : DecayPower[Len(e) - i] \in Nat
  BY <1>2, PowersType
<1>4. \A i \in Positions(e) : WeightOf(e)[i] \in Nat
  BY <1>3 DEF WeightOf
<1>5. SumOf(WeightOf(e), Positions(e)) \in Nat
  BY <1>1, <1>4, SumNat
<1>6. Len(e) \in Positions(e) /\ Len(e) - Len(e) = 0
  BY DEF Positions
<1>7. WeightOf(e)[Len(e)] = 1000
  BY <1>6, PowersType DEF WeightOf, One
<1>8. SumOf(WeightOf(e), Positions(e) \ {Len(e)}) \in Nat
  BY <1>1, <1>4, FS_RemoveElement, SumNat
<1>9. SumOf(WeightOf(e), Positions(e))
        = WeightOf(e)[Len(e)] + SumOf(WeightOf(e), Positions(e) \ {Len(e)})
  BY <1>1, <1>4, <1>6, SumTakeOut
<1>10. QED
  BY <1>1, <1>3, <1>5, <1>7, <1>8, <1>9

LEMMA WeightedMonotone ==
  ASSUME NEW e, NEW v, NEW attr, Len(e) \in Nat \ {0}, Len(v) = Len(e),
         \A i \in Positions(e) : e[i][attr] \in Nat /\ v[i][attr] \in Nat
                                                    /\ e[i][attr] <= v[i][attr]
  PROVE  /\ Weighted(e, attr) \in Nat /\ Weighted(v, attr) \in Nat
         /\ Weighted(e, attr) <= Weighted(v, attr)
<1> DEFINE S == Positions(e)
           f == TermOf(e, attr)
           g == TermOf(v, attr)
           total == SumOf(WeightOf(e), Positions(e))
<1>1. /\ IsFiniteSet(S)
      /\ \A i \in S : DecayPower[Len(e) - i] \in Nat
      /\ total \in Nat \ {0}
  BY WeightsType
<1>2. Positions(v) = S /\ WeightOf(v) = WeightOf(e)
  BY DEF Positions, WeightOf
<1>3. \A i \in S : f[i] = e[i][attr] * DecayPower[Len(e) - i]
  BY DEF TermOf
<1>4. \A i \in S : g[i] = v[i][attr] * DecayPower[Len(e) - i]
  BY <1>2 DEF TermOf
<1> HIDE DEF f, g, total
<1>5. ASSUME NEW i \in S PROVE f[i] \in Nat /\ g[i] \in Nat /\ f[i] <= g[i]
  <2> DEFINE a == e[i][attr]
             b == v[i][attr]
             w == DecayPower[Len(e) - i]
  <2>1. a \in Nat /\ b \in Nat /\ a <= b /\ w \in Nat /\ f[i] = a * w /\ g[i] = b * w
    BY <1>1, <1>3, <1>4
  <2> HIDE DEF a, b, w
  <2>2. a * w \in Nat /\ b * w \in Nat /\ a * w <= b * w
    BY <2>1, Product
  <2>3. QED
    BY <2>1, <2>2
<1> HIDE DEF S
<1>6. SumOf(f, S) \in Nat /\ SumOf(g, S) \in Nat
  BY <1>1, <1>5, SumNat
<1>7. SumOf(f, S) <= SumOf(g, S)
  BY <1>1, <1>5, SumMonotone
<1>8. Weighted(e, attr) = SumOf(f, S) \div total /\ Weighted(v, attr) = SumOf(g, S) \div total
  BY <1>2, WeightedIsQuotient DEF S, f, g, total
<1>9. /\ SumOf(f, S) \div total \in Nat /\ SumOf(g, S) \div total \in Nat
      /\ SumOf(f, S) \div total <= SumOf(g, S) \div total
  BY <1>1, <1>6, <1>7, QuotientMonotone
<1>10. QED
  BY <1>8, <1>9

LEMMA PeakMonotone ==
  ASSUME NEW e, NEW v, NEW attr, Len(e) \in Nat \ {0}, Len(v) = Len(e),
         \A i \in Positions(e) : e[i][attr] \in Nat /\ v[i][attr] \in Nat
                                                    /\ e[i][attr] <= v[i][attr]
  PROVE  Peak(e, attr) \in Nat /\ Peak(v, attr) \in Nat /\ Peak(e, attr) <= Peak(v, attr)
<1> DEFINE S == Positions(e)
           f == [i \in S |-> e[i][attr]]
           g == [i \in S |-> v[i][attr]]
           F == {f[i] : i \in S}
           G == {g[i] : i \in S}
<1>1. IsFiniteSet(S) /\ Positions(v) = S
  BY FS_Interval DEF Positions
<1>2. \A i \in S : f[i] \in Nat /\ g[i] \in Nat /\ f[i] <= g[i]
  OBVIOUS
<1>3. Peak(e, attr) = MaxOf(F) /\ Peak(v, attr) = MaxOf(G)
  BY <1>1 DEF Peak
<1> HIDE DEF S, f, g
<1>4. IsFiniteSet(F) /\ F \subseteq Nat /\ IsFiniteSet(G) /\ G \subseteq Nat
  BY <1>1, <1>2, ImageIsFinite
<1>5. \A x \in F : \E y \in G : x <= y
  BY <1>2
<1> HIDE DEF F, G
<1>6. QED
  BY <1>3, <1>4, <1>5, GreaterOf, GreatestOf

LEMMA MemoryMonotone ==
  ASSUME NEW e, NEW v, NEW attr, Len(e) \in Nat \ {0}, Len(v) = Len(e),
         \A i \in Positions(e) : e[i][attr] \in Nat /\ v[i][attr] \in Nat
                                                    /\ e[i][attr] <= v[i][attr]
  PROVE  /\ WithMemory(e, attr) \in 0..One /\ WithMemory(v, attr) \in 0..One
         /\ WithMemory(e, attr) <= WithMemory(v, attr)
<1> DEFINE a == Weighted(e, attr)
           b == Weighted(v, attr)
           p == Peak(e, attr)
           r == Peak(v, attr)
<1>1. a \in Nat /\ b \in Nat /\ a <= b /\ p \in Nat /\ r \in Nat /\ p <= r
  BY WeightedMonotone, PeakMonotone
<1>2. /\ WithMemory(e, attr) = Clamp(Raised(a, p, EscalationMemory))
      /\ WithMemory(v, attr) = Clamp(Raised(b, r, EscalationMemory))
  BY DEF WithMemory, Raised
<1> HIDE DEF a, b, p, r
<1> DEFINE x == Raised(a, p, EscalationMemory)
           y == Raised(b, r, EscalationMemory)
<1>3. EscalationMemory \in 0..100
  BY ComplexityAssumption
<1>4. x \in Nat /\ y \in Nat /\ x <= y
  BY <1>1, <1>3, RaisedRange, RaisedMonotone
<1> HIDE DEF x, y
<1>5. Clamp(x) \in 0..One /\ Clamp(y) \in 0..One /\ Clamp(x) <= Clamp(y)
  BY <1>4, ClampRange, ClampMonotone
<1>6. QED
  BY <1>2, <1>5 DEF x, y

---------------------------------------------------------------------------
(***************************************************************************)
(* The messages analysed                                                   *)
(***************************************************************************)
LEMMA LastNOf ==
  ASSUME NEW S, NEW t \in Seq(S), NEW k \in Nat \ {0}, Len(t) # 0
  PROVE  /\ LastN(t, k) \in Seq(S)
         /\ Len(LastN(t, k)) = IF Len(t) > k THEN k ELSE Len(t)
         /\ Len(LastN(t, k)) \in 1..Len(t)
         /\ \A i \in 1..Len(LastN(t, k)) : /\ Len(t) - Len(LastN(t, k)) + i \in 1..Len(t)
                                           /\ LastN(t, k)[i] = t[Len(t) - Len(LastN(t, k)) + i]
<1> DEFINE n == Len(t)
           m == IF n > k THEN n - k + 1 ELSE 1
           w == SubSeq(t, m, n)
<1>1. n \in Nat \ {0} /\ m \in 1..n
  BY LenProperties
<1>2. \A i \in m..n : t[i] \in S
  BY <1>1, ElementOfSeq
<1>3. LastN(t, k) = w
  BY DEF LastN
<1> HIDE DEF n
<1>4. n - m + 1 = IF n > k THEN k ELSE n
  BY <1>1
<1> HIDE DEF m
<1>5. /\ w \in Seq(S)
      /\ Len(w) = IF m <= n THEN n - m + 1 ELSE 0
      /\ \A i \in 1..(n - m + 1) : w[i] = t[m + i - 1]
  BY <1>1, <1>2, SubSeqProperties
<1>6. Len(w) = n - m + 1 /\ n - Len(w) = m - 1
  BY <1>1, <1>5
<1> HIDE DEF w
<1>7. \A i \in 1..Len(w) : n - Len(w) + i = m + i - 1 /\ m + i - 1 \in 1..n
  BY <1>1, <1>6
<1>8. \A i \in 1..Len(w) : n - Len(w) + i \in 1..n /\ w[i] = t[n - Len(w) + i]
  BY <1>5, <1>6, <1>7
<1>9. Len(w) \in 1..n
  BY <1>1, <1>6
<1>10. QED
  BY <1>3, <1>4, <1>5, <1>6, <1>8, <1>9 DEF n

HarderThread(t, u) ==
    /\ t \in Seq(Message) /\ u \in Seq(Message)
    /\ Len(u) = Len(t) /\ Len(t) # 0
    /\ \A i \in 1..Len(t) : AsHard(t[i], u[i])

LEMMA HarderWindow ==
  ASSUME NEW t, NEW u, HarderThread(t, u), NEW k \in Nat \ {0}
  PROVE  HarderThread(LastN(t, k), LastN(u, k))
<1> DEFINE a == LastN(t, k)
           b == LastN(u, k)
<1>1. t \in Seq(Message) /\ u \in Seq(Message) /\ Len(t) # 0 /\ Len(u) = Len(t) /\ Len(t) \in Nat
      /\ \A i \in 1..Len(t) : AsHard(t[i], u[i])
  BY LenProperties DEF HarderThread
<1>2. /\ a \in Seq(Message)
      /\ Len(a) = IF Len(t) > k THEN k ELSE Len(t)
      /\ Len(a) \in 1..Len(t)
      /\ \A i \in 1..Len(a) : Len(t) - Len(a) + i \in 1..Len(t) /\ a[i] = t[Len(t) - Len(a) + i]
  BY <1>1, LastNOf
<1>3. /\ b \in Seq(Message)
      /\ Len(b) = IF Len(u) > k THEN k ELSE Len(u)
      /\ \A i \in 1..Len(b) : b[i] = u[Len(u) - Len(b) + i]
  BY <1>1, LastNOf
<1> HIDE DEF a, b
<1>4. Len(b) = Len(a) /\ Len(a) # 0
  BY <1>1, <1>2, <1>3
<1>5. \A i \in 1..Len(a) : AsHard(a[i], b[i])
  BY <1>1, <1>2, <1>3, <1>4
<1>6. QED
  BY <1>2, <1>3, <1>4, <1>5 DEF HarderThread, a, b

LEMMA EvidencesAre ==
  ASSUME NEW a \in Seq(Message)
  PROVE  /\ EvidencesOf(a) \in Seq(TurnEvidence)
         /\ Len(EvidencesOf(a)) = Len(a)
         /\ \A i \in 1..Len(a) : EvidencesOf(a)[i] = AnalyseTurn(a[i])
<1> DEFINE n == Len(a)
           f == [i \in 1..n |-> AnalyseTurn(a[i])]
<1>1. n \in Nat
  BY LenProperties
<1>2. \A i \in 1..n : f[i] \in TurnEvidence /\ f[i] = AnalyseTurn(a[i])
  BY ElementOfSeq, EvidenceType
<1>3. EvidencesOf(a) = SubSeq(f, 1, n)
  BY DEF EvidencesOf, Positions
<1> HIDE DEF f, n
<1>4. /\ SubSeq(f, 1, n) \in Seq(TurnEvidence)
      /\ Len(SubSeq(f, 1, n)) = IF 1 <= n THEN n - 1 + 1 ELSE 0
      /\ \A i \in 1..(n - 1 + 1) : SubSeq(f, 1, n)[i] = f[1 + i - 1]
  BY <1>1, <1>2, SubSeqProperties
<1>5. \A i \in 1..n : i \in 1..(n - 1 + 1) /\ 1 + i - 1 = i
  BY <1>1
<1>6. Len(SubSeq(f, 1, n)) = n
  BY <1>1, <1>4
<1>7. QED
  BY <1>2, <1>3, <1>4, <1>5, <1>6 DEF n

StrongerEvidences(e, v) ==
    /\ e \in Seq(TurnEvidence) /\ v \in Seq(TurnEvidence)
    /\ Len(v) = Len(e) /\ Len(e) \in Nat \ {0}
    /\ \A i \in Positions(e) : e[i] \in TurnEvidence /\ v[i] \in TurnEvidence /\ AsStrong(e[i], v[i])

LEMMA EvidencesGrow ==
  ASSUME NEW a, NEW b, HarderThread(a, b)
  PROVE  StrongerEvidences(EvidencesOf(a), EvidencesOf(b))
<1>1. a \in Seq(Message) /\ b \in Seq(Message) /\ Len(b) = Len(a) /\ Len(a) \in Nat \ {0}
      /\ \A i \in 1..Len(a) : AsHard(a[i], b[i])
  BY LenProperties DEF HarderThread
<1>2. \A i \in 1..Len(a) : a[i] \in Message /\ b[i] \in Message
  BY <1>1, ElementOfSeq
<1>3. \A i \in 1..Len(a) : /\ EvidencesOf(a)[i] = AnalyseTurn(a[i])
                           /\ EvidencesOf(b)[i] = AnalyseTurn(b[i])
  BY <1>1, EvidencesAre
<1>4. \A i \in 1..Len(a) : /\ EvidencesOf(a)[i] \in TurnEvidence /\ EvidencesOf(b)[i] \in TurnEvidence
                           /\ AsStrong(EvidencesOf(a)[i], EvidencesOf(b)[i])
  BY <1>1, <1>2, <1>3, EvidenceType, EvidenceGrows
<1>5. QED
  BY <1>1, <1>4, EvidencesAre DEF StrongerEvidences, Positions

LEMMA FieldsGrow ==
  ASSUME NEW e, NEW v, StrongerEvidences(e, v),
         NEW attr \in {"reasoning", "code", "structured", "long_output", "instruction_density",
                       "multilingual"}
  PROVE  \A i \in Positions(e) : e[i][attr] \in Nat /\ v[i][attr] \in Nat /\ e[i][attr] <= v[i][attr]
<1> SUFFICES ASSUME NEW i \in Positions(e)
             PROVE  e[i][attr] \in Nat /\ v[i][attr] \in Nat /\ e[i][attr] <= v[i][attr]
  OBVIOUS
<1>1. e[i] \in TurnEvidence /\ v[i] \in TurnEvidence /\ AsStrong(e[i], v[i])
  BY DEF StrongerEvidences
<1> DEFINE x == e[i]
           y == v[i]
<1>2. /\ x.reasoning \in Nat /\ x.code \in Nat /\ x.structured \in Nat /\ x.long_output \in Nat
      /\ x.instruction_density \in Nat /\ x.multilingual \in Nat
      /\ y.reasoning \in Nat /\ y.code \in Nat /\ y.structured \in Nat /\ y.long_output \in Nat
      /\ y.instruction_density \in Nat /\ y.multilingual \in Nat
  BY <1>1, EvidenceFields
<1>3. AsStrong(x, y)
  BY <1>1
<1> HIDE DEF x, y
<1>4. x[attr] \in Nat /\ y[attr] \in Nat /\ x[attr] <= y[attr]
  BY <1>2, <1>3 DEF AsStrong
<1>5. QED
  BY <1>4 DEF x, y

---------------------------------------------------------------------------
(***************************************************************************)
(* The signals                                                             *)
(***************************************************************************)
LEMMA SameTurns ==
  ASSUME NEW a, NEW b, HarderThread(a, b)
  PROVE  UserTurns(b) = UserTurns(a) /\ UserTurns(a) \in Nat
<1>1. Positions(b) = Positions(a) /\ IsFiniteSet(Positions(a))
  BY FS_Interval, LenProperties DEF HarderThread, Positions
<1>2. \A i \in Positions(a) : b[i].role = a[i].role
  BY DEF HarderThread, AsHard, Positions
<1> DEFINE A == {i \in Positions(a) : a[i].role = "user"}
           B == {i \in Positions(b) : b[i].role = "user"}
<1>3. A = B
  BY <1>1, <1>2
<1>4. IsFiniteSet(A)
  BY <1>1, FS_Subset
<1>5. UserTurns(a) = Cardinality(A) /\ UserTurns(b) = Cardinality(B)
  BY DEF UserTurns
<1> HIDE DEF A, B
<1>6. Cardinality(A) \in Nat
  BY <1>4, FS_CardinalityType
<1>7. QED
  BY <1>3, <1>5, <1>6

LEMMA SamePressure ==
  ASSUME NEW t, NEW u, HarderThread(t, u)
  PROVE  ContextPressure(u) = ContextPressure(t) /\ ContextPressure(t) \in 0..One
<1>1. Len(u) = Len(t) /\ Len(t) \in Nat /\ \A i \in 1..Len(t) : u[i].tokens = t[i].tokens
  BY LenProperties DEF HarderThread, AsHard
<1>2. \A i \in 1..Len(t) : t[i].tokens \in Nat
  <2>1. \A i \in 1..Len(t) : t[i] \in Message
    BY ElementOfSeq DEF HarderThread
  <2>2. QED
    BY <2>1, MessageFields
<1>3. TokensOf(u) = TokensOf(t)
  BY <1>1 DEF TokensOf
<1>4. CountTokens(u) = CountTokens(t)
  BY <1>1, <1>3, CountIsSum
<1>5. CountTokens(t) \in Nat
  <2>1. IsFiniteSet(1..Len(t)) /\ \A i \in 1..Len(t) : TokensOf(t)[i] \in Nat
    <3>1. IsFiniteSet(1..Len(t))
      BY <1>1, FS_Interval
    <3>2. QED
      BY <1>2, <3>1 DEF TokensOf
  <2>2. SumOf(TokensOf(t), 1..Len(t)) \in Nat
    BY <2>1, SumNat
  <2>3. QED
    BY <1>1, <2>2, CountIsSum
<1> DEFINE room == MaxOf({1, WindowHint})
           tokens == (CountTokens(t) + ToolsTokens) * One
           ratio == tokens \div room
           pressure == (ratio * 100) \div PressureThreshold
<1>6. room \in Nat \ {0} /\ tokens \in Nat /\ PressureThreshold \in Nat \ {0}
  <2>1. WindowHint \in Nat /\ ToolsTokens \in Nat /\ PressureThreshold \in Nat \ {0}
    BY ComplexityAssumption
  <2>2. room \in Nat \ {0}
    BY <2>1, PairOf
  <2>3. QED
    BY <1>5, <2>1, <2>2 DEF One
<1>7. ContextPressure(t) = Clamp(pressure)
  BY DEF ContextPressure
<1>8. ContextPressure(u) = ContextPressure(t)
  BY <1>4 DEF ContextPressure
<1> HIDE DEF tokens, room
<1>9. ratio \in Nat
  BY <1>6, Quotient
<1> HIDE DEF ratio
<1>10. ratio * 100 \in Nat
  BY <1>9
<1>11. pressure \in Nat
  BY <1>6, <1>10, Quotient
<1> HIDE DEF pressure
<1>12. QED
  BY <1>7, <1>8, <1>11, ClampRange

LEMMA SameUnresolved ==
  ASSUME NEW e, NEW v, StrongerEvidences(e, v)
  PROVE  Unresolved(v) = Unresolved(e) /\ Unresolved(e) \in 0..One
<1> DEFINE unhappy(es) == {i \in Positions(es) : es[i].dissatisfaction > 0}
           x == LastN(e, 4)
           y == LastN(v, 4)
<1>1. /\ e \in Seq(TurnEvidence) /\ v \in Seq(TurnEvidence) /\ Len(v) = Len(e) /\ Len(e) \in Nat \ {0}
      /\ \A i \in 1..Len(e) : v[i].dissatisfaction = e[i].dissatisfaction
  BY DEF StrongerEvidences, AsStrong, Positions
<1>2. unhappy(v) = unhappy(e)
  BY <1>1 DEF Positions
<1>3. /\ Len(x) = IF Len(e) > 4 THEN 4 ELSE Len(e)
      /\ \A i \in 1..Len(x) : Len(e) - Len(x) + i \in 1..Len(e) /\ x[i] = e[Len(e) - Len(x) + i]
  <2>1. 4 \in Nat \ {0} /\ Len(e) # 0
    BY <1>1
  <2>2. QED
    BY <1>1, <2>1, LastNOf
<1>4. /\ Len(y) = IF Len(v) > 4 THEN 4 ELSE Len(v)
      /\ \A i \in 1..Len(y) : y[i] = v[Len(v) - Len(y) + i]
  <2>1. 4 \in Nat \ {0} /\ Len(v) # 0
    BY <1>1
  <2>2. QED
    BY <1>1, <2>1, LastNOf
<1>5. unhappy(y) = unhappy(x)
  <2> HIDE DEF x, y
  <2>1. Len(y) = Len(x)
    BY <1>1, <1>3, <1>4
  <2>2. \A i \in 1..Len(x) : y[i].dissatisfaction = x[i].dissatisfaction
    BY <1>1, <1>3, <1>4, <2>1
  <2>3. QED
    BY <2>1, <2>2 DEF Positions
<1> DEFINE value(A, B) == Clamp(Saturating(Cardinality(A), 15)
                                  + IF Cardinality(B) > 0 THEN 250 ELSE 0)
<1>6. /\ Unresolved(e) = value(unhappy(e), unhappy(x))
      /\ Unresolved(v) = value(unhappy(v), unhappy(y))
  BY DEF Unresolved
<1>7. IsFiniteSet(unhappy(e))
  <2>1. IsFiniteSet(Positions(e))
    BY <1>1, FS_Interval DEF Positions
  <2>2. QED
    BY <2>1, FS_Subset
<1>8. Unresolved(v) = Unresolved(e)
  <2> HIDE DEF unhappy, value, x, y
  <2>1. QED
    BY <1>2, <1>5, <1>6
<1>9. Unresolved(e) \in 0..One
  <2> DEFINE A == unhappy(e)
             B == unhappy(x)
  <2> HIDE DEF A, B
  <2>1. Cardinality(A) \in Nat
    BY <1>7, FS_CardinalityType DEF A
  <2>2. Saturating(Cardinality(A), 15) \in 0..One
    BY <2>1, SaturatingRange
  <2> DEFINE sum == Saturating(Cardinality(A), 15) + IF Cardinality(B) > 0 THEN 250 ELSE 0
  <2>3. sum \in Nat
    BY <2>2 DEF One
  <2>4. Unresolved(e) = Clamp(sum)
    BY <1>6 DEF A, B
  <2> HIDE DEF sum
  <2>5. QED
    BY <2>3, <2>4, ClampRange
<1>10. QED
  BY <1>8, <1>9

ToolTurns(analysed) ==
    {i \in Positions(analysed) : analysed[i].role = "tool" \/ "calls" \in analysed[i].marks}
ToolUsage(tools) ==
    Clamp((Saturating(DeclaredTools, 40) * 6) \div 10 + (Saturating(tools, 20) * 7) \div 10)

LEMMA SameTools ==
  ASSUME NEW a, NEW b, HarderThread(a, b)
  PROVE  ToolTurns(b) = ToolTurns(a) /\ ToolUsage(Cardinality(ToolTurns(a))) \in 0..One
<1>1. Positions(b) = Positions(a) /\ IsFiniteSet(Positions(a))
  BY FS_Interval, LenProperties DEF HarderThread, Positions
<1>2. \A i \in Positions(a) : b[i].role = a[i].role /\ b[i].marks = a[i].marks
  BY DEF HarderThread, AsHard, Positions
<1>3. ToolTurns(b) = ToolTurns(a)
  BY <1>1, <1>2 DEF ToolTurns
<1>4. IsFiniteSet(ToolTurns(a))
  BY <1>1, FS_Subset DEF ToolTurns
<1> DEFINE tools == Cardinality(ToolTurns(a))
<1>5. tools \in Nat /\ DeclaredTools \in Nat
  BY <1>4, FS_CardinalityType, ComplexityAssumption
<1> HIDE DEF tools
<1> DEFINE p == Saturating(DeclaredTools, 40)
           q == Saturating(tools, 20)
<1>6. p \in 0..One /\ q \in 0..One
  BY <1>5, SaturatingRange
<1>7. ToolUsage(tools) = Clamp((p * 6) \div 10 + (q * 7) \div 10)
  BY DEF ToolUsage
<1> HIDE DEF p, q
<1>8. (p * 6) \div 10 + (q * 7) \div 10 \in Nat
  BY <1>6 DEF One
<1> DEFINE sum == (p * 6) \div 10 + (q * 7) \div 10
<1> HIDE DEF sum
<1>9. Clamp(sum) \in 0..One
  BY <1>8, ClampRange DEF sum
<1>10. QED
  BY <1>3, <1>7, <1>9 DEF sum, tools

Depth(turns) == Saturating(IF turns > 1 THEN turns - 1 ELSE 0, 40)
OutputSize(e) == MaxOf({WithMemory(e, "long_output"), Saturating(RequestedMax, 40960)})

LEMMA SignalsAre ==
  ASSUME NEW t, NEW a, NEW e
  PROVE  SignalsOf(t, a, e) =
           [conversation_depth    |-> Depth(UserTurns(a)),
            context_length        |-> ContextPressure(t),
            reasoning_keywords    |-> WithMemory(e, "reasoning"),
            code_content          |-> WithMemory(e, "code"),
            structured_output     |-> WithMemory(e, "structured"),
            tool_usage            |-> ToolUsage(Cardinality(ToolTurns(a))),
            multilingual          |-> Weighted(e, "multilingual"),
            unresolved_thread     |-> Unresolved(e),
            instruction_density   |-> WithMemory(e, "instruction_density"),
            requested_output_size |-> OutputSize(e)]
  BY DEF SignalsOf, Depth, OutputSize, ToolUsage, ToolTurns

Rising(x, y) == \A s \in Signals : x[s] \in Nat /\ y[s] \in Nat /\ x[s] <= y[s]

LEMMA SignalsGrow ==
  ASSUME NEW t, NEW u, HarderThread(t, u), NEW a, NEW b, HarderThread(a, b),
         NEW e, NEW v, StrongerEvidences(e, v)
  PROVE  /\ Rising(SignalsOf(t, a, e), SignalsOf(u, b, v))
         /\ SignalsOf(u, b, v).unresolved_thread = SignalsOf(t, a, e).unresolved_thread
<1> DEFINE x == SignalsOf(t, a, e)
           y == SignalsOf(u, b, v)
<1>1. \A n \in 0..One : n \in Nat
  BY DEF One
<1>2. Len(e) \in Nat \ {0} /\ Len(v) = Len(e)
  BY DEF StrongerEvidences
<1>3. \A attr \in {"reasoning", "code", "structured", "long_output", "instruction_density"} :
        /\ WithMemory(e, attr) \in Nat /\ WithMemory(v, attr) \in Nat
        /\ WithMemory(e, attr) <= WithMemory(v, attr)
  BY <1>1, <1>2, FieldsGrow, MemoryMonotone
<1>4. /\ Weighted(e, "multilingual") \in Nat /\ Weighted(v, "multilingual") \in Nat
      /\ Weighted(e, "multilingual") <= Weighted(v, "multilingual")
  BY <1>2, FieldsGrow, WeightedMonotone
<1>5. Depth(UserTurns(a)) \in Nat /\ Depth(UserTurns(b)) = Depth(UserTurns(a))
  <2> DEFINE n == IF UserTurns(a) > 1 THEN UserTurns(a) - 1 ELSE 0
  <2>1. n \in Nat
    BY SameTurns
  <2>2. Depth(UserTurns(a)) = Saturating(n, 40)
    BY DEF Depth
  <2> HIDE DEF n
  <2>3. Saturating(n, 40) \in 0..One
    BY <2>1, SaturatingRange
  <2>4. QED
    BY <1>1, <2>2, <2>3, SameTurns
<1>6. ContextPressure(t) \in Nat /\ ContextPressure(u) = ContextPressure(t)
  BY <1>1, SamePressure
<1>7. /\ ToolUsage(Cardinality(ToolTurns(a))) \in Nat
      /\ ToolUsage(Cardinality(ToolTurns(b))) = ToolUsage(Cardinality(ToolTurns(a)))
  BY <1>1, SameTools
<1>8. Unresolved(e) \in Nat /\ Unresolved(v) = Unresolved(e)
  BY <1>1, SameUnresolved
<1>9. OutputSize(e) \in Nat /\ OutputSize(v) \in Nat /\ OutputSize(e) <= OutputSize(v)
  <2> DEFINE p == WithMemory(e, "long_output")
             q == WithMemory(v, "long_output")
             r == Saturating(RequestedMax, 40960)
  <2>1. p \in Nat /\ q \in Nat /\ p <= q
    BY <1>3
  <2>2. r \in Nat
    <3>1. RequestedMax \in Nat /\ 40960 \in Nat
      BY ComplexityAssumption
    <3>2. Saturating(RequestedMax, 40960) \in 0..One
      BY <3>1, SaturatingRange
    <3>3. QED
      BY <1>1, <3>2
  <2>3. OutputSize(e) = MaxOf({p, r}) /\ OutputSize(v) = MaxOf({q, r})
    BY DEF OutputSize
  <2> HIDE DEF p, q, r
  <2>4. MaxOf({p, r}) = (IF p >= r THEN p ELSE r) /\ MaxOf({q, r}) = IF q >= r THEN q ELSE r
    BY <2>1, <2>2, PairOf
  <2>5. QED
    BY <2>1, <2>2, <2>3, <2>4
<1>10. \A s \in Signals : x[s] \in Nat /\ y[s] \in Nat /\ x[s] <= y[s]
  <2>1. /\ x["conversation_depth"] = Depth(UserTurns(a)) /\ y["conversation_depth"] = Depth(UserTurns(b))
        /\ x["context_length"] = ContextPressure(t) /\ y["context_length"] = ContextPressure(u)
        /\ x["reasoning_keywords"] = WithMemory(e, "reasoning")
        /\ y["reasoning_keywords"] = WithMemory(v, "reasoning")
        /\ x["code_content"] = WithMemory(e, "code") /\ y["code_content"] = WithMemory(v, "code")
        /\ x["structured_output"] = WithMemory(e, "structured")
        /\ y["structured_output"] = WithMemory(v, "structured")
    BY SignalsAre
  <2>2. /\ x["tool_usage"] = ToolUsage(Cardinality(ToolTurns(a)))
        /\ y["tool_usage"] = ToolUsage(Cardinality(ToolTurns(b)))
        /\ x["multilingual"] = Weighted(e, "multilingual")
        /\ y["multilingual"] = Weighted(v, "multilingual")
        /\ x["unresolved_thread"] = Unresolved(e) /\ y["unresolved_thread"] = Unresolved(v)
        /\ x["instruction_density"] = WithMemory(e, "instruction_density")
        /\ y["instruction_density"] = WithMemory(v, "instruction_density")
        /\ x["requested_output_size"] = OutputSize(e)
        /\ y["requested_output_size"] = OutputSize(v)
    BY SignalsAre
  <2> HIDE DEF x, y
  <2>3. QED
    BY <1>3, <1>4, <1>5, <1>6, <1>7, <1>8, <1>9, <2>1, <2>2 DEF Signals
<1>11. y.unresolved_thread = x.unresolved_thread
  BY <1>8, SignalsAre
<1>12. QED
  BY <1>10, <1>11 DEF Rising

---------------------------------------------------------------------------
(***************************************************************************)
(* The blend                                                               *)
(***************************************************************************)
LEMMA TotalsGrow ==
  ASSUME NEW x, NEW y, Rising(x, y)
  PROVE  Total(x) \in Nat /\ Total(y) \in Nat /\ Total(x) <= Total(y)
<1> DEFINE f == [s \in Signals |-> x[s] * SignalWeights[s]]
           g == [s \in Signals |-> y[s] * SignalWeights[s]]
<1>1. \A s \in Signals : SignalWeights[s] \in Nat
  BY ComplexityAssumption
<1>2. ASSUME NEW s \in Signals PROVE f[s] \in Nat /\ g[s] \in Nat /\ f[s] <= g[s]
  <2> DEFINE a == x[s]
             b == y[s]
             w == SignalWeights[s]
  <2>1. a \in Nat /\ b \in Nat /\ a <= b /\ w \in Nat /\ f[s] = a * w /\ g[s] = b * w
    BY <1>1 DEF Rising
  <2> HIDE DEF a, b, w
  <2>2. a * w \in Nat /\ b * w \in Nat /\ a * w <= b * w
    BY <2>1, Product
  <2>3. QED
    BY <2>1, <2>2
<1>3. Total(x) = SumOf(f, Signals) /\ Total(y) = SumOf(g, Signals)
  BY DEF Total
<1> HIDE DEF f, g
<1>4. SumOf(f, Signals) \in Nat /\ SumOf(g, Signals) \in Nat
  BY <1>2, SignalsFinite, SumNat
<1>5. SumOf(f, Signals) <= SumOf(g, Signals)
  BY <1>2, SignalsFinite, SumMonotone
<1>6. QED
  BY <1>3, <1>4, <1>5

LEMMA DominantGrows ==
  ASSUME NEW x, NEW y, Rising(x, y)
  PROVE  Dominant(x) \in Nat /\ Dominant(y) \in Nat /\ Dominant(x) <= Dominant(y)
<1> DEFINE heaviest == MaxOf(Range(SignalWeights))
           unit == MaxOf({1, heaviest})
           f == [s \in Signals |-> (x[s] * SignalWeights[s]) \div unit]
           g == [s \in Signals |-> (y[s] * SignalWeights[s]) \div unit]
           F == {f[s] : s \in Signals}
           G == {g[s] : s \in Signals}
<1>1. \A s \in Signals : SignalWeights[s] \in Nat
  BY ComplexityAssumption
<1>2. heaviest \in Nat
  <2>1. Range(SignalWeights) = {SignalWeights[s] : s \in Signals}
    BY ComplexityAssumption DEF Range
  <2>2. IsFiniteSet({SignalWeights[s] : s \in Signals})
        /\ {SignalWeights[s] : s \in Signals} \subseteq Nat
    BY <1>1, SignalsFinite, ImageIsFinite
  <2>3. QED
    BY <2>1, <2>2, GreatestOf
<1> HIDE DEF heaviest
<1>3. unit \in Nat \ {0}
  BY <1>2, PairOf
<1>4. Dominant(x) = MaxOf({(x[s] * SignalWeights[s]) \div unit : s \in Signals})
      /\ Dominant(y) = MaxOf({(y[s] * SignalWeights[s]) \div unit : s \in Signals})
  BY DEF Dominant, heaviest
<1> HIDE DEF unit
<1>5. ASSUME NEW s \in Signals PROVE f[s] \in Nat /\ g[s] \in Nat /\ f[s] <= g[s]
  <2> DEFINE a == x[s]
             b == y[s]
             w == SignalWeights[s]
  <2>1. a \in Nat /\ b \in Nat /\ a <= b /\ w \in Nat
        /\ f[s] = (a * w) \div unit /\ g[s] = (b * w) \div unit
    BY <1>1 DEF Rising
  <2> HIDE DEF a, b, w, f, g
  <2>2. a * w \in Nat /\ b * w \in Nat /\ a * w <= b * w
    BY <2>1, Product
  <2>3. /\ (a * w) \div unit \in Nat /\ (b * w) \div unit \in Nat
        /\ (a * w) \div unit <= (b * w) \div unit
    BY <1>3, <2>2, QuotientMonotone
  <2>4. QED
    BY <2>1, <2>3
<1>6. Dominant(x) = MaxOf(F) /\ Dominant(y) = MaxOf(G)
  <2>1. F = {(x[s] * SignalWeights[s]) \div unit : s \in Signals}
        /\ G = {(y[s] * SignalWeights[s]) \div unit : s \in Signals}
    OBVIOUS
  <2>2. QED
    BY <1>4, <2>1
<1> HIDE DEF f, g
<1>7. IsFiniteSet(F) /\ F \subseteq Nat /\ IsFiniteSet(G) /\ G \subseteq Nat
  BY <1>5, SignalsFinite, ImageIsFinite
<1>8. \A p \in F : \E q \in G : p <= q
  BY <1>5
<1> HIDE DEF F, G
<1>9. QED
  BY <1>6, <1>7, <1>8, GreaterOf, GreatestOf

LEMMA BlendGrows ==
  ASSUME NEW m \in Nat, NEW n \in Nat, NEW d \in Nat, NEW c \in Nat, m <= n, d <= c
  PROVE  Blend(m, d) \in 0..One /\ Blend(n, c) \in 0..One /\ Blend(m, d) <= Blend(n, c)
<1> DEFINE p == d * m
           q == c * n
           x == (d * 60) \div 100 + (m * 40) \div 100 + ((p \div One) * 35) \div 100
           y == (c * 60) \div 100 + (n * 40) \div 100 + ((q \div One) * 35) \div 100
<1>1. p \in Nat /\ q \in Nat /\ p <= q
  BY Product
<1>2. Blend(m, d) = Clamp(x) /\ Blend(n, c) = Clamp(y)
  BY DEF Blend
<1> HIDE DEF p, q
<1>3. x \in Nat /\ y \in Nat /\ x <= y
  BY <1>1 DEF One
<1> HIDE DEF x, y
<1>4. QED
  BY <1>2, <1>3, ClampRange, ClampMonotone

LEMMA AggregateGrows ==
  ASSUME NEW x, NEW y, Rising(x, y)
  PROVE  /\ Aggregate(x) \in 0..One /\ Aggregate(y) \in 0..One
         /\ Aggregate(x) <= Aggregate(y)
<1> DEFINE unit == MaxOf({1, TotalWeight})
           m == Total(x) \div unit
           n == Total(y) \div unit
<1>1. TotalWeight \in Nat
  <2>1. \A s \in Signals : SignalWeights[s] \in Nat
    BY ComplexityAssumption
  <2>2. QED
    BY <2>1, SignalsFinite, SumNat DEF TotalWeight
<1>2. unit \in Nat \ {0}
  BY <1>1, PairOf
<1> HIDE DEF unit
<1>3. m \in Nat /\ n \in Nat /\ m <= n
  BY <1>2, TotalsGrow, QuotientMonotone
<1>4. Aggregate(x) = Blend(m, Dominant(x)) /\ Aggregate(y) = Blend(n, Dominant(y))
  BY AggregateIsBlend DEF unit
<1> HIDE DEF m, n
<1>5. QED
  BY <1>3, <1>4, DominantGrows, BlendGrows

---------------------------------------------------------------------------
(***************************************************************************)
(* The shortcut and the follow-up                                          *)
(***************************************************************************)
LEMMA ShortenedGrows ==
  ASSUME NEW p \in 0..One, NEW q \in 0..One, p <= q, NEW l, NEW r, r.trivial = l.trivial,
         NEW unresolved, NEW turns
  PROVE  /\ Shortened(p, l, unresolved, turns) \in 0..One
         /\ Shortened(q, r, unresolved, turns) \in 0..One
         /\ Shortened(p, l, unresolved, turns) <= Shortened(q, r, unresolved, turns)
<1> DEFINE k == (EconomyMax * 6) \div 10
           calm == l.trivial /\ unresolved = 0 /\ turns <= 2
<1>1. EconomyMax \in 0..1000 /\ StandardMax \in 0..1000
  BY ComplexityAssumption
<1>2. k \in 0..One
  BY <1>1 DEF One
<1>3. p \in Nat /\ q \in Nat /\ p <= One /\ q <= One /\ One \in Nat
  BY DEF One
<1>4. /\ Shortened(p, l, unresolved, turns) = IF calm /\ p < StandardMax /\ k < p THEN k ELSE p
      /\ Shortened(q, r, unresolved, turns) = IF calm /\ q < StandardMax /\ k < q THEN k ELSE q
  BY DEF Shortened, Shallow
<1> HIDE DEF k, calm
<1>5. QED
  BY <1>1, <1>2, <1>3, <1>4

ShownBy(e) == MaxOf({e.reasoning, e.code, e.structured})
Before(e) == 1..(Len(e) - 1)
Best(e) == MaxOf({ShownBy(e[i]) : i \in Before(e)})

LEMMA ShownGrows ==
  ASSUME NEW e \in TurnEvidence, NEW v \in TurnEvidence, AsStrong(e, v)
  PROVE  ShownBy(e) \in Nat /\ ShownBy(v) \in Nat /\ ShownBy(e) <= ShownBy(v)
<1> DEFINE E == {e.reasoning, e.code, e.structured}
           V == {v.reasoning, v.code, v.structured}
<1>1. ASSUME NEW x, NEW y, NEW z PROVE IsFiniteSet({x, y, z})
  <2>1. IsFiniteSet(({x} \cup {y}) \cup {z})
    BY FS_Singleton, FS_AddElement
  <2>2. ({x} \cup {y}) \cup {z} = {x, y, z}
    OBVIOUS
  <2>3. QED
    BY <2>1, <2>2
<1>2. /\ e.reasoning \in Nat /\ e.code \in Nat /\ e.structured \in Nat
      /\ v.reasoning \in Nat /\ v.code \in Nat /\ v.structured \in Nat
  BY EvidenceFields
<1>3. IsFiniteSet(E) /\ IsFiniteSet(V) /\ E \subseteq Nat /\ V \subseteq Nat
  BY <1>1, <1>2
<1>4. \A x \in E : \E y \in V : x <= y
  BY <1>2 DEF AsStrong
<1>5. ShownBy(e) = MaxOf(E) /\ ShownBy(v) = MaxOf(V)
  BY DEF ShownBy
<1> HIDE DEF E, V
<1>6. QED
  BY <1>3, <1>4, <1>5, GreaterOf, GreatestOf

LEMMA BestGrows ==
  ASSUME NEW e, NEW v, StrongerEvidences(e, v)
  PROVE  Best(e) \in Nat /\ Best(v) \in Nat /\ Best(e) <= Best(v)
<1> DEFINE S == Before(e)
           f == [i \in S |-> ShownBy(e[i])]
           g == [i \in S |-> ShownBy(v[i])]
           F == {f[i] : i \in S}
           G == {g[i] : i \in S}
<1>1. Len(e) \in Nat \ {0} /\ Len(v) = Len(e)
  BY DEF StrongerEvidences
<1>2. IsFiniteSet(S)
  BY <1>1, FS_Interval DEF Before
<1>3. ASSUME NEW i \in S PROVE f[i] \in Nat /\ g[i] \in Nat /\ f[i] <= g[i]
  <2>1. i \in Positions(e)
    BY <1>1 DEF Before, Positions
  <2>2. e[i] \in TurnEvidence /\ v[i] \in TurnEvidence /\ AsStrong(e[i], v[i])
    BY <2>1 DEF StrongerEvidences
  <2>3. ShownBy(e[i]) \in Nat /\ ShownBy(v[i]) \in Nat /\ ShownBy(e[i]) <= ShownBy(v[i])
    BY <2>2, ShownGrows
  <2>4. QED
    BY <2>3
<1>4. Best(e) = MaxOf(F) /\ Best(v) = MaxOf(G)
  <2>1. F = {ShownBy(e[i]) : i \in S} /\ G = {ShownBy(v[i]) : i \in S}
    OBVIOUS
  <2>2. Before(v) = S
    BY <1>1 DEF Before
  <2> HIDE DEF F, G, S
  <2>3. QED
    BY <2>1, <2>2 DEF Best, S
<1> HIDE DEF S, f, g
<1>5. IsFiniteSet(F) /\ F \subseteq Nat /\ IsFiniteSet(G) /\ G \subseteq Nat
  BY <1>2, <1>3, ImageIsFinite
<1>6. \A x \in F : \E y \in G : x <= y
  BY <1>3
<1> HIDE DEF F, G
<1>7. QED
  BY <1>4, <1>5, <1>6, GreaterOf, GreatestOf

LEMMA InheritedIsRaised ==
  ASSUME NEW p \in 0..One, NEW e, Best(e) \in Nat
  PROVE  Inherited(p, e) = IF e[Len(e)].anaphoric THEN Clamp(Raised(p, Best(e), EscalationMemory))
                                                   ELSE p
<1> DEFINE b == Best(e)
<1>1. Inherited(p, e) = IF e[Len(e)].anaphoric /\ b > p
                          THEN Clamp(p + (EscalationMemory * (b - p)) \div 100)
                          ELSE p
  BY DEF Inherited, Best, ShownBy, Before
<1>2. p \in Nat /\ p <= One /\ EscalationMemory \in 0..100 /\ b \in Nat
  BY ComplexityAssumption DEF One
<1> HIDE DEF b
<1>3. CASE b > p
  <2>1. Raised(p, b, EscalationMemory) = p + (EscalationMemory * (b - p)) \div 100
    BY <1>2, <1>3 DEF Raised
  <2>2. QED
    BY <1>1, <1>3, <2>1 DEF b
<1>4. CASE ~(b > p)
  <2>1. Raised(p, b, EscalationMemory) = p
    <3>1. b <= p => Raised(p, b, EscalationMemory) = p
      BY <1>2, RaisedRange
    <3>2. QED
      BY <1>2, <1>4, <3>1
  <2>2. Clamp(p) = p
    BY <1>2 DEF Clamp, One
  <2>3. QED
    BY <1>1, <1>4, <2>1, <2>2 DEF b
<1>5. QED
  BY <1>3, <1>4

LEMMA InheritedGrows ==
  ASSUME NEW p \in 0..One, NEW q \in 0..One, p <= q, NEW e, NEW v, StrongerEvidences(e, v)
  PROVE  Inherited(p, e) <= Inherited(q, v)
<1>1. Best(e) \in Nat /\ Best(v) \in Nat /\ Best(e) <= Best(v)
  BY BestGrows
<1>2. v[Len(v)].anaphoric = e[Len(e)].anaphoric
  BY DEF StrongerEvidences, AsStrong, Positions
<1> DEFINE b == Best(e)
           c == Best(v)
           x == Raised(p, b, EscalationMemory)
           y == Raised(q, c, EscalationMemory)
<1>3. EscalationMemory \in 0..100 /\ p \in Nat /\ q \in Nat
  BY ComplexityAssumption DEF One
<1>4. x \in Nat /\ y \in Nat /\ x <= y
  <2>1. b \in Nat /\ c \in Nat /\ b <= c
    BY <1>1
  <2> HIDE DEF b, c
  <2>2. QED
    BY <1>3, <2>1, RaisedRange, RaisedMonotone
<1>5. /\ Inherited(p, e) = IF e[Len(e)].anaphoric THEN Clamp(x) ELSE p
      /\ Inherited(q, v) = IF e[Len(e)].anaphoric THEN Clamp(y) ELSE q
  BY <1>1, <1>2, InheritedIsRaised
<1> HIDE DEF x, y
<1>6. Clamp(x) <= Clamp(y)
  BY <1>4, ClampMonotone
<1>7. QED
  BY <1>5, <1>6

---------------------------------------------------------------------------
(***************************************************************************)
(* The analysis                                                            *)
(***************************************************************************)
(* "monotonic in every signal" (complexity.py), and so in the messages: a   *)
(* thread that is at least as hard, message by message, scores no less.    *)
LEMMA ScoreGrows ==
  ASSUME NEW t, NEW u, HarderThread(t, u)
  PROVE  Analyse(t).score <= Analyse(u).score
<1> DEFINE a == LastN(t, MaxAnalysed)
           b == LastN(u, MaxAnalysed)
           e == EvidencesOf(a)
           v == EvidencesOf(b)
           x == SignalsOf(t, a, e)
           y == SignalsOf(u, b, v)
           turns == UserTurns(a)
           unresolved == x["unresolved_thread"]
           p == Shortened(Aggregate(x), e[Len(e)], unresolved, turns)
           q == Shortened(Aggregate(y), v[Len(v)], unresolved, turns)
<1>1. HarderThread(a, b)
  BY HarderWindow, ComplexityAssumption
<1>2. StrongerEvidences(e, v)
  BY <1>1, EvidencesGrow
<1>3. Rising(x, y) /\ y["unresolved_thread"] = unresolved
  BY <1>1, <1>2, SignalsGrow
<1>4. UserTurns(b) = turns
  BY <1>1, SameTurns
<1>5. Analyse(t).score = Inherited(p, e) /\ Analyse(u).score = Inherited(q, v)
  <2>1. Analyse(t).score = Inherited(p, e)
    BY DEF Analyse
  <2>2. Analyse(u).score
          = Inherited(Shortened(Aggregate(y), v[Len(v)], y["unresolved_thread"], UserTurns(b)), v)
    BY DEF Analyse
  <2>3. QED
    BY <1>3, <1>4, <2>1, <2>2
<1> HIDE DEF a, b, e, v, x, y, turns, unresolved
<1>6. v[Len(v)].trivial = e[Len(e)].trivial
  BY <1>2 DEF StrongerEvidences, AsStrong, Positions
<1>7. Aggregate(x) \in 0..One /\ Aggregate(y) \in 0..One /\ Aggregate(x) <= Aggregate(y)
  BY <1>3, AggregateGrows
<1>8. p \in 0..One /\ q \in 0..One /\ p <= q
  BY <1>6, <1>7, ShortenedGrows
<1> HIDE DEF p, q
<1>9. Inherited(p, e) <= Inherited(q, v)
  BY <1>2, <1>8, InheritedGrows
<1>10. QED
  BY <1>5, <1>9

---------------------------------------------------------------------------
(***************************************************************************)
(* The thread                                                              *)
(***************************************************************************)
ThreadInv ==
    /\ messages \in Seq(Prompts \cup Questions \cup Answers)
    /\ Asked => /\ assessment = Analyse(messages)
                /\ upstream = ApplyContextOverflow(messages)

(* What was scored and sent upstream is the very thread that was asked.    *)
LEMMA ThreadInvariant == Spec => []ThreadInv
<1> DEFINE Said == Prompts \cup Questions \cup Answers
<1>1. ASSUME Init PROVE ThreadInv
  <2>1. messages \in Seq(Said)
    <3>1. \A m \in Prompts : <<m>> \in Seq(Said)
      <4>1. \A m \in Prompts : m \in Said
        OBVIOUS
      <4> HIDE DEF Said
      <4>2. QED
        BY <4>1
    <3>2. << >> \in Seq(Said)
      OBVIOUS
    <3>3. QED
      BY <1>1, <3>1, <3>2 DEF Init
  <2>2. ~Asked
    <3>1. CASE messages = <<>>
      BY <3>1 DEF Asked
    <3>2. CASE \E m \in Prompts : messages = <<m>>
      <4>1. PICK m \in Prompts : messages = <<m>>
        BY <3>2
      <4>2. m.role = "system" /\ Len(messages) = 1 /\ messages[1] = m
        BY <4>1, ConversationAssumption
      <4>3. QED
        BY <4>2 DEF Asked
    <3>3. QED
      BY <1>1, <3>1, <3>2 DEF Init
  <2>3. QED
    BY <2>1, <2>2 DEF ThreadInv
<1>2. ASSUME ThreadInv, [Next]_vars PROVE ThreadInv'
  <2>1. CASE UNCHANGED vars
    BY <1>2, <2>1 DEF ThreadInv, vars, Asked
  <2>2. ASSUME NEW m \in Questions, Ask(m) PROVE ThreadInv'
    <3>1. messages' = Append(messages, m) /\ m \in Said /\ messages \in Seq(Said)
      BY <1>2, <2>2 DEF Ask, ThreadInv
    <3>2. messages' \in Seq(Said)
      <4> HIDE DEF Said
      <4>1. QED
        BY <3>1, AppendProperties
    <3>3. assessment' = Analyse(messages') /\ upstream' = ApplyContextOverflow(messages')
      BY <2>2 DEF Ask
    <3>4. QED
      BY <3>2, <3>3 DEF ThreadInv
  <2>3. ASSUME NEW m \in Answers, Answer(m) PROVE ThreadInv'
    <3>1. messages' = Append(messages, m) /\ m \in Said /\ messages \in Seq(Said)
      BY <1>2, <2>3 DEF Answer, ThreadInv
    <3>2. messages' \in Seq(Said) /\ messages'[Len(messages')] = m
      <4> HIDE DEF Said
      <4>1. QED
        BY <3>1, AppendProperties
    <3>3. m.role = "assistant"
      BY ConversationAssumption
    <3>4. ~Asked'
      BY <3>2, <3>3 DEF Asked
    <3>5. QED
      BY <3>2, <3>4 DEF ThreadInv
  <2>4. QED
    BY <1>2, <2>1, <2>2, <2>3 DEF Next
<1>3. QED
  BY <1>1, <1>2, PTL DEF Spec

LEMMA MessagesType ==
  ASSUME ThreadInv
  PROVE  messages \in Seq(Messages) /\ messages \in Seq(Message)
<1> DEFINE Said == Prompts \cup Questions \cup Answers
<1>1. messages \in Seq(Said)
  BY DEF ThreadInv
<1>2. Said \subseteq Messages /\ Said \subseteq Message
  BY ConversationAssumption DEF Messages
<1> HIDE DEF Said
<1>3. QED
  BY <1>1, <1>2, SeqMonotonic

(* Trimming keeps the opening and the most recent turns, takes the oldest  *)
(* of the middle and no more of it than the budget asks for, marks the     *)
(* place and admits a result that is still too long (context_fit.py), in   *)
(* every thread, for every window, ratio, reserve and number of messages   *)
(* to keep.                                                                *)
THEOREM TrimmingIsSound == Spec => []TrimSound
<1>1. ThreadInv => TrimSound
  <2>1. CASE Asked
    BY <2>1, MessagesType, OverflowIsSound DEF ThreadInv
  <2>2. CASE ~Asked
    BY <2>2 DEF TrimSound
  <2>3. QED
    BY <2>1, <2>2
<1>2. QED
  BY <1>1, ThreadInvariant, PTL

LEMMA OneHarder ==
  ASSUME NEW t \in Seq(Message), NEW i \in Positions(t), NEW w \in Message, AsHard(t[i], w)
  PROVE  HarderThread(t, [t EXCEPT ![i] = w])
<1> DEFINE u == [t EXCEPT ![i] = w]
<1>1. i \in 1..Len(t) /\ Len(t) # 0 /\ Len(t) \in Nat
  BY LenProperties DEF Positions
<1>2. u \in Seq(Message) /\ Len(u) = Len(t)
      /\ \A j \in 1..Len(t) : u[j] = IF j = i THEN w ELSE t[j]
  BY <1>1, ExceptSeq
<1>3. ASSUME NEW j \in 1..Len(t) PROVE AsHard(t[j], t[j])
  <2>1. t[j] \in Message
    BY ElementOfSeq
  <2>2. QED
    BY <2>1, AsHardAsItself
<1> HIDE DEF u
<1>4. \A j \in 1..Len(t) : AsHard(t[j], u[j])
  BY <1>2, <1>3
<1>5. QED
  BY <1>1, <1>2, <1>4 DEF HarderThread, u

LEMMA HarderIsHarder ==
  ASSUME messages \in Seq(Message), NEW i \in Positions(messages)
  PROVE  HarderThread(messages, Harder(i)) /\ HarderThread(messages, Denser(i))
<1> DEFINE m == messages[i]
           h == [m EXCEPT !.strongest = 10, !.demands = @ + 1]
           d == [m EXCEPT !.fences = @ + 2, !.hints = @ + 6]
<1>1. m \in Message
  BY ElementOfSeq DEF Positions
<1>2. h \in Message /\ AsHard(m, h) /\ d \in Message /\ AsHard(m, d)
  <2> HIDE DEF m
  <2>1. h \in Message /\ d \in Message
    <3>1. 10 \in 0..10 /\ m.demands + 1 \in Nat /\ m.fences + 2 \in Nat /\ m.hints + 6 \in Nat
      BY <1>1, MessageFields
    <3>2. h \in Message
      BY <1>1, <3>1 DEF Message
    <3>3. d \in Message
      BY <1>1, <3>1 DEF Message
    <3>4. QED
      BY <3>2, <3>3
  <2>2. /\ h.role = m.role /\ h.blank = m.blank /\ h.marks = m.marks /\ h.markers = m.markers
        /\ h.tokens = m.tokens /\ h.strongest = 10 /\ h.demands = m.demands + 1
        /\ h.fences = m.fences /\ h.hints = m.hints
    BY <1>1 DEF Message
  <2>3. /\ d.role = m.role /\ d.blank = m.blank /\ d.marks = m.marks /\ d.markers = m.markers
        /\ d.tokens = m.tokens /\ d.strongest = m.strongest /\ d.demands = m.demands
        /\ d.fences = m.fences + 2 /\ d.hints = m.hints + 6
    BY <1>1 DEF Message
  <2>4. m.strongest <= 10
    BY <1>1 DEF Message
  <2>5. /\ m.strongest \in Nat /\ m.demands \in Nat /\ m.fences \in Nat /\ m.hints \in Nat
    BY <1>1, MessageFields
  <2> HIDE DEF h, d
  <2>6. AsHard(m, h)
    BY <2>2, <2>4, <2>5 DEF AsHard
  <2>7. AsHard(m, d)
    BY <2>3, <2>5 DEF AsHard
  <2>8. QED
    BY <2>1, <2>6, <2>7
<1>3. Harder(i) = [messages EXCEPT ![i] = h] /\ Denser(i) = [messages EXCEPT ![i] = d]
  BY DEF Harder, Denser, Positions
<1> HIDE DEF h, d
<1>4. QED
  BY <1>2, <1>3, OneHarder

(* More evidence anywhere in the thread never makes it cheaper, whatever   *)
(* the weights of the signals, the decay, the memory and the thresholds:   *)
(* the score is monotonic through weighting, memory, the blend of mean and *)
(* dominant signal (complexity.py), the shortcut and the inheritance of a  *)
(* follow-up.                                                              *)
THEOREM ScoreIsMonotonic == Spec => []EvidenceNeverCheapens
<1>1. ThreadInv => EvidenceNeverCheapens
  <2> SUFFICES ASSUME ThreadInv, Asked, NEW i \in Positions(messages),
                      NEW thread \in {Harder(i), Denser(i)}
               PROVE  Analyse(thread).score >= assessment.score
    BY DEF EvidenceNeverCheapens
  <2>1. HarderThread(messages, thread)
    BY MessagesType, HarderIsHarder
  <2>2. Analyse(messages).score <= Analyse(thread).score
    BY <2>1, ScoreGrows
  <2>3. assessment = Analyse(messages)
    BY DEF ThreadInv
  <2>4. QED
    BY <2>2, <2>3
<1>2. QED
  BY <1>1, ThreadInvariant, PTL

---------------------------------------------------------------------------
(***************************************************************************)
(* What is not forgotten (NeverForgotten)                                  *)
(*                                                                         *)
(* What a turn showed is a lower bound of its signal by the memory alone,  *)
(* however little of it the mean has kept; the signal is one of the        *)
(* dominant one, and that of the score.  The shortcut does not apply, and  *)
(* a follow-up only adds.                                                  *)
(***************************************************************************)
Kept(k) == (EscalationMemory * k) \div 100

LEMMA Thousandths == \A n \in 0..One : n \in Nat /\ n <= 1000 /\ n <= n
  BY DEF One

LEMMA ThresholdsType ==
  /\ EconomyMax \in Nat /\ StandardMax \in Nat
  /\ EconomyMax < StandardMax /\ EconomyMax < 1000 /\ StandardMax < 1000
<1>1. EconomyMax \in 0..1000 /\ StandardMax \in 0..1000 /\ PremiumMax \in 0..1000
      /\ EconomyMax < StandardMax /\ StandardMax < PremiumMax
  BY ComplexityAssumption
<1>2. QED
  BY <1>1

LEMMA KeptIsRaised ==
  ASSUME NEW k \in 0..One, NEW a \in Nat, NEW p \in Nat, k <= p
  PROVE  /\ Kept(k) \in 0..One
         /\ Raised(a, p, EscalationMemory) \in Nat
         /\ Kept(k) <= Raised(a, p, EscalationMemory)
         /\ Kept(k) <= Clamp(Raised(a, p, EscalationMemory))
<1>1. EscalationMemory \in 0..100 /\ k \in Nat /\ 0 \in Nat /\ k <= One /\ 0 <= k /\ 0 <= a
  BY ComplexityAssumption DEF One
<1>2. Kept(k) = Raised(0, k, EscalationMemory)
  <2>1. CASE k = 0
    <3>1. EscalationMemory * 0 = 0 /\ k - 0 = 0
      BY <1>1, <2>1
    <3>2. QED
      BY <2>1, <3>1 DEF Kept, Raised
  <2>2. CASE k # 0
    <3>1. k - 0 = k /\ k > 0
      BY <1>1, <2>2
    <3>2. Raised(0, k, EscalationMemory) = 0 + Kept(k)
      BY <3>1 DEF Kept, Raised
    <3>3. EscalationMemory * k \in Nat
      BY <1>1, Product
    <3>4. Kept(k) \in Nat
      BY <3>3, Quotient DEF Kept
    <3>5. QED
      BY <3>2, <3>4
  <2>3. QED
    BY <2>1, <2>2
<1>3. /\ Raised(0, k, EscalationMemory) \in Nat
      /\ 0 <= k => Raised(0, k, EscalationMemory) <= k
  BY <1>1, RaisedRange
<1>4. Kept(k) \in Nat /\ Kept(k) <= One
  BY <1>1, <1>2, <1>3 DEF One
<1>5. Raised(a, p, EscalationMemory) \in Nat
  BY <1>1, RaisedRange
<1>6. Kept(k) <= Raised(a, p, EscalationMemory)
  <2>1. \A share \in 0..100 : Raised(0, k, share) <= Raised(a, p, share)
    BY <1>1, RaisedMonotone
  <2>2. QED
    BY <1>1, <1>2, <2>1
<1> DEFINE x == Raised(a, p, EscalationMemory)
           y == Kept(k)
<1>7. x \in Nat /\ y \in Nat /\ y <= x /\ y <= 1000
  BY <1>4, <1>5, <1>6 DEF One
<1> HIDE DEF x, y
<1>8. y <= Clamp(x) /\ y \in 0..One
  BY <1>7 DEF Clamp, One
<1>9. QED
  BY <1>5, <1>6, <1>8 DEF x, y

\* A signal with memory keeps its share of what any one turn has shown.
LEMMA MemoryKeeps ==
  ASSUME NEW e, NEW attr, Len(e) \in Nat \ {0}, \A i \in Positions(e) : e[i][attr] \in Nat,
         NEW i \in Positions(e), NEW k \in 0..One, k <= e[i][attr]
  PROVE  Kept(k) <= WithMemory(e, attr)
<1> DEFINE S == Positions(e)
           f == [j \in S |-> e[j][attr]]
           F == {f[j] : j \in S}
           a == Weighted(e, attr)
           p == Peak(e, attr)
<1>1. \A j \in Positions(e) : e[j][attr] \in Nat /\ e[j][attr] <= e[j][attr]
  OBVIOUS
<1>2. a \in Nat /\ p \in Nat
  BY <1>1, WeightedMonotone, PeakMonotone
<1>3. e[i][attr] <= p
  <2>1. IsFiniteSet(S) /\ \A j \in S : f[j] \in Nat
    BY FS_Interval DEF Positions
  <2>2. p = MaxOf(F) /\ e[i][attr] \in F
    BY DEF Peak
  <2> HIDE DEF S, f, p
  <2>3. IsFiniteSet(F) /\ F \subseteq Nat
    BY <2>1, ImageIsFinite
  <2> HIDE DEF F
  <2>4. \A y \in F : y <= MaxOf(F)
    BY <2>3, GreatestOf
  <2>5. QED
    BY <2>2, <2>4
<1>4. WithMemory(e, attr) = Clamp(Raised(a, p, EscalationMemory))
  BY DEF WithMemory, Raised
<1> HIDE DEF a, p
<1>5. k <= p
  <2>1. e[i][attr] \in Nat /\ k \in Nat
    BY DEF One
  <2>2. QED
    BY <1>2, <1>3, <2>1
<1>6. QED
  BY <1>2, <1>4, <1>5, KeptIsRaised

Heaviest == MaxOf({1, MaxOf(Range(SignalWeights))})

LEMMA HeaviestType == Heaviest \in Nat \ {0}
<1>1. \A s \in Signals : SignalWeights[s] \in Nat
  BY ComplexityAssumption
<1>2. Range(SignalWeights) = {SignalWeights[s] : s \in Signals}
  BY ComplexityAssumption DEF Range
<1>3. IsFiniteSet({SignalWeights[s] : s \in Signals})
      /\ {SignalWeights[s] : s \in Signals} \subseteq Nat
  BY <1>1, SignalsFinite, ImageIsFinite
<1>4. MaxOf(Range(SignalWeights)) \in Nat
  BY <1>2, <1>3, GreatestOf
<1>5. QED
  BY <1>4, PairOf DEF Heaviest

\* No signal is stronger than the dominant one.
LEMMA DominantIsGreatest ==
  ASSUME NEW x, Rising(x, x), NEW s \in Signals, NEW k \in Nat, k <= x[s]
  PROVE  /\ Dominant(x) \in Nat
         /\ (k * SignalWeights[s]) \div Heaviest \in Nat
         /\ (k * SignalWeights[s]) \div Heaviest <= Dominant(x)
<1> DEFINE f == [r \in Signals |-> (x[r] * SignalWeights[r]) \div Heaviest]
           F == {f[r] : r \in Signals}
<1>1. \A r \in Signals : SignalWeights[r] \in Nat /\ x[r] \in Nat
  BY ComplexityAssumption DEF Rising
<1>2. \A r \in Signals : x[r] * SignalWeights[r] \in Nat
  BY <1>1, Product
<1>3. \A r \in Signals : f[r] \in Nat
  BY <1>2, HeaviestType, Quotient
<1>4. Dominant(x) = MaxOf(F) /\ f[s] \in F
  BY DEF Dominant, Heaviest
<1>5. f[s] = (x[s] * SignalWeights[s]) \div Heaviest
  OBVIOUS
<1> HIDE DEF f
<1>6. IsFiniteSet(F) /\ F \subseteq Nat
  BY <1>3, SignalsFinite, ImageIsFinite
<1> HIDE DEF F
<1>7. MaxOf(F) \in Nat /\ f[s] <= MaxOf(F)
  BY <1>4, <1>6, GreatestOf
<1> DEFINE a == k * SignalWeights[s]
           b == x[s] * SignalWeights[s]
<1>8. a \in Nat /\ b \in Nat /\ a <= b
  <2>1. x[s] \in Nat /\ SignalWeights[s] \in Nat /\ SignalWeights[s] <= SignalWeights[s]
    BY <1>1
  <2>2. QED
    BY <2>1, Product
<1> HIDE DEF a, b
<1>9. a \div Heaviest \in Nat /\ b \div Heaviest \in Nat /\ a \div Heaviest <= b \div Heaviest
  BY <1>8, HeaviestType, QuotientMonotone
<1>10. f[s] = b \div Heaviest
  BY <1>5 DEF b
<1>11. a \div Heaviest <= Dominant(x)
  <2> DEFINE y == a \div Heaviest
             z == b \div Heaviest
  <2> HIDE DEF y, z
  <2>1. y <= z /\ z <= MaxOf(F) /\ y \in Nat /\ z \in Nat
    BY <1>7, <1>9, <1>10 DEF y, z
  <2>2. QED
    BY <1>4, <1>7, <2>1 DEF y
<1>12. QED
  BY <1>4, <1>7, <1>9, <1>11 DEF a

\* The score is at least what its dominant signal contributes.
LEMMA AggregateAtLeast ==
  ASSUME NEW x, Rising(x, x), NEW d \in Nat, d <= Dominant(x), Dominant(x) \in Nat
  PROVE  Aggregate(x) \in 0..One /\ Clamp((d * 60) \div 100) <= Aggregate(x)
<1> DEFINE unit == MaxOf({1, TotalWeight})
           m == Total(x) \div unit
<1>1. TotalWeight \in Nat
  <2>1. \A s \in Signals : SignalWeights[s] \in Nat
    BY ComplexityAssumption
  <2>2. QED
    BY <2>1, SignalsFinite, SumNat DEF TotalWeight
<1>2. unit \in Nat \ {0}
  BY <1>1, PairOf
<1> HIDE DEF unit
<1>3. m \in Nat
  BY <1>2, TotalsGrow, Quotient
<1>4. Aggregate(x) = Blend(m, Dominant(x))
  BY AggregateIsBlend DEF unit
<1> HIDE DEF m
<1>5. 0 \in Nat /\ 0 <= m
  BY <1>3
<1>6. Blend(0, d) <= Blend(m, Dominant(x)) /\ Blend(m, Dominant(x)) \in 0..One
  BY <1>3, <1>5, BlendGrows
<1>7. Blend(0, d) = Clamp((d * 60) \div 100)
  <2>1. d * 0 = 0 /\ 0 * 40 = 0 /\ 0 \div 100 = 0 /\ 0 \div One = 0 /\ 0 * 35 = 0
    BY DEF One
  <2>2. (d * 60) \div 100 \in Nat
    OBVIOUS
  <2>3. QED
    BY <2>1, <2>2 DEF Blend
<1>8. QED
  BY <1>4, <1>6, <1>7

\* A thread without an unresolved signal has no turn that complains.
LEMMA CalmThread ==
  ASSUME NEW e \in Seq(TurnEvidence), Len(e) \in Nat \ {0}, Unresolved(e) = 0,
         NEW i \in Positions(e)
  PROVE  e[i].dissatisfaction = 0
<1> DEFINE A == {j \in Positions(e) : e[j].dissatisfaction > 0}
           B == {j \in Positions(LastN(e, 4)) : LastN(e, 4)[j].dissatisfaction > 0}
           more == IF Cardinality(B) > 0 THEN 250 ELSE 0
<1>1. SUFFICES ASSUME e[i].dissatisfaction # 0 PROVE FALSE
  OBVIOUS
<1>2. e[i] \in TurnEvidence
  BY ElementOfSeq DEF Positions
<1>3. e[i].dissatisfaction \in Nat
  BY <1>2, EvidenceFields
<1>4. i \in A
  BY <1>1, <1>3
<1>5. IsFiniteSet(A)
  <2>1. IsFiniteSet(Positions(e))
    BY FS_Interval DEF Positions
  <2>2. QED
    BY <2>1, FS_Subset
<1>6. Unresolved(e) = Clamp(Saturating(Cardinality(A), 15) + more)
  BY DEF Unresolved
<1> HIDE DEF A
<1>7. Cardinality(A) \in Nat /\ Cardinality(A) # 0
  BY <1>4, <1>5, FS_CardinalityType, FS_EmptySet
<1> DEFINE n == Cardinality(A)
           s == Saturating(n, 15)
<1>8. n \in Nat /\ 1 \in Nat /\ 1 <= n /\ 15 \in Nat
  BY <1>7
<1> HIDE DEF n
<1>9. Saturating(1, 15) <= s /\ s \in 0..One
  BY <1>8, SaturatingMonotone, SaturatingRange
<1>10. Saturating(1, 15) = 400
  BY DEF Saturating, One
<1>11. Unresolved(e) = Clamp(s + more) /\ more \in {0, 250}
  BY <1>6 DEF n
<1> HIDE DEF s, more
<1>12. Clamp(s + more) > 0
  BY <1>9, <1>10, <1>11 DEF Clamp, One
<1>13. QED
  BY <1>11, <1>12

LEMMA BestIsGreatest ==
  ASSUME NEW e, StrongerEvidences(e, e), NEW i \in Before(e)
  PROVE  Best(e) \in Nat /\ ShownBy(e[i]) \in Nat /\ ShownBy(e[i]) <= Best(e)
<1> DEFINE S == Before(e)
           f == [j \in S |-> ShownBy(e[j])]
           F == {f[j] : j \in S}
<1>1. Len(e) \in Nat \ {0}
  BY DEF StrongerEvidences
<1>2. IsFiniteSet(S)
  BY <1>1, FS_Interval DEF Before
<1>3. ASSUME NEW j \in S PROVE f[j] \in Nat
  <2>1. j \in Positions(e)
    BY <1>1 DEF Before, Positions
  <2>2. e[j] \in TurnEvidence /\ AsStrong(e[j], e[j])
    BY <2>1 DEF StrongerEvidences
  <2>3. ShownBy(e[j]) \in Nat
    BY <2>2, ShownGrows
  <2>4. QED
    BY <2>3
<1>4. Best(e) = MaxOf(F) /\ f[i] = ShownBy(e[i]) /\ f[i] \in F
  BY DEF Best
<1> HIDE DEF S, f
<1>5. IsFiniteSet(F) /\ F \subseteq Nat
  BY <1>2, <1>3, ImageIsFinite
<1> HIDE DEF F
<1>6. QED
  BY <1>4, <1>5, GreatestOf

\* The scored thread t: what the steps of its analysis give.
Analysed(t) == LastN(t, MaxAnalysed)
Shown(t) == EvidencesOf(Analysed(t))
SignalsShown(t) == SignalsOf(t, Analysed(t), Shown(t))
ScoreBefore(t) ==
    Shortened(Aggregate(SignalsShown(t)), Shown(t)[Len(Shown(t))],
              SignalsShown(t).unresolved_thread, UserTurns(Analysed(t)))

LEMMA AnalysisOf ==
  ASSUME NEW t \in Seq(Message), Len(t) # 0
  PROVE  /\ Analyse(t).score = Inherited(ScoreBefore(t), Shown(t))
         /\ Analyse(t).tier = TierFor(Analyse(t).score)
         /\ Shown(t) \in Seq(TurnEvidence)
         /\ Len(Shown(t)) = Len(Analysed(t)) /\ Len(Shown(t)) \in Nat \ {0}
         /\ \A i \in Positions(Analysed(t)) : Shown(t)[i] = AnalyseTurn(Analysed(t)[i])
         /\ StrongerEvidences(Shown(t), Shown(t))
         /\ Rising(SignalsShown(t), SignalsShown(t))
         /\ Aggregate(SignalsShown(t)) \in 0..One
         /\ ScoreBefore(t) \in 0..One
<1>1. HarderThread(t, t)
  BY AsHardAsItself, ElementOfSeq DEF HarderThread
<1>2. HarderThread(Analysed(t), Analysed(t))
  BY <1>1, HarderWindow, ComplexityAssumption DEF Analysed
<1>3. Analysed(t) \in Seq(Message) /\ Len(Analysed(t)) \in Nat \ {0}
  BY <1>2, LenProperties DEF HarderThread
<1>4. /\ Shown(t) \in Seq(TurnEvidence)
      /\ Len(Shown(t)) = Len(Analysed(t))
      /\ \A i \in Positions(Analysed(t)) : Shown(t)[i] = AnalyseTurn(Analysed(t)[i])
  BY <1>3, EvidencesAre DEF Shown, Positions
<1>5. StrongerEvidences(Shown(t), Shown(t))
  BY <1>2, EvidencesGrow DEF Shown
<1>6. Rising(SignalsShown(t), SignalsShown(t))
  BY <1>1, <1>2, <1>5, SignalsGrow DEF SignalsShown
<1>7. Aggregate(SignalsShown(t)) \in 0..One
  BY <1>6, AggregateGrows
<1>8. ScoreBefore(t) \in 0..One
  <2> DEFINE p == Aggregate(SignalsShown(t))
  <2>1. p \in 0..One /\ p <= p
    BY <1>7, Thousandths
  <2> HIDE DEF p
  <2>2. \A l, unresolved, turns : Shortened(p, l, unresolved, turns) \in 0..One
    BY <2>1, ShortenedGrows
  <2>3. QED
    BY <2>2 DEF ScoreBefore, p
<1>9. Analyse(t).score = Inherited(ScoreBefore(t), Shown(t))
      /\ Analyse(t).tier = TierFor(Analyse(t).score)
  BY DEF Analyse, ScoreBefore, SignalsShown, Shown, Analysed
<1>10. QED
  BY <1>3, <1>4, <1>5, <1>6, <1>7, <1>8, <1>9

LEMMA RaisedAdds ==
  \A a, p \in Nat, share \in 0..100 : Raised(a, p, share) \in Nat /\ a <= Raised(a, p, share)
<1> TAKE a, p \in Nat, share \in 0..100
<1>1. QED
  BY RaisedRange

\* Inheritance only adds.
LEMMA InheritedAdds ==
  ASSUME NEW p \in 0..One, NEW e, Best(e) \in Nat
  PROVE  Inherited(p, e) \in 0..One /\ p <= Inherited(p, e)
<1> DEFINE x == Raised(p, Best(e), EscalationMemory)
<1>1. EscalationMemory \in 0..100 /\ p \in Nat /\ p <= 1000
  BY ComplexityAssumption, Thousandths
<1>2. x \in Nat /\ p <= x
  BY <1>1, RaisedAdds
<1>3. Inherited(p, e) = IF e[Len(e)].anaphoric THEN Clamp(x) ELSE p
  BY InheritedIsRaised
<1> HIDE DEF x
<1>4. QED
  BY <1>1, <1>2, <1>3 DEF Clamp, One

\* A hard demand among the turns analysed lifts the blend over the economy tier.
LEMMA DemandCounts ==
  ASSUME DemandsOutlast, NEW t \in Seq(Message), Len(t) # 0,
         NEW i \in Positions(Shown(t)), Shown(t)[i].reasoning >= 700
  PROVE  Aggregate(SignalsShown(t)) > EconomyMax
<1> DEFINE e == Shown(t)
           x == SignalsShown(t)
           s == "reasoning_keywords"
           k == Kept(700)
           d == (k * SignalWeights[s]) \div Heaviest
<1>1. /\ e \in Seq(TurnEvidence) /\ Len(e) \in Nat \ {0}
      /\ Rising(x, x)
      /\ \A j \in Positions(e) : e[j] \in TurnEvidence
  BY AnalysisOf, ElementOfSeq DEF Positions
<1>2. \A j \in Positions(e) : e[j]["reasoning"] \in Nat
  BY <1>1, EvidenceFields
<1>3. 700 \in 0..One /\ 700 <= e[i]["reasoning"]
  <2>1. e[i].reasoning \in Nat
    BY <1>2
  <2>2. QED
    BY <2>1 DEF One
<1>4. x[s] = WithMemory(e, "reasoning") /\ s \in Signals
  BY SignalsAre DEF SignalsShown, Signals
<1> HIDE DEF e, x
<1>5. k <= x[s]
  BY <1>1, <1>2, <1>3, <1>4, MemoryKeeps DEF e
<1>6. k \in Nat
  <2>1. 700 <= 700 /\ 700 \in Nat
    OBVIOUS
  <2>2. k \in 0..One
    BY <1>3, <2>1, KeptIsRaised
  <2>3. QED
    BY <2>2, Thousandths
<1> HIDE DEF k
<1>7. Dominant(x) \in Nat /\ d \in Nat /\ d <= Dominant(x)
  BY <1>1, <1>4, <1>5, <1>6, DominantIsGreatest
<1>8. (d * 60) \div 100 > EconomyMax
  BY DEF DemandsOutlast, d, k, Kept, Heaviest
<1> HIDE DEF d
<1>9. Aggregate(x) \in 0..One /\ Clamp((d * 60) \div 100) <= Aggregate(x)
  BY <1>1, <1>7, AggregateAtLeast
<1>10. EconomyMax \in Nat /\ EconomyMax < 1000
  BY ThresholdsType
<1> DEFINE y == (d * 60) \div 100
<1>11. y \in Nat /\ y > EconomyMax /\ Clamp(y) <= Aggregate(x)
  BY <1>7, <1>8, <1>9
<1> HIDE DEF y
<1>12. Clamp(y) > EconomyMax /\ Clamp(y) \in Nat
  BY <1>10, <1>11 DEF Clamp, One
<1>13. Aggregate(x) > EconomyMax
  <2>1. Aggregate(x) \in Nat
    BY <1>9, Thousandths
  <2>2. QED
    BY <1>10, <1>11, <1>12, <2>1
<1>14. QED
  BY <1>13 DEF x

\* Hard material before a follow-up lifts its score over the standard tier.
LEMMA FollowUpCounts ==
  ASSUME FollowUpsInherit, NEW t \in Seq(Message), Len(t) # 0,
         NEW i \in Before(Shown(t)), ShownBy(Shown(t)[i]) >= 950,
         Shown(t)[Len(Shown(t))].anaphoric
  PROVE  Analyse(t).score > StandardMax
<1> DEFINE e == Shown(t)
           p == ScoreBefore(t)
           b == Best(e)
           x == Raised(p, b, EscalationMemory)
<1>1. StrongerEvidences(e, e) /\ p \in 0..One /\ Analyse(t).score = Inherited(p, e)
  BY AnalysisOf
<1>2. b \in Nat /\ ShownBy(e[i]) \in Nat /\ ShownBy(e[i]) <= b
  BY <1>1, BestIsGreatest
<1>3. Inherited(p, e) = Clamp(x)
  BY <1>1, <1>2, InheritedIsRaised
<1>4. 950 \in 0..One /\ 950 <= b /\ p \in Nat
  <2> DEFINE c == ShownBy(e[i])
  <2>1. c \in Nat /\ c >= 950 /\ c <= b /\ b \in Nat
    BY <1>2
  <2> HIDE DEF c, b
  <2>2. 950 <= b
    BY <2>1
  <2>3. 950 \in 0..One
    BY DEF One
  <2>4. p \in Nat
    BY <1>1, Thousandths
  <2>5. QED
    BY <2>2, <2>3, <2>4
<1> HIDE DEF p, b, e
<1>5. Kept(950) \in 0..One /\ Kept(950) <= Clamp(x) /\ x \in Nat
  <2>1. \A k \in 0..One : k <= b =>
          Kept(k) \in 0..One /\ Kept(k) <= Clamp(x) /\ x \in Nat
    BY <1>2, <1>4, KeptIsRaised
  <2> HIDE DEF x
  <2>2. QED
    BY <1>4, <2>1
<1> HIDE DEF x
<1>6. Clamp(x) \in 0..One
  BY <1>5, ClampRange
<1>7. Kept(950) > StandardMax /\ StandardMax \in Nat
  BY ThresholdsType DEF FollowUpsInherit, Kept
<1> DEFINE y == Kept(950)
           z == Clamp(x)
<1>8. y \in Nat /\ z \in Nat /\ y <= z /\ y > StandardMax
  BY <1>5, <1>6, <1>7, Thousandths
<1> HIDE DEF y, z
<1>9. z > StandardMax
  BY <1>7, <1>8
<1>10. QED
  BY <1>1, <1>3, <1>9 DEF z, p, e

(* "A hard requirement stated up-front is never forgotten" and a follow-up *)
(* to hard material is hard itself (complexity.py:179-341), in threads of  *)
(* any messages and any length, for every decay, every weight of the other *)
(* signals, thresholds and memory that leave room for it.                  *)
THEOREM HardThreadsStayHard ==
  ASSUME DemandsOutlast, FollowUpsInherit
  PROVE  Spec => []NeverForgotten
<1>1. ThreadInv => NeverForgotten
  <2> SUFFICES ASSUME ThreadInv, Asked PROVE NeverForgotten
    BY DEF NeverForgotten
  <2> DEFINE e == Shown(messages)
             a == Aggregate(SignalsShown(messages))
             p == ScoreBefore(messages)
             turns == UserTurns(Window)
             unresolved == SignalsShown(messages).unresolved_thread
  <2>1. messages \in Seq(Message) /\ Len(messages) # 0
    BY MessagesType, EmptySeq DEF Asked
  <2>2. Window = Analysed(messages)
    BY DEF Window, Analysed
  <2>3. /\ Analyse(messages).score = Inherited(p, e)
        /\ Analyse(messages).tier = TierFor(Analyse(messages).score)
        /\ e \in Seq(TurnEvidence) /\ Len(e) = Len(Window) /\ Len(e) \in Nat \ {0}
        /\ \A i \in Positions(Window) : e[i] = Turn(i)
        /\ StrongerEvidences(e, e)
        /\ a \in 0..One /\ p \in 0..One
    BY <2>1, <2>2, AnalysisOf DEF Turn
  <2>4. assessment = Analyse(messages)
    BY DEF ThreadInv
  <2>5. Best(e) \in Nat
    BY <2>3, BestGrows
  <2>6. Positions(e) = Positions(Window) /\ Len(Window) \in Positions(Window)
    BY <2>3 DEF Positions
  <2>7. Last = e[Len(e)]
    BY <2>3, <2>6 DEF Last
  <2>8. Inherited(p, e) \in 0..One /\ p <= Inherited(p, e)
    BY <2>3, <2>5, InheritedAdds
  <2>9. p = IF Last.trivial /\ Shallow(a, unresolved, turns) /\ (EconomyMax * 6) \div 10 < a
              THEN (EconomyMax * 6) \div 10 ELSE a
    BY <2>2, <2>7 DEF ScoreBefore, Shortened
  <2>10. unresolved = Unresolved(e)
    BY SignalsAre DEF SignalsShown
  <2> HIDE DEF e, a, p, unresolved
  <2>11. ASSUME NEW i \in Positions(Window), Turn(i).reasoning >= 700, ~Pleasantry
         PROVE  assessment.tier # "economy"
    <3>1. a > EconomyMax
      BY <2>1, <2>3, <2>6, <2>11, DemandCounts DEF e, a
    <3>2. ~(Last.trivial /\ Shallow(a, unresolved, turns))
      <4>1. SUFFICES ASSUME Last.trivial, Shallow(a, unresolved, turns) PROVE Pleasantry
        BY <2>11
      <4>2. Unresolved(e) = 0 /\ turns <= 2
        BY <2>10, <4>1 DEF Shallow
      <4>3. \A j \in Positions(Window) : Turn(j).dissatisfaction = 0
        BY <2>3, <2>6, <4>2, CalmThread
      <4>4. QED
        BY <4>1, <4>2, <4>3 DEF Pleasantry
    <3>3. p = a
      BY <2>9, <3>2
    <3>4. Inherited(p, e) > EconomyMax
      <4> DEFINE z == Inherited(p, e)
      <4>1. z \in 0..One /\ p <= z
        BY <2>8
      <4> HIDE DEF z
      <4>2. EconomyMax \in Nat
        BY ThresholdsType
      <4>3. z > EconomyMax
        BY <2>3, <3>1, <3>3, <4>1, <4>2 DEF One
      <4>4. QED
        BY <4>3 DEF z
    <3>5. ~(Inherited(p, e) <= EconomyMax)
      <4>1. Inherited(p, e) \in Nat /\ EconomyMax \in Nat
        BY <2>8, ThresholdsType, Thousandths
      <4>2. QED
        BY <3>4, <4>1
    <3>6. QED
      BY <2>3, <2>4, <3>5 DEF TierFor
  <2>12. ASSUME Last.anaphoric, NEW i \in 1..(Len(Window) - 1), Evidence(i) >= 950
         PROVE  assessment.tier \in {"premium", "reasoning"}
    <3>1. i \in Before(e) /\ i \in Positions(Window)
      BY <2>3, <2>12 DEF Before, Positions
    <3>2. ShownBy(e[i]) = Evidence(i)
      BY <2>3, <3>1 DEF ShownBy, Evidence
    <3>3. Analyse(messages).score > StandardMax
      BY <2>1, <2>7, <2>12, <3>1, <3>2, FollowUpCounts DEF e
    <3>4. /\ Analyse(messages).score \in Nat
          /\ EconomyMax \in Nat /\ StandardMax \in Nat /\ EconomyMax < StandardMax
      BY <2>3, <2>8, ThresholdsType, Thousandths
    <3> DEFINE score == Analyse(messages).score
    <3>5. ~(score <= EconomyMax) /\ ~(score <= StandardMax)
      BY <3>3, <3>4
    <3> HIDE DEF score
    <3>6. TierFor(score) \in {"premium", "reasoning"}
      BY <3>5 DEF TierFor
    <3>7. QED
      BY <2>3, <2>4, <3>6 DEF score
  <2>13. QED
    BY <2>11, <2>12 DEF NeverForgotten
<1>2. QED
  BY <1>1, ThreadInvariant, PTL
=============================================================================
