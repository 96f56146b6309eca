-------------------------- MODULE Whiteboard_proofs --------------------------
(***************************************************************************)
(* Proofs about the client: no client skips a stroke and a quiet member    *)
(* has them all (Whiteboard), and the canvas shows the scene and the       *)
(* cursors once nothing is dirty (Canvas), for every set of clients and    *)
(* peers, and however many strokes, troubles, views and updates there are. *)
(***************************************************************************)
EXTENDS Whiteboard, Canvas, FiniteSetTheorems, SequenceTheorems, WellFoundedInduction, TLAPS

USE WhiteboardBoundsAssumption

-----------------------------------------------------------------------------
(* Numbers *)

\* A set of naturals below a bound has a greatest element.
LEMMA Greatest ==
  ASSUME NEW N \in Nat, NEW S \in SUBSET (0..N), S # {}
  PROVE  \E n \in S : \A m \in S : m <= n
<1> DEFINE T == {N - n : n \in S}
<1>0. S \subseteq Int /\ \A n \in S : 0 <= n /\ n <= N
  OBVIOUS
<1>1. T \subseteq Nat /\ T # {}
  <2>1. \A n \in S : N - n \in Nat
    BY <1>0
  <2> QED BY <2>1
<1>2. PICK x \in T : \A y \in T : ~(<<y, x>> \in OpToRel(<, Nat))
  BY <1>1, NatLessThanWellFounded, WFMin
<1>3. \A y \in T : ~(y < x)
  BY <1>1, <1>2 DEF OpToRel
<1>4. PICK n \in S : x = N - n
  BY <1>2
<1>5. \A m \in S : m <= n
  <2> SUFFICES ASSUME NEW m \in S PROVE m <= n
    OBVIOUS
  <2>1. N - m \in T
    OBVIOUS
  <2>2. ~(N - m < N - n)
    BY <1>3, <1>4, <2>1
  <2> QED BY <1>0, <2>2
<1> QED BY <1>5

\* Highest is the greatest number of the strokes and the floor.
LEMMA HighestFacts ==
  ASSUME NEW strokes \in SUBSET Stroke, NEW floor \in Nat
  PROVE  /\ Highest(strokes, floor) \in Nat
         /\ Highest(strokes, floor) = floor \/ \E s \in strokes : Highest(strokes, floor) = s.seq
         /\ Highest(strokes, floor) >= floor
         /\ \A s \in strokes : Highest(strokes, floor) >= s.seq
<1> DEFINE numbers == {floor} \union {s.seq : s \in strokes}
           P(n) == \A s \in strokes : n >= floor /\ n >= s.seq
<1>1. \A s \in strokes : s.seq \in 1..MaxStrokes
  BY DEF Stroke
<1>2. numbers \subseteq 0..(floor + MaxStrokes) /\ numbers # {} /\ floor + MaxStrokes \in Nat
  BY <1>1
<1>3. PICK n \in numbers : \A m \in numbers : m <= n
  BY <1>2, Greatest
<1>4. n \in Nat /\ P(n)
  BY <1>2, <1>3
<1>5. Highest(strokes, floor) \in numbers /\ P(Highest(strokes, floor))
  BY <1>3, <1>4 DEF Highest
<1>6. CASE strokes = {}
  BY <1>5, <1>6
<1>7. CASE strokes # {}
  BY <1>1, <1>2, <1>5, <1>7
<1> QED BY <1>6, <1>7


-----------------------------------------------------------------------------
(* Queues, one per client *)

\* What a sequence holds is typed as its elements.
LEMMA RangeTyped ==
  ASSUME NEW S, NEW q \in Seq(S)
  PROVE  /\ Range(q) \subseteq S
         /\ \A i \in DOMAIN q : q[i] \in Range(q)
         /\ \A x \in Range(q) : \E i \in DOMAIN q : q[i] = x
  BY DEF Range

\* What appending adds.
LEMMA AppendRange ==
  ASSUME NEW S, NEW s \in Seq(S), NEW x \in S
  PROVE  /\ Append(s, x) \in Seq(S) /\ Append(s, x) # <<>>
         /\ Range(s) \subseteq Range(Append(s, x)) /\ x \in Range(Append(s, x))
         /\ \A y \in Range(Append(s, x)) : y \in Range(s) \/ y = x
         /\ \A i \in DOMAIN Append(s, x) :
              \/ Append(s, x)[i] = x /\ i = Len(s) + 1
              \/ i \in DOMAIN s /\ Append(s, x)[i] = s[i]
<1> DEFINE t == Append(s, x)
<1>1. Len(s) \in Nat /\ DOMAIN s = 1..Len(s)
  OBVIOUS
<1>2. t \in Seq(S) /\ Len(t) = Len(s) + 1
  OBVIOUS
<1>3. t # <<>>
  BY <1>1, <1>2
<1>4. DOMAIN t = 1..Len(s) + 1
  BY <1>1, <1>2
<1>5. \A i \in 1..Len(s) : t[i] = s[i]
  OBVIOUS
<1>6. t[Len(s) + 1] = x
  OBVIOUS
<1> HIDE DEF t
<1>7. \A i \in DOMAIN t : (t[i] = x /\ i = Len(s) + 1) \/ (i \in DOMAIN s /\ t[i] = s[i])
  BY <1>1, <1>4, <1>5, <1>6
<1>8. \A i \in DOMAIN s : i \in DOMAIN t /\ t[i] = s[i]
  BY <1>1, <1>4, <1>5
<1>9. Len(s) + 1 \in DOMAIN t
  BY <1>1, <1>4
<1>10. Range(s) \subseteq Range(t)
  BY <1>8 DEF Range
<1>11. x \in Range(t)
  BY <1>6, <1>9 DEF Range
<1>12. \A y \in Range(t) : y \in Range(s) \/ y = x
  BY <1>7 DEF Range
<1> QED BY <1>2, <1>3, <1>7, <1>10, <1>11, <1>12 DEF t

\* What taking the first leaves.
LEMMA TailRange ==
  ASSUME NEW S, NEW s \in Seq(S), s # <<>>
  PROVE  /\ Tail(s) \in Seq(S) /\ Head(s) \in S /\ Head(s) \in Range(s)
         /\ 1 \in DOMAIN s /\ Head(s) = s[1]
         /\ Range(Tail(s)) \subseteq Range(s)
         /\ \A y \in Range(s) : y \in Range(Tail(s)) \/ y = Head(s)
         /\ \A i \in DOMAIN Tail(s) :
               i \in Int /\ i # 0 /\ i + 1 \in DOMAIN s /\ Tail(s)[i] = s[i + 1]
<1> DEFINE t == Tail(s)
<1>1. Len(s) \in Nat /\ DOMAIN s = 1..Len(s) /\ Len(s) # 0
  OBVIOUS
<1>2. t \in Seq(S) /\ Len(t) = Len(s) - 1
  OBVIOUS
<1>3. \A i \in 1..Len(s) - 1 : t[i] = s[i + 1]
  OBVIOUS
<1>4. Head(s) = s[1] /\ Head(s) \in S
  OBVIOUS
<1>5. DOMAIN t = 1..Len(s) - 1
  BY <1>1, <1>2
<1> HIDE DEF t
<1>6. 1 \in DOMAIN s
  BY <1>1
<1>7. \A i \in DOMAIN t : i \in Int /\ i # 0 /\ i + 1 \in DOMAIN s /\ t[i] = s[i + 1]
  BY <1>1, <1>3, <1>5
<1>8. \A i \in DOMAIN s : i = 1 \/ \E j \in DOMAIN t : t[j] = s[i]
  <2> SUFFICES ASSUME NEW i \in DOMAIN s, i # 1 PROVE \E j \in DOMAIN t : t[j] = s[i]
    OBVIOUS
  <2>1. i - 1 \in 1..Len(s) - 1 /\ (i - 1) + 1 = i
    BY <1>1
  <2> QED BY <1>3, <1>5, <2>1
<1>9. Range(t) \subseteq Range(s)
  BY <1>7 DEF Range
<1>10. \A y \in Range(s) : y \in Range(t) \/ y = Head(s)
  BY <1>4, <1>8 DEF Range
<1>11. Head(s) \in Range(s)
  BY <1>4, <1>6 DEF Range
<1> QED BY <1>2, <1>4, <1>6, <1>7, <1>9, <1>10, <1>11 DEF t

\* What a concatenation holds.
LEMMA ConcatRange ==
  ASSUME NEW S, NEW s \in Seq(S), NEW t \in Seq(S)
  PROVE  s \o t \in Seq(S) /\ Range(s \o t) = Range(s) \union Range(t)
<1> DEFINE u == s \o t
<1>1. Len(s) \in Nat /\ Len(t) \in Nat /\ DOMAIN s = 1..Len(s) /\ DOMAIN t = 1..Len(t)
  OBVIOUS
<1>2. u \in Seq(S) /\ Len(u) = Len(s) + Len(t)
  BY ConcatProperties
<1>3. \A i \in 1..Len(s) + Len(t) : u[i] = IF i <= Len(s) THEN s[i] ELSE t[i - Len(s)]
  BY ConcatProperties
<1>4. DOMAIN u = 1..Len(s) + Len(t)
  BY <1>1, <1>2
<1> HIDE DEF u
<1>5. \A i \in DOMAIN u : u[i] \in Range(s) \union Range(t)
  <2> SUFFICES ASSUME NEW i \in DOMAIN u PROVE u[i] \in Range(s) \union Range(t)
    OBVIOUS
  <2>1. CASE i <= Len(s)
    <3>1. i \in DOMAIN s /\ u[i] = s[i]
      BY <1>1, <1>3, <1>4, <2>1
    <3> QED BY <3>1 DEF Range
  <2>2. CASE ~(i <= Len(s))
    <3>1. i - Len(s) \in DOMAIN t /\ u[i] = t[i - Len(s)]
      BY <1>1, <1>3, <1>4, <2>2
    <3> QED BY <3>1 DEF Range
  <2> QED BY <2>1, <2>2
<1>6. \A i \in DOMAIN s : i \in DOMAIN u /\ u[i] = s[i]
  BY <1>1, <1>3, <1>4
<1>7. \A i \in DOMAIN t : Len(s) + i \in DOMAIN u /\ u[Len(s) + i] = t[i]
  <2> SUFFICES ASSUME NEW i \in DOMAIN t PROVE Len(s) + i \in DOMAIN u /\ u[Len(s) + i] = t[i]
    OBVIOUS
  <2>1. /\ Len(s) + i \in 1..Len(s) + Len(t)
        /\ ~(Len(s) + i <= Len(s)) /\ (Len(s) + i) - Len(s) = i
    BY <1>1
  <2> QED BY <1>3, <1>4, <2>1
<1>8. \A x \in Range(u) : x \in Range(s) \union Range(t)
  BY <1>5 DEF Range
<1>9. \A x \in Range(s) : x \in Range(u)
  BY <1>6 DEF Range
<1>10. \A x \in Range(t) : x \in Range(u)
  BY <1>7 DEF Range
<1> QED BY <1>2, <1>8, <1>9, <1>10 DEF u

\* Taking one element out adds none.
LEMMA RemoveRange ==
  ASSUME NEW S, NEW s \in Seq(S), NEW i \in DOMAIN s
  PROVE  RemoveAt(s, i) \in Seq(S) /\ Range(RemoveAt(s, i)) \subseteq Range(s)
<1> DEFINE before == SubSeq(s, 1, i - 1)
           after == SubSeq(s, i + 1, Len(s))
<1>1. Len(s) \in Nat /\ DOMAIN s = 1..Len(s) /\ i \in 1..Len(s)
  OBVIOUS
<1>2. before \in Seq(S) /\ Len(before) = i - 1 /\ \A j \in 1..i - 1 : before[j] = s[j]
  BY <1>1
<1>3. after \in Seq(S) /\ Len(after) = Len(s) - i /\ \A j \in 1..Len(s) - i : after[j] = s[i + j]
  BY <1>1
<1>4. RemoveAt(s, i) = before \o after
  BY DEF RemoveAt
<1> HIDE DEF before, after
<1>5. DOMAIN before = 1..i - 1 /\ DOMAIN after = 1..Len(s) - i
  BY <1>1, <1>2, <1>3
<1>6. \A j \in DOMAIN before : j \in DOMAIN s /\ before[j] = s[j]
  BY <1>1, <1>2, <1>5
<1>7. \A j \in DOMAIN after : i + j \in DOMAIN s /\ after[j] = s[i + j]
  BY <1>1, <1>3, <1>5
<1>8. Range(before) \subseteq Range(s)
  BY <1>6 DEF Range
<1>9. Range(after) \subseteq Range(s)
  BY <1>7 DEF Range
<1>10. before \o after \in Seq(S) /\ Range(before \o after) = Range(before) \union Range(after)
  BY <1>2, <1>3, ConcatRange
<1> QED BY <1>4, <1>8, <1>9, <1>10

\* Appending to one queue.
LEMMA PushQueue ==
  ASSUME NEW S, NEW q \in [Clients -> Seq(S)], NEW c \in Clients, NEW x \in S
  PROVE  LET q2 == [q EXCEPT ![c] = Append(@, x)] IN
         /\ q2 \in [Clients -> Seq(S)]
         /\ q2[c] = Append(q[c], x) /\ \A d \in Clients \ {c} : q2[d] = q[d]
         /\ q2[c] # <<>> /\ x \in Range(q2[c])
         /\ \A d \in Clients : Range(q[d]) \subseteq Range(q2[d])
         /\ \A d \in Clients : \A y \in Range(q2[d]) : y \in Range(q[d]) \/ (d = c /\ y = x)
<1> DEFINE q2 == [q EXCEPT ![c] = Append(@, x)]
<1>1. q2[c] = Append(q[c], x) /\ \A d \in Clients \ {c} : q2[d] = q[d]
  OBVIOUS
<1>2. q[c] \in Seq(S)
  OBVIOUS
<1>3. /\ Append(q[c], x) \in Seq(S) /\ Append(q[c], x) # <<>>
      /\ Range(q[c]) \subseteq Range(Append(q[c], x)) /\ x \in Range(Append(q[c], x))
      /\ \A y \in Range(Append(q[c], x)) : y \in Range(q[c]) \/ y = x
  BY <1>2, AppendRange
<1>4. q2 \in [Clients -> Seq(S)]
  BY <1>3
<1> QED BY <1>1, <1>3, <1>4

\* Taking the first of one queue.
LEMMA PopQueue ==
  ASSUME NEW S, NEW q \in [Clients -> Seq(S)], NEW c \in Clients, q[c] # <<>>
  PROVE  LET q2 == [q EXCEPT ![c] = Tail(@)] IN
         /\ q2 \in [Clients -> Seq(S)]
         /\ q2[c] = Tail(q[c]) /\ \A d \in Clients \ {c} : q2[d] = q[d]
         /\ Head(q[c]) \in S /\ Head(q[c]) \in Range(q[c])
         /\ \A d \in Clients : Range(q2[d]) \subseteq Range(q[d])
         /\ \A d \in Clients : \A y \in Range(q[d]) :
               y \in Range(q2[d]) \/ (d = c /\ y = Head(q[c]))
<1> DEFINE q2 == [q EXCEPT ![c] = Tail(@)]
<1>1. q2[c] = Tail(q[c]) /\ \A d \in Clients \ {c} : q2[d] = q[d]
  OBVIOUS
<1>2. q[c] \in Seq(S)
  OBVIOUS
<1>3. /\ Tail(q[c]) \in Seq(S) /\ Head(q[c]) \in S /\ Head(q[c]) \in Range(q[c])
      /\ Range(Tail(q[c])) \subseteq Range(q[c])
      /\ \A y \in Range(q[c]) : y \in Range(Tail(q[c])) \/ y = Head(q[c])
  BY <1>2, TailRange
<1>4. q2 \in [Clients -> Seq(S)]
  BY <1>3
<1> QED BY <1>1, <1>3, <1>4

\* Taking one element out of one queue.
LEMMA DropQueue ==
  ASSUME NEW S, NEW q \in [Clients -> Seq(S)], NEW c \in Clients, NEW i \in DOMAIN q[c]
  PROVE  LET q2 == [q EXCEPT ![c] = RemoveAt(@, i)] IN
         /\ q2 \in [Clients -> Seq(S)]
         /\ \A d \in Clients \ {c} : q2[d] = q[d]
         /\ \A d \in Clients : Range(q2[d]) \subseteq Range(q[d])
<1> DEFINE q2 == [q EXCEPT ![c] = RemoveAt(@, i)]
<1>1. q2[c] = RemoveAt(q[c], i) /\ \A d \in Clients \ {c} : q2[d] = q[d]
  OBVIOUS
<1>2. q[c] \in Seq(S)
  OBVIOUS
<1>3. RemoveAt(q[c], i) \in Seq(S) /\ Range(RemoveAt(q[c], i)) \subseteq Range(q[c])
  BY <1>2, RemoveRange
<1>4. q2 \in [Clients -> Seq(S)]
  BY <1>3
<1> QED BY <1>1, <1>3, <1>4

-----------------------------------------------------------------------------
(* The requests that wait for a number *)

\* A request to draw is one of the requests, with an id.
LEMMA DrawShape ==
  ASSUME NEW request \in Request, IsDraw(request)
  PROVE  request.id \in Ids /\ request = [event |-> "draw", id |-> request.id]
  BY DEF Request, IsDraw

\* The strokes that wait are finitely many.
LEMMA WaitingFinite ==
  ASSUME NEW q
  PROVE  IsFiniteSet(Waiting(q)) /\ Cardinality(Waiting(q)) \in Nat /\ Waiting(q) \subseteq Ids
<1>1. IsFiniteSet(Ids)
  BY FS_Interval DEF Ids
<1>2. Waiting(q) \in SUBSET Ids
  BY DEF Waiting
<1>3. IsFiniteSet(Waiting(q))
  BY <1>1, <1>2, FS_Subset
<1> QED BY <1>2, <1>3, FS_CardinalityType

\* Fewer strokes wait in fewer requests.
LEMMA WaitingFewer ==
  ASSUME NEW q, NEW q2, \A c \in Clients : \A request \in Range(q2[c]) :
                           IsDraw(request) => request \in Range(q[c])
  PROVE  Waiting(q2) \subseteq Waiting(q) /\ Cardinality(Waiting(q2)) <= Cardinality(Waiting(q))
<1>1. Waiting(q2) \in SUBSET Waiting(q)
  BY DEF Waiting, IsDraw
<1> QED BY <1>1, WaitingFinite, FS_Subset

\* What any request but a draw does when it is appended.
LEMMA PushOther ==
  ASSUME NEW q \in [Clients -> Seq(Request)], NEW c \in Clients, NEW request \in Request,
         ~IsDraw(request), AskedOnce(q),
         NEW q2, q2 = [q EXCEPT ![c] = Append(@, request)]
  PROVE  AskedOnce(q2) /\ Waiting(q2) \subseteq Waiting(q)
         /\ Cardinality(Waiting(q2)) <= Cardinality(Waiting(q))
<1>1. \A d \in Clients : \A r \in Range(q2[d]) : r \in Range(q[d]) \/ (d = c /\ r = request)
  BY PushQueue
<1>2. \A d \in Clients : \A i \in DOMAIN q2[d] :
        IsDraw(q2[d][i]) => i \in DOMAIN q[d] /\ q2[d][i] = q[d][i]
  <2>1. q[c] \in Seq(Request) /\ Len(q[c]) \in Nat /\ q2[c] = Append(q[c], request)
    OBVIOUS
  <2>2. \A i \in DOMAIN q2[c] : q2[c][i] = request \/ (i \in DOMAIN q[c] /\ q2[c][i] = q[c][i])
    BY <2>1
  <2>3. \A d \in Clients \ {c} : q2[d] = q[d]
    OBVIOUS
  <2> QED BY <2>2, <2>3
<1>3. AskedOnce(q2)
  BY <1>2 DEF AskedOnce
<1> QED BY <1>1, <1>3, WaitingFewer

\* What a request to draw a new stroke does when it is appended.
LEMMA PushDraw ==
  ASSUME NEW q \in [Clients -> Seq(Request)], NEW c \in Clients, NEW id \in Ids,
         id \notin Waiting(q), AskedOnce(q),
         NEW q2, q2 = [q EXCEPT ![c] = Append(@, [event |-> "draw", id |-> id])]
  PROVE  AskedOnce(q2) /\ Waiting(q2) = Waiting(q) \union {id}
<1> DEFINE request == [event |-> "draw", id |-> id]
<1>1. request \in Request
  BY DEF Request
<1>2. \A d \in Clients : request \notin Range(q[d])
  BY DEF Waiting
<1> HIDE DEF request
<1>3. q[c] \in Seq(Request) /\ Len(q[c]) \in Nat /\ q2[c] = Append(q[c], request)
  BY DEF request
<1>4. \A d \in Clients \ {c} : q2[d] = q[d]
  OBVIOUS
<1>5. \A d \in Clients : \A i \in DOMAIN q[d] : q[d][i] # request
  BY <1>2 DEF Range
<1>6. \A d \in Clients : \A i \in DOMAIN q2[d] :
        \/ q2[d][i] = request /\ d = c /\ i = Len(q[c]) + 1
        \/ i \in DOMAIN q[d] /\ q2[d][i] = q[d][i]
  BY <1>1, <1>3, <1>4
<1>7. AskedOnce(q2)
  <2>1. ASSUME NEW d \in Clients, NEW e \in Clients
        PROVE  \A k \in DOMAIN q2[d], j \in DOMAIN q2[e] :
                  IsDraw(q2[d][k]) /\ q2[d][k] = q2[e][j] => d = e /\ k = j
    <3> SUFFICES ASSUME NEW k \in DOMAIN q2[d], NEW j \in DOMAIN q2[e],
                        IsDraw(q2[d][k]), q2[d][k] = q2[e][j]
                 PROVE  d = e /\ k = j
      BY Zenon
    <3>1. CASE q2[d][k] = request
      <4>1. d = c /\ k = Len(q[c]) + 1
        BY <1>5, <1>6, <3>1
      <4>2. e = c /\ j = Len(q[c]) + 1
        BY <1>5, <1>6, <3>1
      <4> QED BY <4>1, <4>2
    <3>2. CASE q2[d][k] # request
      <4>1. k \in DOMAIN q[d] /\ q2[d][k] = q[d][k]
        BY <1>6, <3>2
      <4>2. j \in DOMAIN q[e] /\ q2[e][j] = q[e][j]
        BY <1>6, <3>2
      <4>3. IsDraw(q[d][k]) /\ q[d][k] = q[e][j]
        BY <4>1, <4>2
      <4> QED BY <4>1, <4>2, <4>3 DEF AskedOnce
    <3> QED BY <3>1, <3>2
  <2> QED BY <2>1, Zenon DEF AskedOnce
<1>8. \A d \in Clients : \A r : r \in Range(q2[d]) <=> r \in Range(q[d]) \/ (d = c /\ r = request)
  <2>1. Range(q[c]) \subseteq Range(q2[c]) /\ request \in Range(q2[c])
    BY <1>1, <1>3, AppendRange
  <2>2. \A r \in Range(q2[c]) : r \in Range(q[c]) \/ r = request
    BY <1>1, <1>3, AppendRange
  <2> QED BY <1>4, <2>1, <2>2
<1>9. \A n \in Ids : [event |-> "draw", id |-> n] = request <=> n = id
  BY DEF request
<1>10. \A n \in Ids : n \in Waiting(q2) <=> n \in Waiting(q) \/ n = id
  BY <1>8, <1>9 DEF Waiting
<1> QED BY <1>7, <1>10, WaitingFinite

\* Taking a request leaves the others, each asked once; a draw no longer waits.
LEMMA PopRequest ==
  ASSUME NEW q \in [Clients -> Seq(Request)], NEW c \in Clients, q[c] # <<>>, AskedOnce(q),
         NEW q2, q2 = [q EXCEPT ![c] = Tail(@)]
  PROVE  /\ AskedOnce(q2) /\ Waiting(q2) \subseteq Waiting(q)
         /\ Cardinality(Waiting(q2)) <= Cardinality(Waiting(q))
         /\ IsDraw(Head(q[c])) =>
              /\ Head(q[c]).id \in Waiting(q)
              /\ Cardinality(Waiting(q2)) = Cardinality(Waiting(q)) - 1
<1>1. /\ Head(q[c]) \in Request /\ Head(q[c]) \in Range(q[c]) /\ q2 \in [Clients -> Seq(Request)]
      /\ \A d \in Clients \ {c} : q2[d] = q[d]
      /\ \A d \in Clients : Range(q2[d]) \subseteq Range(q[d])
      /\ \A d \in Clients : \A y \in Range(q[d]) :
            y \in Range(q2[d]) \/ (d = c /\ y = Head(q[c]))
      /\ \A i \in DOMAIN q2[c] : i + 1 \in DOMAIN q[c] /\ q2[c][i] = q[c][i + 1] /\ i # 0
      /\ 1 \in DOMAIN q[c] /\ Head(q[c]) = q[c][1]
  <2>1. q2[c] = Tail(q[c]) /\ q[c] \in Seq(Request)
    OBVIOUS
  <2>2. /\ 1 \in DOMAIN q[c] /\ Head(q[c]) = q[c][1]
        /\ \A i \in DOMAIN Tail(q[c]) :
              i # 0 /\ i + 1 \in DOMAIN q[c] /\ Tail(q[c])[i] = q[c][i + 1]
    BY <2>1, TailRange
  <2>3. /\ q2 \in [Clients -> Seq(Request)]
        /\ Head(q[c]) \in Request /\ Head(q[c]) \in Range(q[c])
        /\ \A d \in Clients \ {c} : q2[d] = q[d]
        /\ \A d \in Clients : Range(q2[d]) \subseteq Range(q[d])
        /\ \A d \in Clients : \A y \in Range(q[d]) :
              y \in Range(q2[d]) \/ (d = c /\ y = Head(q[c]))
    BY PopQueue
  <2> QED BY <2>1, <2>2, <2>3
<1>2. \A d \in Clients : q2[d] \in Seq(Request) /\ DOMAIN q2[d] = 1..Len(q2[d]) /\ Len(q2[d]) \in Nat
  BY <1>1
<1>3. AskedOnce(q2)
  <2> SUFFICES ASSUME NEW d \in Clients, NEW e \in Clients,
                      NEW i \in DOMAIN q2[d], NEW j \in DOMAIN q2[e],
                      IsDraw(q2[d][i]), q2[d][i] = q2[e][j]
               PROVE  d = e /\ i = j
    BY DEF AskedOnce
  <2>1. i \in Int /\ j \in Int
    BY <1>2
  <2>2. CASE d = c /\ e = c
    <3>1. i + 1 = j + 1
      BY <1>1, <2>2 DEF AskedOnce
    <3> QED BY <2>1, <2>2, <3>1
  <2>3. CASE d = c /\ e # c
    BY <1>1, <2>3 DEF AskedOnce
  <2>4. CASE d # c /\ e = c
    BY <1>1, <2>4 DEF AskedOnce
  <2>5. CASE d # c /\ e # c
    BY <1>1, <2>5 DEF AskedOnce
  <2> QED BY <2>2, <2>3, <2>4, <2>5
<1>4. Waiting(q2) \subseteq Waiting(q) /\ Cardinality(Waiting(q2)) <= Cardinality(Waiting(q))
  BY <1>1, WaitingFewer
<1>5. ASSUME IsDraw(Head(q[c]))
      PROVE  /\ Head(q[c]).id \in Waiting(q)
             /\ Cardinality(Waiting(q2)) = Cardinality(Waiting(q)) - 1
  <2> DEFINE id == Head(q[c]).id
  <2>1. id \in Ids /\ Head(q[c]) = [event |-> "draw", id |-> id]
    BY <1>1, <1>5, DrawShape
  <2>2. id \in Waiting(q)
    BY <1>1, <2>1 DEF Waiting
  <2>3. \A d \in Clients : Head(q[c]) \notin Range(q2[d])
    <3> SUFFICES ASSUME NEW d \in Clients, NEW i \in DOMAIN q2[d], q2[d][i] = Head(q[c])
                 PROVE  FALSE
      BY DEF Range
    <3>1. CASE d = c
      <4>1. i + 1 \in DOMAIN q[c] /\ q[c][i + 1] = q[c][1] /\ i \in Int /\ i # 0
        BY <1>1, <1>2, <3>1
      <4>2. i + 1 = 1
        BY <1>1, <1>5, <4>1 DEF AskedOnce
      <4> QED BY <4>1, <4>2
    <3>2. CASE d # c
      BY <1>1, <1>5, <3>2 DEF AskedOnce
    <3> QED BY <3>1, <3>2
  <2>4. id \notin Waiting(q2)
    BY <2>1, <2>3 DEF Waiting
  <2>5. \A n \in Ids : [event |-> "draw", id |-> n] = Head(q[c]) <=> n = id
    BY <2>1
  <2>6. \A n \in Waiting(q) : n \in Waiting(q2) \/ n = id
    BY <1>1, <2>5 DEF Waiting
  <2>7. Waiting(q2) = Waiting(q) \ {id}
    BY <1>4, <2>4, <2>6
  <2> HIDE DEF id
  <2>8. Cardinality(Waiting(q2)) = Cardinality(Waiting(q)) - 1
    BY <2>2, <2>7, WaitingFinite, FS_RemoveElement
  <2> QED BY <2>2, <2>8 DEF id
<1> QED BY <1>3, <1>4, <1>5

-----------------------------------------------------------------------------
(* What every step keeps *)

\* No step takes back what a client has, or its mark.
Grows ==
  \A c \in Clients : /\ canvas[c] \union excused[c] \subseteq canvas'[c] \union excused'[c]
                      /\ mark[c] <= mark'[c]

\* The variables are of their types.
LEMMA Types ==
  ASSUME TypeOK
  PROVE  /\ \A c \in Clients : mark[c] \in Nat /\ canvas[c] \subseteq Ids /\ excused[c] \subseteq Ids
         /\ \A c \in Clients : \A request \in Range(toServer[c]) : request \in Request
         /\ \A c \in Clients : \A event \in Range(toClient[c]) : event \in Event
         /\ \A c \in Clients : \A load \in Range(loads[c]) : load \in Load
         /\ nextSeq \in Nat /\ base \in Nat /\ nextId \in Nat
         /\ Board \subseteq Stroke /\ \A s \in Board : s.seq \in Nat
<1>1. \A c \in Clients : mark[c] \in Seqs /\ canvas[c] \subseteq Ids /\ excused[c] \subseteq Ids
  BY DEF TypeOK
<1>2. \A c \in Clients : \A request \in Range(toServer[c]) : request \in Request
  BY RangeTyped DEF TypeOK
<1>3. \A c \in Clients : \A event \in Range(toClient[c]) : event \in Event
  BY RangeTyped DEF TypeOK
<1>4. \A c \in Clients : \A load \in Range(loads[c]) : load \in Load
  BY RangeTyped DEF TypeOK
<1>5. nextSeq \in Nat /\ base \in Nat /\ nextId \in Nat
  BY DEF TypeOK, Seqs
<1>6. Board \subseteq Stroke /\ \A s \in Board : s.seq \in Nat
  BY DEF TypeOK, Board, Stroke
<1> QED BY <1>1, <1>2, <1>3, <1>4, <1>5, <1>6 DEF Seqs

\* What is on its way stays true, as numbers, marks and canvases grow.
LEMMA TrueStays ==
  ASSUME WInv, TypeOK', Grows, nextSeq <= nextSeq',
         \A s \in Board' : s \in Board \/ s.seq = nextSeq,
         \A c \in Clients : \A request \in Range(toServer'[c]) :
            request \in Range(toServer[c]) \/ RequestTrue(c, request)',
         \A c \in Clients : \A load \in Range(loads'[c]) :
            load \in Range(loads[c]) \/ load.since <= mark'[c],
         \A c \in Clients \ up' : toServer'[c] = <<>>,
         \A c \in Clients : \A event \in Range(toClient'[c]) :
            event \in Range(toClient[c]) \/ EventTrue(c, event)'
  PROVE  RequestsTrue' /\ EventsTrue'
<1> USE DEF WInv
<1>1. TypeOK /\ TypeOK'
  OBVIOUS
<1>2. \A c \in Clients : mark[c] \in Nat /\ mark'[c] \in Nat /\ mark[c] <= mark'[c]
  BY DEF Grows, TypeOK, Seqs
<1>3. \A c \in Clients : \A request \in Range(toServer[c]) : RequestTrue(c, request)'
  <2> SUFFICES ASSUME NEW c \in Clients, NEW request \in Range(toServer[c])
               PROVE  RequestTrue(c, request)'
    OBVIOUS
  <2>1. RequestTrue(c, request) /\ request \in Request
    BY <1>1, Types DEF RequestsTrue
  <2>2. IsAsk(request) => request.since \in Nat
    BY <2>1 DEF Request, IsAsk, Seqs
  <2>3. IsAsk(request) => request.since <= mark'[c]
    BY <1>2, <2>1, <2>2 DEF RequestTrue
  <2>4. IsDraw(request) => request.id \in canvas'[c] \union excused'[c]
    BY <2>1 DEF RequestTrue, Grows
  <2> QED BY <2>3, <2>4 DEF RequestTrue
<1>4. \A c \in Clients : \A load \in Range(loads[c]) : load.since <= mark'[c]
  <2> SUFFICES ASSUME NEW c \in Clients, NEW load \in Range(loads[c])
               PROVE  load.since <= mark'[c]
    OBVIOUS
  <2>1. load.since \in Nat /\ load.since <= mark[c]
    BY <1>1, Types DEF RequestsTrue, Load, Seqs
  <2> QED BY <1>2, <2>1
<1>5. \A c \in Clients : \A event \in Range(toClient[c]) : EventTrue(c, event)'
  <2> SUFFICES ASSUME NEW c \in Clients, NEW event \in Range(toClient[c])
               PROVE  EventTrue(c, event)'
    OBVIOUS
  <2>1. EventTrue(c, event) /\ event.strokes \subseteq Stroke
    BY <1>1, Types DEF EventsTrue, Event
  <2>2. \A m \in event.strokes : m.seq \in Nat
    BY <2>1 DEF Stroke
  <2>3. nextSeq \in Nat /\ nextSeq' \in Nat
    BY <1>1 DEF TypeOK
  <2>4. \A s \in Board' : s.seq \in Nat
    BY <1>1 DEF TypeOK, Board, Stroke
  <2>5. \A m \in event.strokes, s \in Board' : s.seq <= m.seq => s \in Board
    BY <2>1, <2>2, <2>3, <2>4 DEF EventTrue
  <2>6. ASSUME NEW m \in event.strokes
        PROVE  m.seq < nextSeq' /\ \A s \in Board' : s.seq = m.seq => s = m
    BY <2>1, <2>2, <2>3, <2>4, <2>5 DEF EventTrue
  <2>7. event.event = "draw" => \E m \in event.strokes : event.strokes = {m}
    BY <2>1 DEF EventTrue
  <2>8. event.event = "clear" => event.strokes = {}
    BY <2>1 DEF EventTrue
  <2>9. ASSUME event.event = "room-history", NEW m \in event.strokes, NEW s \in Board',
               s.seq <= m.seq
        PROVE  s \in event.strokes \/ Covered(c, s)' \/ s.seq <= mark'[c]
    <3>1. s \in Board
      BY <2>5, <2>9
    <3>2. s \in event.strokes \/ Covered(c, s) \/ s.seq <= mark[c]
      BY <2>1, <2>9, <3>1 DEF EventTrue
    <3>3. Covered(c, s) => Covered(c, s)'
      BY DEF Covered, Grows
    <3>4. s.seq <= mark[c] => s.seq <= mark'[c]
      BY <1>2, <2>4
    <3> QED BY <3>2, <3>3, <3>4
  <2> QED BY <2>6, <2>7, <2>8, <2>9 DEF EventTrue
<1>6. (\A c \in Clients : \A request \in Range(toServer[c]) : RequestTrue(c, request))'
  BY <1>3
<1>7. (\A c \in Clients : \A load \in Range(loads[c]) : load.since <= mark[c])'
  BY <1>4
<1>8. RequestsTrue'
  BY <1>6, <1>7 DEF RequestsTrue
<1> QED BY <1>5, <1>8 DEF EventsTrue

\* A new stroke lies above every mark, so none is skipped while the marks stay.
LEMMA MarksStay ==
  ASSUME WInv, TypeOK', Grows, mark' = mark, ahead \subseteq ahead',
         \A s \in Board' : s \in Board \/ s.seq = nextSeq
  PROVE  MarkCovered'
<1> SUFFICES ASSUME NEW c \in Clients \ ahead', NEW s \in Board', s.seq <= mark'[c]
             PROVE  Covered(c, s)'
  BY DEF MarkCovered
<1>1. mark[c] \in Nat /\ nextSeq \in Nat /\ mark[c] < nextSeq
  BY Types DEF WInv, NumbersBelowNext
<1>2. s \in Board
  BY <1>1
<1>3. Covered(c, s)
  BY <1>2 DEF WInv, MarkCovered
<1> QED BY <1>3 DEF Covered, Grows

\* A member that had what it has not yet on its way still does.
LEMMA ComingStays ==
  ASSUME WInv, Grows,
         \A c \in room' \ (ahead' \union behind') : \A s \in Board' :
            \/ Covered(c, s)' \/ Coming(c, s)'
            \/ /\ c \in room \ (ahead \union behind) /\ s \in Board
               /\ Coming(c, s) => Covered(c, s)' \/ Coming(c, s)'
  PROVE  StrokesComing'
<1> SUFFICES ASSUME NEW c \in room' \ (ahead' \union behind'), NEW s \in Board'
             PROVE  Covered(c, s)' \/ Coming(c, s)'
  BY DEF StrokesComing
<1>1. CASE /\ c \in room \ (ahead \union behind) /\ s \in Board
           /\ Coming(c, s) => Covered(c, s)' \/ Coming(c, s)'
  <2>1. Covered(c, s) \/ Coming(c, s)
    BY <1>1 DEF WInv, StrokesComing
  <2>2. Covered(c, s) => Covered(c, s)'
    BY <1>1 DEF Covered, Grows, WInv, TypeOK
  <2> QED BY <1>1, <2>1, <2>2
<1> QED BY <1>1

\* A step that numbers nothing and moves no mark leaves the numbers in order.
LEMMA NumbersStay ==
  ASSUME WInv, TypeOK', Grows, mark' = mark, ahead \subseteq ahead',
         nextSeq' = nextSeq, base' = base, Board' \subseteq Board
  PROVE  NumbersBelowNext' /\ MarkCovered'
<1>1. NumbersBelowNext'
  BY DEF WInv, NumbersBelowNext
<1> QED BY <1>1, MarksStay

\* A step after which fewer strokes wait asks for none twice.
LEMMA AskedStays ==
  ASSUME WInv, TypeOK', AskedOnce(toServer'), Waiting(toServer') \subseteq Waiting(toServer),
         Cardinality(Waiting(toServer')) <= Cardinality(Waiting(toServer)),
         nextSeq' <= nextSeq, nextId' = nextId
  PROVE  EachAskedOnce'
<1>1. /\ \A id \in Waiting(toServer) : id < nextId
      /\ nextSeq + Cardinality(Waiting(toServer)) <= nextId
  BY DEF WInv, EachAskedOnce
<1>2. /\ Cardinality(Waiting(toServer)) \in Nat /\ Cardinality(Waiting(toServer')) \in Nat
  BY WaitingFinite
<1>3. nextSeq \in Nat /\ nextSeq' \in Nat /\ nextId \in Nat
  BY DEF WInv, TypeOK
<1>4. \A id \in Waiting(toServer') : id < nextId'
  BY <1>1
<1>5. nextSeq' + Cardinality(Waiting(toServer')) <= nextId'
  BY <1>1, <1>2, <1>3
<1> QED BY <1>4, <1>5 DEF EachAskedOnce

-----------------------------------------------------------------------------
(* The user and the connection *)

\* Emit appends to the queue of a connected client, and does nothing else.
LEMMA EmitFacts ==
  ASSUME WInv, NEW c \in Clients, NEW request \in Request, Emit(c, request)
  PROVE  /\ toServer' \in [Clients -> Seq(Request)]
         /\ \A d \in Clients : Range(toServer[d]) \subseteq Range(toServer'[d])
         /\ \A d \in Clients : \A r \in Range(toServer'[d]) :
               r \in Range(toServer[d]) \/ (d = c /\ r = request)
         /\ \A d \in Clients \ up : toServer'[d] = <<>>
         /\ c \in up => request \in Range(toServer'[c])
<1>1. toServer \in [Clients -> Seq(Request)] /\ \A d \in Clients \ up : toServer[d] = <<>>
  BY DEF WInv, TypeOK, RequestsTrue
<1>2. CASE c \in up
  <2>1. toServer' = [toServer EXCEPT ![c] = Append(@, request)]
    BY <1>2 DEF Emit
  <2> QED BY <1>1, <1>2, <2>1, PushQueue
<1>3. CASE c \notin up
  BY <1>1, <1>3 DEF Emit
<1> QED BY <1>2, <1>3

\* A request that is no draw leaves those that wait as they are.
LEMMA EmitOther ==
  ASSUME WInv, TypeOK', NEW c \in Clients, NEW request \in Request, ~IsDraw(request),
         Emit(c, request), nextSeq' = nextSeq, nextId' = nextId
  PROVE  EachAskedOnce'
<1>1. toServer \in [Clients -> Seq(Request)] /\ AskedOnce(toServer)
  BY DEF WInv, TypeOK, EachAskedOnce
<1>2. nextSeq \in Nat
  BY Types DEF WInv
<1>3. CASE c \in up
  <2>1. toServer' = [toServer EXCEPT ![c] = Append(@, request)]
    BY <1>3 DEF Emit
  <2>2. /\ AskedOnce(toServer') /\ Waiting(toServer') \subseteq Waiting(toServer)
        /\ Cardinality(Waiting(toServer')) <= Cardinality(Waiting(toServer))
    BY <1>1, <2>1, PushOther
  <2> QED BY <1>2, <2>2, AskedStays
<1>4. CASE c \notin up
  <2>1. toServer' = toServer
    BY <1>4 DEF Emit
  <2>2. Cardinality(Waiting(toServer)) \in Nat
    BY WaitingFinite
  <2>3. Cardinality(Waiting(toServer')) <= Cardinality(Waiting(toServer))
    BY <2>1, <2>2
  <2> QED BY <1>1, <1>2, <2>1, <2>3, AskedStays
<1> QED BY <1>3, <1>4

\* A client that connects asks for a history from its mark.
LEMMA ConnectStep ==
  ASSUME WInv, NEW c \in Clients, Connect(c)
  PROVE  WInv'
<1> DEFINE ask == [event |-> "join-room", since |-> mark[c]]
<1>1. /\ c \notin up /\ up' = up \union {c} /\ toServer' = [toServer EXCEPT ![c] = <<ask>>]
      /\ mark' = mark /\ canvas' = canvas /\ toClient' = toClient /\ room' = room
      /\ loads' = loads /\ nextSeq' = nextSeq /\ buffered' = buffered /\ stored' = stored
      /\ base' = base /\ excused' = excused /\ behind' = behind /\ ahead' = ahead
      /\ nextId' = nextId /\ trouble' = trouble
  BY DEF Connect, boardVars, pastVars
<1>2. TypeOK
  BY DEF WInv
<1>3. ask \in Request /\ IsAsk(ask) /\ ~IsDraw(ask) /\ ask.since = mark[c]
  BY <1>2 DEF TypeOK, Request, IsAsk, IsDraw
<1> HIDE DEF ask
<1>4. toServer' \in [Clients -> Seq(Request)]
  BY <1>1, <1>2, <1>3 DEF TypeOK
<1>5. TypeOK'
  BY <1>1, <1>2, <1>4 DEF TypeOK
<1>6. Board' = Board
  BY <1>1 DEF Board
<1>7. \A d \in Clients : mark[d] \in Nat
  BY <1>2, Types
<1>8. Grows
  BY <1>1, <1>7 DEF Grows
<1>9. /\ toServer'[c] = <<ask>> /\ \A d \in Clients \ {c} : toServer'[d] = toServer[d]
      /\ DOMAIN <<ask>> = {1} /\ Range(<<ask>>) = {ask}
  <2>1. toServer'[c] = <<ask>> /\ \A d \in Clients \ {c} : toServer'[d] = toServer[d]
    BY <1>1, <1>2 DEF TypeOK
  <2>2. DOMAIN <<ask>> = {1} /\ <<ask>>[1] = ask
    OBVIOUS
  <2> QED BY <2>1, <2>2 DEF Range
<1>10. EachAskedOnce'
  <2>1. \A d \in Clients : \A r \in Range(toServer'[d]) : IsDraw(r) => r \in Range(toServer[d])
    BY <1>3, <1>9
  <2>2. \A d \in Clients : \A i \in DOMAIN toServer'[d] : IsDraw(toServer'[d][i]) =>
          d # c /\ toServer'[d] = toServer[d]
    BY <1>3, <1>9
  <2>3. AskedOnce(toServer)
    BY DEF WInv, EachAskedOnce
  <2>4. AskedOnce(toServer')
    BY <2>2, <2>3 DEF AskedOnce
  <2>5. nextSeq' <= nextSeq
    BY <1>1, <1>2, Types
  <2> QED BY <1>1, <1>5, <2>1, <2>4, <2>5, WaitingFewer, AskedStays
<1>11. RequestsTrue' /\ EventsTrue'
  <2>1. \A d \in Clients : \A r \in Range(toServer'[d]) :
          r \in Range(toServer[d]) \/ RequestTrue(d, r)'
    BY <1>1, <1>3, <1>7, <1>9 DEF RequestTrue
  <2>2. \A d \in Clients \ up' : toServer'[d] = <<>>
    BY <1>1, <1>9 DEF WInv, RequestsTrue
  <2>3. nextSeq <= nextSeq'
    BY <1>1, <1>2, Types
  <2> QED BY <1>1, <1>5, <1>6, <1>8, <2>1, <2>2, <2>3, TrueStays
<1>12. NumbersBelowNext' /\ MarkCovered'
  BY <1>1, <1>5, <1>6, <1>8, NumbersStay
<1>13. StrokesComing'
  <2>1. \A d \in room : d # c
    BY <1>1, <1>2 DEF TypeOK
  <2>2. \A d \in room : d \in Clients
    BY <1>2 DEF TypeOK
  <2>3. \A d \in room : \A s : Coming(d, s) => Coming(d, s)'
    BY <1>1, <1>9, <2>1, <2>2 DEF Coming
  <2> QED BY <1>1, <1>6, <1>8, <2>3, ComingStays
<1> QED BY <1>5, <1>10, <1>11, <1>12, <1>13 DEF WInv

\* A stroke drawn is on its author's canvas before the request is on its way.
LEMMA DrawLocalStep ==
  ASSUME WInv, NEW c \in Clients, DrawLocal(c)
  PROVE  WInv'
<1> DEFINE request == [event |-> "draw", id |-> nextId]
<1>1. /\ nextId <= MaxStrokes /\ nextId' = nextId + 1 /\ Emit(c, request)
      /\ canvas' = [canvas EXCEPT ![c] = @ \union {nextId}]
      /\ up' = up /\ mark' = mark /\ toClient' = toClient /\ room' = room
      /\ loads' = loads /\ nextSeq' = nextSeq /\ buffered' = buffered /\ stored' = stored
      /\ base' = base /\ excused' = excused /\ behind' = behind /\ ahead' = ahead
      /\ trouble' = trouble
  BY DEF DrawLocal, boardVars, pastVars
<1>2. TypeOK
  BY DEF WInv
<1>3. nextId \in Ids /\ nextId \in Nat
  BY <1>1, <1>2 DEF TypeOK, Ids
<1>4. request \in Request /\ ~IsAsk(request) /\ IsDraw(request) /\ request.id = nextId
  BY <1>3 DEF Request, IsAsk, IsDraw
<1> HIDE DEF request
<1>5. /\ toServer' \in [Clients -> Seq(Request)]
      /\ \A d \in Clients : Range(toServer[d]) \subseteq Range(toServer'[d])
      /\ \A d \in Clients : \A r \in Range(toServer'[d]) :
            r \in Range(toServer[d]) \/ (d = c /\ r = request)
      /\ \A d \in Clients \ up : toServer'[d] = <<>>
  BY <1>1, <1>4, EmitFacts
<1>6. canvas' \in [Clients -> SUBSET Ids] /\ nextId' \in 1..MaxStrokes + 1
  BY <1>1, <1>2, <1>3 DEF TypeOK
<1>7. TypeOK'
  BY <1>1, <1>2, <1>5, <1>6 DEF TypeOK
<1>8. Board' = Board /\ nextSeq <= nextSeq' /\ nextSeq \in Nat
  BY <1>1, <1>2, Types DEF Board
<1>9. \A d \in Clients : mark[d] \in Nat
  BY <1>2, Types
<1>10. \A d \in Clients : canvas[d] \subseteq canvas'[d]
  BY <1>1, <1>2 DEF TypeOK
<1>11. Grows
  BY <1>1, <1>9, <1>10 DEF Grows
<1>12. EachAskedOnce'
  <2>1. /\ AskedOnce(toServer) /\ \A id \in Waiting(toServer) : id < nextId
        /\ nextSeq + Cardinality(Waiting(toServer)) <= nextId
    BY DEF WInv, EachAskedOnce
  <2>2. /\ IsFiniteSet(Waiting(toServer)) /\ Cardinality(Waiting(toServer)) \in Nat
        /\ Waiting(toServer) \subseteq Ids
    BY WaitingFinite
  <2>3. nextId \notin Waiting(toServer)
    BY <1>3, <2>1
  <2>4. CASE c \in up
    <3>1. toServer' = [toServer EXCEPT ![c] = Append(@, [event |-> "draw", id |-> nextId])]
      BY <1>1, <2>4 DEF Emit, request
    <3>2. toServer \in [Clients -> Seq(Request)]
      BY <1>2 DEF TypeOK
    <3>3. AskedOnce(toServer') /\ Waiting(toServer') = Waiting(toServer) \union {nextId}
      BY <1>3, <2>1, <2>3, <3>1, <3>2, PushDraw
    <3>4. Cardinality(Waiting(toServer')) = Cardinality(Waiting(toServer)) + 1
      BY <2>2, <2>3, <3>3, FS_AddElement
    <3>5. \A id \in Waiting(toServer') : id < nextId'
      BY <1>1, <1>3, <2>1, <2>2, <3>3 DEF Ids
    <3>6. nextSeq' + Cardinality(Waiting(toServer')) <= nextId'
      BY <1>1, <1>3, <1>8, <2>1, <2>2, <3>4
    <3> QED BY <3>3, <3>5, <3>6 DEF EachAskedOnce
  <2>5. CASE c \notin up
    <3>1. toServer' = toServer
      BY <1>1, <2>5 DEF Emit
    <3>2. \A id \in Waiting(toServer) : id < nextId'
      BY <1>1, <1>3, <2>1, <2>2 DEF Ids
    <3>3. nextSeq' + Cardinality(Waiting(toServer)) <= nextId'
      BY <1>1, <1>3, <1>8, <2>1, <2>2
    <3> QED BY <2>1, <3>1, <3>2, <3>3 DEF EachAskedOnce
  <2> QED BY <2>4, <2>5
<1>13. RequestsTrue' /\ EventsTrue'
  <2>1. nextId \in canvas'[c]
    BY <1>1, <1>2 DEF TypeOK
  <2>2. \A d \in Clients : \A r \in Range(toServer'[d]) :
          r \in Range(toServer[d]) \/ RequestTrue(d, r)'
    BY <1>4, <1>5, <2>1 DEF RequestTrue
  <2> QED BY <1>1, <1>5, <1>7, <1>8, <1>11, <2>2, TrueStays
<1>14. NumbersBelowNext' /\ MarkCovered'
  BY <1>1, <1>7, <1>8, <1>11, NumbersStay
<1>15. StrokesComing'
  <2>1. \A d \in room : d \in Clients
    BY <1>2 DEF TypeOK
  <2>2. \A d \in room : \A s : Coming(d, s) => Coming(d, s)'
    BY <1>1, <1>5, <2>1 DEF Coming
  <2> QED BY <1>1, <1>8, <1>11, <2>2, ComingStays
<1> QED BY <1>7, <1>12, <1>13, <1>14, <1>15 DEF WInv

\* Clearing a canvas excuses what was on it.
LEMMA ClearFacts ==
  ASSUME TypeOK, NEW c \in Clients, Clear(c), mark' = mark
  PROVE  /\ canvas' \in [Clients -> SUBSET Ids] /\ excused' \in [Clients -> SUBSET Ids]
         /\ Grows
<1>1. /\ canvas' = [canvas EXCEPT ![c] = {}]
      /\ excused' = [excused EXCEPT ![c] = @ \union canvas[c]]
  BY DEF Clear
<1>2. canvas \in [Clients -> SUBSET Ids] /\ excused \in [Clients -> SUBSET Ids]
  BY DEF TypeOK
<1>3. canvas' \in [Clients -> SUBSET Ids] /\ excused' \in [Clients -> SUBSET Ids]
  BY <1>1, <1>2
<1>4. \A d \in Clients : canvas[d] \union excused[d] \subseteq canvas'[d] \union excused'[d]
  BY <1>1, <1>2
<1>5. \A d \in Clients : mark[d] \in Nat
  BY Types
<1> QED BY <1>3, <1>4, <1>5 DEF Grows

\* A clear takes nothing that its canvas did not have.
LEMMA HandleClearStep ==
  ASSUME WInv, NEW c \in Clients, HandleClear(c)
  PROVE  WInv'
<1> DEFINE request == [event |-> "clear"]
<1>1. /\ trouble < MaxTrouble /\ trouble' = trouble + 1 /\ Clear(c) /\ Emit(c, request)
      /\ up' = up /\ mark' = mark /\ toClient' = toClient /\ room' = room
      /\ loads' = loads /\ nextSeq' = nextSeq /\ buffered' = buffered /\ stored' = stored
      /\ base' = base /\ behind' = behind /\ ahead' = ahead /\ nextId' = nextId
  BY DEF HandleClear, Trouble, boardVars
<1>2. TypeOK
  BY DEF WInv
<1>3. request \in Request /\ ~IsAsk(request) /\ ~IsDraw(request)
  BY DEF Request, IsAsk, IsDraw
<1> HIDE DEF request
<1>4. /\ toServer' \in [Clients -> Seq(Request)]
      /\ \A d \in Clients : Range(toServer[d]) \subseteq Range(toServer'[d])
      /\ \A d \in Clients : \A r \in Range(toServer'[d]) :
            r \in Range(toServer[d]) \/ (d = c /\ r = request)
      /\ \A d \in Clients \ up : toServer'[d] = <<>>
  BY <1>1, <1>3, EmitFacts
<1>5. /\ canvas' \in [Clients -> SUBSET Ids] /\ excused' \in [Clients -> SUBSET Ids] /\ Grows
  BY <1>1, <1>2, ClearFacts
<1>6. trouble' \in 0..MaxTrouble
  BY <1>1, <1>2 DEF TypeOK
<1>7. TypeOK'
  BY <1>1, <1>2, <1>4, <1>5, <1>6 DEF TypeOK
<1>8. Board' = Board /\ nextSeq <= nextSeq'
  BY <1>1, <1>2, Types DEF Board
<1>9. EachAskedOnce'
  BY <1>1, <1>3, <1>7, EmitOther
<1>10. RequestsTrue' /\ EventsTrue'
  <2>1. \A d \in Clients : \A r \in Range(toServer'[d]) :
          r \in Range(toServer[d]) \/ RequestTrue(d, r)'
    BY <1>3, <1>4 DEF RequestTrue
  <2> QED BY <1>1, <1>4, <1>5, <1>7, <1>8, <2>1, TrueStays
<1>11. NumbersBelowNext' /\ MarkCovered'
  BY <1>1, <1>5, <1>7, <1>8, NumbersStay
<1>12. StrokesComing'
  <2>1. \A d \in room : d \in Clients
    BY <1>2 DEF TypeOK
  <2>2. \A d \in room : \A s : Coming(d, s) => Coming(d, s)'
    BY <1>1, <1>4, <2>1 DEF Coming
  <2> QED BY <1>1, <1>5, <1>8, <2>2, ComingStays
<1> QED BY <1>7, <1>9, <1>10, <1>11, <1>12 DEF WInv

\* With a connection go its messages, and the membership.
LEMMA DisconnectStep ==
  ASSUME WInv, NEW c \in Clients, Disconnect(c)
  PROVE  WInv'
<1>1. /\ trouble < MaxTrouble /\ trouble' = trouble + 1
      /\ up' = up \ {c} /\ room' = room \ {c}
      /\ toServer' = [toServer EXCEPT ![c] = <<>>]
      /\ toClient' = [toClient EXCEPT ![c] = <<>>]
      /\ loads' = [loads EXCEPT ![c] = <<>>]
      /\ mark' = mark /\ canvas' = canvas
      /\ nextSeq' = nextSeq /\ buffered' = buffered /\ stored' = stored
      /\ base' = base /\ excused' = excused /\ behind' = behind /\ ahead' = ahead
      /\ nextId' = nextId
  BY DEF Disconnect, Trouble, boardVars, pastVars
<1>2. TypeOK
  BY DEF WInv
<1>3. trouble' \in 0..MaxTrouble
  BY <1>1, <1>2 DEF TypeOK
<1>4. /\ toServer' \in [Clients -> Seq(Request)] /\ toClient' \in [Clients -> Seq(Event)]
      /\ loads' \in [Clients -> Seq(Load)]
  BY <1>1, <1>2 DEF TypeOK
<1>5. TypeOK'
  BY <1>1, <1>2, <1>3, <1>4 DEF TypeOK
<1>6. Board' = Board /\ nextSeq <= nextSeq'
  BY <1>1, <1>2, Types DEF Board
<1>7. Grows
  BY <1>1, <1>2, Types DEF Grows
<1>8. /\ toServer'[c] = <<>> /\ toClient'[c] = <<>> /\ loads'[c] = <<>>
      /\ \A d \in Clients \ {c} :
            /\ toServer'[d] = toServer[d] /\ toClient'[d] = toClient[d] /\ loads'[d] = loads[d]
  BY <1>1, <1>2 DEF TypeOK
<1>9. DOMAIN <<>> = {} /\ Range(<<>>) = {}
  BY DEF Range
<1>10. EachAskedOnce'
  <2>1. \A d \in Clients : \A r \in Range(toServer'[d]) : IsDraw(r) => r \in Range(toServer[d])
    BY <1>8, <1>9
  <2>2. \A d \in Clients : \A i \in DOMAIN toServer'[d] : toServer'[d] = toServer[d]
    BY <1>8, <1>9
  <2>3. AskedOnce(toServer)
    BY DEF WInv, EachAskedOnce
  <2>4. AskedOnce(toServer')
    BY <2>2, <2>3 DEF AskedOnce
  <2>5. nextSeq' <= nextSeq
    BY <1>1, <1>2, Types
  <2> QED BY <1>1, <1>5, <2>1, <2>4, <2>5, WaitingFewer, AskedStays
<1>11. RequestsTrue' /\ EventsTrue'
  <2>1. \A d \in Clients \ up' : toServer'[d] = <<>>
    BY <1>1, <1>8 DEF WInv, RequestsTrue
  <2> QED BY <1>5, <1>6, <1>7, <1>8, <1>9, <2>1, TrueStays
<1>12. NumbersBelowNext' /\ MarkCovered'
  BY <1>1, <1>5, <1>6, <1>7, NumbersStay
<1>13. StrokesComing'
  <2>1. \A d \in room' : d \in room /\ d \in Clients \ {c}
    BY <1>1, <1>2 DEF TypeOK
  <2>2. \A d \in room' : \A s : Coming(d, s) => Coming(d, s)'
    BY <1>8, <2>1 DEF Coming
  <2> QED BY <1>1, <1>6, <1>7, <2>1, <2>2, ComingStays
<1> QED BY <1>5, <1>10, <1>11, <1>12, <1>13 DEF WInv

-----------------------------------------------------------------------------
(* The handlers of the server *)

\* A handler takes the first request of a connected client.
LEMMA HeardFacts ==
  ASSUME WInv, NEW c \in Clients, NEW event, Heard(c, event)
  PROVE  /\ toServer' \in [Clients -> Seq(Request)]
         /\ Head(toServer[c]) \in Request /\ Head(toServer[c]).event = event
         /\ RequestTrue(c, Head(toServer[c])) /\ c \in up
         /\ \A d \in Clients : Range(toServer'[d]) \subseteq Range(toServer[d])
         /\ \A d \in Clients : \A r \in Range(toServer[d]) :
               r \in Range(toServer'[d]) \/ (d = c /\ r = Head(toServer[c]))
         /\ \A d \in Clients \ up : toServer'[d] = <<>>
         /\ AskedOnce(toServer') /\ Waiting(toServer') \subseteq Waiting(toServer)
         /\ Cardinality(Waiting(toServer')) <= Cardinality(Waiting(toServer))
         /\ event = "draw" =>
              /\ Head(toServer[c]).id \in Waiting(toServer)
              /\ Cardinality(Waiting(toServer')) = Cardinality(Waiting(toServer)) - 1
<1>1. /\ toServer[c] # <<>> /\ Head(toServer[c]).event = event
      /\ toServer' = [toServer EXCEPT ![c] = Tail(@)]
  BY DEF Heard
<1>2. /\ toServer \in [Clients -> Seq(Request)] /\ AskedOnce(toServer)
      /\ \A d \in Clients \ up : toServer[d] = <<>>
  BY DEF WInv, TypeOK, EachAskedOnce, RequestsTrue
<1>3. /\ toServer' \in [Clients -> Seq(Request)]
      /\ Head(toServer[c]) \in Request /\ Head(toServer[c]) \in Range(toServer[c])
      /\ \A d \in Clients \ {c} : toServer'[d] = toServer[d]
      /\ \A d \in Clients : Range(toServer'[d]) \subseteq Range(toServer[d])
      /\ \A d \in Clients : \A r \in Range(toServer[d]) :
            r \in Range(toServer'[d]) \/ (d = c /\ r = Head(toServer[c]))
  BY <1>1, <1>2, PopQueue
<1>4. RequestTrue(c, Head(toServer[c])) /\ c \in up
  BY <1>1, <1>2, <1>3 DEF WInv, RequestsTrue
<1>5. \A d \in Clients \ up : toServer'[d] = <<>>
  BY <1>2, <1>3, <1>4
<1>6. /\ AskedOnce(toServer') /\ Waiting(toServer') \subseteq Waiting(toServer)
      /\ Cardinality(Waiting(toServer')) <= Cardinality(Waiting(toServer))
      /\ IsDraw(Head(toServer[c])) =>
           /\ Head(toServer[c]).id \in Waiting(toServer)
           /\ Cardinality(Waiting(toServer')) = Cardinality(Waiting(toServer)) - 1
  BY <1>1, <1>2, PopRequest
<1>7. event = "draw" => IsDraw(Head(toServer[c]))
  BY <1>1 DEF IsDraw
<1> QED BY <1>1, <1>3, <1>4, <1>5, <1>6, <1>7

\* A broadcast appends one event to the queue of each member.
LEMMA BroadcastFacts ==
  ASSUME TypeOK, NEW members \in SUBSET Clients, NEW event \in Event, Broadcast(members, event)
  PROVE  /\ toClient' \in [Clients -> Seq(Event)]
         /\ \A d \in Clients : Range(toClient[d]) \subseteq Range(toClient'[d])
         /\ \A d \in Clients : \A e \in Range(toClient'[d]) :
               e \in Range(toClient[d]) \/ (d \in members /\ e = event)
         /\ \A d \in members : event \in Range(toClient'[d])
<1>1. /\ toClient \in [Clients -> Seq(Event)]
      /\ toClient' = [d \in Clients |-> IF d \in members THEN Append(toClient[d], event)
                                                         ELSE toClient[d]]
  BY DEF TypeOK, Broadcast
<1>2. ASSUME NEW d \in Clients
      PROVE  /\ toClient'[d] \in Seq(Event)
             /\ Range(toClient[d]) \subseteq Range(toClient'[d])
             /\ \A e \in Range(toClient'[d]) :
                   e \in Range(toClient[d]) \/ (d \in members /\ e = event)
             /\ d \in members => event \in Range(toClient'[d])
  <2>1. CASE d \in members
    <3>1. toClient[d] \in Seq(Event) /\ toClient'[d] = Append(toClient[d], event)
      BY <1>1, <2>1
    <3> QED BY <2>1, <3>1, AppendRange
  <2>2. CASE d \notin members
    BY <1>1, <2>2
  <2> QED BY <2>1, <2>2
<1>3. toClient' \in [Clients -> Seq(Event)]
  <2>1. DOMAIN toClient' = Clients /\ toClient' = [d \in Clients |-> toClient'[d]]
    BY <1>1
  <2> QED BY <1>2, <2>1
<1> QED BY <1>2, <1>3

\* A handler of a request for a history puts a load of its own in its place.
LEMMA AskHeard ==
  ASSUME WInv, NEW c \in Clients, NEW event \in {"join-room", "request-resync"},
         Heard(c, event), NEW handler \in {"join", "resync"},
         loads' = [loads EXCEPT ![c] =
                     Append(@, [handler |-> handler, since |-> Head(toServer[c]).since])],
         room' \in {room, room \union {c}},
         UNCHANGED <<clientVars, toClient, boardVars, pastVars, nextId, trouble>>
  PROVE  WInv'
<1> DEFINE load == [handler |-> handler, since |-> Head(toServer[c]).since]
<1>1. /\ up' = up /\ mark' = mark /\ canvas' = canvas /\ toClient' = toClient
      /\ nextSeq' = nextSeq /\ buffered' = buffered /\ stored' = stored
      /\ base' = base /\ excused' = excused /\ behind' = behind /\ ahead' = ahead
      /\ nextId' = nextId /\ trouble' = trouble
  BY DEF clientVars, boardVars, pastVars
<1>2. TypeOK
  BY DEF WInv
<1>3. /\ toServer' \in [Clients -> Seq(Request)]
      /\ Head(toServer[c]) \in Request /\ Head(toServer[c]).event = event
      /\ RequestTrue(c, Head(toServer[c])) /\ c \in up
      /\ \A d \in Clients : Range(toServer'[d]) \subseteq Range(toServer[d])
      /\ \A d \in Clients : \A r \in Range(toServer[d]) :
            r \in Range(toServer'[d]) \/ (d = c /\ r = Head(toServer[c]))
      /\ \A d \in Clients \ up : toServer'[d] = <<>>
      /\ AskedOnce(toServer') /\ Waiting(toServer') \subseteq Waiting(toServer)
      /\ Cardinality(Waiting(toServer')) <= Cardinality(Waiting(toServer))
  BY HeardFacts
<1>4. Head(toServer[c]).since \in Seqs /\ Head(toServer[c]).since <= mark[c]
  BY <1>3 DEF Request, RequestTrue, IsAsk
<1>5. load \in Load /\ load.since <= mark[c]
  BY <1>4 DEF Load
<1>6. loads' = [loads EXCEPT ![c] = Append(@, load)] /\ loads \in [Clients -> Seq(Load)]
  BY <1>2 DEF TypeOK
<1> HIDE DEF load
<1>7. /\ loads' \in [Clients -> Seq(Load)]
      /\ loads'[c] # <<>> /\ \A d \in Clients \ {c} : loads'[d] = loads[d]
      /\ \A d \in Clients : \A y \in Range(loads'[d]) :
            y \in Range(loads[d]) \/ (d = c /\ y = load)
  <2>1. /\ loads[c] \in Seq(Load) /\ loads'[c] = Append(loads[c], load)
        /\ \A d \in Clients \ {c} : loads'[d] = loads[d]
    BY <1>6
  <2>2. /\ Append(loads[c], load) \in Seq(Load) /\ Append(loads[c], load) # <<>>
        /\ \A y \in Range(Append(loads[c], load)) : y \in Range(loads[c]) \/ y = load
    BY <1>5, <2>1, AppendRange
  <2>3. loads' \in [Clients -> Seq(Load)]
    BY <1>6, <2>2
  <2> QED BY <2>1, <2>2, <2>3
<1>8. room' \subseteq up'
  BY <1>1, <1>2, <1>3 DEF TypeOK
<1>9. TypeOK'
  BY <1>1, <1>2, <1>3, <1>7, <1>8 DEF TypeOK
<1>10. Board' = Board /\ nextSeq <= nextSeq' /\ nextSeq' <= nextSeq
  BY <1>1, <1>2, Types DEF Board
<1>11. Grows
  BY <1>1, <1>2, Types DEF Grows
<1>12. EachAskedOnce'
  BY <1>1, <1>3, <1>9, <1>10, AskedStays
<1>13. RequestsTrue' /\ EventsTrue'
  <2>1. \A d \in Clients : \A y \in Range(loads'[d]) :
          y \in Range(loads[d]) \/ y.since <= mark'[d]
    BY <1>1, <1>5, <1>7
  <2> QED BY <1>1, <1>3, <1>9, <1>10, <1>11, <2>1, TrueStays
<1>14. NumbersBelowNext' /\ MarkCovered'
  BY <1>1, <1>9, <1>10, <1>11, NumbersStay
<1>15. StrokesComing'
  <2>1. \A d \in room' : d \in Clients
    BY <1>8, <1>9 DEF TypeOK
  <2>2. \A s : Coming(c, s)'
    BY <1>7 DEF Coming
  <2>3. \A d \in Clients \ {c} : \A s : Coming(d, s) => Coming(d, s)'
    BY <1>1, <1>3, <1>7 DEF Coming
  <2>4. \A d \in room' : d = c \/ d \in room
    OBVIOUS
  <2> QED BY <1>1, <1>10, <1>11, <2>1, <2>2, <2>3, <2>4, ComingStays
<1> QED BY <1>9, <1>12, <1>13, <1>14, <1>15 DEF WInv

\* join-room and request-resync.
LEMMA JoinRoomStep ==
  ASSUME WInv, NEW c \in Clients, JoinRoom(c)
  PROVE  WInv'
<1>1. /\ Heard(c, "join-room") /\ room' \in {room, room \union {c}}
      /\ loads' = [loads EXCEPT ![c] =
                     Append(@, [handler |-> "join", since |-> Head(toServer[c]).since])]
      /\ UNCHANGED <<clientVars, toClient, boardVars, pastVars, nextId, trouble>>
  BY DEF JoinRoom
<1> QED BY <1>1, AskHeard

LEMMA RequestResyncStep ==
  ASSUME WInv, NEW c \in Clients, RequestResync(c)
  PROVE  WInv'
<1>1. /\ Heard(c, "request-resync") /\ room' \in {room, room \union {c}}
      /\ loads' = [loads EXCEPT ![c] =
                     Append(@, [handler |-> "resync", since |-> Head(toServer[c]).since])]
      /\ UNCHANGED <<clientVars, toClient, boardVars, pastVars, nextId, trouble>>
  BY DEF RequestResync
<1> QED BY <1>1, AskHeard

\* A stroke numbered and broadcast: its author has it, the other members are sent it.
LEMMA DrawStep ==
  ASSUME WInv, NEW c \in Clients, Draw(c)
  PROVE  WInv'
<1>1. PICK stroke : stroke = [seq |-> nextSeq, id |-> Head(toServer[c]).id]
  OBVIOUS
<1>2. PICK event : event = [event |-> "draw", strokes |-> {stroke}]
  OBVIOUS
<1>3. /\ Heard(c, "draw") /\ buffered' = buffered \union {stroke}
      /\ Broadcast(room \ {c}, event) /\ nextSeq' = nextSeq + 1
      /\ up' = up /\ mark' = mark /\ canvas' = canvas /\ room' = room /\ loads' = loads
      /\ stored' = stored /\ base' = base /\ excused' = excused /\ behind' = behind
      /\ ahead' = ahead /\ nextId' = nextId /\ trouble' = trouble
  BY <1>1, <1>2 DEF Draw, clientVars, pastVars
<1>4. TypeOK /\ nextSeq \in Nat /\ nextSeq >= 1 /\ nextId \in Nat /\ nextId <= MaxStrokes + 1
  BY DEF WInv, TypeOK
<1>5. /\ toServer' \in [Clients -> Seq(Request)]
      /\ Head(toServer[c]) \in Request /\ Head(toServer[c]).event = "draw"
      /\ RequestTrue(c, Head(toServer[c]))
      /\ \A d \in Clients : Range(toServer'[d]) \subseteq Range(toServer[d])
      /\ \A d \in Clients : \A r \in Range(toServer[d]) :
            r \in Range(toServer'[d]) \/ (d = c /\ r = Head(toServer[c]))
      /\ \A d \in Clients \ up : toServer'[d] = <<>>
      /\ AskedOnce(toServer') /\ Waiting(toServer') \subseteq Waiting(toServer)
      /\ Cardinality(Waiting(toServer')) = Cardinality(Waiting(toServer)) - 1
  BY <1>3, HeardFacts
<1>6. /\ \A id \in Waiting(toServer) : id < nextId
      /\ nextSeq + Cardinality(Waiting(toServer)) <= nextId
      /\ Cardinality(Waiting(toServer)) \in Nat /\ Cardinality(Waiting(toServer')) \in Nat
  BY WaitingFinite DEF WInv, EachAskedOnce
<1>7. nextSeq \in 1..MaxStrokes
  BY <1>4, <1>5, <1>6
<1>8. stroke \in Stroke /\ stroke.seq = nextSeq /\ stroke.id \in canvas[c] \union excused[c]
  BY <1>1, <1>5, <1>7 DEF Request, Stroke, RequestTrue, IsDraw
<1>9. event \in Event /\ event.event = "draw" /\ event.strokes = {stroke}
  BY <1>2, <1>8 DEF Event
<1>10. room \ {c} \in SUBSET Clients
  BY <1>4 DEF TypeOK
<1>11. /\ toClient' \in [Clients -> Seq(Event)]
       /\ \A d \in Clients : Range(toClient[d]) \subseteq Range(toClient'[d])
       /\ \A d \in Clients : \A e \in Range(toClient'[d]) :
             e \in Range(toClient[d]) \/ (d \in room \ {c} /\ e = event)
       /\ \A d \in room \ {c} : event \in Range(toClient'[d])
  BY <1>3, <1>4, <1>9, <1>10, BroadcastFacts
<1>12. buffered' \subseteq Stroke /\ nextSeq' \in 1..MaxStrokes + 1
  BY <1>3, <1>4, <1>7, <1>8 DEF TypeOK
<1>13. TypeOK'
  BY <1>3, <1>4, <1>5, <1>11, <1>12 DEF TypeOK
<1>14. /\ Board' = Board \union {stroke} /\ nextSeq <= nextSeq'
       /\ \A s \in Board : s.seq \in Nat /\ s.seq < nextSeq
  BY <1>3, <1>4, Types DEF Board, WInv, NumbersBelowNext
<1>15. Grows
  BY <1>3, <1>4, Types DEF Grows
<1>16. NumbersBelowNext'
  <2>1. base' < nextSeq'
    BY <1>3, <1>4, Types DEF WInv, NumbersBelowNext
  <2>2. \A s \in Board' : s.seq < nextSeq'
    BY <1>3, <1>4, <1>8, <1>14
  <2>3. \A s, t \in Board' : s.seq = t.seq => s = t
    BY <1>4, <1>8, <1>14 DEF WInv, NumbersBelowNext
  <2>4. \A d \in Clients \ ahead' : mark'[d] < nextSeq'
    BY <1>3, <1>4, Types DEF WInv, NumbersBelowNext
  <2> QED BY <2>1, <2>2, <2>3, <2>4 DEF NumbersBelowNext
<1>17. EachAskedOnce'
  <2>1. \A id \in Waiting(toServer') : id < nextId'
    BY <1>3, <1>5, <1>6
  <2>2. nextSeq' + Cardinality(Waiting(toServer')) <= nextId'
    BY <1>3, <1>4, <1>5, <1>6
  <2> QED BY <1>5, <2>1, <2>2 DEF EachAskedOnce
<1>18. RequestsTrue' /\ EventsTrue'
  <2>1. \A s \in Board' : s.seq = stroke.seq => s = stroke
    BY <1>4, <1>8, <1>14
  <2>2. \A m \in event.strokes :
          m.seq < nextSeq' /\ \A s \in Board' : s.seq = m.seq => s = m
    BY <1>3, <1>4, <1>8, <1>9, <2>1
  <2>3. /\ \E m \in event.strokes : event.strokes = {m}
        /\ event.event # "clear" /\ event.event # "room-history"
    BY <1>9
  <2>4. \A d \in Clients : EventTrue(d, event)'
    BY <2>2, <2>3 DEF EventTrue
  <2>5. \A s \in Board' : s \in Board \/ s.seq = nextSeq
    BY <1>8, <1>14
  <2>6. \A d \in Clients : \A load \in Range(loads'[d]) : load \in Range(loads[d])
    BY <1>3
  <2>7. \A d \in Clients : \A e \in Range(toClient'[d]) :
          e \in Range(toClient[d]) \/ EventTrue(d, e)'
    BY <1>11, <2>4
  <2>8. \A d \in Clients \ up' : toServer'[d] = <<>>
    BY <1>3, <1>5
  <2>9. \A d \in Clients : \A r \in Range(toServer'[d]) : r \in Range(toServer[d])
    BY <1>5
  <2> QED BY <1>13, <1>14, <1>15, <2>5, <2>6, <2>7, <2>8, <2>9, TrueStays
<1>19. MarkCovered'
  <2>1. \A s \in Board' : s \in Board \/ s.seq = nextSeq
    BY <1>8, <1>14
  <2>2. ahead \subseteq ahead' /\ mark' = mark
    BY <1>3
  <2> QED BY <1>13, <1>15, <2>1, <2>2, MarksStay
<1>20. StrokesComing'
  <2>1. \A d \in room : d \in Clients
    BY <1>4 DEF TypeOK
  <2>2. Covered(c, stroke)'
    BY <1>3, <1>8 DEF Covered
  <2>3. \A d \in room \ {c} : Coming(d, stroke)'
    <3> SUFFICES ASSUME NEW d \in room \ {c} PROVE Coming(d, stroke)'
      OBVIOUS
    <3>1. event \in Range(toClient'[d])
      BY <1>11, Zenon
    <3>2. stroke \in event.strokes
      BY <1>9, Zenon
    <3>3. \E e \in Range(toClient'[d]) : stroke \in e.strokes
      BY <3>1, <3>2
    <3> QED BY <3>3 DEF Coming
  <2>4. ~IsAsk(Head(toServer[c]))
    BY <1>5 DEF IsAsk
  <2>5. \A d \in Clients : \A s : Coming(d, s) => Coming(d, s)'
    BY <1>3, <1>5, <1>11, <2>4 DEF Coming
  <2>6. ASSUME NEW d \in room' \ (ahead' \union behind'), NEW s \in Board'
        PROVE  \/ Covered(d, s)' \/ Coming(d, s)'
               \/ /\ d \in room \ (ahead \union behind) /\ s \in Board
                  /\ Coming(d, s) => Covered(d, s)' \/ Coming(d, s)'
    <3>1. d \in Clients /\ d \in room \ (ahead \union behind)
      BY <1>3, <2>1
    <3>2. CASE s \in Board
      BY <2>5, <3>1, <3>2
    <3>3. CASE s = stroke
      BY <2>2, <2>3, <3>1, <3>3
    <3> QED BY <1>14, <3>2, <3>3
  <2> QED BY <1>15, <2>6, ComingStays
<1> QED BY <1>13, <1>16, <1>17, <1>18, <1>19, <1>20 DEF WInv

\* A draw refused leaves no trace.
LEMMA DrawRefusedStep ==
  ASSUME WInv, NEW c \in Clients, DrawRefused(c)
  PROVE  WInv'
<1>1. /\ Heard(c, "draw") /\ trouble < MaxTrouble /\ trouble' = trouble + 1
      /\ up' = up /\ mark' = mark /\ canvas' = canvas /\ toClient' = toClient
      /\ room' = room /\ loads' = loads /\ nextSeq' = nextSeq /\ buffered' = buffered
      /\ stored' = stored /\ base' = base /\ excused' = excused /\ behind' = behind
      /\ ahead' = ahead /\ nextId' = nextId
  BY DEF DrawRefused, Trouble, clientVars, boardVars, pastVars
<1>2. TypeOK
  BY DEF WInv
<1>3. /\ toServer' \in [Clients -> Seq(Request)] /\ Head(toServer[c]).event = "draw"
      /\ \A d \in Clients : Range(toServer'[d]) \subseteq Range(toServer[d])
      /\ \A d \in Clients : \A r \in Range(toServer[d]) :
            r \in Range(toServer'[d]) \/ (d = c /\ r = Head(toServer[c]))
      /\ \A d \in Clients \ up : toServer'[d] = <<>>
      /\ AskedOnce(toServer') /\ Waiting(toServer') \subseteq Waiting(toServer)
      /\ Cardinality(Waiting(toServer')) <= Cardinality(Waiting(toServer))
  BY <1>1, HeardFacts
<1>4. trouble' \in 0..MaxTrouble
  BY <1>1, <1>2 DEF TypeOK
<1>5. TypeOK'
  BY <1>1, <1>2, <1>3, <1>4 DEF TypeOK
<1>6. Board' = Board /\ nextSeq <= nextSeq' /\ nextSeq' <= nextSeq
  BY <1>1, <1>2, Types DEF Board
<1>7. Grows
  BY <1>1, <1>2, Types DEF Grows
<1>8. EachAskedOnce'
  BY <1>1, <1>3, <1>5, <1>6, AskedStays
<1>9. RequestsTrue' /\ EventsTrue'
  BY <1>1, <1>3, <1>5, <1>6, <1>7, TrueStays
<1>10. NumbersBelowNext' /\ MarkCovered'
  BY <1>1, <1>5, <1>6, <1>7, NumbersStay
<1>11. StrokesComing'
  <2>1. \A d \in room : d \in Clients
    BY <1>2 DEF TypeOK
  <2>2. ~IsAsk(Head(toServer[c]))
    BY <1>3 DEF IsAsk
  <2>3. \A d \in Clients : \A s : Coming(d, s) => Coming(d, s)'
    BY <1>1, <1>3, <2>2 DEF Coming
  <2> QED BY <1>1, <1>6, <1>7, <2>1, <2>3, ComingStays
<1> QED BY <1>5, <1>8, <1>9, <1>10, <1>11 DEF WInv

\* A clear relayed tells of no stroke.
LEMMA RelayClearStep ==
  ASSUME WInv, NEW c \in Clients, RelayClear(c)
  PROVE  WInv'
<1> DEFINE event == [event |-> "clear", strokes |-> {}]
<1>1. /\ Heard(c, "clear") /\ Broadcast(room \ {c}, event)
      /\ up' = up /\ mark' = mark /\ canvas' = canvas
      /\ room' = room /\ loads' = loads /\ nextSeq' = nextSeq /\ buffered' = buffered
      /\ stored' = stored /\ base' = base /\ excused' = excused /\ behind' = behind
      /\ ahead' = ahead /\ nextId' = nextId /\ trouble' = trouble
  BY DEF RelayClear, clientVars, boardVars, pastVars
<1>2. TypeOK
  BY DEF WInv
<1>3. /\ toServer' \in [Clients -> Seq(Request)] /\ Head(toServer[c]).event = "clear"
      /\ \A d \in Clients : Range(toServer'[d]) \subseteq Range(toServer[d])
      /\ \A d \in Clients : \A r \in Range(toServer[d]) :
            r \in Range(toServer'[d]) \/ (d = c /\ r = Head(toServer[c]))
      /\ \A d \in Clients \ up : toServer'[d] = <<>>
      /\ AskedOnce(toServer') /\ Waiting(toServer') \subseteq Waiting(toServer)
      /\ Cardinality(Waiting(toServer')) <= Cardinality(Waiting(toServer))
  BY <1>1, HeardFacts
<1>4. event \in Event /\ event.event = "clear" /\ event.strokes = {}
  BY DEF Event
<1> HIDE DEF event
<1>5. room \ {c} \in SUBSET Clients
  BY <1>2 DEF TypeOK
<1>6. /\ toClient' \in [Clients -> Seq(Event)]
      /\ \A d \in Clients : Range(toClient[d]) \subseteq Range(toClient'[d])
      /\ \A d \in Clients : \A e \in Range(toClient'[d]) :
            e \in Range(toClient[d]) \/ (d \in room \ {c} /\ e = event)
  BY <1>1, <1>2, <1>4, <1>5, BroadcastFacts
<1>7. TypeOK'
  BY <1>1, <1>2, <1>3, <1>6 DEF TypeOK
<1>8. Board' = Board /\ nextSeq <= nextSeq' /\ nextSeq' <= nextSeq
  BY <1>1, <1>2, Types DEF Board
<1>9. Grows
  BY <1>1, <1>2, Types DEF Grows
<1>10. EachAskedOnce'
  BY <1>1, <1>3, <1>7, <1>8, AskedStays
<1>11. RequestsTrue' /\ EventsTrue'
  <2>1. \A d \in Clients : EventTrue(d, event)'
    BY <1>4 DEF EventTrue
  <2> QED BY <1>1, <1>3, <1>6, <1>7, <1>8, <1>9, <2>1, TrueStays
<1>12. NumbersBelowNext' /\ MarkCovered'
  BY <1>1, <1>7, <1>8, <1>9, NumbersStay
<1>13. StrokesComing'
  <2>1. \A d \in room : d \in Clients
    BY <1>2 DEF TypeOK
  <2>2. ~IsAsk(Head(toServer[c]))
    BY <1>3 DEF IsAsk
  <2>3. \A d \in Clients : \A s : Coming(d, s) => Coming(d, s)'
    BY <1>1, <1>3, <1>6, <2>2 DEF Coming
  <2> QED BY <1>1, <1>8, <1>9, <2>1, <2>3, ComingStays
<1> QED BY <1>7, <1>10, <1>11, <1>12, <1>13 DEF WInv

\* A history starts at the baseline or where its client reported.
LEMMA FromFacts ==
  ASSUME NEW load, NEW found
  PROVE  From(load, found) = base \/ From(load, found) = load.since
  BY DEF From

\* Between a history, the client's mark and what is excused lies every stroke of the board.
LEMMA LoadForJoinStep ==
  ASSUME WInv, NEW c \in Clients, NEW i \in DOMAIN loads[c], LoadForJoin(c, i)
  PROVE  WInv'
<1>1. PICK part \in SUBSET buffered :
        LET found == stored \union part
            from  == From(loads[c][i], found) IN
        /\ Broadcast({c}, [event |-> "room-history", strokes |-> {s \in found : s.seq > from}])
        /\ excused' = [excused EXCEPT ![c] = @ \union
              IdsOf({s \in Board : s \in buffered \ part \/ s.seq <= base})]
        /\ loads' = [loads EXCEPT ![c] = RemoveAt(@, i)]
        /\ behind' = behind \ {c}
        /\ UNCHANGED <<clientVars, toServer, room, boardVars, ahead, nextId, trouble>>
  BY DEF LoadForJoin
<1> DEFINE found == stored \union part
           from == From(loads[c][i], found)
           unsent == {s \in Board : s \in buffered \ part \/ s.seq <= base}
<1>2. PICK event : event = [event |-> "room-history", strokes |-> {s \in found : s.seq > from}]
  OBVIOUS
<1>3. /\ Broadcast({c}, event) /\ excused' = [excused EXCEPT ![c] = @ \union IdsOf(unsent)]
      /\ loads' = [loads EXCEPT ![c] = RemoveAt(@, i)] /\ behind' = behind \ {c}
      /\ up' = up /\ mark' = mark /\ canvas' = canvas /\ toServer' = toServer /\ room' = room
      /\ nextSeq' = nextSeq /\ buffered' = buffered /\ stored' = stored /\ base' = base
      /\ ahead' = ahead /\ nextId' = nextId /\ trouble' = trouble
  BY <1>1, <1>2 DEF clientVars, boardVars
<1>4. TypeOK
  BY DEF WInv
<1>5. \A d \in Clients : mark[d] \in Nat
  BY <1>4, Types
<1>6. base \in Nat /\ \A s \in Board : s \in Stroke /\ s.seq \in Nat /\ s.id \in Ids
  BY <1>4, Types DEF Stroke
<1>7. found \subseteq Board
  BY DEF Board
<1>8. loads[c][i] \in Load /\ loads[c][i].since \in Nat /\ loads[c][i].since <= mark[c]
  <2>1. loads[c] \in Seq(Load)
    BY <1>4 DEF TypeOK
  <2>2. loads[c][i] \in Range(loads[c]) /\ loads[c][i] \in Load
    BY <2>1, RangeTyped
  <2> QED BY <2>2 DEF WInv, RequestsTrue, Load, Seqs
<1>9. from = base \/ from = loads[c][i].since
  BY FromFacts
<1>10. /\ event \in Event /\ event.event = "room-history"
       /\ event.strokes = {s \in found : s.seq > from}
  BY <1>2, <1>6, <1>7 DEF Event
<1>11. IdsOf(unsent) \subseteq Ids /\ \A s \in unsent : s.id \in IdsOf(unsent)
  BY <1>6 DEF IdsOf
<1>12. \A s \in Board : s \in event.strokes \/ s \in unsent \/ s.seq <= mark[c]
  <2> SUFFICES ASSUME NEW s \in Board, s \notin unsent
               PROVE  s \in event.strokes \/ s.seq <= mark[c]
    OBVIOUS
  <2>1. s \in found /\ ~(s.seq <= base)
    BY DEF Board
  <2>2. CASE s.seq > from
    BY <1>10, <2>1, <2>2
  <2>3. CASE ~(s.seq > from)
    BY <1>5, <1>6, <1>8, <1>9, <2>1, <2>3
  <2> QED BY <2>2, <2>3
<1>13. event.strokes \subseteq Board
  BY <1>7, <1>10
<1> HIDE DEF found, from, unsent
<1>14. /\ toClient' \in [Clients -> Seq(Event)]
       /\ \A d \in Clients : Range(toClient[d]) \subseteq Range(toClient'[d])
       /\ \A d \in Clients : \A e \in Range(toClient'[d]) :
             e \in Range(toClient[d]) \/ (d = c /\ e = event)
       /\ event \in Range(toClient'[c])
  <2>1. {c} \in SUBSET Clients /\ Broadcast({c}, event) /\ event \in Event
    BY <1>3, <1>10
  <2>2. /\ toClient' \in [Clients -> Seq(Event)]
        /\ \A d \in Clients : Range(toClient[d]) \subseteq Range(toClient'[d])
        /\ \A d \in Clients : \A e \in Range(toClient'[d]) :
              e \in Range(toClient[d]) \/ (d \in {c} /\ e = event)
        /\ \A d \in {c} : event \in Range(toClient'[d])
    BY <1>4, <2>1, BroadcastFacts
  <2> QED BY <2>2
<1>15. /\ excused' \in [Clients -> SUBSET Ids] /\ IdsOf(unsent) \subseteq excused'[c]
       /\ \A d \in Clients : excused[d] \subseteq excused'[d]
  BY <1>3, <1>4, <1>11 DEF TypeOK
<1>16. /\ loads' \in [Clients -> Seq(Load)]
       /\ \A d \in Clients \ {c} : loads'[d] = loads[d]
       /\ \A d \in Clients : Range(loads'[d]) \subseteq Range(loads[d])
  BY <1>3, <1>4, DropQueue DEF TypeOK
<1>17. TypeOK'
  BY <1>3, <1>4, <1>14, <1>15, <1>16 DEF TypeOK
<1>18. Board' = Board /\ nextSeq <= nextSeq' /\ nextSeq' <= nextSeq
  BY <1>3, <1>4, Types DEF Board
<1>19. Grows
  BY <1>3, <1>5, <1>15 DEF Grows
<1>20. \A s \in unsent : Covered(c, s)'
  BY <1>11, <1>15 DEF Covered
<1>21. EachAskedOnce'
  BY <1>3 DEF WInv, EachAskedOnce
<1>22. RequestsTrue' /\ EventsTrue'
  <2>1. \A m \in event.strokes : m.seq < nextSeq' /\ \A s \in Board' : s.seq = m.seq => s = m
    BY <1>3, <1>13, <1>18 DEF WInv, NumbersBelowNext
  <2>2. \A s \in Board' : s \in event.strokes \/ Covered(c, s)' \/ s.seq <= mark'[c]
    BY <1>3, <1>12, <1>18, <1>20
  <2>3. event.event = "room-history" /\ event.event # "draw" /\ event.event # "clear"
    BY <1>10
  <2>4. EventTrue(c, event)'
    BY <2>1, <2>2, <2>3 DEF EventTrue
  <2>5. \A d \in Clients \ up' : toServer'[d] = <<>>
    BY <1>3 DEF WInv, RequestsTrue
  <2>6. \A d \in Clients : \A e \in Range(toClient'[d]) :
          e \in Range(toClient[d]) \/ EventTrue(d, e)'
    BY <1>14, <2>4
  <2>7. \A d \in Clients : \A load \in Range(loads'[d]) : load \in Range(loads[d])
    BY <1>16
  <2>8. \A d \in Clients : \A r \in Range(toServer'[d]) : r \in Range(toServer[d])
    BY <1>3
  <2> QED BY <1>17, <1>18, <1>19, <2>5, <2>6, <2>7, <2>8, TrueStays
<1>23. NumbersBelowNext' /\ MarkCovered'
  BY <1>3, <1>17, <1>18, <1>19, NumbersStay
<1>24. StrokesComing'
  <2>1. \A d \in room : d \in Clients
    BY <1>4 DEF TypeOK
  <2>2. \A s \in event.strokes : Coming(c, s)'
    BY <1>14 DEF Coming
  <2>3. ASSUME c \notin ahead, NEW s \in Board
        PROVE  Covered(c, s)' \/ Coming(c, s)'
    <3>1. CASE s.seq <= mark[c]
      <4>1. Covered(c, s)
        BY <2>3, <3>1 DEF WInv, MarkCovered
      <4> QED BY <1>19, <4>1 DEF Covered, Grows
    <3> QED BY <1>12, <1>20, <2>2, <3>1
  <2>4. \A d \in Clients \ {c} : \A s : Coming(d, s) => Coming(d, s)'
    BY <1>3, <1>14, <1>16 DEF Coming
  <2> QED BY <1>3, <1>18, <1>19, <2>1, <2>3, <2>4, ComingStays
<1> QED BY <1>17, <1>21, <1>22, <1>23, <1>24 DEF WInv

\* A load that fails leaves its client behind.
LEMMA LoadFailsStep ==
  ASSUME WInv, NEW c \in Clients, NEW i \in DOMAIN loads[c], LoadFails(c, i)
  PROVE  WInv'
<1>1. /\ trouble < MaxTrouble /\ trouble' = trouble + 1
      /\ loads' = [loads EXCEPT ![c] = RemoveAt(@, i)] /\ behind' = behind \union {c}
      /\ up' = up /\ mark' = mark /\ canvas' = canvas /\ toServer' = toServer
      /\ toClient' = toClient /\ room' = room
      /\ nextSeq' = nextSeq /\ buffered' = buffered /\ stored' = stored /\ base' = base
      /\ excused' = excused /\ ahead' = ahead /\ nextId' = nextId
  BY DEF LoadFails, Trouble, clientVars, linkVars, boardVars
<1>2. TypeOK
  BY DEF WInv
<1>3. trouble' \in 0..MaxTrouble
  BY <1>1, <1>2 DEF TypeOK
<1>4. /\ loads' \in [Clients -> Seq(Load)]
      /\ \A d \in Clients \ {c} : loads'[d] = loads[d]
      /\ \A d \in Clients : Range(loads'[d]) \subseteq Range(loads[d])
  BY <1>1, <1>2, DropQueue DEF TypeOK
<1>5. TypeOK'
  BY <1>1, <1>2, <1>3, <1>4 DEF TypeOK
<1>6. Board' = Board /\ nextSeq <= nextSeq'
  BY <1>1, <1>2, Types DEF Board
<1>7. Grows
  BY <1>1, <1>2, Types DEF Grows
<1>8. EachAskedOnce'
  BY <1>1 DEF WInv, EachAskedOnce
<1>9. RequestsTrue' /\ EventsTrue'
  <2>1. \A d \in Clients \ up' : toServer'[d] = <<>>
    BY <1>1 DEF WInv, RequestsTrue
  <2> QED BY <1>1, <1>4, <1>5, <1>6, <1>7, <2>1, TrueStays
<1>10. NumbersBelowNext' /\ MarkCovered'
  BY <1>1, <1>5, <1>6, <1>7, NumbersStay
<1>11. StrokesComing'
  <2>1. \A d \in room : d \in Clients
    BY <1>2 DEF TypeOK
  <2>2. \A d \in Clients \ {c} : \A s : Coming(d, s) => Coming(d, s)'
    BY <1>1, <1>4 DEF Coming
  <2> QED BY <1>1, <1>6, <1>7, <2>1, <2>2, ComingStays
<1> QED BY <1>5, <1>8, <1>9, <1>10, <1>11 DEF WInv

-----------------------------------------------------------------------------
(* The client's events *)

\* A client takes the first event of its queue.
LEMMA ReceivedFacts ==
  ASSUME WInv, NEW c \in Clients, NEW event, Received(c, event)
  PROVE  /\ toClient' \in [Clients -> Seq(Event)]
         /\ Head(toClient[c]).strokes \subseteq Stroke /\ Head(toClient[c]).event = event
         /\ EventTrue(c, Head(toClient[c]))
         /\ \A d \in Clients : Range(toClient'[d]) \subseteq Range(toClient[d])
         /\ \A d \in Clients : \A e \in Range(toClient[d]) :
               e \in Range(toClient'[d]) \/ (d = c /\ e = Head(toClient[c]))
<1>1. /\ toClient[c] # <<>> /\ Head(toClient[c]).event = event
      /\ toClient' = [toClient EXCEPT ![c] = Tail(@)]
  BY DEF Received
<1>2. toClient \in [Clients -> Seq(Event)]
  BY DEF WInv, TypeOK
<1>3. /\ toClient' \in [Clients -> Seq(Event)]
      /\ Head(toClient[c]) \in Event /\ Head(toClient[c]) \in Range(toClient[c])
      /\ \A d \in Clients : Range(toClient'[d]) \subseteq Range(toClient[d])
      /\ \A d \in Clients : \A e \in Range(toClient[d]) :
            e \in Range(toClient'[d]) \/ (d = c /\ e = Head(toClient[c]))
  BY <1>1, <1>2, PopQueue
<1>4. EventTrue(c, Head(toClient[c]))
  BY <1>3 DEF WInv, EventsTrue
<1>5. Head(toClient[c]).strokes \subseteq Stroke
  BY <1>3 DEF Event
<1> QED BY <1>1, <1>3, <1>4, <1>5

\* Strokes painted are on the canvas.
LEMMA PaintFacts ==
  ASSUME TypeOK, NEW c \in Clients, NEW strokes \in SUBSET Stroke, Paint(c, strokes)
  PROVE  /\ canvas' \in [Clients -> SUBSET Ids]
         /\ \A d \in Clients : canvas[d] \subseteq canvas'[d]
         /\ \A s \in strokes : s.id \in canvas'[c]
<1>1. IdsOf(strokes) \subseteq Ids /\ \A s \in strokes : s.id \in IdsOf(strokes)
  BY DEF IdsOf, Stroke
<1>2. canvas' = [canvas EXCEPT ![c] = @ \union IdsOf(strokes)] /\ canvas \in [Clients -> SUBSET Ids]
  BY DEF TypeOK, Paint
<1> QED BY <1>1, <1>2

\* A history moves the mark only over strokes that its client now has.
LEMMA OnHistoryStep ==
  ASSUME WInv, NEW c \in Clients, OnHistory(c)
  PROVE  WInv'
<1> DEFINE strokes == Head(toClient[c]).strokes
           top == Highest(strokes, mark[c])
<1>1. /\ Received(c, "room-history") /\ Paint(c, strokes)
      /\ mark' = [mark EXCEPT ![c] = top]
      /\ up' = up /\ toServer' = toServer /\ room' = room /\ loads' = loads
      /\ nextSeq' = nextSeq /\ buffered' = buffered /\ stored' = stored /\ base' = base
      /\ excused' = excused /\ behind' = behind /\ ahead' = ahead /\ nextId' = nextId
      /\ trouble' = trouble
  BY DEF OnHistory, Adopted, boardVars, pastVars, WInv, TypeOK
<1>2. TypeOK /\ mark \in [Clients -> Seqs] /\ \A d \in Clients : mark[d] \in Nat
  BY Types DEF WInv, TypeOK
<1>3. /\ toClient' \in [Clients -> Seq(Event)]
      /\ strokes \subseteq Stroke /\ Head(toClient[c]).event = "room-history"
      /\ EventTrue(c, Head(toClient[c]))
      /\ \A d \in Clients : Range(toClient'[d]) \subseteq Range(toClient[d])
      /\ \A d \in Clients : \A e \in Range(toClient[d]) :
            e \in Range(toClient'[d]) \/ (d = c /\ e = Head(toClient[c]))
  BY <1>1, ReceivedFacts
<1>4. /\ \A m \in strokes : m.seq < nextSeq
      /\ \A m \in strokes, s \in Board :
            s.seq <= m.seq => s \in strokes \/ Covered(c, s) \/ s.seq <= mark[c]
  BY <1>3 DEF EventTrue
<1>5. \A m \in strokes : m.seq \in 1..MaxStrokes
  BY <1>3 DEF Stroke
<1>6. /\ canvas' \in [Clients -> SUBSET Ids]
      /\ \A d \in Clients : canvas[d] \subseteq canvas'[d]
      /\ \A s \in strokes : s.id \in canvas'[c]
  BY <1>1, <1>2, <1>3, PaintFacts
<1>7. /\ top \in Nat /\ top >= mark[c]
      /\ top = mark[c] \/ \E m \in strokes : top = m.seq
  BY <1>2, <1>3, HighestFacts
<1> HIDE DEF strokes, top
<1>8. top \in Seqs
  BY <1>2, <1>5, <1>7 DEF Seqs
<1>9. /\ mark' \in [Clients -> Seqs] /\ mark'[c] = top
      /\ \A d \in Clients \ {c} : mark'[d] = mark[d]
  BY <1>1, <1>2, <1>8
<1>10. TypeOK'
  BY <1>1, <1>2, <1>3, <1>6, <1>9 DEF TypeOK
<1>11. Board' = Board /\ nextSeq <= nextSeq' /\ nextSeq \in Nat /\ \A s \in Board : s.seq \in Nat
  BY <1>1, <1>2, Types DEF Board
<1>12. Grows
  BY <1>1, <1>2, <1>6, <1>7, <1>9 DEF Grows
<1>13. NumbersBelowNext'
  <2>1. \A d \in Clients \ ahead : mark[d] < nextSeq
    BY DEF WInv, NumbersBelowNext
  <2>2. \A d \in Clients \ ahead' : mark'[d] < nextSeq'
    BY <1>1, <1>4, <1>7, <1>9, <2>1
  <2> QED BY <1>1, <1>11, <2>2 DEF WInv, NumbersBelowNext
<1>14. EachAskedOnce'
  BY <1>1 DEF WInv, EachAskedOnce
<1>15. RequestsTrue' /\ EventsTrue'
  <2>1. \A d \in Clients \ up' : toServer'[d] = <<>>
    BY <1>1 DEF WInv, RequestsTrue
  <2> QED BY <1>1, <1>3, <1>10, <1>11, <1>12, <2>1, TrueStays
<1>16. MarkCovered'
  <2> SUFFICES ASSUME NEW d \in Clients \ ahead, NEW s \in Board, s.seq <= mark'[d]
               PROVE  Covered(d, s)'
    BY <1>1, <1>11 DEF MarkCovered
  <2>1. Covered(d, s) => Covered(d, s)'
    BY <1>12 DEF Covered, Grows
  <2>2. s.seq <= mark[d] => Covered(d, s)
    BY DEF WInv, MarkCovered
  <2>3. CASE d # c
    BY <1>9, <2>1, <2>2, <2>3
  <2>4. CASE d = c /\ ~(s.seq <= mark[c])
    <3>1. PICK m \in strokes : top = m.seq
      BY <1>7, <1>9, <2>4
    <3>2. s \in strokes \/ Covered(c, s)
      BY <1>4, <1>9, <2>4, <3>1
    <3>3. s \in strokes => Covered(c, s)'
      BY <1>6 DEF Covered
    <3> QED BY <2>1, <2>4, <3>2, <3>3
  <2> QED BY <2>1, <2>2, <2>3, <2>4
<1>17. StrokesComing'
  <2>1. \A d \in room : d \in Clients
    BY <1>2 DEF TypeOK
  <2>2. \A s \in strokes : Covered(c, s)'
    BY <1>6 DEF Covered
  <2>3. \A d \in Clients : \A s : Coming(d, s) => Coming(d, s)' \/ (d = c /\ s \in strokes)
    BY <1>1, <1>3 DEF Coming, strokes
  <2> QED BY <1>1, <1>11, <1>12, <2>1, <2>2, <2>3, ComingStays
<1> QED BY <1>10, <1>13, <1>14, <1>15, <1>16, <1>17 DEF WInv

\* A clear received excuses what it takes off the canvas.
LEMMA OnClearStep ==
  ASSUME WInv, NEW c \in Clients, OnClear(c)
  PROVE  WInv'
<1>1. /\ Received(c, "clear") /\ Clear(c)
      /\ up' = up /\ mark' = mark /\ toServer' = toServer /\ room' = room
      /\ loads' = loads /\ nextSeq' = nextSeq /\ buffered' = buffered /\ stored' = stored
      /\ base' = base /\ behind' = behind /\ ahead' = ahead /\ nextId' = nextId
      /\ trouble' = trouble
  BY DEF OnClear, boardVars
<1>2. TypeOK
  BY DEF WInv
<1>3. /\ toClient' \in [Clients -> Seq(Event)] /\ Head(toClient[c]).event = "clear"
      /\ EventTrue(c, Head(toClient[c]))
      /\ \A d \in Clients : Range(toClient'[d]) \subseteq Range(toClient[d])
      /\ \A d \in Clients : \A e \in Range(toClient[d]) :
            e \in Range(toClient'[d]) \/ (d = c /\ e = Head(toClient[c]))
  BY <1>1, ReceivedFacts
<1>4. Head(toClient[c]).strokes = {}
  BY <1>3 DEF EventTrue
<1>5. /\ canvas' \in [Clients -> SUBSET Ids] /\ excused' \in [Clients -> SUBSET Ids] /\ Grows
  BY <1>1, <1>2, ClearFacts
<1>6. TypeOK'
  BY <1>1, <1>2, <1>3, <1>5 DEF TypeOK
<1>7. Board' = Board /\ nextSeq <= nextSeq'
  BY <1>1, <1>2, Types DEF Board
<1>8. EachAskedOnce'
  BY <1>1 DEF WInv, EachAskedOnce
<1>9. RequestsTrue' /\ EventsTrue'
  <2>1. \A d \in Clients \ up' : toServer'[d] = <<>>
    BY <1>1 DEF WInv, RequestsTrue
  <2> QED BY <1>1, <1>3, <1>5, <1>6, <1>7, <2>1, TrueStays
<1>10. NumbersBelowNext' /\ MarkCovered'
  BY <1>1, <1>5, <1>6, <1>7, NumbersStay
<1>11. StrokesComing'
  <2>1. \A d \in room : d \in Clients
    BY <1>2 DEF TypeOK
  <2>2. \A d \in Clients : \A s : Coming(d, s) => Coming(d, s)'
    BY <1>1, <1>3, <1>4 DEF Coming
  <2> QED BY <1>1, <1>5, <1>7, <2>1, <2>2, ComingStays
<1> QED BY <1>6, <1>8, <1>9, <1>10, <1>11 DEF WInv

\* A broadcast is painted when it is the next, ignored when its client has it, and
\* asked for with what is missing otherwise.
LEMMA IngestStep ==
  ASSUME WInv, NEW c \in Clients, Ingest(c)
  PROVE  WInv'
<1> DEFINE request == [event |-> "request-resync", since |-> mark[c]]
<1>1. /\ Received(c, "draw")
      /\ up' = up /\ room' = room /\ loads' = loads
      /\ nextSeq' = nextSeq /\ buffered' = buffered /\ stored' = stored /\ base' = base
      /\ excused' = excused /\ behind' = behind /\ ahead' = ahead /\ nextId' = nextId
      /\ trouble' = trouble
  BY DEF Ingest, boardVars, pastVars
<1>2. /\ TypeOK /\ mark \in [Clients -> Seqs] /\ canvas \in [Clients -> SUBSET Ids]
      /\ toServer \in [Clients -> Seq(Request)] /\ \A d \in Clients : mark[d] \in Nat
  BY Types DEF WInv, TypeOK
<1>3. /\ toClient' \in [Clients -> Seq(Event)]
      /\ Head(toClient[c]).strokes \subseteq Stroke /\ Head(toClient[c]).event = "draw"
      /\ EventTrue(c, Head(toClient[c]))
      /\ \A d \in Clients : Range(toClient'[d]) \subseteq Range(toClient[d])
      /\ \A d \in Clients : \A e \in Range(toClient[d]) :
            e \in Range(toClient'[d]) \/ (d = c /\ e = Head(toClient[c]))
  BY <1>1, ReceivedFacts
<1>4. PICK s \in Head(toClient[c]).strokes :
        \/ /\ StrokeAction(mark[c], s.seq) = "apply" /\ Paint(c, {s})
           /\ mark' = [mark EXCEPT ![c] = s.seq] /\ toServer' = toServer
        \/ /\ StrokeAction(mark[c], s.seq) = "ignore"
           /\ canvas' = canvas /\ mark' = mark /\ toServer' = toServer
        \/ /\ StrokeAction(mark[c], s.seq) = "resync" /\ Emit(c, request)
           /\ canvas' = canvas /\ mark' = mark
  BY DEF Ingest
<1>5. /\ Head(toClient[c]).strokes = {s} /\ s \in Stroke /\ s.seq \in 1..MaxStrokes
      /\ s.seq < nextSeq /\ \A b \in Board : b.seq = s.seq => b = s
  BY <1>3 DEF EventTrue, Stroke
<1>6. request \in Request /\ IsAsk(request) /\ ~IsDraw(request) /\ request.since = mark[c]
  BY <1>2 DEF Request, IsAsk, IsDraw
<1> HIDE DEF request
<1>7. Board' = Board /\ nextSeq <= nextSeq' /\ nextSeq \in Nat /\ \A b \in Board : b.seq \in Nat
  BY <1>1, <1>2, Types DEF Board
<1>8. \A d \in room : d \in Clients /\ d \in up
  BY <1>2 DEF TypeOK
<1>9. \A d \in Clients \ up : toServer[d] = <<>>
  BY DEF WInv, RequestsTrue
<1>10. ASSUME StrokeAction(mark[c], s.seq) = "apply", Paint(c, {s}),
              mark' = [mark EXCEPT ![c] = s.seq], toServer' = toServer
       PROVE  WInv'
  <2>1. s.seq = mark[c] + 1
    BY <1>10 DEF StrokeAction
  <2>2. {s} \in SUBSET Stroke
    BY <1>5
  <2>3. /\ canvas' \in [Clients -> SUBSET Ids] /\ s.id \in canvas'[c]
        /\ \A d \in Clients : canvas[d] \subseteq canvas'[d]
    BY <1>2, <1>10, <2>2, PaintFacts
  <2>4. /\ mark' \in [Clients -> Seqs] /\ mark'[c] = s.seq
        /\ \A d \in Clients \ {c} : mark'[d] = mark[d]
    BY <1>2, <1>5, <1>10 DEF Seqs
  <2>5. TypeOK'
    BY <1>1, <1>2, <1>3, <1>10, <2>3, <2>4 DEF TypeOK
  <2>6. Grows
    <3>1. \A d \in Clients : mark[d] <= mark'[d]
      BY <1>2, <2>1, <2>4
    <3>2. \A d \in Clients : canvas[d] \union excused[d] \subseteq canvas'[d] \union excused'[d]
      BY <1>1, <2>3
    <3> QED BY <3>1, <3>2 DEF Grows
  <2>7. NumbersBelowNext'
    <3>1. \A d \in Clients \ ahead' : mark'[d] < nextSeq'
      BY <1>1, <1>5, <2>4 DEF WInv, NumbersBelowNext
    <3> QED BY <1>1, <1>7, <3>1 DEF WInv, NumbersBelowNext
  <2>8. EachAskedOnce'
    BY <1>1, <1>10 DEF WInv, EachAskedOnce
  <2>9. RequestsTrue' /\ EventsTrue'
    BY <1>1, <1>3, <1>7, <1>9, <1>10, <2>5, <2>6, TrueStays
  <2>10. MarkCovered'
    <3> SUFFICES ASSUME NEW d \in Clients \ ahead, NEW b \in Board, b.seq <= mark'[d]
                 PROVE  Covered(d, b)'
      BY <1>1, <1>7 DEF MarkCovered
    <3>1. Covered(d, b) => Covered(d, b)'
      BY <2>6 DEF Covered, Grows
    <3>2. b.seq <= mark[d] => Covered(d, b)
      BY DEF WInv, MarkCovered
    <3>3. CASE d = c /\ ~(b.seq <= mark[c])
      <4>1. b.seq = s.seq
        BY <1>2, <1>7, <2>1, <2>4, <3>3
      <4> QED BY <1>5, <2>3, <3>3, <4>1 DEF Covered
    <3>4. CASE d # c
      BY <2>4, <3>1, <3>2, <3>4
    <3> QED BY <3>1, <3>2, <3>3, <3>4
  <2>11. StrokesComing'
    <3>1. Covered(c, s)'
      BY <2>3 DEF Covered
    <3>2. \A d \in Clients : \A b : Coming(d, b) => Coming(d, b)' \/ (d = c /\ b = s)
      BY <1>1, <1>3, <1>5, <1>10 DEF Coming
    <3> QED BY <1>1, <1>7, <1>8, <2>6, <3>1, <3>2, ComingStays
  <2> QED BY <2>5, <2>7, <2>8, <2>9, <2>10, <2>11 DEF WInv
<1>11. ASSUME canvas' = canvas, mark' = mark, toServer' \in [Clients -> Seq(Request)],
              EachAskedOnce',
              \A d \in Clients : Range(toServer[d]) \subseteq Range(toServer'[d]),
              \A d \in Clients : \A r \in Range(toServer'[d]) :
                 r \in Range(toServer[d]) \/ (d = c /\ r = request),
              \A d \in Clients \ up : toServer'[d] = <<>>,
              \/ s.seq <= mark[c]
              \/ c \in up => request \in Range(toServer'[c])
       PROVE  WInv'
  <2>1. TypeOK'
    BY <1>1, <1>2, <1>3, <1>11 DEF TypeOK
  <2>2. Grows
    BY <1>1, <1>2, <1>11 DEF Grows
  <2>3. RequestsTrue' /\ EventsTrue'
    <3>1. \A d \in Clients : \A r \in Range(toServer'[d]) :
            r \in Range(toServer[d]) \/ RequestTrue(d, r)'
      BY <1>2, <1>6, <1>11 DEF RequestTrue
    <3> QED BY <1>1, <1>3, <1>7, <1>11, <2>1, <2>2, <3>1, TrueStays
  <2>4. NumbersBelowNext' /\ MarkCovered'
    BY <1>1, <1>7, <1>11, <2>1, <2>2, NumbersStay
  <2>5. StrokesComing'
    <3>1. \A d \in Clients : \A b : Coming(d, b) => Coming(d, b)' \/ (d = c /\ b = s)
      BY <1>1, <1>3, <1>5, <1>11 DEF Coming
    <3>2. ASSUME c \in room, c \notin ahead, s \in Board
          PROVE  Covered(c, s)' \/ Coming(c, s)'
      <4>1. CASE s.seq <= mark[c]
        <5>1. Covered(c, s)
          BY <3>2, <4>1 DEF WInv, MarkCovered
        <5> QED BY <2>2, <5>1 DEF Covered, Grows
      <4>2. CASE c \in up => request \in Range(toServer'[c])
        BY <1>6, <1>8, <3>2, <4>2 DEF Coming
      <4> QED BY <1>11, <4>1, <4>2
    <3> QED BY <1>1, <1>7, <1>8, <2>2, <3>1, <3>2, ComingStays
  <2> QED BY <1>11, <2>1, <2>3, <2>4, <2>5 DEF WInv
<1>12. ASSUME StrokeAction(mark[c], s.seq) = "ignore",
              canvas' = canvas, mark' = mark, toServer' = toServer
       PROVE  WInv'
  <2>1. s.seq <= mark[c]
    BY <1>12 DEF StrokeAction
  <2>2. EachAskedOnce'
    BY <1>1, <1>12 DEF WInv, EachAskedOnce
  <2> QED BY <1>2, <1>9, <1>11, <1>12, <2>1, <2>2
<1>13. ASSUME Emit(c, request), canvas' = canvas, mark' = mark
       PROVE  WInv'
  <2>1. /\ toServer' \in [Clients -> Seq(Request)]
        /\ \A d \in Clients : Range(toServer[d]) \subseteq Range(toServer'[d])
        /\ \A d \in Clients : \A r \in Range(toServer'[d]) :
              r \in Range(toServer[d]) \/ (d = c /\ r = request)
        /\ \A d \in Clients \ up : toServer'[d] = <<>>
        /\ c \in up => request \in Range(toServer'[c])
    BY <1>6, <1>13, EmitFacts
  <2>2. TypeOK'
    BY <1>1, <1>2, <1>3, <1>13, <2>1 DEF TypeOK
  <2>3. EachAskedOnce'
    BY <1>1, <1>6, <1>13, <2>2, EmitOther
  <2> QED BY <1>11, <1>13, <2>1, <2>3
<1> QED BY <1>4, <1>10, <1>12, <1>13

-----------------------------------------------------------------------------
(* The store *)

\* A stroke stored, or covered by a baseline, changes nothing for the clients.
LEMMA BoardShrinks ==
  ASSUME WInv, TypeOK', Board' \subseteq Board, base' < nextSeq',
         UNCHANGED <<clientVars, linkVars, room, loads, nextSeq, pastVars, nextId>>
  PROVE  WInv'
<1>1. /\ up' = up /\ mark' = mark /\ canvas' = canvas /\ toServer' = toServer
      /\ toClient' = toClient /\ room' = room /\ loads' = loads /\ nextSeq' = nextSeq
      /\ excused' = excused /\ behind' = behind /\ ahead' = ahead /\ nextId' = nextId
  BY DEF clientVars, linkVars, pastVars
<1>2. TypeOK
  BY DEF WInv
<1>3. Grows /\ nextSeq <= nextSeq'
  BY <1>1, <1>2, Types DEF Grows
<1>4. NumbersBelowNext'
  BY <1>1 DEF WInv, NumbersBelowNext
<1>5. EachAskedOnce'
  BY <1>1 DEF WInv, EachAskedOnce
<1>6. RequestsTrue' /\ EventsTrue'
  <2>1. \A d \in Clients \ up' : toServer'[d] = <<>>
    BY <1>1 DEF WInv, RequestsTrue
  <2> QED BY <1>1, <1>3, <2>1, TrueStays
<1>7. MarkCovered'
  BY <1>1, <1>3, MarksStay
<1>8. StrokesComing'
  <2>1. \A d, s : Coming(d, s) => Coming(d, s)'
    BY <1>1 DEF Coming
  <2> QED BY <1>1, <1>3, <2>1, ComingStays
<1> QED BY <1>4, <1>5, <1>6, <1>7, <1>8 DEF WInv

LEMMA PersistStep ==
  ASSUME WInv, Persist
  PROVE  WInv'
<1>1. PICK s \in buffered : buffered' = buffered \ {s} /\ stored' = stored \union {s}
  BY DEF Persist
<1>2. /\ UNCHANGED <<clientVars, linkVars, room, loads, nextSeq, pastVars, nextId>>
      /\ base' = base /\ trouble' = trouble
  BY DEF Persist
<1>3. TypeOK'
  BY <1>1, <1>2 DEF WInv, TypeOK, clientVars, linkVars, pastVars
<1>4. Board' \subseteq Board
  BY <1>1 DEF Board
<1>5. base' < nextSeq'
  BY <1>2 DEF WInv, NumbersBelowNext
<1> QED BY <1>2, <1>3, <1>4, <1>5, BoardShrinks

LEMMA CompactStep ==
  ASSUME WInv, Compact
  PROVE  WInv'
<1>1. PICK cut \in stored : base' = cut.seq /\ stored' = {s \in stored : s.seq > cut.seq}
  BY DEF Compact
<1>2. /\ UNCHANGED <<clientVars, linkVars, room, loads, nextSeq, pastVars, nextId>>
      /\ buffered' = buffered /\ trouble < MaxTrouble /\ trouble' = trouble + 1
  BY DEF Compact, Trouble
<1>3. cut \in Board /\ cut \in Stroke /\ cut.seq < nextSeq
  BY <1>1 DEF WInv, TypeOK, NumbersBelowNext, Board
<1>4. base' \in Seqs
  BY <1>1, <1>3 DEF Stroke, Seqs
<1>5. trouble' \in 0..MaxTrouble
  BY <1>2 DEF WInv, TypeOK
<1>6. TypeOK'
  BY <1>1, <1>2, <1>4, <1>5 DEF WInv, TypeOK, clientVars, linkVars, pastVars
<1>7. Board' \subseteq Board
  BY <1>1, <1>2 DEF Board
<1>8. base' < nextSeq'
  BY <1>1, <1>2, <1>3
<1> QED BY <1>2, <1>6, <1>7, <1>8, BoardShrinks

\* After a crash numbers go on from what is stored; whose mark is past them is ahead.
LEMMA CrashStep ==
  ASSUME WInv, Crash
  PROVE  WInv'
<1> DEFINE top == Highest(stored, base)
<1>1. /\ trouble < MaxTrouble /\ trouble' = trouble + 1 /\ nextSeq' = top + 1
      /\ buffered' = {} /\ up' = {} /\ room' = {}
      /\ toServer' = Silence /\ toClient' = Silence /\ loads' = Silence
      /\ ahead' = ahead \union {c \in Clients : mark[c] >= nextSeq'}
      /\ mark' = mark /\ canvas' = canvas /\ stored' = stored /\ base' = base
      /\ excused' = excused /\ behind' = behind /\ nextId' = nextId
  BY DEF Crash, Trouble
<1>2. TypeOK /\ stored \subseteq Stroke /\ base \in Nat /\ nextSeq \in Nat /\ nextSeq <= MaxStrokes + 1
  BY DEF WInv, TypeOK, Seqs
<1>3. /\ base < nextSeq /\ \A s \in stored : s.seq < nextSeq /\ s.seq \in Nat
      /\ \A s, t \in stored : s.seq = t.seq => s = t
  BY <1>2, Types DEF WInv, NumbersBelowNext, Board
<1>4. /\ top \in Nat /\ top >= base /\ \A s \in stored : top >= s.seq
      /\ top = base \/ \E s \in stored : top = s.seq
  BY <1>2, HighestFacts
<1> HIDE DEF top
<1>5. nextSeq' <= nextSeq /\ nextSeq' \in 1..MaxStrokes + 1
  BY <1>1, <1>2, <1>3, <1>4
<1>6. /\ \A c \in Clients : toServer'[c] = <<>> /\ toClient'[c] = <<>> /\ loads'[c] = <<>>
      /\ toServer' \in [Clients -> Seq(Request)] /\ toClient' \in [Clients -> Seq(Event)]
      /\ loads' \in [Clients -> Seq(Load)]
  BY <1>1 DEF Silence
<1>7. DOMAIN <<>> = {} /\ Range(<<>>) = {}
  BY DEF Range
<1>8. trouble' \in 0..MaxTrouble
  BY <1>1, <1>2 DEF TypeOK
<1>9. TypeOK'
  BY <1>1, <1>2, <1>5, <1>6, <1>8 DEF TypeOK
<1>10. Board' = stored
  BY <1>1 DEF Board
<1>11. \A c \in Clients : mark[c] \in Nat
  BY <1>2, Types
<1>12. Grows
  BY <1>1, <1>11 DEF Grows
<1>13. NumbersBelowNext'
  <2>1. base' < nextSeq' /\ \A s \in Board' : s.seq < nextSeq'
    BY <1>1, <1>2, <1>3, <1>4, <1>10
  <2>2. \A c \in Clients \ ahead' : mark'[c] < nextSeq'
    BY <1>1, <1>5, <1>11
  <2> QED BY <1>3, <1>10, <2>1, <2>2 DEF NumbersBelowNext
<1>14. EachAskedOnce'
  <2>1. \A c \in Clients : \A r \in Range(toServer'[c]) : IsDraw(r) => r \in Range(toServer[c])
    BY <1>6, <1>7
  <2>2. AskedOnce(toServer')
    BY <1>6, <1>7 DEF AskedOnce
  <2> QED BY <1>1, <1>5, <1>9, <2>1, <2>2, WaitingFewer, AskedStays
<1>15. RequestsTrue' /\ EventsTrue'
  BY <1>6, <1>7 DEF RequestsTrue, EventsTrue
<1>16. MarkCovered'
  BY <1>1, <1>9, <1>10, <1>12, MarksStay DEF Board
<1>17. StrokesComing'
  BY <1>1 DEF StrokesComing
<1> QED BY <1>9, <1>13, <1>14, <1>15, <1>16, <1>17 DEF WInv

-----------------------------------------------------------------------------
(* Theorems *)

\* The invariant holds of a board that nobody has opened.
LEMMA WInvInit == Init => WInv
<1> SUFFICES ASSUME Init PROVE WInv
  OBVIOUS
<1>1. /\ up = {} /\ room = {} /\ mark = [c \in Clients |-> 0] /\ canvas = Nothing
      /\ toServer = Silence /\ toClient = Silence /\ loads = Silence
      /\ nextSeq = 1 /\ buffered = {} /\ stored = {} /\ base = 0
      /\ excused = Nothing /\ behind = {} /\ ahead = {} /\ nextId = 1 /\ trouble = 0
  BY DEF Init
<1>2. /\ \A c \in Clients : toServer[c] = <<>> /\ toClient[c] = <<>> /\ loads[c] = <<>>
      /\ toServer \in [Clients -> Seq(Request)] /\ toClient \in [Clients -> Seq(Event)]
      /\ loads \in [Clients -> Seq(Load)]
  BY <1>1 DEF Silence
<1>3. canvas \in [Clients -> SUBSET Ids] /\ excused \in [Clients -> SUBSET Ids]
  BY <1>1 DEF Nothing
<1>4. TypeOK
  BY <1>1, <1>2, <1>3 DEF TypeOK, Seqs
<1>5. DOMAIN <<>> = {} /\ Range(<<>>) = {}
  BY DEF Range
<1>6. Board = {}
  BY <1>1 DEF Board
<1>7. NumbersBelowNext
  BY <1>1, <1>6 DEF NumbersBelowNext
<1>8. EachAskedOnce
  <2>1. Waiting(toServer) = {}
    BY <1>2, <1>5 DEF Waiting
  <2>2. Cardinality(Waiting(toServer)) = 0
    BY <2>1, FS_EmptySet
  <2>3. AskedOnce(toServer)
    BY <1>2, <1>5 DEF AskedOnce
  <2> QED BY <1>1, <2>1, <2>2, <2>3 DEF EachAskedOnce
<1>9. RequestsTrue /\ EventsTrue
  BY <1>2, <1>5 DEF RequestsTrue, EventsTrue
<1>10. MarkCovered /\ StrokesComing
  BY <1>6 DEF MarkCovered, StrokesComing
<1> QED BY <1>4, <1>7, <1>8, <1>9, <1>10 DEF WInv

\* Every step keeps it.
LEMMA WInvStep == WInv /\ [Next]_vars => WInv'
<1> SUFFICES ASSUME WInv, [Next]_vars PROVE WInv'
  OBVIOUS
<1>1. ASSUME NEW c \in Clients, Step(c) PROVE WInv'
  <2>1. CASE Connect(c)
    BY <2>1, ConnectStep
  <2>2. CASE DrawLocal(c)
    BY <2>2, DrawLocalStep
  <2>3. CASE HandleClear(c)
    BY <2>3, HandleClearStep
  <2>4. CASE Disconnect(c)
    BY <2>4, DisconnectStep
  <2>5. CASE JoinRoom(c)
    BY <2>5, JoinRoomStep
  <2>6. CASE RequestResync(c)
    BY <2>6, RequestResyncStep
  <2>7. CASE Draw(c)
    BY <2>7, DrawStep
  <2>8. CASE DrawRefused(c)
    BY <2>8, DrawRefusedStep
  <2>9. CASE RelayClear(c)
    BY <2>9, RelayClearStep
  <2>10. CASE \E i \in DOMAIN loads[c] : LoadForJoin(c, i) \/ LoadFails(c, i)
    BY <2>10, LoadForJoinStep, LoadFailsStep
  <2>11. CASE OnHistory(c)
    BY <2>11, OnHistoryStep
  <2>12. CASE Ingest(c)
    BY <2>12, IngestStep
  <2>13. CASE OnClear(c)
    BY <2>13, OnClearStep
  <2> QED BY <1>1, <2>1, <2>2, <2>3, <2>4, <2>5, <2>6, <2>7, <2>8, <2>9, <2>10, <2>11,
             <2>12, <2>13 DEF Step
<1>2. ASSUME UNCHANGED vars PROVE WInv'
  BY <1>2 DEF vars, clientVars, linkVars, boardVars, pastVars, WInv, TypeOK, Board, Covered,
     NumbersBelowNext, EachAskedOnce, RequestsTrue, RequestTrue, EventsTrue, EventTrue,
     MarkCovered, StrokesComing, Coming
<1>3. Idle => UNCHANGED vars
  BY DEF Idle
<1> QED BY <1>1, <1>2, <1>3, PersistStep, CompactStep, CrashStep DEF Next

\* In every behaviour, the inductive invariant of the clients and their server holds.
THEOREM WhiteboardInvariance == Spec => []WInv
  BY WInvInit, WInvStep, PTL DEF Spec

\* In every behaviour, the variables are of their types; numbers stay within the
\* strokes drawn, for each is numbered at most once.
THEOREM WhiteboardTypes == Spec => []TypeOK
<1>1. WInv => TypeOK
  BY DEF WInv
<1> QED BY <1>1, WhiteboardInvariance, PTL

\* In every behaviour, whatever a client will ignore from now on it has, had or was
\* excused: broadcasts, concurrent resyncs, clears, reconnections and crashes make no
\* client's mark skip a stroke.
THEOREM NoStrokeSkipped == Spec => []MarkCovered
<1>1. WInv => MarkCovered
  BY DEF WInv
<1> QED BY <1>1, WhiteboardInvariance, PTL

\* In every behaviour, a member to which nothing is on its way has the whole board,
\* but for one whose mark outlived a crash or whose last load failed.
THEOREM QuietMembersConverged == Spec => []Converged
<1>1. WInv => Converged
  <2> SUFFICES ASSUME WInv, NEW c \in Clients \ (ahead \union behind), Quiet(c),
                      NEW s \in Board
               PROVE  Covered(c, s)
    BY DEF Converged
  <2>1. /\ c \in room /\ loads[c] = <<>>
        /\ Range(toServer[c]) = {} /\ Range(toClient[c]) = {}
    BY DEF Quiet, Range
  <2>2. ~Coming(c, s)
    BY <2>1 DEF Coming
  <2> QED BY <2>1, <2>2 DEF WInv, StrokesComing
<1> QED BY <1>1, WhiteboardInvariance, PTL

-----------------------------------------------------------------------------
(* The canvas *)

USE CanvasAssumption

-----------------------------------------------------------------------------
(* Painting *)

\* What is painted of a scene.
LEMMA PaintedPixels ==
  ASSUME KTypeOK, NEW segments \in Seq(1..MaxSegments)
  PROVE  /\ Painted(segments) \in Seq([segment : 1..MaxSegments, view : 0..MaxViews])
         /\ Len(Painted(segments)) = Len(segments)
         /\ \A i \in 1..Len(segments) :
              Painted(segments)[i] = [segment |-> segments[i], view |-> view]
<1>1. Len(segments) \in Nat /\ \A i \in 1..Len(segments) : segments[i] \in 1..MaxSegments
  OBVIOUS
<1>2. \A i \in 1..Len(segments) :
        [segment |-> segments[i], view |-> view] \in [segment : 1..MaxSegments, view : 0..MaxViews]
  BY <1>1 DEF KTypeOK
<1> QED BY <1>1, <1>2 DEF Painted

\* What a concatenation holds after its first part.
LEMMA ConcatAfter ==
  ASSUME NEW S, NEW s \in Seq(S), NEW t \in Seq(S), NEW k \in 1..Len(t)
  PROVE  (s \o t)[Len(s) + k] = t[k]
<1>1. Len(s) \in Nat /\ Len(t) \in Nat /\ k \in Nat /\ k >= 1 /\ k <= Len(t)
  OBVIOUS
<1>2. Len(s) + k \in 1..(Len(s) + Len(t)) /\ ~(Len(s) + k <= Len(s)) /\ (Len(s) + k) - Len(s) = k
  BY <1>1
<1>3. (s \o t)[Len(s) + k] = t[(Len(s) + k) - Len(s)]
  BY <1>2, ConcatProperties
<1> QED BY <1>2, <1>3

\* Painting the segments that are missing completes a prefix.
LEMMA AppendCompletes ==
  ASSUME KTypeOK, PrefixPainted, dirty = "append", paintedCount < Len(scene)
  PROVE  LET missing == Painted(SubSeq(scene, paintedCount + 1, Len(scene))) IN
         /\ pixels \o missing \in Seq([segment : 1..MaxSegments, view : 0..MaxViews])
         /\ Len(pixels \o missing) = Len(scene)
         /\ \A i \in 1..Len(scene) :
              (pixels \o missing)[i] = [segment |-> scene[i], view |-> view]
<1> DEFINE rest    == SubSeq(scene, paintedCount + 1, Len(scene))
           missing == Painted(rest)
<1>1. /\ scene \in Seq(1..MaxSegments) /\ Len(scene) \in Nat /\ paintedCount \in Nat
      /\ pixels \in Seq([segment : 1..MaxSegments, view : 0..MaxViews])
      /\ Len(pixels) = paintedCount
      /\ \A i \in 1..paintedCount : pixels[i] = [segment |-> scene[i], view |-> view]
  BY DEF KTypeOK, PrefixPainted
<1>2. /\ rest \in Seq(1..MaxSegments) /\ Len(rest) = Len(scene) - paintedCount
      /\ \A i \in 1..Len(rest) : rest[i] = scene[paintedCount + i]
  <2>1. /\ paintedCount + 1 \in Int /\ Len(scene) \in Int /\ paintedCount + 1 <= Len(scene)
        /\ \A i \in (paintedCount + 1)..Len(scene) : scene[i] \in 1..MaxSegments
    BY <1>1
  <2>2. /\ rest \in Seq(1..MaxSegments)
        /\ Len(rest) = Len(scene) - (paintedCount + 1) + 1
        /\ \A i \in 1..(Len(scene) - (paintedCount + 1) + 1) :
             rest[i] = scene[paintedCount + 1 + i - 1]
    BY <2>1, SubSeqProperties
  <2> HIDE DEF rest
  <2>3. \A i \in 1..Len(rest) : paintedCount + 1 + i - 1 = paintedCount + i
    BY <1>1
  <2>4. Len(scene) - (paintedCount + 1) + 1 = Len(scene) - paintedCount
    BY <1>1
  <2> QED BY <2>2, <2>3, <2>4
<1> HIDE DEF rest
<1>3. /\ missing \in Seq([segment : 1..MaxSegments, view : 0..MaxViews])
      /\ Len(missing) = Len(scene) - paintedCount
      /\ \A i \in 1..Len(rest) : missing[i] = [segment |-> scene[paintedCount + i], view |-> view]
  BY <1>2, PaintedPixels
<1> HIDE DEF missing
<1>4. /\ pixels \o missing \in Seq([segment : 1..MaxSegments, view : 0..MaxViews])
      /\ Len(pixels \o missing) = Len(scene)
  <2>1. /\ pixels \o missing \in Seq([segment : 1..MaxSegments, view : 0..MaxViews])
        /\ Len(pixels \o missing) = Len(pixels) + Len(missing)
    BY <1>1, <1>3, ConcatProperties
  <2> QED BY <1>1, <1>3, <2>1
<1>5. ASSUME NEW i \in 1..Len(scene)
      PROVE  (pixels \o missing)[i] = [segment |-> scene[i], view |-> view]
  <2> DEFINE k == i - paintedCount
  <2>1. i \in Nat /\ Len(missing) \in Nat /\ Len(rest) = Len(missing)
    BY <1>1, <1>2, <1>3
  <2>2. CASE i <= paintedCount
    <3>1. i \in 1..paintedCount
      BY <1>1, <2>2
    <3>2. (pixels \o missing)[i] = pixels[i]
      BY <1>1, <1>3, <3>1
    <3> QED BY <1>1, <3>1, <3>2
  <2>3. CASE i > paintedCount
    <3>1. k \in 1..Len(missing) /\ paintedCount + k = i
      BY <1>1, <1>3, <2>1, <2>3
    <3> HIDE DEF k
    <3> DEFINE Pixel == [segment : 1..MaxSegments, view : 0..MaxViews]
    <3>2. pixels \in Seq(Pixel) /\ missing \in Seq(Pixel)
      BY <1>1, <1>3
    <3> HIDE DEF Pixel
    <3>3. (pixels \o missing)[Len(pixels) + k] = missing[k]
      BY <3>1, <3>2, ConcatAfter
    <3>4. Len(pixels) + k = i
      BY <1>1, <3>1
    <3> QED BY <1>3, <2>1, <3>1, <3>3, <3>4
  <2>4. i <= paintedCount \/ i > paintedCount
    BY <1>1, <2>1
  <2> QED BY <2>2, <2>3, <2>4
<1> QED BY <1>4, <1>5 DEF missing, rest

\* A frame shows the whole scene, whatever it had to do for that.
LEMMA FlushShowsScene ==
  ASSUME KInv, Flush, UNCHANGED <<scene, view>>
  PROVE  /\ paintedCount' = Len(scene) /\ Len(pixels') = paintedCount'
         /\ pixels' \in Seq([segment : 1..MaxSegments, view : 0..MaxViews])
         /\ \A i \in 1..Len(scene) : pixels'[i] = [segment |-> scene[i], view |-> view]
<1>1. /\ scene \in Seq(1..MaxSegments) /\ Len(scene) \in Nat /\ paintedCount \in Nat
      /\ pixels \in Seq([segment : 1..MaxSegments, view : 0..MaxViews])
      /\ dirty \in {"none", "append", "full"}
  BY DEF KInv, KTypeOK
<1>2. CASE dirty = "none"
  <2>1. UNCHANGED <<pixels, paintedCount>>
    BY <1>2 DEF Flush
  <2> QED BY <1>1, <1>2, <2>1 DEF KInv, PrefixPainted
<1>3. CASE dirty = "full"
  <2>1. pixels' = Painted(scene) /\ paintedCount' = Len(scene)
    BY <1>3 DEF Flush, CountAfterFull
  <2> QED BY <1>1, <2>1, PaintedPixels DEF KInv
<1>4. CASE dirty = "append" /\ paintedCount >= Len(scene)
  <2>1. UNCHANGED <<pixels, paintedCount>>
    BY <1>4 DEF Flush
  <2>2. paintedCount = Len(scene)
    BY <1>1, <1>4 DEF KInv, PrefixPainted
  <2> QED BY <1>1, <1>4, <2>1, <2>2 DEF KInv, PrefixPainted
<1>5. CASE dirty = "append" /\ paintedCount < Len(scene)
  <2>1. /\ pixels' = pixels \o Painted(SubSeq(scene, paintedCount + 1, Len(scene)))
        /\ paintedCount' = Len(scene)
    BY <1>1, <1>5 DEF Flush
  <2> DEFINE painted == pixels \o Painted(SubSeq(scene, paintedCount + 1, Len(scene)))
  <2>2. /\ painted \in Seq([segment : 1..MaxSegments, view : 0..MaxViews])
        /\ Len(painted) = Len(scene)
        /\ \A i \in 1..Len(scene) : painted[i] = [segment |-> scene[i], view |-> view]
    BY <1>5, AppendCompletes DEF KInv
  <2>3. pixels' = painted
    BY <2>1
  <2> HIDE DEF painted
  <2>4. paintedCount' = Len(scene) /\ Len(pixels') = paintedCount'
    BY <2>1, <2>2, <2>3
  <2>5. pixels' \in Seq([segment : 1..MaxSegments, view : 0..MaxViews])
    BY <2>2, <2>3, Zenon
  <2>6. \A i \in 1..Len(scene) : pixels'[i] = [segment |-> scene[i], view |-> view]
    BY <2>2, <2>3, Zenon
  <2> QED BY <2>4, <2>5, <2>6, Zenon
<1>6. \/ dirty = "none" \/ dirty = "full"
      \/ dirty = "append" /\ paintedCount >= Len(scene)
      \/ dirty = "append" /\ paintedCount < Len(scene)
  BY <1>1
<1> QED BY <1>2, <1>3, <1>4, <1>5, <1>6, Zenon

-----------------------------------------------------------------------------
(* The invariant *)

\* A canvas that is not mounted yet shows the empty scene.
LEMMA KInitInv == KInit => KInv
<1> SUFFICES ASSUME KInit PROVE KInv
  OBVIOUS
<1>1. KTypeOK
  <2>1. /\ mounted \in {"no", "yes", "gone"} /\ joined \in BOOLEAN /\ frame \in BOOLEAN
        /\ cursorsDirty \in BOOLEAN
    BY DEF KInit
  <2>2. /\ scene \in Seq(1..MaxSegments)
        /\ pixels \in Seq([segment : 1..MaxSegments, view : 0..MaxViews])
    BY DEF KInit
  <2>3. /\ dirty \in {"none", "append", "full"} /\ (frame => mounted = "yes")
        /\ paintedCount \in 0..MaxSegments /\ view \in 0..MaxViews
        /\ committed \in 0..MaxSegments /\ updates \in 0..MaxUpdates
    BY DEF KInit
  <2>4. /\ DOMAIN users = {} /\ DOMAIN positions = {} /\ DOMAIN nodes = {}
        /\ myColor \in Colors \union {NoColor}
    BY DEF KInit, Empty
  <2> QED BY <2>1, <2>2, <2>3, <2>4 DEF KTypeOK
<1>2. EngineAlive
  BY DEF KInit, EngineAlive
<1>3. PrefixPainted
  BY DEF KInit, PrefixPainted
<1>4. NodesInPlace
  BY DEF KInit, NodesInPlace, Empty, Visible
<1> QED BY <1>1, <1>2, <1>3, <1>4 DEF KInv

\* What the invariant says of the next state when the overlay does not change.
LEMMA OverlayKept ==
  ASSUME KInv, UNCHANGED overlayVars
  PROVE  /\ DOMAIN users' \subseteq Peers /\ \A p \in DOMAIN users' : users'[p] \in Colors
         /\ myColor' \in Colors \union {NoColor}
         /\ DOMAIN positions' \subseteq Peers
         /\ \A p \in DOMAIN positions' : positions'[p] \in Places
         /\ \A p \in DOMAIN nodes' : nodes'[p] \in [at : Places, view : 0..MaxViews]
         /\ DOMAIN nodes' \subseteq DOMAIN users'
<1>1. users' = users /\ myColor' = myColor /\ positions' = positions /\ nodes' = nodes
  BY DEF overlayVars
<1> QED BY <1>1 DEF KInv, KTypeOK, NodesInPlace

\* A new size blanks the canvas, and asks for it to be repainted whole.
LEMMA ResizeKeeps ==
  ASSUME KInv, Resize, UNCHANGED <<overlayVars, committed, updates>>,
         mounted' = "yes", UNCHANGED joined
  PROVE  KInv'
<1>1. /\ scene' = scene /\ paintedCount' = paintedCount /\ committed' = committed
      /\ updates' = updates /\ joined' = joined
  BY DEF Resize, engineVars
<1>2. CASE UNCHANGED engineVars
  <2>1. /\ UNCHANGED <<scene, dirty, cursorsDirty, paintedCount, frame, view, pixels>>
        /\ UNCHANGED <<users, myColor, positions, nodes>>
    BY <1>2 DEF engineVars, overlayVars
  <2>2. KTypeOK'
    BY <1>1, <2>1 DEF KInv, KTypeOK
  <2>3. EngineAlive' /\ PrefixPainted' /\ NodesInPlace'
    BY <1>1, <2>1 DEF KInv, EngineAlive, PrefixPainted, NodesInPlace, Visible
  <2> QED BY <2>2, <2>3 DEF KInv
<1>3. CASE ~UNCHANGED engineVars
  <2>1. /\ pixels' = <<>> /\ view' \in 0..MaxViews
        /\ dirty' = "full" /\ cursorsDirty' = TRUE /\ frame' = TRUE
    BY <1>3 DEF Resize, ViewMoves, MarkFull, RequestFrame, KInv, KTypeOK
  <2>2. /\ joined' \in BOOLEAN /\ frame' \in BOOLEAN /\ cursorsDirty' \in BOOLEAN
    BY <1>1, <2>1, Zenon DEF KInv, KTypeOK
  <2>3. KTypeOK'
    BY <1>1, <2>1, <2>2, OverlayKept DEF KInv, KTypeOK
  <2>4. EngineAlive' /\ PrefixPainted' /\ NodesInPlace'
    BY <1>1, <2>1, OverlayKept DEF KInv, EngineAlive, PrefixPainted, NodesInPlace
  <2> QED BY <2>3, <2>4 DEF KInv
<1> QED BY <1>2, <1>3

\* Mounting measures the container for the first time.
LEMMA MountKeeps == KInv /\ Mount => KInv'
BY ResizeKeeps DEF Mount

\* A change of the window, or of the device's pixel ratio.
LEMMA ResizedKeeps == KInv /\ Resized => KInv'
BY ResizeKeeps DEF Resized

\* Nothing is asked of a canvas that is gone.
LEMMA UnmountKeeps == KInv /\ Unmount => KInv'
<1> SUFFICES ASSUME KInv, Unmount PROVE KInv'
  OBVIOUS
<1>1. /\ UNCHANGED <<scene, dirty, cursorsDirty, paintedCount, view, pixels, users, myColor>>
      /\ UNCHANGED <<committed, updates>>
  BY DEF Unmount
<1>2. mounted' = "gone" /\ joined' = FALSE /\ frame' = FALSE
  BY DEF Unmount
<1>3. DOMAIN nodes' = {} /\ DOMAIN positions' = {}
  BY DEF Unmount, Empty
<1>4. joined' \in BOOLEAN /\ frame' \in BOOLEAN /\ cursorsDirty' \in BOOLEAN
  BY <1>1, <1>2, Zenon DEF KInv, KTypeOK
<1>5. KTypeOK'
  BY <1>1, <1>2, <1>3, <1>4 DEF KInv, KTypeOK
<1>6. EngineAlive' /\ PrefixPainted'
  BY <1>1, <1>2 DEF KInv, EngineAlive, PrefixPainted
<1>7. NodesInPlace'
  BY <1>1, <1>3 DEF KInv, NodesInPlace, Visible
<1> QED BY <1>5, <1>6, <1>7 DEF KInv

\* Joining attaches input and transport to what is mounted.
LEMMA CanvasJoinKeeps == KInv /\ Join => KInv'
<1> SUFFICES ASSUME KInv, Join PROVE KInv'
  OBVIOUS
<1>1. /\ UNCHANGED <<scene, dirty, cursorsDirty, paintedCount, frame, view, pixels>>
      /\ UNCHANGED <<users, myColor, positions, nodes, committed, updates, mounted>>
  BY DEF Join, engineVars, overlayVars
<1>2. joined' = TRUE /\ mounted = "yes"
  BY DEF Join
<1>3. joined' \in BOOLEAN
  BY <1>2
<1>4. KTypeOK'
  BY <1>1, <1>3 DEF KInv, KTypeOK
<1>5. EngineAlive' /\ PrefixPainted' /\ NodesInPlace'
  BY <1>1, <1>2 DEF KInv, EngineAlive, PrefixPainted, NodesInPlace, Visible
<1> QED BY <1>4, <1>5 DEF KInv

\* An operation that marks everything dirty may change the scene and the viewport.
LEMMA MarkFullKeeps ==
  ASSUME KInv, MarkFull, joined, UNCHANGED <<driveFrame, overlayVars, updates>>,
         scene' \in Seq(1..MaxSegments), Len(scene') <= committed',
         committed' \in 0..MaxSegments, view' \in 0..MaxViews
  PROVE  KInv'
<1>1. UNCHANGED <<mounted, joined, pixels, paintedCount, updates>>
  BY DEF driveFrame
<1>2. dirty' = "full" /\ cursorsDirty' = TRUE /\ frame' = TRUE
  BY DEF MarkFull, RequestFrame
<1>3. joined' \in BOOLEAN /\ frame' \in BOOLEAN /\ cursorsDirty' \in BOOLEAN
  BY <1>1, <1>2, Zenon DEF KInv, KTypeOK
<1>4. mounted' = "yes"
  BY <1>1 DEF KInv, EngineAlive
<1>5. KTypeOK'
  BY <1>1, <1>2, <1>3, <1>4, OverlayKept DEF KInv, KTypeOK
<1>6. EngineAlive' /\ PrefixPainted' /\ NodesInPlace'
  BY <1>1, <1>2, <1>4, OverlayKept DEF EngineAlive, PrefixPainted, NodesInPlace
<1> QED BY <1>5, <1>6 DEF KInv

\* A segment committed here or by another leaves what is painted a prefix of the scene.
LEMMA CommitKeeps == KInv /\ Commit => KInv'
<1> SUFFICES ASSUME KInv, Commit PROVE KInv'
  OBVIOUS
<1>1. /\ UNCHANGED <<mounted, joined, pixels, paintedCount, view, updates, cursorsDirty>>
      /\ UNCHANGED <<users, myColor, positions, nodes>>
      /\ UNCHANGED overlayVars
  BY DEF Commit, MarkAppend, driveFrame, overlayVars
<1>2. /\ scene \in Seq(1..MaxSegments) /\ committed' \in 1..MaxSegments
      /\ committed' = committed + 1 /\ scene' = Append(scene, committed')
      /\ frame' = TRUE /\ joined
  BY DEF Commit, MarkAppend, RequestFrame, KInv, KTypeOK
<1>3. /\ scene' \in Seq(1..MaxSegments) /\ Len(scene) \in Nat /\ Len(scene') = Len(scene) + 1
      /\ \A i \in 1..Len(scene) : scene'[i] = scene[i]
  BY <1>2
<1>4. /\ dirty' \in {"append", "full"}
      /\ dirty' = "append" => dirty # "full"
  BY DEF Commit, MarkAppend, AfterAppend, KInv, KTypeOK
<1>5. joined' \in BOOLEAN /\ frame' \in BOOLEAN /\ cursorsDirty' \in BOOLEAN
  BY <1>1, <1>2, Zenon DEF KInv, KTypeOK
<1>6. mounted' = "yes"
  BY <1>1, <1>2 DEF KInv, EngineAlive
<1>7. KTypeOK'
  BY <1>1, <1>2, <1>3, <1>4, <1>5, <1>6, OverlayKept DEF KInv, KTypeOK
<1>8. EngineAlive'
  BY <1>2, <1>3, <1>6 DEF KInv, KTypeOK, EngineAlive
<1>9. PrefixPainted'
  <2>1. SUFFICES ASSUME dirty # "full", dirty' = "append"
                 PROVE  PrefixPainted'
    BY <1>4 DEF PrefixPainted
  <2>2. /\ paintedCount \in Nat /\ paintedCount <= Len(scene) /\ Len(pixels) = paintedCount
        /\ \A i \in 1..paintedCount : pixels[i] = [segment |-> scene[i], view |-> view]
    BY <2>1 DEF KInv, KTypeOK, PrefixPainted
  <2>3. \A i \in 1..paintedCount : i \in 1..Len(scene)
    BY <1>3, <2>2
  <2>4. paintedCount' = paintedCount /\ pixels' = pixels /\ view' = view /\ dirty' # "none"
    BY <1>1, <2>1
  <2>5. paintedCount' <= Len(scene') /\ Len(pixels') = paintedCount'
    BY <1>3, <2>2, <2>4
  <2>6. ASSUME NEW i \in 1..paintedCount'
        PROVE  pixels'[i] = [segment |-> scene'[i], view |-> view']
    <3>1. i \in 1..paintedCount /\ i \in 1..Len(scene)
      BY <2>3, <2>4
    <3>2. pixels[i] = [segment |-> scene[i], view |-> view] /\ scene'[i] = scene[i]
      BY <3>1, <2>2, <1>3
    <3> QED BY <3>2, <2>4
  <2> QED BY <2>4, <2>5, <2>6, Zenon DEF PrefixPainted
<1>10. NodesInPlace'
  BY <1>1 DEF KInv, NodesInPlace, Visible
<1> QED BY <1>7, <1>8, <1>9, <1>10 DEF KInv

\* A history is appended to the scene, and everything repainted.
LEMMA LoadHistoryKeeps == KInv /\ LoadHistory => KInv'
<1> SUFFICES ASSUME KInv, LoadHistory PROVE KInv'
  OBVIOUS
<1>1. PICK n \in 0..MaxSegments - committed :
        /\ committed' = committed + n
        /\ scene' = scene \o [i \in 1..n |-> committed + i]
  BY DEF LoadHistory
<1>2. /\ committed \in 0..MaxSegments /\ MaxSegments \in Nat /\ n \in Nat
      /\ scene \in Seq(1..MaxSegments) /\ Len(scene) <= committed
  BY DEF KInv, KTypeOK, EngineAlive
<1> DEFINE loaded == [i \in 1..n |-> committed + i]
<1>3. loaded \in Seq(1..MaxSegments) /\ Len(loaded) = n
  <2>1. \A i \in 1..n : committed + i \in 1..MaxSegments
    BY <1>1, <1>2
  <2> QED BY <1>2, <2>1
<1> HIDE DEF loaded
<1>4. scene' \in Seq(1..MaxSegments) /\ Len(scene') = Len(scene) + n
  BY <1>1, <1>2, <1>3 DEF loaded
<1>5. Len(scene') <= committed' /\ committed' \in 0..MaxSegments
  BY <1>1, <1>2, <1>4
<1>6. MarkFull /\ joined /\ UNCHANGED <<driveFrame, overlayVars, updates>>
  BY DEF LoadHistory
<1>7. view' \in 0..MaxViews
  BY DEF LoadHistory, KInv, KTypeOK
<1> QED BY <1>4, <1>5, <1>6, <1>7, MarkFullKeeps

\* A clear empties the scene and repaints an empty board.
LEMMA ClearBoardKeeps == KInv /\ ClearBoard => KInv'
<1> SUFFICES ASSUME KInv, ClearBoard PROVE KInv'
  OBVIOUS
<1>1. /\ scene' = <<>> /\ committed' = committed /\ view' = view
      /\ MarkFull /\ joined /\ UNCHANGED <<driveFrame, overlayVars, updates>>
  BY DEF ClearBoard
<1>2. /\ scene' \in Seq(1..MaxSegments) /\ Len(scene') <= committed'
      /\ committed' \in 0..MaxSegments /\ view' \in 0..MaxViews
  BY <1>1 DEF KInv, KTypeOK
<1> QED BY <1>1, <1>2, MarkFullKeeps

\* A pan or a zoom repaints everything under the new viewport.
LEMMA MoveViewKeeps == KInv /\ MoveView => KInv'
<1> SUFFICES ASSUME KInv, MoveView PROVE KInv'
  OBVIOUS
<1>1. /\ scene' = scene /\ committed' = committed /\ view < MaxViews /\ view' = view + 1
      /\ MarkFull /\ joined /\ UNCHANGED <<driveFrame, overlayVars, updates>>
  BY DEF MoveView, ViewMoves
<1>2. /\ scene' \in Seq(1..MaxSegments) /\ Len(scene') <= committed'
      /\ committed' \in 0..MaxSegments /\ view' \in 0..MaxViews
  BY <1>1 DEF KInv, KTypeOK, EngineAlive
<1> QED BY <1>1, <1>2, MarkFullKeeps

\* An update of the overlay leaves the scene and its painting alone.
LEMMA OverlayUpdateKeeps ==
  ASSUME KInv, joined, UNCHANGED <<driveFrame, view, scene, dirty, committed>>,
         cursorsDirty' = TRUE, RequestFrame, updates' \in 0..MaxUpdates,
         DOMAIN users' \subseteq Peers, \A p \in DOMAIN users' : users'[p] \in Colors,
         myColor' \in Colors \union {NoColor},
         DOMAIN positions' \subseteq Peers,
         \A p \in DOMAIN positions' : positions'[p] \in Places,
         \A p \in DOMAIN nodes' : nodes'[p] \in [at : Places, view : 0..MaxViews],
         DOMAIN nodes' \subseteq DOMAIN users'
  PROVE  KInv'
<1>1. UNCHANGED <<mounted, joined, pixels, paintedCount, view, scene, dirty, committed>>
  BY DEF driveFrame
<1>2. frame' = TRUE /\ mounted' = "yes"
  BY <1>1 DEF RequestFrame, KInv, EngineAlive
<1>3. joined' \in BOOLEAN /\ frame' \in BOOLEAN /\ cursorsDirty' \in BOOLEAN
  BY <1>1, <1>2, Zenon DEF KInv, KTypeOK
<1>4. KTypeOK'
  BY <1>1, <1>2, <1>3 DEF KInv, KTypeOK
<1>5. EngineAlive' /\ PrefixPainted' /\ NodesInPlace'
  BY <1>1, <1>2 DEF KInv, EngineAlive, PrefixPainted, NodesInPlace
<1> QED BY <1>4, <1>5 DEF KInv

\* A member list drops the nodes of those who have left, and asks for a render.
LEMMA SetCursorUsersKeeps == KInv /\ SetCursorUsers => KInv'
<1> SUFFICES ASSUME KInv, SetCursorUsers PROVE KInv'
  OBVIOUS
<1>1. PICK listed \in SUBSET Peers, mine \in Colors \union {NoColor} :
        /\ users' \in [listed -> Colors]
        /\ myColor' = mine
        /\ nodes' = Restrict(nodes, DOMAIN nodes \ Departed(listed))
        /\ positions' = Restrict(positions, DOMAIN positions \ Departed(listed))
  BY DEF SetCursorUsers
<1>2. /\ DOMAIN users' = listed /\ DOMAIN users' \subseteq Peers
      /\ \A p \in DOMAIN users' : users'[p] \in Colors
  BY <1>1
<1>3. /\ DOMAIN positions' \subseteq DOMAIN positions
      /\ \A p \in DOMAIN positions' : positions'[p] = positions[p]
  BY <1>1 DEF Restrict
<1>4. /\ DOMAIN positions' \subseteq Peers
      /\ \A p \in DOMAIN positions' : positions'[p] \in Places
  BY <1>3 DEF KInv, KTypeOK
<1>5. /\ DOMAIN nodes' = DOMAIN nodes \ Departed(listed)
      /\ \A p \in DOMAIN nodes' : nodes'[p] = nodes[p]
  BY <1>1 DEF Restrict
<1>6. /\ DOMAIN nodes' \subseteq DOMAIN users'
      /\ \A p \in DOMAIN nodes' : nodes'[p] \in [at : Places, view : 0..MaxViews]
  BY <1>2, <1>5 DEF Departed, KInv, KTypeOK
<1>7. /\ joined /\ UNCHANGED <<driveFrame, view, scene, dirty, committed>>
      /\ cursorsDirty' = TRUE /\ RequestFrame /\ updates' \in 0..MaxUpdates
  BY DEF SetCursorUsers, KInv, KTypeOK
<1>8. myColor' \in Colors \union {NoColor}
  BY <1>1
<1> QED BY <1>2, <1>4, <1>6, <1>7, <1>8, OverlayUpdateKeeps

\* A cursor position is noted, and drawn in the next frame.
LEMMA SetCursorPositionKeeps == KInv /\ SetCursorPosition => KInv'
<1> SUFFICES ASSUME KInv, SetCursorPosition PROVE KInv'
  OBVIOUS
<1>1. PICK p \in Peers, at \in Places :
        positions' = [q \in DOMAIN positions \union {p} |-> IF q = p THEN at ELSE positions[q]]
  BY DEF SetCursorPosition
<1>2. /\ DOMAIN positions' \subseteq Peers
      /\ \A q \in DOMAIN positions' : positions'[q] \in Places
  BY <1>1 DEF KInv, KTypeOK
<1>3. users' = users /\ myColor' = myColor /\ nodes' = nodes
  BY DEF SetCursorPosition
<1>4. /\ DOMAIN users' \subseteq Peers /\ \A q \in DOMAIN users' : users'[q] \in Colors
      /\ myColor' \in Colors \union {NoColor}
      /\ \A q \in DOMAIN nodes' : nodes'[q] \in [at : Places, view : 0..MaxViews]
      /\ DOMAIN nodes' \subseteq DOMAIN users'
  BY <1>3 DEF KInv, KTypeOK, NodesInPlace
<1>5. /\ joined /\ UNCHANGED <<driveFrame, view, scene, dirty, committed>>
      /\ cursorsDirty' = TRUE /\ RequestFrame /\ updates' \in 0..MaxUpdates
  BY DEF SetCursorPosition, KInv, KTypeOK
<1> QED BY <1>2, <1>4, <1>5, OverlayUpdateKeeps

\* A frame leaves every visible cursor with its node where it should be.
LEMMA FlushShowsCursors ==
  ASSUME KInv, Flush, UNCHANGED <<view, users, myColor, positions>>
  PROVE  /\ \A p \in DOMAIN nodes' : nodes'[p] \in [at : Places, view : 0..MaxViews]
         /\ DOMAIN nodes' \subseteq DOMAIN users
         /\ \A p \in Visible : p \in DOMAIN nodes' /\ nodes'[p] = [at |-> positions[p], view |-> view]
<1>1. /\ \A p \in DOMAIN nodes : nodes[p] \in [at : Places, view : 0..MaxViews]
      /\ DOMAIN nodes \subseteq DOMAIN users
      /\ \A p \in DOMAIN positions : positions[p] \in Places
      /\ view \in 0..MaxViews
  BY DEF KInv, KTypeOK, NodesInPlace
<1>2. Visible \subseteq DOMAIN users /\ Visible \subseteq DOMAIN positions
  BY DEF Visible
<1>3. CASE cursorsDirty
  <2>1. nodes' = [p \in DOMAIN nodes \union Visible |->
                    IF p \in Visible THEN [at |-> positions[p], view |-> view] ELSE nodes[p]]
    BY <1>3 DEF Flush, Render
  <2>2. DOMAIN nodes' = DOMAIN nodes \union Visible
    BY <2>1
  <2>3. \A p \in Visible : nodes'[p] = [at |-> positions[p], view |-> view]
    BY <2>1
  <2>4. ASSUME NEW p \in Visible
        PROVE  nodes'[p] \in [at : Places, view : 0..MaxViews]
    <3>1. positions[p] \in Places
      BY <1>1, <1>2
    <3>2. [at |-> positions[p], view |-> view] \in [at : Places, view : 0..MaxViews]
      BY <1>1, <3>1
    <3> QED BY <2>3, <3>2
  <2>5. \A p \in DOMAIN nodes' : p \notin Visible => p \in DOMAIN nodes /\ nodes'[p] = nodes[p]
    BY <2>1
  <2> QED BY <1>1, <1>2, <2>2, <2>3, <2>4, <2>5
<1>4. CASE ~cursorsDirty
  <2>1. nodes' = nodes
    BY <1>4 DEF Flush
  <2> QED BY <1>1, <1>4, <2>1 DEF KInv, NodesInPlace
<1> QED BY <1>3, <1>4

\* The frame paints what is dirty, once.
LEMMA TickKeeps == KInv /\ Tick => KInv'
<1> SUFFICES ASSUME KInv, Tick PROVE KInv'
  OBVIOUS
<1>1. /\ UNCHANGED <<mounted, joined, scene, view, users, myColor, positions>>
      /\ UNCHANGED <<committed, updates>>
      /\ frame' = FALSE /\ Flush /\ dirty' = "none" /\ cursorsDirty' = FALSE
  BY DEF Tick, Flush
<1>2. joined' \in BOOLEAN /\ frame' \in BOOLEAN /\ cursorsDirty' \in BOOLEAN
  BY <1>1, Zenon DEF KInv, KTypeOK
<1>3. /\ paintedCount' = Len(scene) /\ Len(pixels') = paintedCount'
      /\ pixels' \in Seq([segment : 1..MaxSegments, view : 0..MaxViews])
      /\ \A i \in 1..Len(scene) : pixels'[i] = [segment |-> scene[i], view |-> view]
  BY <1>1, FlushShowsScene
<1>4. /\ \A p \in DOMAIN nodes' : nodes'[p] \in [at : Places, view : 0..MaxViews]
      /\ DOMAIN nodes' \subseteq DOMAIN users
      /\ \A p \in Visible : p \in DOMAIN nodes' /\ nodes'[p] = [at |-> positions[p], view |-> view]
  BY <1>1, FlushShowsCursors
<1>5. paintedCount' \in 0..MaxSegments
  <2>1. Len(scene) \in Nat /\ Len(scene) <= committed /\ committed \in 0..MaxSegments
    BY DEF KInv, KTypeOK, EngineAlive
  <2>2. MaxSegments \in Nat
    OBVIOUS
  <2> QED BY <1>3, <2>1, <2>2
<1>6. KTypeOK'
  BY <1>1, <1>2, <1>3, <1>4, <1>5 DEF KInv, KTypeOK
<1>7. EngineAlive' /\ PrefixPainted'
  <2>1. Len(scene) \in Nat
    BY DEF KInv, KTypeOK
  <2> QED BY <1>1, <1>3, <2>1 DEF KInv, EngineAlive, PrefixPainted
<1>8. NodesInPlace'
  BY <1>1, <1>4 DEF NodesInPlace, Visible
<1> QED BY <1>6, <1>7, <1>8 DEF KInv

\* Every step keeps the invariant, and so does stuttering.
LEMMA KNextKeepsInv == KInv /\ [KNext]_kvars => KInv'
<1> SUFFICES ASSUME KInv, [KNext]_kvars PROVE KInv'
  OBVIOUS
<1>1. CASE KNext
  BY <1>1, MountKeeps, ResizedKeeps, UnmountKeeps, CanvasJoinKeeps, CommitKeeps,
     LoadHistoryKeeps, ClearBoardKeeps, MoveViewKeeps, SetCursorUsersKeeps,
     SetCursorPositionKeeps, TickKeeps DEF KNext
<1>2. CASE UNCHANGED kvars
  <2>1. /\ UNCHANGED <<scene, dirty, cursorsDirty, paintedCount, frame, view, pixels>>
        /\ UNCHANGED <<users, myColor, positions, nodes, committed, updates, mounted, joined>>
    BY <1>2 DEF kvars, engineVars, overlayVars
  <2>2. KTypeOK'
    BY <2>1 DEF KInv, KTypeOK
  <2>3. EngineAlive' /\ PrefixPainted' /\ NodesInPlace'
    BY <2>1 DEF KInv, EngineAlive, PrefixPainted, NodesInPlace, Visible
  <2> QED BY <2>2, <2>3 DEF KInv
<1> QED BY <1>1, <1>2

-----------------------------------------------------------------------------
(* What it gives *)

\* The engine keeps its inductive invariant through mounts, resizes, appends, bulk loads,
\* clears, pans, cursor updates and frames, in whatever order they come.
THEOREM CanvasInvariance == KSpec => []KInv
BY KInitInv, KNextKeepsInv, PTL DEF KSpec

\* The state of the engine keeps its types, and a frame is only ever requested of a
\* mounted canvas.
THEOREM CanvasTypes == KSpec => []KTypeOK
<1>1. KInv => KTypeOK
  BY DEF KInv
<1> QED BY <1>1, CanvasInvariance, PTL

\* Once nothing is dirty a mounted canvas shows exactly the scene, every segment once, in
\* order and under the current viewport (CanvasEngine's flush and SceneRenderer).
THEOREM SceneOnceShown == KSpec => []CleanShowsScene
<1>1. KInv => CleanShowsScene
  <2>1. SUFFICES ASSUME KInv, dirty = "none"
                 PROVE  pixels = Painted(scene)
    BY DEF CleanShowsScene
  <2>2. /\ Len(scene) \in Nat /\ paintedCount = Len(scene) /\ Len(pixels) = paintedCount
        /\ \A i \in 1..Len(scene) : pixels[i] = [segment |-> scene[i], view |-> view]
        /\ pixels \in Seq([segment : 1..MaxSegments, view : 0..MaxViews])
    BY <2>1 DEF KInv, KTypeOK, PrefixPainted
  <2>3. pixels = [i \in 1..Len(pixels) |-> pixels[i]]
    BY <2>2
  <2> QED BY <2>2, <2>3 DEF Painted
<1> QED BY <1>1, CanvasInvariance, PTL

\* A clean overlay of a mounted canvas has every visible cursor where its member last was,
\* and no node of a member who is no longer listed (CursorLayer's setUsers and render).
THEOREM CursorsInPlace == KSpec => []CursorsTracked
<1>1. KInv => CursorsTracked
  BY DEF KInv, NodesInPlace, CursorsTracked
<1> QED BY <1>1, CanvasInvariance, PTL

=============================================================================
