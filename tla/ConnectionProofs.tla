-------------------------- MODULE ConnectionProofs --------------------------
(***************************************************************************)
(* What a session and a client that keeps to the protocol believe of each  *)
(* other, for any number of channels, processes and messages on their way. *)
(***************************************************************************)
EXTENDS Connection, SessionProofs

-----------------------------------------------------------------------------
(* Queues of messages. *)

\* The messages of q, and whether one is of S.
In(q) == {q[i] : i \in 1..Len(q)}
Has(q, S) == \E m \in In(q) : m \in S

\* No message of T comes after one of S.
NoneAfter(q, S, T) == \A i, j \in 1..Len(q) : i < j /\ q[i] \in S => q[j] \notin T

\* An empty queue holds nothing.
LEMMA InEmpty == In(<<>>) = {}
BY DEF In

\* A queue of one message holds that message.
LEMMA InOne ==
  ASSUME NEW U, NEW m \in U
  PROVE  In(<<m>>) = {m}
BY DEF In

\* Two queues in a row hold what each holds.
LEMMA InConcat ==
  ASSUME NEW U, NEW q \in Seq(U), NEW x \in Seq(U)
  PROVE  In(q \o x) = In(q) \cup In(x)
<1> DEFINE l == Len(q)
           n == Len(x)
           y == q \o x
<1>1. /\ l \in Nat /\ n \in Nat /\ Len(y) = l + n
      /\ \A i \in 1..l : y[i] = q[i]
      /\ \A i \in 1..n : y[l + i] = x[i]
  OBVIOUS
<1> HIDE DEF l, n, y
<1>2. ASSUME NEW i \in 1..l + n PROVE y[i] \in {q[j] : j \in 1..l} \cup {x[j] : j \in 1..n}
  <2>1. CASE i <= l BY <1>1, <2>1
  <2>2. CASE ~(i <= l)
    <3>1. i - l \in 1..n /\ l + (i - l) = i BY <1>1, <2>2
    <3>2. y[i] = x[i - l] BY <1>1, <3>1
    <3> QED BY <3>1, <3>2
  <2> QED BY <2>1, <2>2
<1>3. \A i \in 1..l : i \in 1..l + n BY <1>1
<1>4. \A i \in 1..n : l + i \in 1..l + n BY <1>1
<1> DEFINE A == {y[i] : i \in 1..l + n}
           B == {q[i] : i \in 1..l} \cup {x[i] : i \in 1..n}
<1>5. A = B
  <2>1. A \subseteq B BY <1>2
  <2>2. \A i \in 1..l : q[i] \in A BY <1>1, <1>3
  <2>3. \A i \in 1..n : x[i] \in A BY <1>1, <1>4
  <2>4. B \subseteq A
    <3> HIDE DEF A
    <3> QED BY <2>2, <2>3
  <2> HIDE DEF A, B
  <2> QED BY <2>1, <2>4
<1> QED BY <1>1, <1>5 DEF In, l, n, y

\* A queue holds its head and what its tail holds.
LEMMA InTail ==
  ASSUME NEW U, NEW q \in Seq(U), q /= <<>>
  PROVE  In(q) = {Head(q)} \cup In(Tail(q)) /\ Head(q) \in U /\ Tail(q) \in Seq(U)
<1> DEFINE n == Len(q)
           p == Tail(q)
<1>1. /\ n \in Nat \ {0} /\ Len(p) = n - 1 /\ Head(q) = q[1] /\ q[1] \in U /\ p \in Seq(U)
      /\ \A i \in 1..n - 1 : p[i] = q[i + 1]
  OBVIOUS
<1> HIDE DEF n, p
<1>2. ASSUME NEW i \in 1..n PROVE q[i] \in {q[1]} \cup {p[j] : j \in 1..n - 1}
  <2>1. CASE i = 1 BY <2>1
  <2>2. CASE i /= 1
    <3>1. i - 1 \in 1..n - 1 /\ (i - 1) + 1 = i BY <1>1, <2>2
    <3>2. q[i] = p[i - 1] BY <1>1, <3>1
    <3> QED BY <3>1, <3>2
  <2> QED BY <2>1, <2>2
<1>3. 1 \in 1..n /\ \A i \in 1..n - 1 : i + 1 \in 1..n BY <1>1
<1> DEFINE A == {q[i] : i \in 1..n}
           B == {q[1]} \cup {p[i] : i \in 1..n - 1}
<1>4. A = B
  <2>1. A \subseteq B BY <1>2
  <2>2. q[1] \in A BY <1>3
  <2>3. \A i \in 1..n - 1 : p[i] \in A BY <1>1, <1>3
  <2>4. B \subseteq A
    <3> HIDE DEF A
    <3> QED BY <2>2, <2>3
  <2> HIDE DEF A, B
  <2> QED BY <2>1, <2>4
<1> QED BY <1>1, <1>4 DEF In, n, p

\* The order of the messages of a queue is that of its tail, and what must
\* not follow the head does not.
LEMMA AfterTail ==
  ASSUME NEW U, NEW q \in Seq(U), q /= <<>>, NEW S, NEW T, NoneAfter(q, S, T)
  PROVE  NoneAfter(Tail(q), S, T) /\ (Head(q) \in S => ~Has(Tail(q), T))
<1> DEFINE n == Len(q)
           p == Tail(q)
<1>1. n \in Nat \ {0} /\ Len(p) = n - 1 /\ Head(q) = q[1] /\ \A i \in 1..n - 1 : p[i] = q[i + 1] OBVIOUS
<1>2. \A i, j \in 1..n : i < j /\ q[i] \in S => q[j] \notin T BY DEF NoneAfter
<1> HIDE DEF n, p
<1>3. ASSUME NEW i \in 1..n - 1, NEW j \in 1..n - 1, i < j, p[i] \in S PROVE p[j] \notin T
  <2>1. i + 1 \in 1..n /\ j + 1 \in 1..n /\ i + 1 < j + 1 BY <1>1, <1>3
  <2> QED BY <1>1, <1>2, <1>3, <2>1
<1>4. ASSUME q[1] \in S, NEW j \in 1..n - 1 PROVE p[j] \notin T
  <2>1. 1 \in 1..n /\ j + 1 \in 1..n /\ 1 < j + 1 BY <1>1
  <2> QED BY <1>1, <1>2, <1>4, <2>1
<1>5. NoneAfter(p, S, T) BY <1>1, <1>3 DEF NoneAfter
<1>6. q[1] \in S => ~Has(p, T) BY <1>1, <1>4 DEF Has, In
<1> QED BY <1>1, <1>5, <1>6 DEF p

\* The order of the messages of two queues in a row.
LEMMA AfterConcat ==
  ASSUME NEW U, NEW q \in Seq(U), NEW x \in Seq(U), NEW S, NEW T,
         NoneAfter(q, S, T), NoneAfter(x, S, T), Has(q, S) => ~Has(x, T)
  PROVE  NoneAfter(q \o x, S, T)
<1> DEFINE l == Len(q)
           n == Len(x)
           y == q \o x
<1>1. /\ l \in Nat /\ n \in Nat /\ Len(y) = l + n
      /\ \A i \in 1..l : y[i] = q[i]
      /\ \A i \in 1..n : y[l + i] = x[i]
  OBVIOUS
<1>2. \A i, j \in 1..l : i < j /\ q[i] \in S => q[j] \notin T BY DEF NoneAfter
<1>3. \A i, j \in 1..n : i < j /\ x[i] \in S => x[j] \notin T BY DEF NoneAfter
<1>4. \A i \in 1..l : \A j \in 1..n : q[i] \in S => x[j] \notin T BY DEF Has, In
<1> HIDE DEF l, n, y
<1>5. ASSUME NEW i \in 1..l + n, NEW j \in 1..l + n, i < j, y[i] \in S PROVE y[j] \notin T
  <2>1. CASE j <= l
    <3>1. i \in 1..l /\ j \in 1..l BY <1>1, <1>5, <2>1
    <3> QED BY <1>1, <1>2, <1>5, <3>1
  <2>2. CASE ~(j <= l)
    <3>1. j - l \in 1..n /\ l + (j - l) = j BY <1>1, <2>2
    <3>2. y[j] = x[j - l] BY <1>1, <3>1
    <3>3. CASE i <= l
      <4>1. i \in 1..l BY <1>1, <3>3
      <4> QED BY <1>1, <1>4, <1>5, <3>1, <3>2, <4>1
    <3>4. CASE ~(i <= l)
      <4>1. i - l \in 1..n /\ l + (i - l) = i /\ i - l < j - l BY <1>1, <1>5, <3>4
      <4>2. y[i] = x[i - l] BY <1>1, <4>1
      <4> QED BY <1>3, <1>5, <3>1, <3>2, <4>1, <4>2
    <3> QED BY <3>3, <3>4
  <2> QED BY <2>1, <2>2
<1> QED BY <1>1, <1>5 DEF NoneAfter, y

\* Nothing follows anything in an empty queue.
LEMMA AfterEmpty ==
  ASSUME NEW S, NEW T
  PROVE  NoneAfter(<<>>, S, T)
BY DEF NoneAfter

\* Nothing follows anything in a queue of one message.
LEMMA AfterOne ==
  ASSUME NEW m, NEW S, NEW T
  PROVE  NoneAfter(<<m>>, S, T)
BY DEF NoneAfter

-----------------------------------------------------------------------------
(* Sums. *)

\* f holds the sums of the first numbers of w, up to n.
Sums(w, n, f) ==
  /\ f = [i \in 0..n |-> f[i]]
  /\ f[0] = 0
  /\ \A i \in 1..n : f[i] = f[i - 1] + w[i]

\* There are such sums.
LEMMA SumsExists ==
  ASSUME NEW w, NEW n \in Nat
  PROVE  \E f : Sums(w, n, f)
<1> DEFINE S == {i \in 0..n : \E f : Sums(w, i, f)}
<1>1. 0 \in S
  <2> DEFINE f == [i \in 0..0 |-> 0]
  <2>1. Sums(w, 0, f) BY DEF Sums
  <2> QED BY <2>1
<1>2. ASSUME NEW i \in 0..(n - 1), i \in S PROVE i + 1 \in S
  <2>1. PICK f : Sums(w, i, f) BY <1>2
  <2>2. i \in Nat /\ i + 1 \in 0..n OBVIOUS
  <2> DEFINE g == [k \in 0..(i + 1) |-> IF k <= i THEN f[k] ELSE f[i] + w[i + 1]]
  <2>3. \A k \in 0..i : g[k] = f[k] BY <2>2
  <2>4. g[i + 1] = f[i] + w[i + 1] /\ g = [k \in 0..(i + 1) |-> g[k]] BY <2>2
  <2> HIDE DEF g
  <2>5. g[0] = 0 BY <2>1, <2>2, <2>3 DEF Sums
  <2>6. ASSUME NEW k \in 1..(i + 1) PROVE g[k] = g[k - 1] + w[k]
    <3>1. CASE k = i + 1
      <4>1. k - 1 = i /\ i \in 0..i BY <2>2, <3>1
      <4> QED BY <2>3, <2>4, <3>1, <4>1
    <3>2. CASE k /= i + 1
      <4>1. k \in 1..i /\ k \in 0..i /\ k - 1 \in 0..i BY <2>2, <3>2
      <4> QED BY <2>1, <2>3, <4>1 DEF Sums
    <3> QED BY <3>1, <3>2
  <2>7. Sums(w, i + 1, g) BY <2>4, <2>5, <2>6 DEF Sums
  <2> QED BY <2>2, <2>7
<1> HIDE DEF S
<1>3. 0..n \subseteq S BY <1>1, <1>2, PlaceInduction
<1>4. n \in S BY <1>3
<1> QED BY <1>4 DEF S

\* There is one function of such sums.
LEMMA SumsUnique ==
  ASSUME NEW w, NEW n \in Nat, NEW f, NEW g, Sums(w, n, f), Sums(w, n, g)
  PROVE  \A i \in 0..n : f[i] = g[i]
<1> DEFINE S == {i \in 0..n : f[i] = g[i]}
<1>1. 0 \in S BY DEF Sums
<1>2. ASSUME NEW i \in 0..(n - 1), i \in S PROVE i + 1 \in S
  <2>1. i + 1 \in 1..n /\ i + 1 \in 0..n /\ (i + 1) - 1 = i OBVIOUS
  <2>2. f[i + 1] = f[i] + w[i + 1] /\ g[i + 1] = g[i] + w[i + 1] BY <2>1 DEF Sums
  <2> QED BY <1>2, <2>1, <2>2
<1> HIDE DEF S
<1>3. 0..n \subseteq S BY <1>1, <1>2, PlaceInduction
<1> QED BY <1>3 DEF S

\* Total is the last of the sums.
LEMMA TotalIs ==
  ASSUME NEW w, Len(w) \in Nat, NEW f, Sums(w, Len(w), f)
  PROVE  Total(w) = f[Len(w)]
<1> DEFINE n == Len(w)
           Recurs(h) == h = [i \in 0..n |-> IF i = 0 THEN 0 ELSE h[i - 1] + w[i]]
           k == CHOOSE h : Recurs(h)
<1>1. Total(w) = k[n] BY DEF Total
<1> HIDE DEF n
<1>0. n \in Nat BY DEF n
<1>2. Recurs(f)
  <2>1. f = [i \in 0..n |-> f[i]] /\ f[0] = 0 /\ \A i \in 1..n : f[i] = f[i - 1] + w[i]
    BY DEF Sums, n
  <2>2. ASSUME NEW i \in 0..n PROVE f[i] = IF i = 0 THEN 0 ELSE f[i - 1] + w[i]
    <3>1. i = 0 \/ i \in 1..n BY <1>0
    <3> QED BY <2>1, <3>1
  <2> QED BY <2>1, <2>2
<1>3. Recurs(k)
  <2> HIDE DEF Recurs
  <2> QED BY <1>2
<1>4. Sums(w, n, k)
  <2> HIDE DEF k
  <2>1. k = [i \in 0..n |-> k[i]] BY <1>3
  <2>2. k[0] = 0 BY <1>0, <1>3
  <2>3. ASSUME NEW i \in 1..n PROVE k[i] = k[i - 1] + w[i]
    <3>1. i \in 0..n /\ i /= 0 OBVIOUS
    <3>2. k[i] = IF i = 0 THEN 0 ELSE k[i - 1] + w[i] BY <1>3, <3>1
    <3> QED BY <3>1, <3>2
  <2> QED BY <2>1, <2>2, <2>3 DEF Sums
<1> HIDE DEF k
<1>5. n \in 0..n /\ Sums(w, n, f) BY <1>0 DEF n
<1>6. k[n] = f[n] BY <1>0, <1>4, <1>5, SumsUnique
<1> QED BY <1>1, <1>6 DEF n

\* Sums of natural numbers are natural numbers.
LEMMA SumsType ==
  ASSUME NEW w, NEW n \in Nat, \A i \in 1..n : w[i] \in Nat, NEW f, Sums(w, n, f)
  PROVE  \A i \in 0..n : f[i] \in Nat
<1> DEFINE S == {i \in 0..n : f[i] \in Nat}
<1>1. 0 \in S BY DEF Sums
<1>2. ASSUME NEW i \in 0..(n - 1), i \in S PROVE i + 1 \in S
  <2>1. i + 1 \in 1..n /\ i + 1 \in 0..n /\ (i + 1) - 1 = i OBVIOUS
  <2>2. f[i + 1] = f[i] + w[i + 1] /\ w[i + 1] \in Nat BY <2>1 DEF Sums
  <2>3. f[i] \in Nat BY <1>2
  <2>4. f[i + 1] \in Nat BY <2>2, <2>3
  <2> QED BY <2>1, <2>4
<1> HIDE DEF S
<1>3. 0..n \subseteq S BY <1>1, <1>2, PlaceInduction
<1> QED BY <1>3 DEF S

\* The total of natural numbers is one.
LEMMA TotalType ==
  ASSUME NEW w \in Seq(Nat)
  PROVE  Total(w) \in Nat
<1>1. Len(w) \in Nat /\ \A i \in 1..Len(w) : w[i] \in Nat OBVIOUS
<1>2. PICK f : Sums(w, Len(w), f) BY <1>1, SumsExists
<1>3. f[Len(w)] \in Nat BY <1>1, <1>2, SumsType
<1> QED BY <1>1, <1>2, <1>3, TotalIs

\* The total of no numbers is zero.
LEMMA TotalEmpty == Total(<<>>) = 0
<1> DEFINE w == <<>>
           n == Len(w)
<1>1. n = 0 /\ n \in Nat OBVIOUS
<1> HIDE DEF w
<1>2. PICK f : Sums(w, n, f) BY <1>1, SumsExists
<1>3. Total(w) = f[n] BY <1>1, <1>2, TotalIs
<1>4. f[0] = 0 BY <1>2 DEF Sums
<1> QED BY <1>1, <1>3, <1>4 DEF w

\* The total of two sequences in a row is the sum of their totals.
LEMMA TotalConcat ==
  ASSUME NEW v \in Seq(Nat), NEW w \in Seq(Nat)
  PROVE  Total(v \o w) = Total(v) + Total(w)
<1> DEFINE l == Len(v)
           n == Len(w)
           y == v \o w
<1>1. /\ l \in Nat /\ n \in Nat /\ Len(y) = l + n /\ y \in Seq(Nat)
      /\ \A i \in 1..l : y[i] = v[i]
      /\ \A i \in 1..n : y[l + i] = w[i] /\ w[i] \in Nat
      /\ \A i \in 1..l : v[i] \in Nat
  OBVIOUS
<1> HIDE DEF l, n, y
<1>2. l + n \in Nat BY <1>1
<1>3. PICK f : Sums(v, l, f) BY <1>1, SumsExists
<1>4. PICK g : Sums(w, n, g) BY <1>1, SumsExists
<1>5. PICK h : Sums(y, l + n, h) BY <1>2, SumsExists
<1>6. Total(v) = f[l] /\ Total(w) = g[n] /\ Total(y) = h[l + n]
  <2>1. Total(v) = f[l] BY <1>1, <1>3, TotalIs DEF l
  <2>2. Total(w) = g[n] BY <1>1, <1>4, TotalIs DEF n
  <2>3. Total(y) = h[l + n] BY <1>1, <1>2, <1>5, TotalIs
  <2> QED BY <2>1, <2>2, <2>3
<1>7. h[l] = f[l]
  <2> DEFINE S == {i \in 0..l : h[i] = f[i]}
  <2>1. 0 \in S BY <1>1, <1>3, <1>5 DEF Sums
  <2>2. ASSUME NEW i \in 0..(l - 1), i \in S PROVE i + 1 \in S
    <3>1. i + 1 \in 1..l /\ i + 1 \in 0..l /\ (i + 1) - 1 = i /\ i + 1 \in 1..l + n BY <1>1
    <3>2. h[i + 1] = h[i] + y[i + 1] /\ f[i + 1] = f[i] + v[i + 1] BY <1>3, <1>5, <3>1 DEF Sums
    <3> QED BY <1>1, <2>2, <3>1, <3>2
  <2> HIDE DEF S
  <2>3. 0..l \subseteq S BY <1>1, <2>1, <2>2, PlaceInduction
  <2>4. l \in S BY <1>1, <2>3
  <2> QED BY <2>4 DEF S
<1>8. \A i \in 0..n : g[i] \in Nat BY <1>1, <1>4, SumsType
<1>9. f[l] \in Nat
  <2>1. \A i \in 0..l : f[i] \in Nat BY <1>1, <1>3, SumsType
  <2>2. l \in 0..l BY <1>1
  <2> QED BY <2>1, <2>2
<1> DEFINE S == {i \in 0..n : h[l + i] = f[l] + g[i]}
<1>10. 0 \in S
  <2>1. g[0] = 0 /\ l + 0 = l BY <1>1, <1>4 DEF Sums
  <2> QED BY <1>1, <1>7, <1>9, <2>1
<1>11. ASSUME NEW i \in 0..(n - 1), i \in S PROVE i + 1 \in S
  <2>1. /\ i + 1 \in 1..n /\ i + 1 \in 0..n /\ (i + 1) - 1 = i /\ i \in 0..n
        /\ l + (i + 1) \in 1..l + n /\ (l + (i + 1)) - 1 = l + i
    BY <1>1
  <2>2. h[l + (i + 1)] = h[l + i] + w[i + 1] /\ g[i + 1] = g[i] + w[i + 1]
    BY <1>1, <1>4, <1>5, <2>1 DEF Sums
  <2>3. h[l + i] = f[l] + g[i] BY <1>11
  <2> DEFINE a == f[l]
             b == g[i]
             c == w[i + 1]
  <2>4. a \in Nat /\ b \in Nat /\ c \in Nat BY <1>1, <1>8, <1>9, <2>1
  <2> HIDE DEF a, b, c
  <2>5. (a + b) + c = a + (b + c) BY <2>4
  <2>6. h[l + (i + 1)] = f[l] + g[i + 1] BY <2>2, <2>3, <2>5 DEF a, b, c
  <2> QED BY <2>1, <2>6
<1> HIDE DEF S
<1>12. 0..n \subseteq S BY <1>1, <1>10, <1>11, PlaceInduction
<1>13. n \in S BY <1>1, <1>12
<1> QED BY <1>6, <1>13 DEF S, y

\* The sum of what wt says of each message of q.
Sum(q, wt) == Total([i \in 1..Len(q) |-> wt[q[i]]])

\* The places of two queues in a row.
LEMMA ConcatPlaces ==
  ASSUME NEW U, NEW q \in Seq(U), NEW x \in Seq(U)
  PROVE  /\ q \o x \in Seq(U) /\ Len(q \o x) = Len(q) + Len(x)
         /\ \A i \in 1..Len(q) : (q \o x)[i] = q[i]
         /\ \A i \in 1..Len(x) : (q \o x)[Len(q) + i] = x[i]
OBVIOUS

\* The weights of a queue's messages are a sequence of natural numbers.
LEMMA WeightsType ==
  ASSUME NEW U, NEW wt \in [U -> Nat], NEW q \in Seq(U)
  PROVE  LET w == [i \in 1..Len(q) |-> wt[q[i]]] IN
         /\ w \in Seq(Nat) /\ Len(w) = Len(q) /\ \A i \in 1..Len(q) : w[i] = wt[q[i]]
<1>1. Len(q) \in Nat /\ \A i \in 1..Len(q) : q[i] \in U OBVIOUS
<1>2. \A i \in 1..Len(q) : wt[q[i]] \in Nat BY <1>1
<1> DEFINE w == [i \in 1..Len(q) |-> wt[q[i]]]
<1>3. w \in Seq(Nat) /\ Len(w) = Len(q) BY <1>1, <1>2
<1> QED BY <1>3

\* A queue weighs a natural number.
LEMMA SumType ==
  ASSUME NEW U, NEW wt \in [U -> Nat], NEW q \in Seq(U)
  PROVE  Sum(q, wt) \in Nat
BY WeightsType, TotalType DEF Sum

\* An empty queue weighs nothing.
LEMMA SumEmpty ==
  ASSUME NEW wt
  PROVE  Sum(<<>>, wt) = 0
<1> DEFINE w == [i \in 1..Len(<<>>) |-> wt[<<>>[i]]]
<1>1. w = <<>> OBVIOUS
<1> QED BY <1>1, TotalEmpty DEF Sum

\* The total of one number is that number.
LEMMA TotalOne ==
  ASSUME NEW n \in Nat
  PROVE  Total(<<n>>) = n
<1> DEFINE w == <<n>>
           k == Len(w)
<1>1. k = 1 /\ w[1] = n OBVIOUS
<1>2. k \in Nat /\ k - 1 = 0 /\ k \in 1..k BY <1>1
<1> HIDE DEF w, k
<1>3. PICK f : Sums(w, k, f) BY <1>2, SumsExists
<1>4. Total(w) = f[k] BY <1>2, <1>3, TotalIs DEF k
<1>5. f[0] = 0 /\ f[k] = f[k - 1] + w[k] BY <1>2, <1>3 DEF Sums
<1>6. f[k] = 0 + n BY <1>1, <1>2, <1>5
<1> QED BY <1>4, <1>6 DEF w

\* A queue of one message weighs what the message does.
LEMMA SumOne ==
  ASSUME NEW U, NEW wt \in [U -> Nat], NEW m \in U
  PROVE  Sum(<<m>>, wt) = wt[m]
<1> DEFINE w == [i \in 1..Len(<<m>>) |-> wt[<<m>>[i]]]
<1>1. wt[m] \in Nat OBVIOUS
<1>2. w = <<wt[m]>>
  <2>1. <<m>> \in Seq(U) /\ Len(<<m>>) = 1 /\ <<m>>[1] = m OBVIOUS
  <2>2. w \in Seq(Nat) /\ Len(w) = 1 /\ w[1] = wt[m] BY <2>1, WeightsType
  <2> HIDE DEF w
  <2> DEFINE v == <<wt[m]>>
  <2>3. v \in Seq(Nat) /\ Len(v) = 1 /\ v[1] = wt[m] BY <1>1
  <2> HIDE DEF v
  <2>4. w = v BY <2>2, <2>3, SeqEqual
  <2> QED BY <2>4 DEF v
<1> QED BY <1>1, <1>2, TotalOne DEF Sum

\* Two queues in a row weigh what both do.
LEMMA SumConcat ==
  ASSUME NEW U, NEW wt \in [U -> Nat], NEW q \in Seq(U), NEW x \in Seq(U)
  PROVE  Sum(q \o x, wt) = Sum(q, wt) + Sum(x, wt)
<1> DEFINE y == q \o x
           l == Len(q)
           n == Len(x)
           v == [i \in 1..Len(q) |-> wt[q[i]]]
           w == [i \in 1..Len(x) |-> wt[x[i]]]
           z == [i \in 1..Len(y) |-> wt[y[i]]]
<1>1. /\ l \in Nat /\ n \in Nat /\ Len(y) = l + n /\ y \in Seq(U)
      /\ \A i \in 1..l : y[i] = q[i]
      /\ \A i \in 1..n : y[l + i] = x[i]
  OBVIOUS
<1>2. /\ v \in Seq(Nat) /\ Len(v) = l /\ \A i \in 1..l : v[i] = wt[q[i]]
      /\ w \in Seq(Nat) /\ Len(w) = n /\ \A i \in 1..n : w[i] = wt[x[i]]
  BY WeightsType
<1> HIDE DEF y
<1>3. z \in Seq(Nat) /\ Len(z) = l + n /\ \A i \in 1..l + n : z[i] = wt[y[i]] BY <1>1, WeightsType
<1> HIDE DEF v, w, z, l, n
<1>4. z = v \o w
  <2> DEFINE s == v \o w
  <2>1. /\ s \in Seq(Nat) /\ Len(s) = l + n
        /\ \A i \in 1..l : s[i] = v[i]
        /\ \A i \in 1..n : s[l + i] = w[i]
    <3>1. v \in Seq(Nat) /\ w \in Seq(Nat) /\ Len(v) = l /\ Len(w) = n BY <1>2
    <3>2. /\ v \o w \in Seq(Nat) /\ Len(v \o w) = Len(v) + Len(w)
          /\ \A i \in 1..Len(v) : (v \o w)[i] = v[i]
          /\ \A i \in 1..Len(w) : (v \o w)[Len(v) + i] = w[i]
      <4> HIDE DEF s
      <4>1. \A a, b \in Seq(Nat) : /\ a \o b \in Seq(Nat) /\ Len(a \o b) = Len(a) + Len(b)
                                   /\ \A i \in 1..Len(a) : (a \o b)[i] = a[i]
                                   /\ \A i \in 1..Len(b) : (a \o b)[Len(a) + i] = b[i]
        BY ConcatPlaces
      <4> QED BY <3>1, <4>1, Zenon
    <3> QED BY <3>1, <3>2, Zenon
  <2> HIDE DEF s
  <2>2. ASSUME NEW i \in 1..l + n PROVE z[i] = s[i]
    <3>1. CASE i <= l
      <4>1. i \in 1..l BY <1>1, <3>1
      <4>2. s[i] = v[i] /\ y[i] = q[i] BY <1>1, <2>1, <4>1
      <4> QED BY <1>2, <1>3, <4>1, <4>2
    <3>2. CASE ~(i <= l)
      <4>1. i - l \in 1..n /\ l + (i - l) = i BY <1>1, <3>2
      <4>2. s[i] = w[i - l] /\ y[i] = x[i - l] BY <1>1, <2>1, <4>1
      <4> QED BY <1>2, <1>3, <4>1, <4>2
    <3> QED BY <3>1, <3>2
  <2>3. z = s BY <1>3, <2>1, <2>2, SeqEqual
  <2> QED BY <2>3 DEF s
<1>5. Total(z) = Total(v) + Total(w) BY <1>2, <1>4, TotalConcat
<1> QED BY <1>5 DEF Sum, v, w, z, y

\* A queue is its head followed by its tail.
LEMMA HeadTail ==
  ASSUME NEW U, NEW q \in Seq(U), q /= <<>>
  PROVE  q = <<Head(q)>> \o Tail(q) /\ Head(q) \in U /\ Tail(q) \in Seq(U)
<1> DEFINE a == Head(q)
           p == Tail(q)
           n == Len(p)
<1>1. /\ p \in Seq(U) /\ n \in Nat /\ Len(q) = n + 1 /\ a = q[1] /\ a \in U
      /\ \A i \in 1..n : p[i] = q[i + 1]
  OBVIOUS
<1> HIDE DEF a, p
<1> DEFINE s == <<a>> \o p
<1>2. s \in Seq(U) /\ Len(s) = n + 1 /\ s[1] = a /\ \A i \in 1..n : s[1 + i] = p[i] BY <1>1
<1> HIDE DEF s, n
<1>3. ASSUME NEW i \in 1..n + 1 PROVE q[i] = s[i]
  <2>1. CASE i = 1 BY <1>1, <1>2, <2>1
  <2>2. CASE i /= 1
    <3>1. i - 1 \in 1..n /\ (i - 1) + 1 = i /\ 1 + (i - 1) = i BY <1>1, <2>2
    <3> QED BY <1>1, <1>2, <3>1
  <2> QED BY <2>1, <2>2
<1>4. q = s BY <1>1, <1>2, <1>3, SeqEqual
<1> QED BY <1>1, <1>4 DEF s, a, p

\* A queue weighs what its head and its tail weigh.
LEMMA SumTail ==
  ASSUME NEW U, NEW wt \in [U -> Nat], NEW q \in Seq(U), q /= <<>>
  PROVE  Sum(q, wt) = wt[Head(q)] + Sum(Tail(q), wt)
<1> DEFINE a == Head(q)
           p == Tail(q)
<1>1. q = <<a>> \o p /\ a \in U /\ p \in Seq(U) BY HeadTail
<1> HIDE DEF a, p
<1>2. <<a>> \in Seq(U) BY <1>1
<1>3. Sum(<<a>> \o p, wt) = Sum(<<a>>, wt) + Sum(p, wt) BY <1>1, <1>2, SumConcat
<1> QED BY <1>1, <1>3, SumOne DEF a, p

-----------------------------------------------------------------------------
(* The messages. *)

\* What the client sends: requests that want a reply.
HandledTypes == ChannelTypes \ {"ChannelOpen"}
Sendable ==
  {m \in PeerPackets :
     /\ m.type \in ChannelTypes \cup {"KexInit", "EcdhInit", "NewKeys", "GlobalRequest", "Ignore", "Disconnect"}
     /\ m.type = "ChannelOpen" => m.kind = "session"
     /\ m.type = "ChannelRequest" =>
          m.want_reply /\ m.request \in {"pty-req", "shell", "env", "window-change", "other"}
     /\ m.type \in {"KexInit", "EcdhInit"} => m.ok}

\* Messages of the client for the server's channel id.
For(id) == {m \in Sendable : m.type \in HandledTypes /\ m.to = id}
Closes(id) == {m \in For(id) : m.type = "ChannelClose"}
Ptys(id) == {m \in For(id) : m.type = "ChannelRequest" /\ m.request = "pty-req"}
ShellAsks(id) == {m \in For(id) : m.type = "ChannelRequest" /\ m.request = "shell"}
Datas(id) == {m \in For(id) : m.type = "ChannelData"}
Opens(c) == {m \in Sendable : m.type = "ChannelOpen" /\ m.sender = c}

\* What the server sends, with arguments that fit.
Fitting ==
  {m \in ServerMessage :
     /\ m.type \in {"Data", "WindowAdjust"} => m.arg \in Nat
     /\ m.type = "OpenConfirmation" => m.arg \in Ids
     /\ m.type = "ExitStatus" => m.arg \in ExitCodes}

AnswerTypes == {"OpenFailure", "OpenConfirmation", "Success", "Failure", "Data", "WindowAdjust", "Eof",
                "ExitStatus", "Close"}
OpenedTypes == {"OpenFailure", "OpenConfirmation"}
LastTypes == {"Data", "Eof", "ExitStatus", "Close"}

\* Messages of the server for the client's channel c.
To(c, types) == {m \in Fitting : m.type \in types /\ m.to = c}
AllTo(c) == To(c, AnswerTypes)

-----------------------------------------------------------------------------
(* The invariant. *)

ClientChannel ==
  [phase : {"unopened", "opening", "open", "refused"}, peer : Ids, credit : Nat,
   window : 0..ClientWindow, asked : Nat, pty : BOOLEAN, shell : BOOLEAN, early : BOOLEAN,
   eof : BOOLEAN, closed : BOOLEAN, geof : BOOLEAN, gclosed : BOOLEAN,
   status : ExitCodes \cup {"none"}]

Typed ==
  /\ read \in Seq(Sendable)
  /\ write \in Seq(Fitting)
  /\ pending.out \in Seq(Fitting)
  /\ client \in [RemoteIds -> ClientChannel]
  /\ ckx \in {"idle", "init", "got_init", "ecdh", "got_reply", "awaiting"}
  /\ steps \in Nat
  /\ ran \in [RemoteIds -> 0..MaxShells]

\* The channel id is the server's side of the client's c.
Own(id, c) == Known(id) /\ channels[id].remote_id = c
St(id) == channels[id].terminal.state

\* No two channels are for one of the client's, and what the client has on
\* its way is for a channel that is there.
Placed ==
  /\ \A i, j \in DOMAIN channels : channels[i].remote_id = channels[j].remote_id => i = j
  /\ \A m \in In(read) : m.type \in HandledTypes => Known(m.to)

\* Nothing has been said to c yet.
Blank(c) ==
  /\ \A id \in Ids : ~Own(id, c)
  /\ ~Has(write, AllTo(c))
  /\ client[c].credit = 0 /\ client[c].asked = 0
  /\ ~client[c].geof /\ ~client[c].gclosed

\* The life of c, from its open to its close.
Life(c) ==
  LET d == client[c] IN
  /\ d.phase /= "open" => ~d.pty /\ ~d.closed
  /\ d.shell => d.pty
  /\ d.phase = "open" /\ ~d.closed => Own(d.peer, c)
  /\ \A id \in Ids : Own(id, c) => d.phase \in {"opening", "open"} /\ (d.phase = "open" => d.peer = id)
  /\ d.phase = "unopened" => ~Has(read, Opens(c))
  /\ Has(read, Opens(c)) => d.phase = "opening"
  /\ NoneAfter(read, Opens(c), Opens(c))
  /\ d.phase = "unopened" \/ Has(read, Opens(c)) => Blank(c)
  /\ \A m \in In(read) : m \in Opens(c) => m.window = d.window
  /\ NoneAfter(write, To(c, OpenedTypes), To(c, OpenedTypes))
  /\ Has(write, To(c, OpenedTypes)) => d.phase = "opening"
  /\ \A m \in In(write) : m \in To(c, {"OpenConfirmation"}) => Own(m.arg, c)
  /\ Has(write, To(c, {"OpenFailure"})) => \A id \in Ids : ~Own(id, c)

\* What c has on its way for its channel; nothing follows a close.
Coherent(c) ==
  \A id \in Ids : Own(id, c) =>
    /\ Has(read, For(id)) => client[c].phase = "open"
    /\ NoneAfter(read, Closes(id), For(id))
    /\ Has(read, Closes(id)) => client[c].closed
    /\ St(id) = "Reaping" => client[c].closed /\ ~Has(read, For(id))

\* A terminal is asked for once, then a shell, once, and no data comes before
\* that, unless the client is early.
Asking(c) ==
  \A id \in Ids : Own(id, c) =>
    /\ Has(read, Ptys(id)) => St(id) = "None" /\ client[c].pty
    /\ NoneAfter(read, Ptys(id), Ptys(id))
    /\ St(id) /= "None" => client[c].pty
    /\ St(id) \notin {"None", "Requested"} => client[c].shell
    /\ Has(read, ShellAsks(id)) => St(id) \in {"None", "Requested"} /\ client[c].shell
    /\ NoneAfter(read, ShellAsks(id), ShellAsks(id))
    /\ NoneAfter(read, ShellAsks(id), Ptys(id))
    /\ St(id) = "None" /\ client[c].pty => Has(read, Ptys(id))
    /\ client[c].shell /\ St(id) \in {"None", "Requested"} => Has(read, ShellAsks(id))
    /\ ~client[c].early /\ Has(read, Datas(id)) => client[c].shell
    /\ ~client[c].early => NoneAfter(read, Datas(id), ShellAsks(id))

\* The client has got, or has on its way, all that its shell left.
Told(c) ==
  LET s == shells[ran[c]] IN
  /\ client[c].geof \/ Has(write, To(c, {"Eof"}))
  /\ ran[c] \in Shells /\ s.run = "reaped" /\ s.out = 0
  /\ \A m \in In(write) : m \in To(c, {"ExitStatus"}) => m.arg = s.status
  /\ s.status \in ExitCodes => client[c].status = s.status \/ Has(write, To(c, {"ExitStatus"}))

\* What has been said of the end of output and of the close.
LinkedAt(id, c) ==
  /\ client[c].gclosed \/ Has(write, To(c, {"Close"})) => channels[id].close_sent
  /\ channels[id].close_sent => St(id) \in {"Reaping", "Closing"}
  /\ client[c].geof \/ Has(write, To(c, {"Eof"})) => St(id) \in {"Exiting", "Reaping", "Closing"}
  /\ Has(write, To(c, {"ExitStatus"})) => St(id) \in {"Reaping", "Closing"}
  /\ St(id) \in {"Running", "Exiting"} => ran[c] = channels[id].terminal.shell
  /\ St(id) = "Exiting" /\ ~client[c].closed =>
       /\ client[c].geof \/ Has(write, To(c, {"Eof"}))
       /\ shells[ran[c]].out = 0 /\ shells[ran[c]].hup
  /\ St(id) = "Closing" /\ ~client[c].closed => Told(c)

Linked(c) == \A id \in Ids : Own(id, c) => LinkedAt(id, c)

\* What the client has been granted and the server has not seen spent.
Granted(id, c) ==
  client[c].credit + Bytes(write, "WindowAdjust", c) + Bytes(pending.out, "WindowAdjust", c)
    + Coming(read, "ChannelData", id)

\* The windows of the two sides, and the requests and replies between them.
\* An early client is granted what is open when its shell starts once more.
CountedAt(id, c) ==
  /\ channels[id].receive_window <= Granted(id, c)
  /\ Granted(id, c) <= channels[id].receive_window + INITIAL_WINDOW_SIZE
  /\ ~client[c].early \/ St(id) \in {"None", "Requested"} => Granted(id, c) = channels[id].receive_window
  /\ channels[id].send_window + Bytes(write, "Data", c) + Coming(read, "ChannelWindowAdjust", id)
       = client[c].window
  /\ client[c].asked = Replies(write, c) + Requests(read, id)
  /\ St(id) \in {"None", "Requested"} => client[c].early \/ channels[id].receive_window = 0

Counted(c) ==
  /\ \A id \in Ids : Own(id, c) => CountedAt(id, c)
  /\ (\A id \in Ids : ~Own(id, c)) => client[c].asked = Replies(write, c)

\* What the client hears, of a session that has ended too: the end of output
\* and the close come last, and a close that it did not ask for comes after
\* all that its shell left.
Ordered(c) ==
  LET d == client[c] IN
  /\ NoneAfter(write, To(c, {"Close"}), To(c, LastTypes))
  /\ NoneAfter(write, To(c, {"Eof"}), To(c, {"Data", "Eof"}))
  /\ d.gclosed => ~Has(write, To(c, LastTypes))
  /\ d.geof => ~Has(write, To(c, {"Data", "Eof"}))
  /\ (d.gclosed \/ Has(write, To(c, {"Close"}))) /\ ~d.closed => Told(c)

\* It has room for the data, and has asked for the replies.
Affords(c) ==
  /\ Bytes(write, "Data", c) <= client[c].window
  /\ Replies(write, c) <= client[c].asked

Heard(c) == Ordered(c) /\ Affords(c)

\* The two sides of a key exchange.
Exchange == {m \in Sendable : m.type \in {"KexInit", "EcdhInit", "NewKeys"}}
OfType(t) == {m \in Sendable : m.type = t}
Loop(types) == {m \in Fitting : m.type \in types}

Says(t) ==
  /\ Has(write, Loop({t})) /\ ~Has(write, Loop(KxTypes \ {t}))
  /\ NoneAfter(write, Loop({t}), Loop({t}))
Silent == ~Has(write, Loop(KxTypes))

Exchanges ==
  \/ ckx = "idle" /\ kx.state = "AwaitingKexInit" /\ ~Has(read, Exchange) /\ Silent
  \/ /\ ckx = "init" /\ kx.state = "AwaitingKexInit" /\ Silent
     /\ NoneAfter(read, Exchange, Sendable) /\ ~Has(read, Exchange \ OfType("KexInit"))
     /\ Has(read, OfType("KexInit"))
  \/ ckx = "init" /\ kx.state = "AwaitingEcdhInit" /\ read = <<>> /\ Says("KexInit")
  \/ ckx = "got_init" /\ kx.state = "AwaitingEcdhInit" /\ read = <<>> /\ Silent
  \/ /\ ckx = "ecdh" /\ kx.state = "AwaitingEcdhInit" /\ Silent
     /\ read /= <<>> /\ Head(read) \in OfType("EcdhInit") /\ Tail(read) = <<>>
  \/ ckx = "ecdh" /\ kx.state = "AwaitingNewKeys" /\ read = <<>> /\ Says("EcdhReply")
  \/ ckx = "got_reply" /\ kx.state = "AwaitingNewKeys" /\ read = <<>> /\ Silent
  \/ /\ ckx = "awaiting" /\ kx.state = "AwaitingNewKeys" /\ Silent
     /\ read /= <<>> /\ Head(read) \in OfType("NewKeys") /\ ~Has(Tail(read), Exchange)
  \/ /\ ckx = "awaiting" /\ kx.state = "AwaitingKexInit" /\ ~Has(read, Exchange)
     /\ Says("NewKeys")

Live(c) == Life(c) /\ Coherent(c) /\ Asking(c) /\ Linked(c) /\ Counted(c)

-----------------------------------------------------------------------------
(* The steps of the connection, seen from the session. *)

\* A message of the client has the type that it says it has.
LEMMA SendableKinds ==
  ASSUME NEW m \in Sendable
  PROVE  /\ m \in PeerPackets
         /\ m.type = "ChannelOpen" => m \in ChannelOpen
         /\ m.type = "ChannelRequest" => m \in ChannelRequest
         /\ m.type = "ChannelWindowAdjust" => m \in ChannelWindowAdjust
         /\ m.type = "ChannelData" => m \in ChannelData
         /\ m.type = "ChannelEof" => m \in ChannelEof
         /\ m.type = "ChannelClose" => m \in ChannelClose
         /\ m.type = "KexInit" => m \in KexInit
<1>1. m \in PeerPackets BY DEF Sendable
<1> QED BY <1>1, PacketKinds

\* Each step of the connection is a step of the session, or none.
LEMMA ConnectionStep ==
  ASSUME Typed, [NextConnection]_allVars
  PROVE  [NextSession]_sessionVars
<1>1. CASE UNCHANGED allVars BY <1>1 DEF allVars
<1>2. CASE ServerReceives
  <2>1. read /= <<>> /\ read \in Seq(Sendable) BY <1>2 DEF ServerReceives, Typed
  <2>2. Head(read) \in Sendable BY <2>1
  <2>3. Head(read) \in PeerPackets BY <2>2, SendableKinds
  <2> QED BY <1>2, <2>3 DEF ServerReceives, Server, NextSession
<1>3. CASE ServerPolls BY <1>3 DEF ServerPolls, Server, NextSession
<1>4. CASE ServerWrites BY <1>4 DEF ServerWrites, Server, NextSession
<1>5. CASE World BY <1>5 DEF World, NextSession
<1>6. ASSUME NEW m, Put(m) PROVE UNCHANGED sessionVars BY <1>6 DEF Put
<1>7. ASSUME NEW c \in RemoteIds, ClientAct(c) PROVE UNCHANGED sessionVars
  BY <1>6, <1>7 DEF ClientAct, OpenChannel, AskPty, AskShell, AskOther, SendData, SendEof,
     SendClose,
     AnswerClose, PutClose, Refill
<1>8. CASE SendGlobal \/ StartRekey \/ ContinueRekey
  BY <1>6, <1>8 DEF SendGlobal, StartRekey, ContinueRekey
<1>9. CASE ClientReads
  <2>1. PeerReads /\ UNCHANGED kxVars BY <1>9 DEF ClientReads, PeerReads
  <2> QED BY <2>1 DEF NextSession
<1> QED BY <1>1, <1>2, <1>3, <1>4, <1>5, <1>7, <1>8, <1>9 DEF NextConnection

-----------------------------------------------------------------------------
(* What becomes of a shell: once reaped it is left alone, and once it has  *)
(* hung up and its output is read there is none again.                     *)

Moves(s, t) ==
  /\ s.run = "reaped" => t = s
  /\ s.hup /\ s.out = 0 => t.hup /\ t.out = 0

ShellsMove ==
  \A p \in Shells : shells[p].run /= "unspawned" => Moves(shells[p], shells'[p])

\* Each operation on a shell moves it so.
LEMMA MovesOps ==
  ASSUME NEW s \in Shell
  PROVE  /\ Moves(s, s)
         /\ Moves(s, start_kill(s))
         /\ s.run /= "reaped" =>
              /\ Moves(s, Reaped(s))
              /\ Moves(s, HungUp(s))
              /\ \A n : Moves(s, Filled(s, n))
              /\ s.out > 0 => \A n : Moves(s, Drained(s, n))
              /\ \A a : Moves(s, Consumed(s, a))
              /\ ~s.hup => Moves(s, Answered(s)) /\ Moves(s, Wrote(s))
              /\ \A x : Moves(s, Exited(s, x)) /\ Moves(s, HungUp(Exited(s, x)))
<1> USE DEF Moves, Shell
<1>1. Moves(s, s) OBVIOUS
<1>2. Moves(s, start_kill(s)) BY DEF start_kill
<1>3. s.run /= "reaped" => Moves(s, Reaped(s)) /\ Moves(s, HungUp(s)) /\ \A n : Moves(s, Filled(s, n))
  BY DEF Reaped, HungUp, Filled
<1>4. s.run /= "reaped" /\ s.out > 0 => \A n : Moves(s, Drained(s, n)) BY DEF Drained
<1>5. s.run /= "reaped" => \A a : Moves(s, Consumed(s, a)) BY DEF Consumed
<1>6. s.run /= "reaped" /\ ~s.hup => Moves(s, Answered(s)) /\ Moves(s, Wrote(s))
  BY DEF Answered, Wrote
<1>7. s.run /= "reaped" => \A x : Moves(s, Exited(s, x)) /\ Moves(s, HungUp(Exited(s, x)))
  BY DEF Exited, HungUp
<1> QED BY <1>1, <1>2, <1>3, <1>4, <1>5, <1>6, <1>7

\* One shell is replaced.
LEMMA OneShellMoves ==
  ASSUME shells \in [Shells -> Shell], NEW p \in Shells, NEW t, shells' = [shells EXCEPT ![p] = t],
         shells[p].run /= "unspawned" => Moves(shells[p], t)
  PROVE  ShellsMove
<1>1. \A q \in Shells : shells'[q] = IF q = p THEN t ELSE shells[q] OBVIOUS
<1>2. \A q \in Shells : Moves(shells[q], shells[q]) BY DEF Moves
<1> QED BY <1>1, <1>2 DEF ShellsMove

\* A step of a shell or of the kernel.
LEMMA ShellStepMoves ==
  ASSUME shells \in [Shells -> Shell], NEW p \in Shells, ShellStep(p)
  PROVE  ShellsMove
<1>1. PICK s \in Shell : s = shells[p] OBVIOUS
<1>2. \E t : shells' = [shells EXCEPT ![p] = t] /\ Moves(s, t)
  <2>1. CASE ShellReads(p) BY <1>1, <2>1, MovesOps DEF ShellReads, Becomes, Attached
  <2>2. CASE ShellAnswers(p) BY <1>1, <2>2, MovesOps DEF ShellAnswers, Becomes, Attached
  <2>3. CASE ShellWrites(p) BY <1>1, <2>3, MovesOps DEF ShellWrites, Becomes, Attached
  <2>4. CASE ShellExits(p) BY <1>1, <2>4, MovesOps DEF ShellExits, Leaves, Becomes
  <2>5. CASE ShellDies(p) BY <1>1, <2>5, MovesOps DEF ShellDies, Leaves, Becomes
  <2>6. CASE ShellHangsUp(p) BY <1>1, <2>6, MovesOps DEF ShellHangsUp, Becomes
  <2> QED BY <2>1, <2>2, <2>3, <2>4, <2>5, <2>6 DEF ShellStep
<1> QED BY <1>1, <1>2, OneShellMoves

\* Passing channels moves the shells of Exiting ones only.
LEMMA PassedMoves ==
  ASSUME IInv, NEW js \in SUBSET DOMAIN channels
  PROVE  \A p \in Shells : Moves(shells[p], PassedShells(js)[p])
<1> TAKE p \in Shells
<1>1. shells[p] \in Shell BY DEF IInv, TypeOK
<1>2. ASSUME NEW j \in js, channels[j].terminal.shell = p, PassedReaps(j) PROVE Moves(shells[p], Reaped(shells[p]))
  <2>1. channels[j].terminal.state \in OwningStates BY <1>2 DEF PassedReaps, OwningStates
  <2>2. shells[p].run \in {"alive", "dying", "zombie"} BY <1>2, <2>1 DEF IInv, ShellsOwned
  <2> QED BY <1>1, <2>2, MovesOps
<1>3. Moves(shells[p], start_kill(shells[p])) /\ Moves(shells[p], shells[p]) BY <1>1, MovesOps
<1> QED BY <1>2, <1>3 DEF PassedShells

\* The same, followed by an operation on the shell of id, not passed.
LEMMA PolledMoves ==
  ASSUME IInv, NEW id \in DOMAIN channels, channels[id].terminal.state \in OwningStates, NEW t,
         shells' = [PassedShells(Below(id)) EXCEPT ![channels[id].terminal.shell] = t],
         Moves(shells[channels[id].terminal.shell], t)
  PROVE  ShellsMove
<1> DEFINE p == channels[id].terminal.shell
           P == PassedShells(Below(id))
<1>1. Below(id) \in SUBSET DOMAIN channels BY DEF Below
<1>2. P \in [Shells -> Shell] BY <1>1, PassedShellsFacts
<1>3. \A q \in Shells : Moves(shells[q], P[q]) BY <1>1, PassedMoves
<1> HIDE DEF P
<1>4. \A q \in Shells : shells'[q] = IF q = p THEN t ELSE P[q] BY <1>2 DEF P
<1> QED BY <1>3, <1>4 DEF ShellsMove

\* A poll of the terminals.
LEMMA PollMoves ==
  ASSUME IInv, Poll
  PROVE  ShellsMove
<1>1. \A js \in SUBSET DOMAIN channels : shells' = PassedShells(js) => ShellsMove
  BY PassedMoves DEF ShellsMove
<1>2. CASE PollPending BY <1>1, <1>2 DEF PollPending
<1>3. ASSUME NEW id \in DOMAIN channels, PollReady(id) PROVE ShellsMove
  <2> DEFINE p == channels[id].terminal.shell
  <2>1. Below(id) \in SUBSET DOMAIN channels BY DEF Below
  <2>2. ASSUME channels[id].terminal.state \in OwningStates
        PROVE  /\ p \in Shells /\ shells[p] \in Shell /\ shells[p].run \in {"alive", "dying", "zombie"}
               /\ PassedShells(Below(id))[p] = shells[p]
               /\ PassedShells(Below(id)) \in [Shells -> Shell]
    <3>1. p \in Shells /\ shells[p].run \in {"alive", "dying", "zombie"}
      BY <2>2 DEF IInv, ShellsOwned
    <3>2. shells[p] \in Shell BY <3>1 DEF IInv, TypeOK
    <3>3. PassedShells(Below(id))[p] = shells[p] BY <2>2, PassedOwnShell
    <3>4. PassedShells(Below(id)) \in [Shells -> Shell] BY <2>1, PassedShellsFacts
    <3> QED BY <3>1, <3>2, <3>3, <3>4
  <2>3. CASE PollRead(id)
    <3>1. channels[id].terminal.state \in OwningStates BY <2>3 DEF PollRead, OwningStates
    <3>2. PICK n : shells' = [PassedShells(Below(id)) EXCEPT ![p] = Drained(@, n)]
      BY <2>3 DEF PollRead
    <3>3. shells' = [PassedShells(Below(id)) EXCEPT ![p] = Drained(shells[p], n)]
      BY <2>2, <3>1, <3>2
    <3>4. shells[p].out > 0 BY <2>3 DEF PollRead, ShellOf
    <3>5. Moves(shells[p], Drained(shells[p], n)) BY <2>2, <3>1, <3>4, MovesOps
    <3> QED BY <3>1, <3>3, <3>5, PolledMoves
  <2>4. CASE PollEof(id) BY <1>1, <2>1, <2>4 DEF PollEof
  <2>5. CASE PollReadError(id)
    <3>1. channels[id].terminal.state \in OwningStates BY <2>5 DEF PollReadError, OwningStates
    <3>2. shells' = [PassedShells(Below(id)) EXCEPT ![p] = start_kill(shells[p])]
      BY <2>2, <2>5, <3>1 DEF PollReadError
    <3>3. Moves(shells[p], start_kill(shells[p])) BY <2>2, <3>1, MovesOps
    <3> QED BY <3>1, <3>2, <3>3, PolledMoves
  <2>6. ASSUME channels[id].terminal.state \in OwningStates,
               shells' = [PassedShells(Below(id)) EXCEPT ![p] = Reaped(@)]
        PROVE  ShellsMove
    <3>1. shells' = [PassedShells(Below(id)) EXCEPT ![p] = Reaped(shells[p])] BY <2>2, <2>6
    <3>2. Moves(shells[p], Reaped(shells[p])) BY <2>2, <2>6, MovesOps
    <3> QED BY <2>6, <3>1, <3>2, PolledMoves
  <2>7. CASE PollExit(id) BY <2>6, <2>7 DEF PollExit, OwningStates
  <2>8. CASE PollClose(id) BY <1>1, <2>1, <2>8 DEF PollClose
  <2>9. CASE PollReap(id)
    <3>1. channels[id].terminal.state \in OwningStates BY <2>9 DEF PollReap, OwningStates
    <3>2. \/ shells' = [PassedShells(Below(id)) EXCEPT ![p] = Reaped(@)]
          \/ shells' = PassedShells(Below(id))
      BY <2>9 DEF PollReap
    <3> QED BY <1>1, <2>1, <2>6, <3>1, <3>2
  <2> QED BY <1>3, <2>3, <2>4, <2>5, <2>7, <2>8, <2>9 DEF PollReady
<1> QED BY <1>2, <1>3 DEF Poll

\* Every step of the session moves every shell so.
LEMMA SessionMoves ==
  ASSUME IInv, [NextSession]_sessionVars
  PROVE  ShellsMove
<1>0. shells \in [Shells -> Shell] BY DEF IInv, TypeOK
<1>1. ASSUME UNCHANGED shells PROVE ShellsMove BY <1>1 DEF ShellsMove, Moves
<1>2. ASSUME NEW m, request(m, banner(m)) PROVE ShellsMove
  <2>1. CASE StartShell(m)
    <3>1. PICK p \in Shells : IsFresh(p) /\ shells' = spawn(p) BY <2>1 DEF StartShell
    <3>2. shells[p].run = "unspawned" BY <3>1 DEF IsFresh
    <3> QED BY <1>0, <3>1, <3>2, OneShellMoves DEF spawn
  <2>2. CASE UNCHANGED shells BY <1>1, <2>2
  <2> QED
    BY <1>2, <2>1, <2>2 DEF request, UnknownChannel, PtyReq, Env, ShellError, WindowChange,
       Refused
<1>3. ASSUME NEW m, close(m) PROVE ShellsMove
  <2> DEFINE p == channels[m.to].terminal.shell
  <2>1. CASE UNCHANGED shells BY <1>1, <2>1
  <2>2. CASE /\ Known(m.to) /\ channels[m.to].terminal.state \in {"Running", "Exiting"}
             /\ shells' = [shells EXCEPT ![p] = start_kill(@)]
    <3>1. p \in Shells BY <2>2 DEF IInv, ShellsOwned, OwningStates, Known
    <3>2. Moves(shells[p], start_kill(shells[p])) BY <1>0, <3>1, MovesOps
    <3>3. shells' = [shells EXCEPT ![p] = start_kill(shells[p])] BY <2>2
    <3> QED BY <1>0, <3>1, <3>2, <3>3, OneShellMoves
  <2> QED BY <1>3, <2>1, <2>2 DEF close
<1>4. ASSUME NEW m, ChannelMessage(m) PROVE ShellsMove
  BY <1>1, <1>2, <1>3, <1>4 DEF ChannelMessage, open, adjust_window, data, eof, vars, UnknownChannel
<1>5. ASSUME NEW m, Receive(m) PROVE ShellsMove
  BY <1>1, <1>4, <1>5 DEF Receive, sessionVars, vars, Ends, Rekey, RefuseGlobal
<1>6. CASE WritePty
  <2> DEFINE p == pending.shell
  <2>1. CASE UNCHANGED shells BY <1>1, <2>1
  <2>2. CASE \E k : shells' = [shells EXCEPT ![p] = Filled(shells[p], k)]
    <3>1. PICK k : shells' = [shells EXCEPT ![p] = Filled(shells[p], k)] BY <2>2
    <3>2. PICK id \in DOMAIN channels : channels[id].terminal.state = "Running" /\ channels[id].terminal.shell = p
      BY <1>6 DEF IInv, WriteTargetRuns, WritePty
    <3>3. p \in Shells /\ shells[p].run \in {"alive", "dying", "zombie"}
      BY <3>2 DEF IInv, ShellsOwned, OwningStates
    <3>4. Moves(shells[p], Filled(shells[p], k)) BY <1>0, <3>3, MovesOps
    <3> QED BY <1>0, <3>1, <3>3, <3>4, OneShellMoves
  <2> QED BY <1>6, <2>1, <2>2 DEF WritePty
<1>7. CASE Environment
  BY <1>0, <1>1, <1>7, ShellStepMoves DEF Environment, DeadlinePasses, ShellSteps
<1>8. CASE PollTerminals BY <1>8, PollMoves DEF PollTerminals
<1>9. CASE ConnectionLost \/ PeerReads BY <1>1, <1>9 DEF ConnectionLost, Ends, PeerReads
<1>10. CASE UNCHANGED sessionVars BY <1>1, <1>10 DEF sessionVars, vars
<1> QED BY <1>5, <1>6, <1>7, <1>8, <1>9, <1>10 DEF NextSession, AwaitWrite

-----------------------------------------------------------------------------
(* Bytes, replies and requests on their way. *)

ByteWeight(t, c) == [m \in Fitting |-> IF m.type = t /\ m.to = c THEN m.arg ELSE 0]
ReplyWeight(c) == [m \in Fitting |-> IF m.type \in {"Success", "Failure"} /\ m.to = c THEN 1 ELSE 0]
ComingWeight(t, id) == [m \in Sendable |-> IF m.type = t /\ m.to = id THEN m.n ELSE 0]
RequestWeight(id) == [m \in Sendable |-> IF m.type = "ChannelRequest" /\ m.to = id THEN 1 ELSE 0]

\* The weights are natural numbers.
LEMMA Weights ==
  /\ \A t \in {"Data", "WindowAdjust"} : \A c : ByteWeight(t, c) \in [Fitting -> Nat]
  /\ \A c : ReplyWeight(c) \in [Fitting -> Nat]
  /\ \A t \in {"ChannelData", "ChannelWindowAdjust"} : \A id : ComingWeight(t, id) \in [Sendable -> Nat]
  /\ \A id : RequestWeight(id) \in [Sendable -> Nat]
<1>1. \A t \in {"Data", "WindowAdjust"} : \A c : ByteWeight(t, c) \in [Fitting -> Nat]
  BY DEF ByteWeight, Fitting
<1>2. \A c : ReplyWeight(c) \in [Fitting -> Nat] BY DEF ReplyWeight
<1>3. ASSUME NEW t \in {"ChannelData", "ChannelWindowAdjust"}, NEW id PROVE ComingWeight(t, id) \in [Sendable -> Nat]
  <2>1. \A m \in Sendable : m.type = t => m.n \in Nat
    <3>1. Sizes \subseteq Nat BY ChannelsAssumption
    <3>2. \A m \in ChannelData \cup ChannelWindowAdjust : m.n \in Sizes
      BY DEF ChannelData, ChannelWindowAdjust
    <3>3. \A m \in Sendable : m.type = t => m \in ChannelData \cup ChannelWindowAdjust
      BY SendableKinds
    <3> QED BY <3>1, <3>2, <3>3
  <2> QED BY <2>1 DEF ComingWeight
<1>4. \A id : RequestWeight(id) \in [Sendable -> Nat] BY DEF RequestWeight
<1> QED BY <1>1, <1>2, <1>3, <1>4

\* The counts of Connection are sums of weights.
LEMMA AsSums ==
  /\ \A q \in Seq(Fitting) : \A t, c : Bytes(q, t, c) = Sum(q, ByteWeight(t, c))
  /\ \A q \in Seq(Fitting) : \A c : Replies(q, c) = Sum(q, ReplyWeight(c))
  /\ \A q \in Seq(Sendable) : \A t, id : Coming(q, t, id) = Sum(q, ComingWeight(t, id))
  /\ \A q \in Seq(Sendable) : \A id : Requests(q, id) = Sum(q, RequestWeight(id))
<1>1. ASSUME NEW q \in Seq(Fitting), NEW t, NEW c PROVE Bytes(q, t, c) = Sum(q, ByteWeight(t, c))
  <2>1. \A i \in 1..Len(q) : q[i] \in Fitting OBVIOUS
  <2>2. \A i \in 1..Len(q) : ByteWeight(t, c)[q[i]] = IF q[i].type = t /\ q[i].to = c THEN q[i].arg ELSE 0
    BY <2>1 DEF ByteWeight
  <2> HIDE DEF ByteWeight
  <2>3. [i \in 1..Len(q) |-> ByteWeight(t, c)[q[i]]]
          = [i \in 1..Len(q) |-> IF q[i].type = t /\ q[i].to = c THEN q[i].arg ELSE 0]
    BY <2>2
  <2> QED BY <2>3 DEF Bytes, Sum
<1>2. ASSUME NEW q \in Seq(Fitting), NEW c PROVE Replies(q, c) = Sum(q, ReplyWeight(c))
  <2>1. \A i \in 1..Len(q) : q[i] \in Fitting OBVIOUS
  <2>2. \A i \in 1..Len(q) : ReplyWeight(c)[q[i]] = IF q[i].type \in {"Success", "Failure"} /\ q[i].to = c THEN 1 ELSE 0
    BY <2>1 DEF ReplyWeight
  <2>3. [i \in 1..Len(q) |-> ReplyWeight(c)[q[i]]]
          = [i \in 1..Len(q) |-> IF q[i].type \in {"Success", "Failure"} /\ q[i].to = c THEN 1 ELSE 0]
    BY <2>2
  <2> QED BY <2>3 DEF Replies, Sum
<1>3. ASSUME NEW q \in Seq(Sendable), NEW t, NEW id PROVE Coming(q, t, id) = Sum(q, ComingWeight(t, id))
  <2>1. \A i \in 1..Len(q) : q[i] \in Sendable OBVIOUS
  <2>2. \A i \in 1..Len(q) : ComingWeight(t, id)[q[i]] = IF q[i].type = t /\ q[i].to = id THEN q[i].n ELSE 0
    BY <2>1 DEF ComingWeight
  <2>3. [i \in 1..Len(q) |-> ComingWeight(t, id)[q[i]]]
          = [i \in 1..Len(q) |-> IF q[i].type = t /\ q[i].to = id THEN q[i].n ELSE 0]
    BY <2>2
  <2> QED BY <2>3 DEF Coming, Sum
<1>4. ASSUME NEW q \in Seq(Sendable), NEW id PROVE Requests(q, id) = Sum(q, RequestWeight(id))
  <2>1. \A i \in 1..Len(q) : q[i] \in Sendable OBVIOUS
  <2>2. \A i \in 1..Len(q) : RequestWeight(id)[q[i]] = IF q[i].type = "ChannelRequest" /\ q[i].to = id THEN 1 ELSE 0
    BY <2>1 DEF RequestWeight
  <2>3. [i \in 1..Len(q) |-> RequestWeight(id)[q[i]]]
          = [i \in 1..Len(q) |-> IF q[i].type = "ChannelRequest" /\ q[i].to = id THEN 1 ELSE 0]
    BY <2>2
  <2> QED BY <2>3 DEF Requests, Sum
<1> QED BY <1>1, <1>2, <1>3, <1>4

\* What a message weighs.
Weight(m, t, c) == IF m.type = t /\ m.to = c THEN m.arg ELSE 0
IsReply(m, c) == IF m.type \in {"Success", "Failure"} /\ m.to = c THEN 1 ELSE 0
Carries(m, t, id) == IF m.type = t /\ m.to = id THEN m.n ELSE 0
IsRequest(m, id) == IF m.type = "ChannelRequest" /\ m.to = id THEN 1 ELSE 0

\* Bytes on their way to the client, of queues built up and taken apart.
LEMMA BytesFacts ==
  ASSUME NEW t \in {"Data", "WindowAdjust"}, NEW c
  PROVE  /\ Bytes(<<>>, t, c) = 0
         /\ \A m \in Fitting : Bytes(<<m>>, t, c) = Weight(m, t, c) /\ Weight(m, t, c) \in Nat
         /\ \A q \in Seq(Fitting) : Bytes(q, t, c) \in Nat
         /\ \A q, x \in Seq(Fitting) : Bytes(q \o x, t, c) = Bytes(q, t, c) + Bytes(x, t, c)
         /\ \A q \in Seq(Fitting) : q /= <<>> => Bytes(q, t, c) = Weight(Head(q), t, c) + Bytes(Tail(q), t, c)
<1> DEFINE wt == ByteWeight(t, c)
<1>1. wt \in [Fitting -> Nat] BY Weights
<1>2. \A m \in Fitting : wt[m] = Weight(m, t, c) BY DEF ByteWeight, Weight
<1>3. \A q \in Seq(Fitting) : Bytes(q, t, c) = Sum(q, wt) BY AsSums
<1> HIDE DEF wt
<1>4. <<>> \in Seq(Fitting) /\ \A m \in Fitting : <<m>> \in Seq(Fitting) OBVIOUS
<1>5. Bytes(<<>>, t, c) = 0 BY <1>3, <1>4, SumEmpty
<1>6. \A m \in Fitting : Bytes(<<m>>, t, c) = Weight(m, t, c) BY <1>1, <1>2, <1>3, <1>4, SumOne
<1>7. \A m \in Fitting : Weight(m, t, c) \in Nat
  <2>1. \A m \in Fitting : wt[m] \in Nat BY <1>1
  <2> QED BY <1>2, <2>1
<1>8. \A q \in Seq(Fitting) : Bytes(q, t, c) \in Nat BY <1>1, <1>3, SumType
<1>9. ASSUME NEW q \in Seq(Fitting), NEW x \in Seq(Fitting) PROVE Bytes(q \o x, t, c) = Bytes(q, t, c) + Bytes(x, t, c)
  <2>1. q \o x \in Seq(Fitting) OBVIOUS
  <2>2. Sum(q \o x, wt) = Sum(q, wt) + Sum(x, wt) BY <1>1, SumConcat
  <2> QED BY <1>3, <2>1, <2>2
<1>10. ASSUME NEW q \in Seq(Fitting), q /= <<>> PROVE Bytes(q, t, c) = Weight(Head(q), t, c) + Bytes(Tail(q), t, c)
  <2>1. Head(q) \in Fitting /\ Tail(q) \in Seq(Fitting) BY <1>10
  <2>2. Sum(q, wt) = wt[Head(q)] + Sum(Tail(q), wt) BY <1>1, <1>10, SumTail
  <2> QED BY <1>2, <1>3, <2>1, <2>2
<1> QED BY <1>5, <1>6, <1>7, <1>8, <1>9, <1>10

\* Replies on their way to the client, likewise.
LEMMA RepliesFacts ==
  ASSUME NEW c
  PROVE  /\ Replies(<<>>, c) = 0
         /\ \A m \in Fitting : Replies(<<m>>, c) = IsReply(m, c)
         /\ \A q \in Seq(Fitting) : Replies(q, c) \in Nat
         /\ \A q, x \in Seq(Fitting) : Replies(q \o x, c) = Replies(q, c) + Replies(x, c)
         /\ \A q \in Seq(Fitting) : q /= <<>> => Replies(q, c) = IsReply(Head(q), c) + Replies(Tail(q), c)
<1> DEFINE wt == ReplyWeight(c)
<1>1. wt \in [Fitting -> Nat] BY Weights
<1>2. \A m \in Fitting : wt[m] = IsReply(m, c) BY DEF ReplyWeight, IsReply
<1>3. \A q \in Seq(Fitting) : Replies(q, c) = Sum(q, wt) BY AsSums
<1> HIDE DEF wt
<1>4. <<>> \in Seq(Fitting) /\ \A m \in Fitting : <<m>> \in Seq(Fitting) OBVIOUS
<1>5. Replies(<<>>, c) = 0 BY <1>3, <1>4, SumEmpty
<1>6. \A m \in Fitting : Replies(<<m>>, c) = IsReply(m, c) BY <1>1, <1>2, <1>3, <1>4, SumOne
<1>8. \A q \in Seq(Fitting) : Replies(q, c) \in Nat BY <1>1, <1>3, SumType
<1>9. ASSUME NEW q \in Seq(Fitting), NEW x \in Seq(Fitting) PROVE Replies(q \o x, c) = Replies(q, c) + Replies(x, c)
  <2>1. q \o x \in Seq(Fitting) OBVIOUS
  <2>2. Sum(q \o x, wt) = Sum(q, wt) + Sum(x, wt) BY <1>1, SumConcat
  <2> QED BY <1>3, <2>1, <2>2
<1>10. ASSUME NEW q \in Seq(Fitting), q /= <<>> PROVE Replies(q, c) = IsReply(Head(q), c) + Replies(Tail(q), c)
  <2>1. Head(q) \in Fitting /\ Tail(q) \in Seq(Fitting) BY <1>10
  <2>2. Sum(q, wt) = wt[Head(q)] + Sum(Tail(q), wt) BY <1>1, <1>10, SumTail
  <2> QED BY <1>2, <1>3, <2>1, <2>2
<1> QED BY <1>5, <1>6, <1>8, <1>9, <1>10

\* Bytes on their way to the server, likewise.
LEMMA ComingFacts ==
  ASSUME NEW t \in {"ChannelData", "ChannelWindowAdjust"}, NEW id
  PROVE  /\ Coming(<<>>, t, id) = 0
         /\ \A m \in Sendable : Carries(m, t, id) \in Nat
         /\ \A q \in Seq(Sendable) : Coming(q, t, id) \in Nat
         /\ \A q \in Seq(Sendable) : \A m \in Sendable : Coming(q \o <<m>>, t, id) = Coming(q, t, id) + Carries(m, t, id)
         /\ \A q \in Seq(Sendable) : q /= <<>> => Coming(q, t, id) = Carries(Head(q), t, id) + Coming(Tail(q), t, id)
<1> DEFINE wt == ComingWeight(t, id)
<1>1. wt \in [Sendable -> Nat] BY Weights
<1>2. \A m \in Sendable : wt[m] = Carries(m, t, id) BY DEF ComingWeight, Carries
<1>3. \A q \in Seq(Sendable) : Coming(q, t, id) = Sum(q, wt) BY AsSums
<1> HIDE DEF wt
<1>4. <<>> \in Seq(Sendable) /\ \A m \in Sendable : <<m>> \in Seq(Sendable) OBVIOUS
<1>5. Coming(<<>>, t, id) = 0 BY <1>3, <1>4, SumEmpty
<1>7. \A m \in Sendable : Carries(m, t, id) \in Nat
  <2>1. \A m \in Sendable : wt[m] \in Nat BY <1>1
  <2> QED BY <1>2, <2>1
<1>8. \A q \in Seq(Sendable) : Coming(q, t, id) \in Nat BY <1>1, <1>3, SumType
<1>9. ASSUME NEW q \in Seq(Sendable), NEW m \in Sendable PROVE Coming(q \o <<m>>, t, id) = Coming(q, t, id) + Carries(m, t, id)
  <2>1. q \o <<m>> \in Seq(Sendable) OBVIOUS
  <2>2. Sum(q \o <<m>>, wt) = Sum(q, wt) + Sum(<<m>>, wt) BY <1>1, <1>4, SumConcat
  <2>3. Sum(<<m>>, wt) = wt[m] BY <1>1, SumOne
  <2> QED BY <1>2, <1>3, <2>1, <2>2, <2>3
<1>10. ASSUME NEW q \in Seq(Sendable), q /= <<>> PROVE Coming(q, t, id) = Carries(Head(q), t, id) + Coming(Tail(q), t, id)
  <2>1. Head(q) \in Sendable /\ Tail(q) \in Seq(Sendable) BY <1>10
  <2>2. Sum(q, wt) = wt[Head(q)] + Sum(Tail(q), wt) BY <1>1, <1>10, SumTail
  <2> QED BY <1>2, <1>3, <2>1, <2>2
<1> QED BY <1>5, <1>7, <1>8, <1>9, <1>10

\* Requests on their way to the server, likewise.
LEMMA RequestsFacts ==
  ASSUME NEW id
  PROVE  /\ Requests(<<>>, id) = 0
         /\ \A q \in Seq(Sendable) : Requests(q, id) \in Nat
         /\ \A q \in Seq(Sendable) : \A m \in Sendable : Requests(q \o <<m>>, id) = Requests(q, id) + IsRequest(m, id)
         /\ \A q \in Seq(Sendable) : q /= <<>> => Requests(q, id) = IsRequest(Head(q), id) + Requests(Tail(q), id)
<1> DEFINE wt == RequestWeight(id)
<1>1. wt \in [Sendable -> Nat] BY Weights
<1>2. \A m \in Sendable : wt[m] = IsRequest(m, id) BY DEF RequestWeight, IsRequest
<1>3. \A q \in Seq(Sendable) : Requests(q, id) = Sum(q, wt) BY AsSums
<1> HIDE DEF wt
<1>4. <<>> \in Seq(Sendable) /\ \A m \in Sendable : <<m>> \in Seq(Sendable) OBVIOUS
<1>5. Requests(<<>>, id) = 0 BY <1>3, <1>4, SumEmpty
<1>8. \A q \in Seq(Sendable) : Requests(q, id) \in Nat BY <1>1, <1>3, SumType
<1>9. ASSUME NEW q \in Seq(Sendable), NEW m \in Sendable PROVE Requests(q \o <<m>>, id) = Requests(q, id) + IsRequest(m, id)
  <2>1. q \o <<m>> \in Seq(Sendable) OBVIOUS
  <2>2. Sum(q \o <<m>>, wt) = Sum(q, wt) + Sum(<<m>>, wt) BY <1>1, <1>4, SumConcat
  <2>3. Sum(<<m>>, wt) = wt[m] BY <1>1, SumOne
  <2> QED BY <1>2, <1>3, <2>1, <2>2, <2>3
<1>10. ASSUME NEW q \in Seq(Sendable), q /= <<>> PROVE Requests(q, id) = IsRequest(Head(q), id) + Requests(Tail(q), id)
  <2>1. Head(q) \in Sendable /\ Tail(q) \in Seq(Sendable) BY <1>10
  <2>2. Sum(q, wt) = wt[Head(q)] + Sum(Tail(q), wt) BY <1>1, <1>10, SumTail
  <2> QED BY <1>2, <1>3, <2>1, <2>2
<1> QED BY <1>5, <1>8, <1>9, <1>10

-----------------------------------------------------------------------------
(* What a step leaves alone. *)

\* The messages of A in r are those in q, in the same order.
SameIn(q, r, A) ==
  /\ \A m \in A : m \in In(r) <=> m \in In(q)
  /\ \A S, T \in SUBSET A : NoneAfter(q, S, T) => NoneAfter(r, S, T)

\* A queue is the same as itself.
LEMMA SameSelf ==
  ASSUME NEW q, NEW A
  PROVE  SameIn(q, q, A)
BY DEF SameIn

\* Messages that are not of A are added.
LEMMA SameConcat ==
  ASSUME NEW U, NEW q \in Seq(U), NEW x \in Seq(U), NEW A, \A m \in In(x) : m \notin A
  PROVE  SameIn(q, q \o x, A)
<1>1. In(q \o x) = In(q) \cup In(x) BY InConcat
<1>2. ASSUME NEW S \in SUBSET A, NEW T \in SUBSET A, NoneAfter(q, S, T) PROVE NoneAfter(q \o x, S, T)
  <2>1. \A i, j \in 1..Len(x) : x[i] \notin S BY DEF In
  <2>2. NoneAfter(x, S, T) BY <2>1 DEF NoneAfter
  <2>3. ~Has(x, T) BY DEF Has
  <2> QED BY <1>2, <2>2, <2>3, AfterConcat
<1> QED BY <1>1, <1>2 DEF SameIn

\* A message that is not of A is taken.
LEMMA SameTail ==
  ASSUME NEW U, NEW q \in Seq(U), q /= <<>>, NEW A, Head(q) \notin A
  PROVE  SameIn(q, Tail(q), A)
<1>1. In(q) = {Head(q)} \cup In(Tail(q)) BY InTail
<1>2. \A S, T \in SUBSET A : NoneAfter(q, S, T) => NoneAfter(Tail(q), S, T) BY AfterTail
<1> QED BY <1>1, <1>2 DEF SameIn

\* The same messages of A are there.
LEMMA SameHas ==
  ASSUME NEW q, NEW r, NEW A, SameIn(q, r, A), NEW S \in SUBSET A
  PROVE  Has(r, S) <=> Has(q, S)
BY DEF SameIn, Has

\* The kinds of messages are among those for a channel.
LEMMA Kinds ==
  /\ \A c : \A T \in SUBSET AnswerTypes : To(c, T) \in SUBSET AllTo(c)
  /\ \A id : Closes(id) \in SUBSET For(id) /\ Ptys(id) \in SUBSET For(id) /\ ShellAsks(id) \in SUBSET For(id)
                /\ Datas(id) \in SUBSET For(id)
  /\ {"Close"} \in SUBSET AnswerTypes /\ {"Eof"} \in SUBSET AnswerTypes /\ {"ExitStatus"} \in SUBSET AnswerTypes
  /\ {"Data", "Eof"} \in SUBSET AnswerTypes /\ LastTypes \in SUBSET AnswerTypes /\ OpenedTypes \in SUBSET AnswerTypes
  /\ {"OpenConfirmation"} \in SUBSET AnswerTypes /\ {"OpenFailure"} \in SUBSET AnswerTypes
BY DEF AllTo, To, Closes, Ptys, ShellAsks, Datas, AnswerTypes, LastTypes, OpenedTypes

SameTo(c) ==
  /\ SameIn(write, write', AllTo(c))
  /\ Bytes(write', "Data", c) = Bytes(write, "Data", c)
  /\ Bytes(write', "WindowAdjust", c) = Bytes(write, "WindowAdjust", c)
  /\ Replies(write', c) = Replies(write, c)

SameFor(id) ==
  /\ SameIn(read, read', For(id))
  /\ Coming(read', "ChannelData", id) = Coming(read, "ChannelData", id)
  /\ Coming(read', "ChannelWindowAdjust", id) = Coming(read, "ChannelWindowAdjust", id)
  /\ Requests(read', id) = Requests(read, id)

\* The step is not about c.
Untouched(c) ==
  /\ client'[c] = client[c] /\ ran'[c] = ran[c]
  /\ \A id \in Ids : Own(id, c)' <=> Own(id, c)
  /\ \A id \in Ids : Own(id, c) => channels'[id] = channels[id] /\ SameFor(id)
  /\ SameTo(c)
  /\ SameIn(read, read', Opens(c))
  /\ Bytes(pending'.out, "WindowAdjust", c) = Bytes(pending.out, "WindowAdjust", c)

\* What the client has been told of its shell stays so: a reaped shell is
\* left alone.
LEMMA ToldStays ==
  ASSUME IInv, ShellsMove, NEW c, Told(c), client'[c] = client[c], ran'[c] = ran[c],
         NEW A, SameIn(write, write', A), To(c, {"Eof"}) \in SUBSET A, To(c, {"ExitStatus"}) \in SUBSET A
  PROVE  Told(c)'
<1>1. shells'[ran[c]] = shells[ran[c]] BY DEF Told, ShellsMove, Moves
<1>2. Has(write', To(c, {"Eof"})) <=> Has(write, To(c, {"Eof"})) BY SameHas
<1>3. Has(write', To(c, {"ExitStatus"})) <=> Has(write, To(c, {"ExitStatus"})) BY SameHas
<1>4. \A m \in To(c, {"ExitStatus"}) : m \in In(write') <=> m \in In(write) BY DEF SameIn
<1> QED BY <1>1, <1>2, <1>3, <1>4 DEF Told

\* A step that is not about c leaves each part of what is known of c as it
\* was.
LEMMA LifeStays ==
  ASSUME IInv, NEW c, Life(c), Untouched(c)
  PROVE  Life(c)'
<1>1. /\ Has(read', Opens(c)) <=> Has(read, Opens(c))
      /\ NoneAfter(read, Opens(c), Opens(c)) => NoneAfter(read', Opens(c), Opens(c))
      /\ \A m \in Opens(c) : m \in In(read') <=> m \in In(read)
  BY SameHas DEF Untouched, SameIn
<1>2. SameIn(write, write', AllTo(c)) BY DEF Untouched, SameTo
<1>3. /\ Has(write', AllTo(c)) <=> Has(write, AllTo(c))
      /\ Has(write', To(c, OpenedTypes)) <=> Has(write, To(c, OpenedTypes))
      /\ Has(write', To(c, {"OpenFailure"})) <=> Has(write, To(c, {"OpenFailure"}))
  BY <1>2, SameHas, Kinds
<1>4. NoneAfter(write, To(c, OpenedTypes), To(c, OpenedTypes)) => NoneAfter(write', To(c, OpenedTypes), To(c, OpenedTypes))
  BY <1>2, Kinds DEF SameIn
<1>5. \A m \in To(c, {"OpenConfirmation"}) : m \in In(write') <=> m \in In(write)
  BY <1>2, Kinds DEF SameIn
<1>6. \A m \in To(c, {"OpenConfirmation"}) : m.arg \in Ids BY DEF To, Fitting
<1>7. client'[c] = client[c] /\ \A id \in Ids : Own(id, c)' <=> Own(id, c) BY DEF Untouched
<1>8. Blank(c) => Blank(c)' BY <1>3, <1>7 DEF Blank
<1>9. client[c].phase = "open" /\ ~client[c].closed => Own(client[c].peer, c)'
  <2>1. Own(client[c].peer, c) => client[c].peer \in Ids BY DEF Own, Known, IInv, TypeOK
  <2> QED BY <1>7, <2>1 DEF Life
<1> QED BY <1>1, <1>3, <1>4, <1>5, <1>6, <1>7, <1>8, <1>9 DEF Life

\* The same for what c has on its way.
LEMMA CoherentStays ==
  ASSUME NEW c, Coherent(c), Untouched(c)
  PROVE  Coherent(c)'
<1> SUFFICES ASSUME NEW id \in Ids, Own(id, c)'
    PROVE  (/\ Has(read, For(id)) => client[c].phase = "open"
            /\ NoneAfter(read, Closes(id), For(id))
            /\ Has(read, Closes(id)) => client[c].closed
            /\ St(id) = "Reaping" => client[c].closed /\ ~Has(read, For(id)))'
  BY DEF Coherent
<1>1. Own(id, c) /\ channels'[id] = channels[id] /\ SameIn(read, read', For(id)) /\ client'[c] = client[c]
  BY DEF Untouched, SameFor
<1>2. (Has(read', For(id)) <=> Has(read, For(id))) /\ (Has(read', Closes(id)) <=> Has(read, Closes(id)))
  BY <1>1, SameHas, Kinds
<1>3. NoneAfter(read, Closes(id), For(id)) => NoneAfter(read', Closes(id), For(id))
  BY <1>1, Kinds DEF SameIn
<1> QED BY <1>1, <1>2, <1>3 DEF Coherent, St

\* The same for the terminal and the shell c asks for.
LEMMA AskingStays ==
  ASSUME NEW c, Asking(c), Untouched(c)
  PROVE  Asking(c)'
<1> SUFFICES ASSUME NEW id \in Ids, Own(id, c)'
    PROVE  (/\ Has(read, Ptys(id)) => St(id) = "None" /\ client[c].pty
            /\ NoneAfter(read, Ptys(id), Ptys(id))
            /\ St(id) /= "None" => client[c].pty
            /\ St(id) \notin {"None", "Requested"} => client[c].shell
            /\ Has(read, ShellAsks(id)) => St(id) \in {"None", "Requested"} /\ client[c].shell
            /\ NoneAfter(read, ShellAsks(id), ShellAsks(id))
            /\ NoneAfter(read, ShellAsks(id), Ptys(id))
            /\ St(id) = "None" /\ client[c].pty => Has(read, Ptys(id))
            /\ client[c].shell /\ St(id) \in {"None", "Requested"} => Has(read, ShellAsks(id))
            /\ ~client[c].early /\ Has(read, Datas(id)) => client[c].shell
            /\ ~client[c].early => NoneAfter(read, Datas(id), ShellAsks(id)))'
  BY DEF Asking
<1>1. Own(id, c) /\ channels'[id] = channels[id] /\ SameIn(read, read', For(id)) /\ client'[c] = client[c]
  BY DEF Untouched, SameFor
<1>2. (Has(read', Ptys(id)) <=> Has(read, Ptys(id))) /\ (Has(read', ShellAsks(id)) <=> Has(read, ShellAsks(id)))
      /\ (Has(read', Datas(id)) <=> Has(read, Datas(id)))
  BY <1>1, SameHas, Kinds
<1>3. /\ NoneAfter(read, Ptys(id), Ptys(id)) => NoneAfter(read', Ptys(id), Ptys(id))
      /\ NoneAfter(read, ShellAsks(id), ShellAsks(id)) => NoneAfter(read', ShellAsks(id), ShellAsks(id))
      /\ NoneAfter(read, ShellAsks(id), Ptys(id)) => NoneAfter(read', ShellAsks(id), Ptys(id))
      /\ NoneAfter(read, Datas(id), ShellAsks(id)) => NoneAfter(read', Datas(id), ShellAsks(id))
  BY <1>1, Kinds DEF SameIn
<1> QED BY <1>1, <1>2, <1>3 DEF Asking, St

\* The same for the end of output and the close.
LEMMA LinkedStays ==
  ASSUME IInv, ShellsMove, NEW c, Linked(c), Untouched(c)
  PROVE  Linked(c)'
<1> SUFFICES ASSUME NEW id \in Ids, Own(id, c)'
    PROVE  LinkedAt(id, c)'
  BY DEF Linked
<1>1. /\ Own(id, c) /\ channels'[id] = channels[id] /\ SameIn(write, write', AllTo(c))
      /\ client'[c] = client[c] /\ ran'[c] = ran[c]
  BY DEF Untouched, SameTo
<1>2. /\ Has(write', To(c, {"Close"})) <=> Has(write, To(c, {"Close"}))
      /\ Has(write', To(c, {"Eof"})) <=> Has(write, To(c, {"Eof"}))
      /\ Has(write', To(c, {"ExitStatus"})) <=> Has(write, To(c, {"ExitStatus"}))
  BY <1>1, SameHas, Kinds
<1>3. Told(c) => Told(c)' BY <1>1, Kinds, ToldStays
<1>4. ASSUME St(id) = "Exiting", ~client[c].closed
      PROVE  shells'[ran[c]].out = 0 /\ shells'[ran[c]].hup
  <2>1. ran[c] = channels[id].terminal.shell /\ shells[ran[c]].out = 0 /\ shells[ran[c]].hup
    BY <1>1, <1>4 DEF Linked, LinkedAt
  <2>2. ran[c] \in Shells /\ shells[ran[c]].run \in {"alive", "dying", "zombie"}
    BY <1>1, <1>4, <2>1 DEF IInv, ShellsOwned, Own, Known, St, OwningStates
  <2> QED BY <2>1, <2>2 DEF ShellsMove, Moves
<1>5. St(id)' = St(id) BY <1>1 DEF St
<1> QED BY <1>1, <1>2, <1>3, <1>4, <1>5 DEF Linked, LinkedAt

\* The same for the windows, the requests and the replies.
LEMMA CountedStays ==
  ASSUME NEW c, Counted(c), Untouched(c)
  PROVE  Counted(c)'
<1>1. ASSUME NEW id \in Ids, Own(id, c)'
      PROVE  CountedAt(id, c)'
  <2>1. Own(id, c) /\ channels'[id] = channels[id] /\ SameFor(id) /\ SameTo(c) /\ client'[c] = client[c]
        /\ Bytes(pending'.out, "WindowAdjust", c) = Bytes(pending.out, "WindowAdjust", c)
    BY <1>1 DEF Untouched
  <2> QED BY <2>1 DEF Counted, CountedAt, Granted, St, SameFor, SameTo
<1>2. (\A id \in Ids : ~Own(id, c)') => client'[c].asked = Replies(write', c)
  BY DEF Counted, Untouched, SameTo
<1> QED BY <1>1, <1>2 DEF Counted

\* The same for what the client hears, whether the session runs or not.
LEMMA HeardStays ==
  ASSUME IInv, ShellsMove, NEW c, Heard(c), client'[c] = client[c], ran'[c] = ran[c], SameTo(c)
  PROVE  Heard(c)'
<1>1. SameIn(write, write', AllTo(c)) BY DEF SameTo
<1>2. /\ Has(write', To(c, {"Close"})) <=> Has(write, To(c, {"Close"}))
      /\ Has(write', To(c, LastTypes)) <=> Has(write, To(c, LastTypes))
      /\ Has(write', To(c, {"Data", "Eof"})) <=> Has(write, To(c, {"Data", "Eof"}))
  BY <1>1, SameHas, Kinds
<1>3. /\ NoneAfter(write, To(c, {"Close"}), To(c, LastTypes)) => NoneAfter(write', To(c, {"Close"}), To(c, LastTypes))
      /\ NoneAfter(write, To(c, {"Eof"}), To(c, {"Data", "Eof"})) => NoneAfter(write', To(c, {"Eof"}), To(c, {"Data", "Eof"}))
  BY <1>1, Kinds DEF SameIn
<1>4. Told(c) => Told(c)' BY <1>1, Kinds, ToldStays
<1> QED BY <1>2, <1>3, <1>4 DEF Heard, Ordered, Affords, SameTo

\* All of it.
LEMMA UntouchedStays ==
  ASSUME IInv, ShellsMove, NEW c, Live(c), Heard(c), Untouched(c)
  PROVE  Live(c)' /\ Heard(c)'
<1>1. Heard(c)' BY HeardStays DEF Untouched
<1> QED BY <1>1, LifeStays, CoherentStays, AskingStays, LinkedStays, CountedStays DEF Live

-----------------------------------------------------------------------------
(* What the server says and takes. *)

\* Messages that weigh nothing weigh nothing together.
LEMMA SumNone ==
  ASSUME NEW U, NEW wt \in [U -> Nat], NEW q \in Seq(U), \A m \in In(q) : wt[m] = 0
  PROVE  Sum(q, wt) = 0
<1> DEFINE w == [i \in 1..Len(q) |-> wt[q[i]]]
           n == Len(w)
<1>1. w \in Seq(Nat) /\ Len(w) = Len(q) /\ \A i \in 1..Len(q) : w[i] = wt[q[i]] BY WeightsType
<1>2. n \in Nat /\ \A i \in 1..n : w[i] = 0 BY <1>1 DEF In
<1> HIDE DEF w, n
<1>3. PICK f : Sums(w, n, f) BY <1>2, SumsExists
<1> DEFINE S == {i \in 0..n : f[i] = 0}
<1>4. 0 \in S BY <1>2, <1>3 DEF Sums
<1>5. ASSUME NEW i \in 0..(n - 1), i \in S PROVE i + 1 \in S
  <2>1. i + 1 \in 1..n /\ i + 1 \in 0..n /\ (i + 1) - 1 = i BY <1>2
  <2>2. f[i + 1] = f[i] + w[i + 1] /\ w[i + 1] = 0 BY <1>2, <1>3, <2>1 DEF Sums
  <2> QED BY <1>5, <2>1, <2>2
<1> HIDE DEF S
<1>6. 0..n \subseteq S BY <1>2, <1>4, <1>5, PlaceInduction
<1>7. f[n] = 0 BY <1>2, <1>6 DEF S
<1>8. Total(w) = f[n] BY <1>2, <1>3, TotalIs DEF n
<1> QED BY <1>7, <1>8 DEF Sum, w

\* The server says x, all of it to c.
Speaks(c, x) == x \in Seq(Fitting) /\ write' = write \o x /\ \A m \in In(x) : m \in AllTo(c)

\* What is for c is not for any other channel.
LEMMA OthersHearNothing ==
  ASSUME NEW c, NEW x \in Seq(Fitting), \A m \in In(x) : m \in AllTo(c), NEW e, e /= c
  PROVE  /\ \A m \in In(x) : m \notin AllTo(e)
         /\ Bytes(x, "Data", e) = 0 /\ Bytes(x, "WindowAdjust", e) = 0 /\ Replies(x, e) = 0
<1>1. \A m \in In(x) : m.to = c /\ m \in Fitting BY DEF AllTo, To
<1>2. \A m \in In(x) : m \notin AllTo(e) BY <1>1 DEF AllTo, To
<1>3. \A m \in In(x) : ReplyWeight(e)[m] = 0 BY <1>1 DEF ReplyWeight
<1>4. \A m \in In(x) : ByteWeight("Data", e)[m] = 0 BY <1>1 DEF ByteWeight
<1>5. \A m \in In(x) : ByteWeight("WindowAdjust", e)[m] = 0 BY <1>1 DEF ByteWeight
<1>6. ReplyWeight(e) \in [Fitting -> Nat] /\ ByteWeight("Data", e) \in [Fitting -> Nat]
      /\ ByteWeight("WindowAdjust", e) \in [Fitting -> Nat]
  BY Weights
<1>7. Sum(x, ReplyWeight(e)) = 0 BY <1>3, <1>6, SumNone
<1>8. Sum(x, ByteWeight("Data", e)) = 0 BY <1>4, <1>6, SumNone
<1>9. Sum(x, ByteWeight("WindowAdjust", e)) = 0 BY <1>5, <1>6, SumNone
<1> QED BY <1>2, <1>7, <1>8, <1>9, AsSums

\* The server speaks to c, and to nobody else.
LEMMA SpeaksSame ==
  ASSUME Typed, NEW c, NEW x, Speaks(c, x), NEW e, e /= c
  PROVE  SameTo(e)
<1>1. write \in Seq(Fitting) /\ x \in Seq(Fitting) /\ write' = write \o x BY DEF Typed, Speaks
<1>2. /\ \A m \in In(x) : m \notin AllTo(e)
      /\ Bytes(x, "Data", e) = 0 /\ Bytes(x, "WindowAdjust", e) = 0 /\ Replies(x, e) = 0
  BY <1>1, OthersHearNothing DEF Speaks
<1>3. SameIn(write, write', AllTo(e)) BY <1>1, <1>2, SameConcat
<1>4. Bytes(write', "Data", e) = Bytes(write, "Data", e)
  <2>1. Bytes(write', "Data", e) = Bytes(write, "Data", e) + Bytes(x, "Data", e) BY <1>1, BytesFacts
  <2>2. Bytes(write, "Data", e) \in Nat BY <1>1, BytesFacts
  <2> QED BY <1>2, <2>1, <2>2
<1>5. Bytes(write', "WindowAdjust", e) = Bytes(write, "WindowAdjust", e)
  <2>1. Bytes(write', "WindowAdjust", e) = Bytes(write, "WindowAdjust", e) + Bytes(x, "WindowAdjust", e)
    BY <1>1, BytesFacts
  <2>2. Bytes(write, "WindowAdjust", e) \in Nat BY <1>1, BytesFacts
  <2> QED BY <1>2, <2>1, <2>2
<1>6. Replies(write', e) = Replies(write, e)
  <2>1. Replies(write', e) = Replies(write, e) + Replies(x, e) BY <1>1, RepliesFacts
  <2>2. Replies(write, e) \in Nat BY <1>1, RepliesFacts
  <2> QED BY <1>2, <2>1, <2>2
<1> QED BY <1>3, <1>4, <1>5, <1>6 DEF SameTo

\* The server says nothing.
LEMMA QuietSame ==
  ASSUME UNCHANGED write, NEW e
  PROVE  SameTo(e)
BY SameSelf DEF SameTo

\* The server takes the first of what the client sent.
Takes == read /= <<>> /\ read' = Tail(read)

\* The message taken is not about the channel.
LEMMA TakesSame ==
  ASSUME Typed, Takes
  PROVE  /\ \A id : Head(read) \notin For(id) => SameFor(id)
         /\ \A c : Head(read) \notin Opens(c) => SameIn(read, read', Opens(c))
<1> DEFINE m == Head(read)
<1>1. read \in Seq(Sendable) /\ read /= <<>> /\ read' = Tail(read) BY DEF Typed, Takes
<1>2. m \in Sendable /\ Tail(read) \in Seq(Sendable) BY <1>1
<1>3. ASSUME NEW id, m \notin For(id) PROVE SameFor(id)
  <2>1. Carries(m, "ChannelData", id) = 0 /\ Carries(m, "ChannelWindowAdjust", id) = 0 /\ IsRequest(m, id) = 0
    BY <1>2, <1>3 DEF For, HandledTypes, ChannelTypes, Carries, IsRequest
  <2>2. SameIn(read, read', For(id)) BY <1>1, <1>3, SameTail
  <2>3. Coming(read, "ChannelData", id) = Coming(read', "ChannelData", id)
    <3>1. Coming(read, "ChannelData", id) = 0 + Coming(read', "ChannelData", id)
      BY <1>1, <2>1, ComingFacts
    <3>2. Coming(read', "ChannelData", id) \in Nat BY <1>1, <1>2, ComingFacts
    <3> QED BY <3>1, <3>2
  <2>4. Coming(read, "ChannelWindowAdjust", id) = Coming(read', "ChannelWindowAdjust", id)
    <3>1. Coming(read, "ChannelWindowAdjust", id) = 0 + Coming(read', "ChannelWindowAdjust", id)
      BY <1>1, <2>1, ComingFacts
    <3>2. Coming(read', "ChannelWindowAdjust", id) \in Nat BY <1>1, <1>2, ComingFacts
    <3> QED BY <3>1, <3>2
  <2>5. Requests(read, id) = Requests(read', id)
    <3>1. Requests(read, id) = 0 + Requests(read', id) BY <1>1, <2>1, RequestsFacts
    <3>2. Requests(read', id) \in Nat BY <1>1, <1>2, RequestsFacts
    <3> QED BY <3>1, <3>2
  <2> QED BY <2>2, <2>3, <2>4, <2>5 DEF SameFor
<1>4. ASSUME NEW c, m \notin Opens(c) PROVE SameIn(read, read', Opens(c)) BY <1>1, <1>4, SameTail
<1> QED BY <1>3, <1>4

\* No message is taken.
LEMMA LeavesSame ==
  ASSUME UNCHANGED read
  PROVE  /\ \A id : SameFor(id)
         /\ \A c : SameIn(read, read', Opens(c))
BY SameSelf DEF SameFor

\* What is left to take was there before, in the same order.
LEMMA TakesFacts ==
  ASSUME Typed, Takes
  PROVE  /\ Head(read) \in Sendable /\ Head(read) \in In(read)
         /\ read' \in Seq(Sendable) /\ In(read) = {Head(read)} \cup In(read')
         /\ \A S : Has(read', S) => Has(read, S)
         /\ \A S : Head(read) \notin S => (Has(read', S) <=> Has(read, S))
         /\ \A S, T : NoneAfter(read, S, T) => NoneAfter(read', S, T) /\ (Head(read) \in S => ~Has(read', T))
<1>1. read \in Seq(Sendable) /\ read /= <<>> /\ read' = Tail(read) BY DEF Typed, Takes
<1>2. In(read) = {Head(read)} \cup In(read') /\ Head(read) \in Sendable /\ read' \in Seq(Sendable)
  BY <1>1, InTail
<1>3. \A S, T : NoneAfter(read, S, T) => NoneAfter(read', S, T) /\ (Head(read) \in S => ~Has(read', T))
  BY <1>1, AfterTail
<1> QED BY <1>2, <1>3 DEF Has

-----------------------------------------------------------------------------
(* A step of the server on the channel id. *)

\* The process of a channel is the one its client knows of.
LEMMA RanStays ==
  ASSUME NEW e \in RemoteIds, ran' = [c \in RemoteIds |-> Started(c)],
         \A j \in DOMAIN channels' : channels'[j].remote_id = e /\ channels'[j].terminal.state = "Running"
                                        => channels'[j].terminal.shell = ran[e]
  PROVE  ran'[e] = ran[e]
<1> DEFINE ids == {id \in DOMAIN channels' : channels'[id].remote_id = e
                                              /\ channels'[id].terminal.state = "Running"}
<1>1. ran'[e] = IF ids = {} THEN ran[e] ELSE channels'[CHOOSE id \in ids : TRUE].terminal.shell
  BY DEF Started
<1>2. CASE ids = {} BY <1>1, <1>2
<1>3. CASE ids /= {}
  <2>1. (CHOOSE id \in ids : TRUE) \in ids BY <1>3
  <2> QED BY <1>1, <1>3, <2>1
<1> QED BY <1>2, <1>3

\* The step is on id, speaks to its client only, and takes nothing, or what
\* is for id.  The channel may go.
Touch(id, x) ==
  /\ Known(id) /\ Speaks(channels[id].remote_id, x)
  /\ DOMAIN channels' \subseteq DOMAIN channels
  /\ \A j \in DOMAIN channels : j /= id => j \in DOMAIN channels' /\ channels'[j] = channels[j]
  /\ id \in DOMAIN channels' => channels'[id].remote_id = channels[id].remote_id
  /\ UNCHANGED client
  /\ UNCHANGED read \/ (Takes /\ Head(read) \in For(id))
  /\ UNCHANGED ran \/ ran' = [c \in RemoteIds |-> Started(c)]
  /\ \A e : e /= channels[id].remote_id => Bytes(pending'.out, "WindowAdjust", e) = Bytes(pending.out, "WindowAdjust", e)

\* A step on the channel id is not about the other channels.
LEMMA TouchOthers ==
  ASSUME IInv, Typed, Placed, NEW id, NEW x, Touch(id, x), NEW e \in RemoteIds, e /= channels[id].remote_id, Linked(e)
  PROVE  Untouched(e)
<1>1. SameTo(e) BY SpeaksSame DEF Touch
<1>2. \A j \in Ids : Own(j, e) => SameFor(j)
  <2>1. CASE UNCHANGED read BY <2>1, LeavesSame
  <2>2. CASE Takes /\ Head(read) \in For(id)
    <3>1. \A j : j /= id => Head(read) \notin For(j) BY <2>2 DEF For
    <3>2. ~Own(id, e) BY DEF Own
    <3> QED BY <2>2, <3>1, <3>2, TakesSame
  <2> QED BY <2>1, <2>2 DEF Touch
<1>3. SameIn(read, read', Opens(e))
  <2>1. CASE UNCHANGED read BY <2>1, LeavesSame
  <2>2. CASE Takes /\ Head(read) \in For(id)
    <3>1. Head(read) \notin Opens(e) BY <2>2 DEF For, Opens, HandledTypes
    <3> QED BY <2>2, <3>1, TakesSame
  <2> QED BY <2>1, <2>2 DEF Touch
<1>4. \A j \in Ids : Own(j, e)' <=> Own(j, e) BY DEF Touch, Own, Known
<1>5. \A j \in Ids : Own(j, e) => channels'[j] = channels[j] BY DEF Touch, Own, Known
<1>6. ran'[e] = ran[e]
  <2>1. CASE UNCHANGED ran BY <2>1
  <2>2. CASE ran' = [c \in RemoteIds |-> Started(c)]
    <3>1. ASSUME NEW j \in DOMAIN channels', channels'[j].remote_id = e, channels'[j].terminal.state = "Running"
          PROVE  channels'[j].terminal.shell = ran[e]
      <4>1. j \in DOMAIN channels /\ j /= id /\ channels'[j] = channels[j] BY <3>1 DEF Touch
      <4>2. j \in Ids /\ Own(j, e) /\ St(j) = "Running"
        BY <3>1, <4>1 DEF Own, Known, St, IInv, TypeOK
      <4> QED BY <4>1, <4>2 DEF Linked, LinkedAt
    <3> QED BY <2>2, <3>1, RanStays
  <2> QED BY <2>1, <2>2 DEF Touch
<1> QED BY <1>1, <1>2, <1>3, <1>4, <1>5, <1>6 DEF Untouched, Touch

\* What holds of the channels and the queues still holds.
LEMMA TouchPlaced ==
  ASSUME Typed, Placed, NEW id, NEW x, Touch(id, x), id \in DOMAIN channels' \/ ~Has(read', For(id))
  PROVE  Placed'
<1>1. \A i, j \in DOMAIN channels' : channels'[i].remote_id = channels'[j].remote_id => i = j
  BY DEF Touch, Placed
<1>2. ASSUME NEW m \in In(read'), m.type \in HandledTypes PROVE m.to \in DOMAIN channels'
  <2>1. m \in In(read) /\ m \in Sendable
    <3>1. \A y \in In(read) : y \in Sendable BY DEF Typed, In
    <3>2. m \in In(read)
      <4>1. CASE UNCHANGED read BY <1>2, <4>1
      <4>2. CASE Takes BY <1>2, <4>2, TakesFacts
      <4> QED BY <4>1, <4>2 DEF Touch
    <3> QED BY <3>1, <3>2
  <2>2. m.to \in DOMAIN channels BY <1>2, <2>1 DEF Placed, Known
  <2>3. m.to = id => m \in For(id) BY <1>2, <2>1 DEF For
  <2> QED BY <1>2, <2>2, <2>3 DEF Touch, Has
<1> QED BY <1>1, <1>2 DEF Placed, Known

-----------------------------------------------------------------------------
(* The same step, seen by the client of the channel. *)

\* A channel has one owner, and its owner has no other channel.
LEMMA OwnedBy ==
  ASSUME IInv, Placed, NEW id, Known(id)
  PROVE  /\ id \in Ids /\ channels[id] \in Channel /\ channels[id].remote_id \in RemoteIds
         /\ Own(id, channels[id].remote_id)
         /\ \A j \in Ids : Own(j, channels[id].remote_id) => j = id
BY DEF Known, Own, Placed, IInv, TypeOK, Channel

\* What is left in the queue was there before, in the same order.
LEMMA ReadShrinks ==
  ASSUME Typed, UNCHANGED read \/ Takes
  PROVE  /\ \A S : Has(read', S) => Has(read, S)
         /\ \A S, T : NoneAfter(read, S, T) => NoneAfter(read', S, T)
         /\ \A m \in In(read') : m \in In(read)
<1>1. CASE UNCHANGED read BY <1>1
<1>2. CASE Takes BY <1>2, TakesFacts
<1> QED BY <1>1, <1>2

\* The life of the owner of the touched channel: the channel stays, or the
\* client has closed it.
LEMMA OwnerLife ==
  ASSUME IInv, Typed, Placed, NEW id, NEW x, Touch(id, x), NEW c, c = channels[id].remote_id, Life(c),
         \A m \in In(x) : m.type \notin OpenedTypes,
         id \in DOMAIN channels' \/ client[c].closed
  PROVE  Life(c)'
<1>0. Known(id) /\ id \in Ids /\ Own(id, c) /\ \A j \in Ids : Own(j, c) => j = id
  BY OwnedBy DEF Touch
<1>1. client[c].phase \in {"opening", "open"} /\ ~Has(read, Opens(c)) BY <1>0 DEF Life, Blank
<1>2. /\ ~Has(read', Opens(c)) /\ (NoneAfter(read, Opens(c), Opens(c)) => NoneAfter(read', Opens(c), Opens(c)))
      /\ \A m \in In(read') : m \in In(read)
  BY <1>1, ReadShrinks DEF Touch
<1>3. \A j \in Ids : Own(j, c)' => Own(j, c) BY DEF Touch, Own, Known
<1>4. id \in DOMAIN channels' => Own(id, c)' BY DEF Touch, Own, Known
<1>5. SameIn(write, write', To(c, OpenedTypes))
  <2>1. write \in Seq(Fitting) /\ x \in Seq(Fitting) /\ write' = write \o x
    BY DEF Typed, Touch, Speaks
  <2>2. \A m \in In(x) : m \notin To(c, OpenedTypes) BY DEF To
  <2> QED BY <2>1, <2>2, SameConcat
<1>6. To(c, {"OpenConfirmation"}) \in SUBSET To(c, OpenedTypes) /\ To(c, {"OpenFailure"}) \in SUBSET To(c, OpenedTypes)
  BY DEF To, OpenedTypes
<1>7. /\ Has(write', To(c, OpenedTypes)) <=> Has(write, To(c, OpenedTypes))
      /\ Has(write', To(c, {"OpenFailure"})) <=> Has(write, To(c, {"OpenFailure"}))
      /\ NoneAfter(write, To(c, OpenedTypes), To(c, OpenedTypes)) => NoneAfter(write', To(c, OpenedTypes), To(c, OpenedTypes))
  <2>1. To(c, OpenedTypes) \in SUBSET To(c, OpenedTypes) OBVIOUS
  <2>2. Has(write', To(c, OpenedTypes)) <=> Has(write, To(c, OpenedTypes)) BY <1>5, <2>1, SameHas
  <2>3. Has(write', To(c, {"OpenFailure"})) <=> Has(write, To(c, {"OpenFailure"}))
    BY <1>5, <1>6, SameHas
  <2> QED BY <1>5, <2>1, <2>2, <2>3 DEF SameIn
<1>8. UNCHANGED client BY DEF Touch
<1>9. ASSUME NEW m \in In(write'), m \in To(c, {"OpenConfirmation"}) PROVE Own(m.arg, c)'
  <2>1. m \in In(write) BY <1>5, <1>6, <1>9 DEF SameIn
  <2>2. Own(m.arg, c) BY <1>9, <2>1 DEF Life
  <2>3. m.arg = id BY <1>0, <1>9, <2>2 DEF To, Fitting
  <2>4. Has(write, To(c, OpenedTypes)) BY <1>6, <1>9, <2>1 DEF Has
  <2>5. ~client[c].closed BY <2>4 DEF Life
  <2> QED BY <1>4, <2>3, <2>5
<1>10. client[c].phase = "open" /\ ~client[c].closed => Own(client[c].peer, c)'
  BY <1>0, <1>4, <1>8 DEF Life
<1>11. Has(write, To(c, {"OpenFailure"})) => \A j \in Ids : ~Own(j, c)' BY <1>3 DEF Life
<1>12. ASSUME NEW j \in Ids, Own(j, c)'
       PROVE  client[c].phase \in {"opening", "open"} /\ (client[c].phase = "open" => client[c].peer = j)
  BY <1>3, <1>12 DEF Life
<1>13. /\ client[c].phase /= "open" => ~client[c].pty /\ ~client[c].closed
       /\ client[c].shell => client[c].pty
       /\ Has(write, To(c, OpenedTypes)) => client[c].phase = "opening"
       /\ NoneAfter(read, Opens(c), Opens(c)) /\ NoneAfter(write, To(c, OpenedTypes), To(c, OpenedTypes))
       /\ \A m \in In(read') : m \notin Opens(c)
  BY <1>2 DEF Life, Has
<1> QED BY <1>1, <1>2, <1>7, <1>8, <1>9, <1>10, <1>11, <1>12, <1>13 DEF Life

\* What the owner has on its way: no terminal turns Reaping unless the
\* client has closed the channel.
LEMMA OwnerCoherent ==
  ASSUME IInv, Typed, Placed, NEW id, NEW x, Touch(id, x), NEW c, c = channels[id].remote_id, Coherent(c),
         id \in DOMAIN channels' /\ St(id)' = "Reaping" =>
           St(id) = "Reaping" \/ (client[c].closed /\ ~Has(read', For(id)))
  PROVE  Coherent(c)'
<1> SUFFICES ASSUME NEW j \in Ids, Own(j, c)'
    PROVE  (/\ Has(read, For(j)) => client[c].phase = "open"
            /\ NoneAfter(read, Closes(j), For(j))
            /\ Has(read, Closes(j)) => client[c].closed
            /\ St(j) = "Reaping" => client[c].closed /\ ~Has(read, For(j)))'
  BY DEF Coherent
<1>1. Own(j, c) /\ j = id /\ id \in DOMAIN channels' BY OwnedBy DEF Touch, Own, Known
<1>2. UNCHANGED client BY DEF Touch
<1>3. /\ \A S : Has(read', S) => Has(read, S)
      /\ \A S, T : NoneAfter(read, S, T) => NoneAfter(read', S, T)
  BY ReadShrinks DEF Touch
<1> QED BY <1>1, <1>2, <1>3 DEF Coherent

\* The terminal is no nearer to a shell, or past it.
LEMMA OwnerAsking ==
  ASSUME IInv, Typed, Placed, NEW id, NEW x, Touch(id, x), NEW c, c = channels[id].remote_id, Asking(c),
         \/ id \notin DOMAIN channels'
         \/ UNCHANGED read /\ St(id)' = St(id)
         \/ Takes /\ Head(read) \notin Ptys(id) \cup ShellAsks(id) /\ St(id)' = St(id)
         \/ {St(id), St(id)'} \cap {"None", "Requested"} = {}
         \/ Takes /\ Head(read) \in Ptys(id) /\ St(id)' = "Requested"
         \/ Takes /\ Head(read) \in ShellAsks(id) /\ St(id) = "Requested" /\ St(id)' = "Running"
  PROVE  Asking(c)'
<1> SUFFICES ASSUME NEW j \in Ids, Own(j, c)'
    PROVE  (/\ Has(read, Ptys(j)) => St(j) = "None" /\ client[c].pty
            /\ NoneAfter(read, Ptys(j), Ptys(j))
            /\ St(j) /= "None" => client[c].pty
            /\ St(j) \notin {"None", "Requested"} => client[c].shell
            /\ Has(read, ShellAsks(j)) => St(j) \in {"None", "Requested"} /\ client[c].shell
            /\ NoneAfter(read, ShellAsks(j), ShellAsks(j))
            /\ NoneAfter(read, ShellAsks(j), Ptys(j))
            /\ St(j) = "None" /\ client[c].pty => Has(read, Ptys(j))
            /\ client[c].shell /\ St(j) \in {"None", "Requested"} => Has(read, ShellAsks(j))
            /\ ~client[c].early /\ Has(read, Datas(j)) => client[c].shell
            /\ ~client[c].early => NoneAfter(read, Datas(j), ShellAsks(j)))'
  BY DEF Asking
<1>1. Own(j, c) /\ j = id /\ id \in DOMAIN channels' BY OwnedBy DEF Touch, Own, Known
<1>2. UNCHANGED client BY DEF Touch
<1>3. /\ \A S : Has(read', S) => Has(read, S)
      /\ \A S, T : NoneAfter(read, S, T) => NoneAfter(read', S, T)
  BY ReadShrinks DEF Touch
<1>4. /\ Has(read, Ptys(j)) => St(j) = "None" /\ client[c].pty
      /\ NoneAfter(read, Ptys(j), Ptys(j))
      /\ St(j) /= "None" => client[c].pty
      /\ St(j) \notin {"None", "Requested"} => client[c].shell
      /\ Has(read, ShellAsks(j)) => St(j) \in {"None", "Requested"} /\ client[c].shell
      /\ NoneAfter(read, ShellAsks(j), ShellAsks(j))
      /\ NoneAfter(read, ShellAsks(j), Ptys(j))
      /\ St(j) = "None" /\ client[c].pty => Has(read, Ptys(j))
      /\ client[c].shell /\ St(j) \in {"None", "Requested"} => Has(read, ShellAsks(j))
      /\ ~client[c].early /\ Has(read, Datas(j)) => client[c].shell
      /\ ~client[c].early => NoneAfter(read, Datas(j), ShellAsks(j))
  BY <1>1 DEF Asking
<1>5. CASE UNCHANGED read /\ St(id)' = St(id) BY <1>1, <1>2, <1>4, <1>5
<1>6. CASE Takes /\ Head(read) \notin Ptys(id) \cup ShellAsks(id) /\ St(id)' = St(id)
  <2>1. (Has(read', Ptys(id)) <=> Has(read, Ptys(id))) /\ (Has(read', ShellAsks(id)) <=> Has(read, ShellAsks(id)))
    BY <1>6, TakesFacts
  <2> QED BY <1>1, <1>2, <1>3, <1>4, <1>6, <2>1
<1>7. CASE {St(id), St(id)'} \cap {"None", "Requested"} = {}
  <2>1. St(id) \notin {"None", "Requested"} /\ St(id)' \notin {"None", "Requested"} BY <1>7
  <2> QED BY <1>1, <1>2, <1>3, <1>4, <2>1
<1>8. CASE Takes /\ Head(read) \in Ptys(id) /\ St(id)' = "Requested"
  <2>1. ~Has(read', Ptys(id)) BY <1>1, <1>4, <1>8, TakesFacts
  <2>2. Has(read, Ptys(id)) BY <1>8, TakesFacts DEF Has
  <2>3. Head(read) \notin ShellAsks(id) BY <1>8 DEF Ptys, ShellAsks
  <2>4. Has(read', ShellAsks(id)) <=> Has(read, ShellAsks(id)) BY <1>8, <2>3, TakesFacts
  <2> QED BY <1>1, <1>2, <1>3, <1>4, <1>8, <2>1, <2>2, <2>4
<1>9. CASE Takes /\ Head(read) \in ShellAsks(id) /\ St(id) = "Requested" /\ St(id)' = "Running"
  <2>1. ~Has(read', ShellAsks(id)) BY <1>1, <1>4, <1>9, TakesFacts
  <2>2. Has(read, ShellAsks(id)) BY <1>9, TakesFacts DEF Has
  <2> QED BY <1>1, <1>2, <1>3, <1>4, <1>9, <2>1, <2>2
<1> QED BY <1>1, <1>5, <1>6, <1>7, <1>8, <1>9

-----------------------------------------------------------------------------
(* The end of output, the exit status and the close. *)

\* What has been said to c, once x has been said as well.
LEMMA Spoken ==
  ASSUME Typed, NEW c, NEW x, Speaks(c, x)
  PROVE  /\ write \in Seq(Fitting) /\ x \in Seq(Fitting) /\ write' = write \o x /\ write' \in Seq(Fitting)
         /\ In(write') = In(write) \cup In(x)
         /\ \A S : Has(write', S) <=> Has(write, S) \/ Has(x, S)
         /\ \A A : (\A m \in In(x) : m \notin A) => SameIn(write, write', A)
         /\ \A S, T : NoneAfter(write, S, T) /\ NoneAfter(x, S, T) /\ (Has(write, S) => ~Has(x, T))
                        => NoneAfter(write', S, T)
<1>1. write \in Seq(Fitting) /\ x \in Seq(Fitting) /\ write' = write \o x BY DEF Typed, Speaks
<1>2. In(write') = In(write) \cup In(x) BY <1>1, InConcat
<1>3. \A S : Has(write', S) <=> Has(write, S) \/ Has(x, S) BY <1>2 DEF Has
<1>4. \A A : (\A m \in In(x) : m \notin A) => SameIn(write, write', A) BY <1>1, SameConcat
<1>5. \A S, T : NoneAfter(write, S, T) /\ NoneAfter(x, S, T) /\ (Has(write, S) => ~Has(x, T))
                  => NoneAfter(write', S, T)
  BY <1>1, AfterConcat
<1>6. write' \in Seq(Fitting) BY <1>1
<1> QED BY <1>1, <1>2, <1>3, <1>4, <1>5, <1>6

\* The order of what the owner hears, if what is said now respects what has
\* been said.
LEMMA SpokenOrder ==
  ASSUME Typed, NEW c, NEW x, Speaks(c, x), Ordered(c), client'[c] = client[c],
         client[c].gclosed \/ Has(write, To(c, {"Close"})) => ~Has(x, To(c, LastTypes)),
         client[c].geof \/ Has(write, To(c, {"Eof"})) => ~Has(x, To(c, {"Data", "Eof"})),
         NoneAfter(x, To(c, {"Close"}), To(c, LastTypes)),
         NoneAfter(x, To(c, {"Eof"}), To(c, {"Data", "Eof"})),
         (client[c].gclosed \/ Has(write', To(c, {"Close"}))) /\ ~client[c].closed => Told(c)'
  PROVE  Ordered(c)'
<1>1. NoneAfter(write', To(c, {"Close"}), To(c, LastTypes)) BY Spoken DEF Ordered
<1>2. NoneAfter(write', To(c, {"Eof"}), To(c, {"Data", "Eof"})) BY Spoken DEF Ordered
<1>3. client[c].gclosed => ~Has(write', To(c, LastTypes)) BY Spoken DEF Ordered
<1>4. client[c].geof => ~Has(write', To(c, {"Data", "Eof"})) BY Spoken DEF Ordered
<1> QED BY <1>1, <1>2, <1>3, <1>4 DEF Ordered

SameTerminal(id) ==
  id \in DOMAIN channels' /\ St(id)' = St(id) /\ channels'[id].terminal.shell = channels[id].terminal.shell

RanKept == ran' = [e \in RemoteIds |-> Started(e)]

\* The process that c knows of, after a step on its channel.
LEMMA OwnerRan ==
  ASSUME IInv, Placed, NEW id, NEW x, Touch(id, x), NEW c, c = channels[id].remote_id, Linked(c),
         RanKept \/ (UNCHANGED ran /\ SameTerminal(id))
  PROVE  /\ id \notin DOMAIN channels' => ran'[c] = ran[c]
         /\ id \in DOMAIN channels' =>
              ran'[c] = IF St(id)' = "Running" THEN channels'[id].terminal.shell ELSE ran[c]
<1>0. Known(id) /\ id \in Ids /\ c \in RemoteIds /\ Own(id, c) BY OwnedBy DEF Touch
<1>1. CASE UNCHANGED ran /\ SameTerminal(id)
  <2>1. St(id) = "Running" => ran[c] = channels[id].terminal.shell BY <1>0 DEF Linked, LinkedAt
  <2>2. ran'[c] = ran[c] BY <1>1
  <2>3. id \in DOMAIN channels' /\ St(id)' = St(id) /\ channels'[id].terminal.shell = channels[id].terminal.shell
    BY <1>1 DEF SameTerminal
  <2> QED BY <2>1, <2>2, <2>3
<1>2. CASE RanKept
  <2> DEFINE ids == {i \in DOMAIN channels' : channels'[i].remote_id = c
                                                /\ channels'[i].terminal.state = "Running"}
  <2>1. ran'[c] = IF ids = {} THEN ran[c] ELSE channels'[CHOOSE i \in ids : TRUE].terminal.shell
    BY <1>0, <1>2 DEF Started, RanKept
  <2>2. ASSUME NEW i \in ids PROVE i = id
    <3>1. i \in DOMAIN channels' /\ channels'[i].remote_id = c OBVIOUS
    <3>2. i \in DOMAIN channels /\ (i = id \/ channels'[i] = channels[i]) BY <3>1 DEF Touch
    <3>3. id \in DOMAIN channels BY <1>0 DEF Known
    <3> QED BY <3>1, <3>2, <3>3 DEF Placed
  <2>3. id \in ids <=> id \in DOMAIN channels' /\ St(id)' = "Running" BY DEF Touch, St
  <2> HIDE DEF ids
  <2>4. CASE ids = {} BY <2>1, <2>3, <2>4
  <2>5. CASE ids /= {}
    <3>1. (CHOOSE i \in ids : TRUE) = id BY <2>2, <2>5
    <3>2. id \in ids BY <2>2, <2>5
    <3> QED BY <2>1, <2>3, <2>5, <3>1, <3>2
  <2> QED BY <2>4, <2>5
<1> QED BY <1>1, <1>2

\* The shell of an Exiting channel stays silent.
LEMMA ExitingStays ==
  ASSUME IInv, ShellsMove, NEW id, Known(id), NEW c, Own(id, c), Linked(c), St(id) = "Exiting", ~client[c].closed
  PROVE  /\ ran[c] \in Shells /\ ran[c] = channels[id].terminal.shell
         /\ shells'[ran[c]].out = 0 /\ shells'[ran[c]].hup
<1>1. id \in Ids BY DEF Known, IInv, TypeOK
<1>2. ran[c] = channels[id].terminal.shell /\ shells[ran[c]].out = 0 /\ shells[ran[c]].hup
  BY <1>1 DEF Linked, LinkedAt
<1>3. ran[c] \in Shells /\ shells[ran[c]].run \in {"alive", "dying", "zombie"}
  BY <1>2 DEF IInv, ShellsOwned, Own, Known, St, OwningStates
<1> QED BY <1>2, <1>3 DEF ShellsMove, Moves

\* Replies, window adjustments and output: nothing ends.
LEMMA OwnerTalks ==
  ASSUME IInv, Typed, Placed, ShellsMove, NEW id, NEW x, Touch(id, x), NEW c, c = channels[id].remote_id,
         Linked(c), Ordered(c), id \in DOMAIN channels',
         \A m \in In(x) : m.type \in {"Success", "Failure", "WindowAdjust", "Data"},
         Has(x, To(c, {"Data"})) => St(id) \in {"None", "Requested", "Running"},
         channels'[id].close_sent = channels[id].close_sent,
         \/ SameTerminal(id)
         \/ RanKept /\ St(id) = "None" /\ St(id)' = "Requested"
         \/ RanKept /\ St(id) = "Requested" /\ St(id)' = "Running"
  PROVE  Linked(c)' /\ Ordered(c)'
<1>0. Known(id) /\ id \in Ids /\ Own(id, c) /\ \A j \in Ids : Own(j, c) => j = id
  BY OwnedBy DEF Touch
<1>1. UNCHANGED client /\ Speaks(c, x) BY DEF Touch
<1>2. ran'[c] = IF St(id)' = "Running" THEN channels'[id].terminal.shell ELSE ran[c]
  <2>1. UNCHANGED ran \/ RanKept BY Zenon DEF Touch, RanKept
  <2>2. SameTerminal(id) \/ RanKept OBVIOUS
  <2>3. RanKept \/ (UNCHANGED ran /\ SameTerminal(id)) BY <2>1, <2>2
  <2> QED BY <2>3, OwnerRan
<1>3. LinkedAt(id, c)
  BY <1>0 DEF Linked
<1>4. St(id) \notin {"None", "Requested"} => St(id)' = St(id) BY DEF SameTerminal
<1>5. St(id)' \notin {"Requested", "Running"} => St(id)' = St(id) BY DEF SameTerminal
<1> DEFINE E == To(c, {"Close", "Eof", "ExitStatus"})
<1>6. SameIn(write, write', E)
  <2>1. \A m \in In(x) : m \notin E BY DEF To
  <2> QED BY <1>1, <2>1, Spoken
<1>7. To(c, {"Close"}) \in SUBSET E /\ To(c, {"Eof"}) \in SUBSET E /\ To(c, {"ExitStatus"}) \in SUBSET E
  BY DEF To
<1> HIDE DEF E
<1>8. /\ Has(write', To(c, {"Close"})) <=> Has(write, To(c, {"Close"}))
      /\ Has(write', To(c, {"Eof"})) <=> Has(write, To(c, {"Eof"}))
      /\ Has(write', To(c, {"ExitStatus"})) <=> Has(write, To(c, {"ExitStatus"}))
  BY <1>6, <1>7, SameHas
<1>9. ran'[c] = ran[c] /\ Told(c) => Told(c)' BY <1>1, <1>6, <1>7, ToldStays
<1>10. ASSUME NEW j \in Ids, Own(j, c)' PROVE LinkedAt(j, c)'
  <2>1. j = id BY <1>0, <1>10 DEF Own, Known, Touch
  <2>2. St(id)' = "Exiting" => channels'[id].terminal.shell = channels[id].terminal.shell
    BY DEF SameTerminal
  <2>3. St(id)' = "Exiting" /\ ~client[c].closed => shells'[ran[c]].out = 0 /\ shells'[ran[c]].hup
    BY <1>0, <1>5, ExitingStays
  <2> QED BY <1>1, <1>2, <1>3, <1>4, <1>5, <1>8, <1>9, <2>1, <2>2, <2>3 DEF LinkedAt
<1>11. Linked(c)' BY <1>10 DEF Linked
<1>12. ~Has(x, To(c, LastTypes)) \/ Has(x, To(c, {"Data"})) BY DEF Has, To, LastTypes
<1>13. ~Has(x, To(c, {"Data", "Eof"})) \/ Has(x, To(c, {"Data"})) BY DEF Has, To
<1>14. NoneAfter(x, To(c, {"Close"}), To(c, LastTypes)) /\ NoneAfter(x, To(c, {"Eof"}), To(c, {"Data", "Eof"}))
  <2>1. \A i \in 1..Len(x) : x[i] \notin To(c, {"Close"}) /\ x[i] \notin To(c, {"Eof"})
    BY DEF In, To
  <2> QED BY <2>1 DEF NoneAfter
<1>15. (client[c].gclosed \/ Has(write', To(c, {"Close"}))) /\ ~client[c].closed => Told(c)'
  BY <1>2, <1>3, <1>4, <1>8, <1>9 DEF Ordered, LinkedAt
<1>16. Ordered(c)'
  <2>1. /\ client[c].gclosed \/ Has(write, To(c, {"Close"})) => ~Has(x, To(c, LastTypes))
        /\ client[c].geof \/ Has(write, To(c, {"Eof"})) => ~Has(x, To(c, {"Data", "Eof"}))
    BY <1>3, <1>12, <1>13 DEF LinkedAt
  <2> QED BY <1>1, <1>14, <1>15, <2>1, SpokenOrder
<1> QED BY <1>11, <1>16

\* A message for a channel fits.
LEMMA MsgFits ==
  ASSUME NEW t \in AnswerTypes, NEW c \in RemoteIds, NEW a \in Nat \cup ExitCodes,
         t \in {"Data", "WindowAdjust"} => a \in Nat,
         t = "OpenConfirmation" => a \in Ids,
         t = "ExitStatus" => a \in ExitCodes
  PROVE  Msg(t, c, a) \in Fitting
BY DEF Fitting, ServerMessage, Msg, AnswerTypes

\* One message, to c.
LEMMA OneSaid ==
  ASSUME NEW t \in AnswerTypes, NEW c, NEW a, Msg(t, c, a) \in Fitting
  PROVE  /\ <<Msg(t, c, a)>> \in Seq(Fitting) /\ In(<<Msg(t, c, a)>>) = {Msg(t, c, a)}
         /\ \A m \in In(<<Msg(t, c, a)>>) : m.type = t /\ m \in AllTo(c)
         /\ \A T : Has(<<Msg(t, c, a)>>, To(c, T)) <=> t \in T
         /\ \A S, T : NoneAfter(<<Msg(t, c, a)>>, S, T)
<1> DEFINE m == Msg(t, c, a)
<1>1. m.type = t /\ m.to = c /\ m \in Fitting BY DEF Msg
<1> HIDE DEF m
<1>2. <<m>> \in Seq(Fitting) /\ In(<<m>>) = {m} BY <1>1, InOne
<1>3. m \in AllTo(c) /\ \A T : m \in To(c, T) <=> t \in T BY <1>1 DEF AllTo, To
<1>4. \A T : Has(<<m>>, To(c, T)) <=> t \in T BY <1>2, <1>3 DEF Has
<1>5. \A S, T : NoneAfter(<<m>>, S, T) BY AfterOne
<1> QED BY <1>1, <1>2, <1>3, <1>4, <1>5 DEF m

\* What the channel's client has heard once one more message has been said.
Adds1(c, t) ==
  /\ \A T : Has(write', To(c, T)) <=> Has(write, To(c, T)) \/ t \in T
  /\ In(write') = In(write) \cup {m \in In(write') : m \in To(c, {t})}
  /\ \A S, T : NoneAfter(write, To(c, S), To(c, T)) /\ (Has(write, To(c, S)) => t \notin T)
                 => NoneAfter(write', To(c, S), To(c, T))

\* One message is said to c.
LEMMA SaysOne ==
  ASSUME Typed, NEW t \in AnswerTypes, NEW c, NEW a, Msg(t, c, a) \in Fitting, Speaks(c, <<Msg(t, c, a)>>)
  PROVE  Adds1(c, t) /\ In(write') = In(write) \cup {Msg(t, c, a)}
<1> DEFINE m == Msg(t, c, a)
           x == <<m>>
<1>1. m.type = t /\ m.to = c /\ m \in Fitting BY DEF Msg
<1>2. /\ x \in Seq(Fitting) /\ In(x) = {m}
      /\ \A T : Has(x, To(c, T)) <=> t \in T
      /\ \A S, T : NoneAfter(x, S, T)
  BY OneSaid
<1>3. /\ In(write') = In(write) \cup In(x)
      /\ \A S : Has(write', S) <=> Has(write, S) \/ Has(x, S)
      /\ \A S, T : NoneAfter(write, S, T) /\ NoneAfter(x, S, T) /\ (Has(write, S) => ~Has(x, T))
                        => NoneAfter(write', S, T)
  BY Spoken
<1> HIDE DEF m, x
<1>4. m \in To(c, {t}) BY <1>1 DEF To
<1>5. \A T : Has(write', To(c, T)) <=> Has(write, To(c, T)) \/ t \in T BY <1>2, <1>3
<1>6. \A S, T : NoneAfter(write, To(c, S), To(c, T)) /\ (Has(write, To(c, S)) => t \notin T)
                 => NoneAfter(write', To(c, S), To(c, T))
  BY <1>2, <1>3
<1>7. In(write') = In(write) \cup {y \in In(write') : y \in To(c, {t})} BY <1>2, <1>3, <1>4
<1> QED BY <1>2, <1>3, <1>5, <1>6, <1>7 DEF Adds1, m, x

\* The conditions on the order, for one message.
LEMMA SaysOneOrder ==
  ASSUME Typed, NEW c, NEW t \in LastTypes, Adds1(c, t), Ordered(c), client'[c] = client[c],
         ~client[c].gclosed, ~Has(write, To(c, {"Close"})),
         t \in {"Data", "Eof"} => ~client[c].geof /\ ~Has(write, To(c, {"Eof"})),
         t = "Close" => client[c].closed \/ Told(c)'
  PROVE  Ordered(c)'
<1>1. /\ NoneAfter(write', To(c, {"Close"}), To(c, LastTypes))
      /\ NoneAfter(write', To(c, {"Eof"}), To(c, {"Data", "Eof"}))
  BY DEF Adds1, Ordered
<1>2. client[c].geof => ~Has(write', To(c, {"Data", "Eof"})) BY DEF Adds1, Ordered
<1>3. Has(write', To(c, {"Close"})) /\ ~client[c].closed => Told(c)' BY DEF Adds1, LastTypes
<1> QED BY <1>1, <1>2, <1>3 DEF Ordered
\* The channel's client has this channel only.
LEMMA LinkedNext ==
  ASSUME IInv, Placed, NEW id, NEW x, Touch(id, x), NEW c, c = channels[id].remote_id,
         id \in DOMAIN channels' => LinkedAt(id, c)'
  PROVE  Linked(c)'
<1>1. \A j \in Ids : Own(j, c) => j = id BY OwnedBy DEF Touch
<1>2. \A j \in Ids : Own(j, c)' => j = id /\ id \in DOMAIN channels' BY <1>1 DEF Touch, Own, Known
<1> QED BY <1>2 DEF Linked

\* What is known of the channel that is touched.
LEMMA OwnerNow ==
  ASSUME IInv, Placed, NEW id, NEW x, Touch(id, x), NEW c, c = channels[id].remote_id, Linked(c)
  PROVE  /\ id \in Ids /\ Known(id) /\ Own(id, c) /\ c \in RemoteIds /\ LinkedAt(id, c)
         /\ client' = client /\ Speaks(c, x)
<1>1. id \in Ids /\ Known(id) /\ Own(id, c) /\ c \in RemoteIds BY OwnedBy DEF Touch
<1>2. LinkedAt(id, c) BY <1>1 DEF Linked
<1> QED BY <1>1, <1>2 DEF Touch

\* PollEof: the output has ended.
LEMMA OwnerEof ==
  ASSUME IInv, Typed, Placed, ShellsMove, NEW id, NEW c, c = channels[id].remote_id,
         Touch(id, <<Msg("Eof", c, 0)>>), RanKept, Linked(c), Ordered(c),
         id \in DOMAIN channels', St(id) = "Running", St(id)' = "Exiting",
         channels'[id].terminal.shell = channels[id].terminal.shell,
         channels'[id].close_sent = channels[id].close_sent,
         AtEof(shells[channels[id].terminal.shell])
  PROVE  Linked(c)' /\ Ordered(c)'
<1> DEFINE x == <<Msg("Eof", c, 0)>>
<1>1. id \in Ids /\ Own(id, c) /\ c \in RemoteIds /\ LinkedAt(id, c) /\ client' = client /\ Speaks(c, x)
  BY OwnerNow
<1>2. Msg("Eof", c, 0) \in Fitting /\ "Eof" \in AnswerTypes /\ "Eof" \in LastTypes
  BY <1>1, MsgFits DEF AnswerTypes, LastTypes
<1>3. Adds1(c, "Eof") BY <1>1, <1>2, SaysOne
<1>4. ran'[c] = ran[c]
  <2>1. RanKept \/ (UNCHANGED ran /\ SameTerminal(id)) OBVIOUS
  <2> HIDE DEF x
  <2>2. Touch(id, x) BY DEF x
  <2> QED BY <2>1, <2>2, OwnerRan
<1>5. /\ ~client[c].gclosed /\ ~Has(write, To(c, {"Close"})) /\ ~channels[id].close_sent
      /\ ~client[c].geof /\ ~Has(write, To(c, {"Eof"})) /\ ~Has(write, To(c, {"ExitStatus"}))
      /\ ran[c] = channels[id].terminal.shell
  BY <1>1 DEF LinkedAt
<1>6. Ordered(c)' BY <1>1, <1>2, <1>3, <1>5, SaysOneOrder
<1>7. shells'[ran[c]].out = 0 /\ shells'[ran[c]].hup
  <2>1. ran[c] \in Shells /\ shells[ran[c]].run \in {"alive", "dying", "zombie"}
    BY <1>1, <1>5 DEF IInv, ShellsOwned, Own, Known, St, OwningStates
  <2> QED BY <1>5, <2>1 DEF ShellsMove, Moves, AtEof
<1>8. /\ Has(write', To(c, {"Close"})) <=> Has(write, To(c, {"Close"}))
      /\ Has(write', To(c, {"ExitStatus"})) <=> Has(write, To(c, {"ExitStatus"}))
      /\ Has(write', To(c, {"Eof"}))
  BY <1>3 DEF Adds1
<1>9. LinkedAt(id, c)' BY <1>1, <1>4, <1>5, <1>7, <1>8 DEF LinkedAt
<1>10. Linked(c)'
  <2> HIDE DEF x
  <2>1. Touch(id, x) BY DEF x
  <2> QED BY <1>9, <2>1, LinkedNext
<1> QED BY <1>6, <1>10

\* PollExit: the shell is reaped, and its exit code goes out; without one the
\* close does.
LEMMA OwnerExit ==
  ASSUME IInv, Typed, Placed, ShellsMove, NEW id, NEW c, c = channels[id].remote_id, NEW t \in {"ExitStatus", "Close"},
         NEW a \in Nat \cup ExitCodes, Touch(id, <<Msg(t, c, a)>>), RanKept, Linked(c), Ordered(c),
         id \in DOMAIN channels', St(id) = "Exiting", St(id)' = "Closing",
         t = "ExitStatus" => a = shells[channels[id].terminal.shell].status /\ a \in ExitCodes
                             /\ channels'[id].close_sent = channels[id].close_sent,
         t = "Close" => shells[channels[id].terminal.shell].status \notin ExitCodes /\ channels'[id].close_sent,
         shells'[channels[id].terminal.shell] = Reaped(shells[channels[id].terminal.shell])
  PROVE  Linked(c)' /\ Ordered(c)'
<1> DEFINE x == <<Msg(t, c, a)>>
           p == channels[id].terminal.shell
<1>1. id \in Ids /\ Known(id) /\ Own(id, c) /\ c \in RemoteIds /\ LinkedAt(id, c) /\ client' = client /\ Speaks(c, x)
  BY OwnerNow
<1>2. Msg(t, c, a) \in Fitting /\ t \in AnswerTypes /\ t \in LastTypes
  BY <1>1, MsgFits DEF AnswerTypes, LastTypes
<1>3. Adds1(c, t) /\ In(write') = In(write) \cup {Msg(t, c, a)} BY <1>1, <1>2, SaysOne
<1>4. ran'[c] = ran[c]
  <2>1. RanKept \/ (UNCHANGED ran /\ SameTerminal(id)) OBVIOUS
  <2> HIDE DEF x
  <2>2. Touch(id, x) BY DEF x
  <2> QED BY <2>1, <2>2, OwnerRan
<1>5. /\ ~client[c].gclosed /\ ~Has(write, To(c, {"Close"})) /\ ~channels[id].close_sent
      /\ ~Has(write, To(c, {"ExitStatus"})) /\ ran[c] = p
      /\ ~client[c].closed => (client[c].geof \/ Has(write, To(c, {"Eof"}))) /\ shells[p].out = 0
  BY <1>1 DEF LinkedAt
<1>6. p \in Shells /\ shells[p] \in Shell
  BY <1>1 DEF IInv, ShellsOwned, Own, Known, St, OwningStates, TypeOK
<1>7. shells'[p].run = "reaped" /\ shells'[p].out = shells[p].out /\ shells'[p].status = shells[p].status
  BY <1>6 DEF Reaped, Shell
<1>8. /\ Has(write', To(c, {"Eof"})) <=> Has(write, To(c, {"Eof"}))
      /\ Has(write', To(c, {"Close"})) <=> t = "Close"
      /\ Has(write', To(c, {"ExitStatus"})) <=> t = "ExitStatus"
  BY <1>3, <1>5 DEF Adds1
<1>9. ~client[c].closed => Told(c)'
  <2>1. ASSUME NEW m \in In(write'), m \in To(c, {"ExitStatus"}) PROVE m.arg = shells'[p].status
    <3>1. m \notin In(write) BY <1>5, <2>1 DEF Has
    <3>2. m = Msg(t, c, a) BY <1>3, <2>1, <3>1
    <3>3. t = "ExitStatus" /\ m.arg = a BY <2>1, <3>2 DEF To, Msg
    <3> QED BY <1>7, <3>3
  <2>2. shells'[p].status \in ExitCodes => Has(write', To(c, {"ExitStatus"})) BY <1>7, <1>8
  <2> HIDE DEF p
  <2> QED BY <1>1, <1>4, <1>5, <1>6, <1>7, <1>8, <2>1, <2>2 DEF Told
<1>10. Ordered(c)' BY <1>1, <1>2, <1>3, <1>5, <1>9, SaysOneOrder
<1>11. LinkedAt(id, c)' BY <1>1, <1>4, <1>5, <1>8, <1>9 DEF LinkedAt
<1>12. Linked(c)'
  <2> HIDE DEF x
  <2>1. Touch(id, x) BY DEF x
  <2> QED BY <1>11, <2>1, LinkedNext
<1> QED BY <1>10, <1>12

\* PollClose: all has been said.
LEMMA OwnerClosing ==
  ASSUME IInv, Typed, Placed, ShellsMove, NEW id, NEW c, c = channels[id].remote_id,
         Touch(id, <<Msg("Close", c, 0)>>), RanKept, Linked(c), Ordered(c),
         id \in DOMAIN channels', St(id) = "Closing", St(id)' = "Closing",
         ~channels[id].close_sent, channels'[id].close_sent
  PROVE  Linked(c)' /\ Ordered(c)'
<1> DEFINE x == <<Msg("Close", c, 0)>>
<1>1. id \in Ids /\ Own(id, c) /\ c \in RemoteIds /\ LinkedAt(id, c) /\ client' = client /\ Speaks(c, x)
  BY OwnerNow
<1>2. Msg("Close", c, 0) \in Fitting /\ "Close" \in AnswerTypes /\ "Close" \in LastTypes
  BY <1>1, MsgFits DEF AnswerTypes, LastTypes
<1>3. Adds1(c, "Close") BY <1>1, <1>2, SaysOne
<1>4. ran'[c] = ran[c]
  <2>1. RanKept \/ (UNCHANGED ran /\ SameTerminal(id)) OBVIOUS
  <2> HIDE DEF x
  <2>2. Touch(id, x) BY DEF x
  <2> QED BY <2>1, <2>2, OwnerRan
<1>5. ~client[c].gclosed /\ ~Has(write, To(c, {"Close"})) BY <1>1 DEF LinkedAt
<1>6. ~client[c].closed => Told(c)'
  <2> DEFINE A == To(c, {"Eof", "ExitStatus"})
  <2>1. \A m \in In(x) : m \notin A BY <1>2, OneSaid DEF To
  <2>2. SameIn(write, write', A) BY <1>1, <2>1, Spoken
  <2>3. To(c, {"Eof"}) \in SUBSET A /\ To(c, {"ExitStatus"}) \in SUBSET A BY DEF To
  <2> HIDE DEF A
  <2> QED BY <1>1, <1>4, <2>2, <2>3, ToldStays DEF LinkedAt
<1>7. Ordered(c)' BY <1>1, <1>2, <1>3, <1>5, <1>6, SaysOneOrder
<1>8. LinkedAt(id, c)' BY <1>6, <1>1 DEF LinkedAt
<1>9. Linked(c)'
  <2> HIDE DEF x
  <2>1. Touch(id, x) BY DEF x
  <2> QED BY <1>8, <2>1, LinkedNext
<1> QED BY <1>7, <1>9

\* Channels::close, and the end of a Reaping channel: the client has closed it.
LEMMA OwnerClosed ==
  ASSUME IInv, Typed, Placed, NEW id, NEW c, c = channels[id].remote_id, NEW x,
         Touch(id, x), Linked(c), Ordered(c), client[c].closed,
         x = <<>> \/ (x = <<Msg("Close", c, 0)>> /\ ~channels[id].close_sent),
         id \in DOMAIN channels' => St(id)' = "Reaping" /\ channels'[id].close_sent
  PROVE  Linked(c)' /\ Ordered(c)'
<1>1. id \in Ids /\ Own(id, c) /\ c \in RemoteIds /\ LinkedAt(id, c) /\ client' = client /\ Speaks(c, x)
  BY OwnerNow
<1>2. id \in DOMAIN channels' => LinkedAt(id, c)' BY <1>1 DEF LinkedAt
<1>3. Linked(c)' BY <1>2, LinkedNext
<1>4. CASE x = <<>>
  <2>1. write \in Seq(Fitting) /\ write' = write \o <<>> BY <1>1, <1>4 DEF Typed, Speaks
  <2>2. write' = write BY <2>1
  <2> QED BY <1>1, <1>3, <2>2 DEF Ordered
<1>5. CASE x = <<Msg("Close", c, 0)>> /\ ~channels[id].close_sent
  <2>1. Msg("Close", c, 0) \in Fitting /\ "Close" \in AnswerTypes /\ "Close" \in LastTypes
    BY <1>1, MsgFits DEF AnswerTypes, LastTypes
  <2>2. Adds1(c, "Close") BY <1>1, <1>5, <2>1, SaysOne
  <2>3. ~client[c].gclosed /\ ~Has(write, To(c, {"Close"})) BY <1>1, <1>5 DEF LinkedAt
  <2> QED BY <1>1, <1>3, <2>1, <2>2, <2>3, SaysOneOrder
<1> QED BY <1>3, <1>4, <1>5

-----------------------------------------------------------------------------
(* Windows, requests and replies. *)

\* What a message to c adds up to.
LEMMA OneCounts ==
  ASSUME NEW t \in AnswerTypes, NEW c, NEW a, Msg(t, c, a) \in Fitting
  PROVE  /\ Bytes(<<Msg(t, c, a)>>, "Data", c) = IF t = "Data" THEN a ELSE 0
         /\ Bytes(<<Msg(t, c, a)>>, "WindowAdjust", c) = IF t = "WindowAdjust" THEN a ELSE 0
         /\ Replies(<<Msg(t, c, a)>>, c) = IF t \in {"Success", "Failure"} THEN 1 ELSE 0
<1> DEFINE m == Msg(t, c, a)
<1>1. m.type = t /\ m.to = c /\ m.arg = a /\ m \in Fitting BY DEF Msg
<1> HIDE DEF m
<1>2. Bytes(<<m>>, "Data", c) = Weight(m, "Data", c) BY <1>1, BytesFacts
<1>3. Bytes(<<m>>, "WindowAdjust", c) = Weight(m, "WindowAdjust", c) BY <1>1, BytesFacts
<1>4. Replies(<<m>>, c) = IsReply(m, c) BY <1>1, RepliesFacts
<1> QED BY <1>1, <1>2, <1>3, <1>4 DEF Weight, IsReply, m

\* The windows of a channel are numbers.
LEMMA ChannelNumbers ==
  ASSUME NEW ch \in Channel
  PROVE  ch.send_window \in Nat /\ ch.receive_window \in Nat
BY DEF Channel

\* The sums that Counted is about are numbers.
LEMMA Numbers ==
  ASSUME NEW q \in Seq(Fitting), NEW r \in Seq(Sendable), NEW c, NEW id
  PROVE  /\ Bytes(q, "Data", c) \in Nat /\ Bytes(q, "WindowAdjust", c) \in Nat /\ Replies(q, c) \in Nat
         /\ Coming(r, "ChannelData", id) \in Nat /\ Coming(r, "ChannelWindowAdjust", id) \in Nat
         /\ Requests(r, id) \in Nat
<1>1. Bytes(q, "Data", c) \in Nat /\ Bytes(q, "WindowAdjust", c) \in Nat BY BytesFacts
<1>2. Replies(q, c) \in Nat BY RepliesFacts
<1>3. Coming(r, "ChannelData", id) \in Nat /\ Coming(r, "ChannelWindowAdjust", id) \in Nat
  BY ComingFacts
<1>4. Requests(r, id) \in Nat BY RequestsFacts
<1> QED BY <1>1, <1>2, <1>3, <1>4

\* The counts of what is on its way to c, after the server has spoken.
LEMMA SpokenSums ==
  ASSUME Typed, NEW c, NEW x, Speaks(c, x)
  PROVE  /\ Bytes(write', "Data", c) = Bytes(write, "Data", c) + Bytes(x, "Data", c)
         /\ Bytes(write', "WindowAdjust", c) = Bytes(write, "WindowAdjust", c) + Bytes(x, "WindowAdjust", c)
         /\ Replies(write', c) = Replies(write, c) + Replies(x, c)
<1>1. write \in Seq(Fitting) /\ x \in Seq(Fitting) /\ write' = write \o x BY DEF Typed, Speaks
<1>2. \A q, y \in Seq(Fitting) : Bytes(q \o y, "Data", c) = Bytes(q, "Data", c) + Bytes(y, "Data", c)
  BY BytesFacts
<1>3. \A q, y \in Seq(Fitting) : Bytes(q \o y, "WindowAdjust", c) = Bytes(q, "WindowAdjust", c) + Bytes(y, "WindowAdjust", c)
  BY BytesFacts
<1>4. \A q, y \in Seq(Fitting) : Replies(q \o y, c) = Replies(q, c) + Replies(y, c) BY RepliesFacts
<1> QED BY <1>1, <1>2, <1>3, <1>4, Zenon

\* The counts of what is on its way to the server, after it has taken a
\* message.
LEMMA TakenSums ==
  ASSUME Typed, Takes, NEW id
  PROVE  /\ Coming(read, "ChannelData", id) = Carries(Head(read), "ChannelData", id) + Coming(read', "ChannelData", id)
         /\ Coming(read, "ChannelWindowAdjust", id)
              = Carries(Head(read), "ChannelWindowAdjust", id) + Coming(read', "ChannelWindowAdjust", id)
         /\ Requests(read, id) = IsRequest(Head(read), id) + Requests(read', id)
<1>1. read \in Seq(Sendable) /\ read /= <<>> /\ read' = Tail(read) BY DEF Typed, Takes
<1>2. \A q \in Seq(Sendable) : q /= <<>> =>
        Coming(q, "ChannelData", id) = Carries(Head(q), "ChannelData", id) + Coming(Tail(q), "ChannelData", id)
  BY ComingFacts
<1>3. \A q \in Seq(Sendable) : q /= <<>> =>
        Coming(q, "ChannelWindowAdjust", id)
          = Carries(Head(q), "ChannelWindowAdjust", id) + Coming(Tail(q), "ChannelWindowAdjust", id)
  BY ComingFacts
<1>4. \A q \in Seq(Sendable) : q /= <<>> => Requests(q, id) = IsRequest(Head(q), id) + Requests(Tail(q), id)
  BY RequestsFacts
<1> QED BY <1>1, <1>2, <1>3, <1>4, Zenon

\* The counts of the owner, if the step balances them, or grants the window
\* that is open once more as the shell starts.
LEMMA OwnerCounted ==
  ASSUME IInv, IInv', Typed, Placed, NEW id, NEW x, Touch(id, x), NEW c, c = channels[id].remote_id, Counted(c),
         pending'.out \in Seq(Fitting), id \in DOMAIN channels',
         \/ channels'[id].receive_window + Bytes(pending.out, "WindowAdjust", c) + Coming(read, "ChannelData", id)
              = channels[id].receive_window + Bytes(x, "WindowAdjust", c) + Bytes(pending'.out, "WindowAdjust", c)
                  + Coming(read', "ChannelData", id)
         \/ /\ St(id) \in {"None", "Requested"} /\ St(id)' \notin {"None", "Requested"}
            /\ channels'[id].receive_window + channels[id].receive_window + Bytes(pending.out, "WindowAdjust", c)
                 + Coming(read, "ChannelData", id)
                 = channels[id].receive_window + Bytes(x, "WindowAdjust", c) + Bytes(pending'.out, "WindowAdjust", c)
                     + Coming(read', "ChannelData", id),
         channels'[id].send_window + Bytes(x, "Data", c) + Coming(read', "ChannelWindowAdjust", id)
           = channels[id].send_window + Coming(read, "ChannelWindowAdjust", id),
         Requests(read, id) = Replies(x, c) + Requests(read', id),
         St(id)' \in {"None", "Requested"} =>
           St(id) \in {"None", "Requested"} /\ (client[c].early \/ channels'[id].receive_window = 0)
  PROVE  Counted(c)' /\ Affords(c)'
<1>1. id \in Ids /\ Known(id) /\ Own(id, c) /\ c \in RemoteIds /\ \A j \in Ids : Own(j, c) => j = id
  BY OwnedBy DEF Touch
<1>2. client' = client /\ Speaks(c, x) /\ x \in Seq(Fitting) BY DEF Touch, Speaks
<1>3. CountedAt(id, c) BY <1>1 DEF Counted
<1>4. write \in Seq(Fitting) /\ write' \in Seq(Fitting) /\ read \in Seq(Sendable) /\ read' \in Seq(Sendable)
      /\ pending.out \in Seq(Fitting)
  <2>1. read' \in Seq(Sendable)
    <3>1. CASE UNCHANGED read BY <3>1 DEF Typed
    <3>2. CASE Takes BY <3>2, TakesFacts
    <3> QED BY <3>1, <3>2 DEF Touch
  <2> QED BY <1>2, <2>1, Spoken DEF Typed
<1> DEFINE wd == Bytes(write, "Data", c)
           wd1 == Bytes(write', "Data", c)
           xd == Bytes(x, "Data", c)
           ww == Bytes(write, "WindowAdjust", c)
           ww1 == Bytes(write', "WindowAdjust", c)
           xw == Bytes(x, "WindowAdjust", c)
           p0 == Bytes(pending.out, "WindowAdjust", c)
           p1 == Bytes(pending'.out, "WindowAdjust", c)
           r0 == Replies(write, c)
           r1 == Replies(write', c)
           xr == Replies(x, c)
           d0 == Coming(read, "ChannelData", id)
           d1 == Coming(read', "ChannelData", id)
           a0 == Coming(read, "ChannelWindowAdjust", id)
           a1 == Coming(read', "ChannelWindowAdjust", id)
           q0 == Requests(read, id)
           q1 == Requests(read', id)
           rw == channels[id].receive_window
           rw1 == channels'[id].receive_window
           sw == channels[id].send_window
           sw1 == channels'[id].send_window
           cr == client[c].credit
           wi == client[c].window
           as == client[c].asked
<1>5. wd \in Nat /\ ww \in Nat /\ r0 \in Nat /\ d0 \in Nat /\ a0 \in Nat /\ q0 \in Nat
  BY <1>4, Numbers
<1>6. wd1 \in Nat /\ ww1 \in Nat /\ r1 \in Nat /\ d1 \in Nat /\ a1 \in Nat /\ q1 \in Nat
  BY <1>4, Numbers
<1>7. xd \in Nat /\ xw \in Nat /\ xr \in Nat BY <1>2, <1>4, Numbers
<1>8. p0 \in Nat /\ p1 \in Nat BY <1>4, Numbers
<1>9. rw \in Nat /\ sw \in Nat
  <2>1. channels[id] \in Channel BY <1>1 DEF Known, IInv, TypeOK
  <2> QED BY <2>1, ChannelNumbers
<1>10. rw1 \in Nat /\ sw1 \in Nat BY DEF IInv, TypeOK, Channel
<1>11. cr \in Nat /\ wi \in Nat /\ as \in Nat BY <1>1 DEF Typed, ClientChannel
<1>12. wd1 = wd + xd /\ ww1 = ww + xw /\ r1 = r0 + xr BY <1>2, SpokenSums
<1>13. /\ rw <= cr + ww + p0 + d0 /\ cr + ww + p0 + d0 <= rw + INITIAL_WINDOW_SIZE
       /\ ~client[c].early \/ St(id) \in {"None", "Requested"} => cr + ww + p0 + d0 = rw
       /\ St(id) \in {"None", "Requested"} => client[c].early \/ rw = 0
       /\ sw + wd + a0 = wi /\ as = r0 + q0
  BY <1>3 DEF CountedAt, Granted
<1>14. /\ \/ rw1 + p0 + d0 = rw + xw + p1 + d1
          \/ /\ St(id) \in {"None", "Requested"} /\ St(id)' \notin {"None", "Requested"}
             /\ rw1 + rw + p0 + d0 = rw + xw + p1 + d1
       /\ sw1 + xd + a1 = sw + a0 /\ q0 = xr + q1
  OBVIOUS
<1>22. INITIAL_WINDOW_SIZE \in Nat /\ rw <= INITIAL_WINDOW_SIZE
  BY <1>1, ChannelsAssumption DEF IInv, WindowReplenished, Known
<1> HIDE DEF wd, wd1, xd, ww, ww1, xw, p0, p1, r0, r1, xr, d0, d1, a0, a1, q0, q1, rw, rw1, sw, sw1, cr, wi, as
<1>15. /\ rw1 <= cr + ww1 + p1 + d1 /\ cr + ww1 + p1 + d1 <= rw1 + INITIAL_WINDOW_SIZE
       /\ ~client[c].early \/ St(id)' \in {"None", "Requested"} => cr + ww1 + p1 + d1 = rw1
  <2>0. cr + ww1 + p1 + d1 = cr + ww + xw + p1 + d1 BY <1>5, <1>6, <1>7, <1>8, <1>11, <1>12
  <2>1. CASE rw1 + p0 + d0 = rw + xw + p1 + d1
    <3>1. PICK e \in Nat : cr + ww + p0 + d0 = rw + e /\ e <= INITIAL_WINDOW_SIZE
      <4>1. cr + ww + p0 + d0 - rw \in Nat /\ cr + ww + p0 + d0 = rw + (cr + ww + p0 + d0 - rw)
            /\ cr + ww + p0 + d0 - rw <= INITIAL_WINDOW_SIZE
        BY <1>5, <1>8, <1>9, <1>11, <1>13, <1>22
      <4> QED BY <4>1
    <3>2. cr + ww1 + p1 + d1 = rw1 + e
      BY <1>5, <1>6, <1>7, <1>8, <1>9, <1>10, <1>11, <2>0, <2>1, <3>1
    <3>3. ~client[c].early \/ St(id)' \in {"None", "Requested"} => e = 0
      BY <1>5, <1>8, <1>9, <1>11, <1>13, <3>1
    <3> QED BY <1>10, <1>22, <3>1, <3>2, <3>3
  <2>2. CASE /\ St(id) \in {"None", "Requested"} /\ St(id)' \notin {"None", "Requested"}
             /\ rw1 + rw + p0 + d0 = rw + xw + p1 + d1
    <3>1. cr + ww + p0 + d0 = rw /\ (~client[c].early => rw = 0) BY <1>13, <2>2
    <3>2. cr + ww1 + p1 + d1 = rw1 + rw
      BY <1>5, <1>6, <1>7, <1>8, <1>9, <1>10, <1>11, <2>0, <2>2, <3>1
    <3> QED BY <1>9, <1>10, <1>22, <2>2, <3>1, <3>2
  <2> QED BY <1>14, <2>1, <2>2
<1>16. sw1 + wd1 + a1 = wi /\ wd1 <= wi
  <2>1. sw1 + wd + xd + a1 = sw + wd + a0 BY <1>5, <1>6, <1>7, <1>9, <1>10, <1>14
  <2>2. sw1 + (wd + xd) + a1 = wi BY <1>5, <1>6, <1>7, <1>10, <1>13, <2>1
  <2>3. sw1 + wd1 + a1 = wi BY <1>12, <2>2
  <2> QED BY <1>6, <1>10, <1>11, <2>3
<1>17. as = r1 + q1 /\ r1 <= as BY <1>5, <1>6, <1>7, <1>11, <1>12, <1>13, <1>14
<1>18. CountedAt(id, c)'
  BY <1>2, <1>15, <1>16, <1>17 DEF CountedAt, Granted, wd1, ww1, p1, r1, d1, a1, q1, rw1, sw1, cr, wi, as
<1>19. Affords(c)' BY <1>2, <1>16, <1>17 DEF Affords, wd1, r1, wi, as
<1>20. \A j \in Ids : Own(j, c)' => j = id BY <1>1 DEF Touch, Own, Known
<1>21. Own(id, c)' BY DEF Touch, Own, Known
<1> QED BY <1>1, <1>18, <1>19, <1>20, <1>21 DEF Counted

\* The channel goes, with all requests answered.
LEMMA OwnerGone ==
  ASSUME IInv, Typed, Placed, NEW id, NEW x, Touch(id, x), NEW c, c = channels[id].remote_id, Counted(c), Affords(c),
         id \notin DOMAIN channels', Bytes(x, "Data", c) = 0, Replies(x, c) = 0, Requests(read, id) = 0
  PROVE  Counted(c)' /\ Affords(c)'
<1>1. id \in Ids /\ Known(id) /\ Own(id, c) /\ c \in RemoteIds /\ \A j \in Ids : Own(j, c) => j = id
  BY OwnedBy DEF Touch
<1>2. client' = client /\ Speaks(c, x) BY DEF Touch
<1>3. CountedAt(id, c) BY <1>1 DEF Counted
<1>4. write \in Seq(Fitting) /\ <<>> \in Seq(Sendable) BY DEF Typed
<1>5. Bytes(write, "Data", c) \in Nat /\ Replies(write, c) \in Nat BY <1>4, Numbers
<1>6. Bytes(write', "Data", c) = Bytes(write, "Data", c) /\ Replies(write', c) = Replies(write, c)
  BY <1>2, <1>5, SpokenSums
<1>7. client[c].asked = Replies(write, c) BY <1>3, <1>5 DEF CountedAt
<1>8. \A j \in Ids : ~Own(j, c)' BY <1>1 DEF Touch, Own, Known
<1> QED BY <1>2, <1>6, <1>7, <1>8 DEF Counted, Affords

-----------------------------------------------------------------------------
(* The handlers of the client's messages. *)

Before ==
  /\ IInv /\ IInv' /\ ShellsMove /\ Typed /\ Placed
  /\ \A c \in RemoteIds : Live(c) /\ Heard(c)
After == Placed' /\ \A c \in RemoteIds : Live(c)' /\ Heard(c)'

Handles(m) == Takes /\ m = Head(read) /\ UNCHANGED client /\ RanKept

\* The owner's part, and the others follow.
LEMMA TouchAfter ==
  ASSUME Before, NEW id, NEW x, Touch(id, x), NEW c, c = channels[id].remote_id,
         Life(c)', Coherent(c)', Asking(c)', Linked(c)', Ordered(c)', Counted(c)', Affords(c)',
         id \in DOMAIN channels' \/ ~Has(read', For(id))
  PROVE  After
<1>1. Placed' BY TouchPlaced DEF Before
<1>2. Live(c)' /\ Heard(c)' BY DEF Live, Heard
<1>3. ASSUME NEW e \in RemoteIds, e /= c PROVE Live(e)' /\ Heard(e)'
  <2>1. Live(e) /\ Heard(e) /\ Linked(e) BY DEF Before, Live
  <2>2. Untouched(e) BY <1>3, <2>1, TouchOthers DEF Before
  <2> QED BY <2>1, <2>2, UntouchedStays DEF Before
<1> QED BY <1>1, <1>2, <1>3 DEF After

\* A message of the client is for a channel that is there.
LEMMA HandlesKnown ==
  ASSUME Before, NEW m, Handles(m), m.type \in HandledTypes
  PROVE  /\ m \in Sendable /\ m \in For(m.to) /\ Known(m.to) /\ m.to \in Ids /\ m.to \in DOMAIN channels
         /\ channels[m.to] \in Channel /\ channels[m.to].remote_id \in RemoteIds
         /\ Own(m.to, channels[m.to].remote_id)
         /\ Live(channels[m.to].remote_id) /\ Heard(channels[m.to].remote_id)
<1>1. m \in Sendable /\ m \in In(read) BY TakesFacts DEF Handles, Before
<1>2. Known(m.to) BY <1>1 DEF Before, Placed
<1>3. m \in For(m.to) BY <1>1 DEF For
<1>4. /\ m.to \in Ids /\ channels[m.to] \in Channel /\ channels[m.to].remote_id \in RemoteIds
      /\ Own(m.to, channels[m.to].remote_id)
  BY <1>2, OwnedBy DEF Before
<1> QED BY <1>1, <1>2, <1>3, <1>4 DEF Before, Known

\* One channel of the map is replaced.
LEMMA TouchUpdate ==
  ASSUME Before, NEW id, Known(id), NEW c, c = channels[id].remote_id, NEW d \in Channel, d.remote_id = c,
         channels' = Update(id, d), UNCHANGED client, RanKept \/ UNCHANGED ran,
         UNCHANGED read \/ (Takes /\ Head(read) \in For(id)), NEW x, Speaks(c, x),
         \A e : e /= c => Bytes(pending'.out, "WindowAdjust", e) = Bytes(pending.out, "WindowAdjust", e)
  PROVE  Touch(id, x) /\ id \in DOMAIN channels' /\ channels'[id] = d /\ id \in DOMAIN channels
<1>1. id \in DOMAIN channels BY DEF Known
<1>2. /\ DOMAIN channels' = DOMAIN channels
      /\ channels'[id] = d
      /\ \A j \in DOMAIN channels : j /= id => channels'[j] = channels[j]
  BY <1>1, UpdateMap DEF Before, IInv
<1>3. UNCHANGED ran \/ ran' = [e \in RemoteIds |-> Started(e)] BY Zenon DEF RanKept
<1> QED BY <1>1, <1>2, <1>3 DEF Touch

\* The map is left as it was.
LEMMA TouchSame ==
  ASSUME Before, NEW id, Known(id), NEW c, c = channels[id].remote_id,
         channels' = channels, UNCHANGED client, RanKept \/ UNCHANGED ran,
         UNCHANGED read \/ (Takes /\ Head(read) \in For(id)), NEW x, Speaks(c, x),
         \A e : e /= c => Bytes(pending'.out, "WindowAdjust", e) = Bytes(pending.out, "WindowAdjust", e)
  PROVE  Touch(id, x) /\ id \in DOMAIN channels' /\ channels'[id] = channels[id] /\ id \in DOMAIN channels
<1>1. id \in DOMAIN channels BY DEF Known
<1>2. UNCHANGED ran \/ ran' = [e \in RemoteIds |-> Started(e)] BY Zenon DEF RanKept
<1> QED BY <1>1, <1>2 DEF Touch

\* No reply, or one.
LEMMA RepliesOnce ==
  ASSUME Before, NEW m, Handles(m), m.type = "ChannelRequest", NEW t \in {"Success", "Failure"}
  PROVE  LET c == channels[m.to].remote_id IN
         /\ Reply(m, t) = <<Msg(t, c, 0)>> /\ Msg(t, c, 0) \in Fitting /\ t \in AnswerTypes
         /\ Reply(m, t) \in Seq(Fitting) /\ \A y \in In(Reply(m, t)) : y \in AllTo(c) /\ y.type = t
<1> DEFINE c == channels[m.to].remote_id
<1>1. m \in Sendable /\ c \in RemoteIds BY HandlesKnown DEF HandledTypes, ChannelTypes
<1>2. m.want_reply BY <1>1 DEF Sendable
<1>3. t \in AnswerTypes /\ Msg(t, c, 0) \in Fitting BY <1>1, MsgFits DEF AnswerTypes
<1>4. Reply(m, t) = <<Msg(t, c, 0)>> BY <1>2 DEF Reply
<1>5. <<Msg(t, c, 0)>> \in Seq(Fitting) /\ \A y \in In(<<Msg(t, c, 0)>>) : y.type = t /\ y \in AllTo(c)
  BY <1>3, OneSaid
<1> QED BY <1>3, <1>4, <1>5
\* A request weighs one request, and no bytes.
LEMMA RequestSums ==
  ASSUME Before, NEW m, Handles(m), m.type = "ChannelRequest"
  PROVE  /\ Coming(read, "ChannelData", m.to) = Coming(read', "ChannelData", m.to)
         /\ Coming(read, "ChannelWindowAdjust", m.to) = Coming(read', "ChannelWindowAdjust", m.to)
         /\ Requests(read, m.to) = 1 + Requests(read', m.to)
         /\ Coming(read', "ChannelData", m.to) \in Nat /\ Coming(read', "ChannelWindowAdjust", m.to) \in Nat
<1>1. Typed /\ Takes /\ m = Head(read) BY DEF Before, Handles
<1>2. Carries(m, "ChannelData", m.to) = 0 /\ Carries(m, "ChannelWindowAdjust", m.to) = 0 /\ IsRequest(m, m.to) = 1
  BY DEF Carries, IsRequest
<1>3. read' \in Seq(Sendable) /\ <<>> \in Seq(Fitting) BY <1>1, TakesFacts
<1>4. Coming(read', "ChannelData", m.to) \in Nat /\ Coming(read', "ChannelWindowAdjust", m.to) \in Nat
  BY <1>3, Numbers
<1> QED BY <1>1, <1>2, <1>4, TakenSums

\* env, window-change and the requests that are refused: a reply, and the
\* terminal and the windows as they were.
LEMMA PlainReply ==
  ASSUME Before, NEW m, Handles(m), m.type = "ChannelRequest", m \notin Ptys(m.to) \cup ShellAsks(m.to),
         NEW t \in {"Success", "Failure"},
         NEW id, id = m.to, NEW c, c = channels[id].remote_id, NEW x, x = Reply(m, t),
         Touch(id, x), UNCHANGED pending, id \in DOMAIN channels',
         channels'[id].terminal = channels[id].terminal,
         channels'[id].send_window = channels[id].send_window,
         channels'[id].receive_window = channels[id].receive_window,
         channels'[id].close_sent = channels[id].close_sent
  PROVE  After
<1>0. IInv /\ IInv' /\ ShellsMove /\ Typed /\ Placed BY DEF Before
<1>1. Live(c) /\ Heard(c) /\ id \in Ids /\ channels[id] \in Channel /\ Own(id, c)
  BY HandlesKnown DEF HandledTypes, ChannelTypes
<1>2. /\ x = <<Msg(t, c, 0)>> /\ Msg(t, c, 0) \in Fitting /\ t \in AnswerTypes
      /\ \A y \in In(x) : y \in AllTo(c) /\ y.type = t
  BY RepliesOnce
<1>3. Bytes(x, "Data", c) = 0 /\ Bytes(x, "WindowAdjust", c) = 0 /\ Replies(x, c) = 1
  BY <1>2, OneCounts
<1>4. St(id)' = St(id) /\ SameTerminal(id) BY DEF St, SameTerminal
<1>5. Takes /\ m = Head(read) /\ RanKept BY DEF Handles
<1>6. /\ Coming(read, "ChannelData", id) = Coming(read', "ChannelData", id)
      /\ Coming(read, "ChannelWindowAdjust", id) = Coming(read', "ChannelWindowAdjust", id)
      /\ Requests(read, id) = 1 + Requests(read', id)
      /\ Coming(read', "ChannelData", id) \in Nat /\ Coming(read', "ChannelWindowAdjust", id) \in Nat
  BY RequestSums
<1>7. channels[id].receive_window \in Nat /\ channels[id].send_window \in Nat BY <1>1 DEF Channel
<1>8. pending'.out = pending.out /\ pending.out \in Seq(Fitting) BY <1>0 DEF Typed
<1>9. Bytes(pending.out, "WindowAdjust", c) \in Nat BY <1>8, BytesFacts
<1>10. St(id) \in {"None", "Requested"} => client[c].early \/ channels[id].receive_window = 0
  BY <1>1 DEF Live, Counted, CountedAt
<1>12. Life(c)'
  <2>1. \A y \in In(x) : y.type \notin OpenedTypes BY <1>2 DEF OpenedTypes
  <2> QED BY <1>0, <1>1, <2>1, OwnerLife DEF Live
<1>13. Coherent(c)' BY <1>0, <1>1, <1>4, OwnerCoherent DEF Live
<1>14. Asking(c)'
  <2>1. Takes /\ Head(read) \notin Ptys(id) \cup ShellAsks(id) /\ St(id)' = St(id) BY <1>4, <1>5
  <2> QED BY <1>0, <1>1, <2>1, OwnerAsking DEF Live
<1>15. Linked(c)' /\ Ordered(c)'
  <2>1. \A y \in In(x) : y.type \in {"Success", "Failure", "WindowAdjust", "Data"} BY <1>2
  <2>2. ~Has(x, To(c, {"Data"})) BY <1>2 DEF Has, To
  <2> QED BY <1>0, <1>1, <1>4, <2>1, <2>2, OwnerTalks DEF Live, Heard
<1>16. Counted(c)' /\ Affords(c)'
  <2>2. channels'[id].receive_window + Bytes(pending.out, "WindowAdjust", c) + Coming(read, "ChannelData", id)
           = channels[id].receive_window + Bytes(x, "WindowAdjust", c) + Bytes(pending'.out, "WindowAdjust", c)
               + Coming(read', "ChannelData", id)
    BY <1>3, <1>6, <1>7, <1>8, <1>9
  <2>3. channels'[id].send_window + Bytes(x, "Data", c) + Coming(read', "ChannelWindowAdjust", id)
           = channels[id].send_window + Coming(read, "ChannelWindowAdjust", id)
    BY <1>3, <1>6, <1>7
  <2>4. Requests(read, id) = Replies(x, c) + Requests(read', id) BY <1>3, <1>6
  <2>5. St(id)' \in {"None", "Requested"} =>
          St(id) \in {"None", "Requested"} /\ (client[c].early \/ channels'[id].receive_window = 0)
    BY <1>4, <1>10
  <2> QED BY <1>0, <1>1, <1>8, <2>2, <2>3, <2>4, <2>5, OwnerCounted DEF Live
<1> QED BY <1>12, <1>13, <1>14, <1>15, <1>16, TouchAfter

\* Two messages are said, one after the other.
LEMMA Associates ==
  ASSUME NEW U, NEW q \in Seq(U), NEW a \in U, NEW b \in U
  PROVE  (q \o <<a>>) \o <<b>> = q \o <<a, b>> /\ <<a, b>> = <<a>> \o <<b>> /\ <<a, b>> \in Seq(U)
<1> DEFINE l == Len(q)
           s == (q \o <<a>>) \o <<b>>
           t == q \o <<a, b>>
<1>1. l \in Nat /\ q \in Seq(U) /\ <<a>> \in Seq(U) /\ <<b>> \in Seq(U) /\ <<a, b>> \in Seq(U) OBVIOUS
<1>2. s \in Seq(U) /\ Len(s) = l + 2 /\ (\A i \in 1..l : s[i] = q[i]) /\ s[l + 1] = a /\ s[l + 2] = b OBVIOUS
<1>3. t \in Seq(U) /\ Len(t) = l + 2 /\ (\A i \in 1..l : t[i] = q[i]) /\ t[l + 1] = a /\ t[l + 2] = b
  <2>1. Len(<<a, b>>) = 2 /\ <<a, b>>[1] = a /\ <<a, b>>[2] = b OBVIOUS
  <2>2. \A i \in 1..2 : t[l + i] = <<a, b>>[i] OBVIOUS
  <2> QED BY <1>1, <2>1, <2>2
<1> HIDE DEF s, t, l
<1>4. \A i \in 1..(l + 2) : i \in 1..l \/ i = l + 1 \/ i = l + 2 BY <1>1
<1>5. \A i \in 1..(l + 2) : s[i] = t[i] BY <1>2, <1>3, <1>4
<1>6. s = t BY <1>2, <1>3, <1>5, SeqEqual
<1>7. <<a, b>> = <<a>> \o <<b>>
  <2> DEFINE y == <<a, b>>
             z == <<a>> \o <<b>>
  <2>1. y \in Seq(U) /\ Len(y) = 2 /\ y[1] = a /\ y[2] = b OBVIOUS
  <2>2. z \in Seq(U) /\ Len(z) = 2 /\ z[1] = a /\ z[2] = b OBVIOUS
  <2> HIDE DEF y, z
  <2>3. \A i \in 1..2 : i = 1 \/ i = 2 OBVIOUS
  <2>4. y = z BY <2>1, <2>2, <2>3, SeqEqual
  <2> QED BY <2>4 DEF y, z
<1> QED BY <1>1, <1>6, <1>7 DEF s, t

\* Two messages to c, one after the other.
LEMMA TwoSaid ==
  ASSUME Typed, NEW c, NEW m \in AllTo(c), NEW n \in AllTo(c), write' = write \o <<m>> \o <<n>>
  PROVE  \E x : /\ Speaks(c, x) /\ In(x) = {m, n}
                /\ Bytes(x, "Data", c) = Bytes(<<m>>, "Data", c) + Bytes(<<n>>, "Data", c)
                /\ Bytes(x, "WindowAdjust", c) = Bytes(<<m>>, "WindowAdjust", c) + Bytes(<<n>>, "WindowAdjust", c)
                /\ Replies(x, c) = Replies(<<m>>, c) + Replies(<<n>>, c)
<1>1. m \in Fitting /\ n \in Fitting /\ write \in Seq(Fitting) BY DEF AllTo, To, Typed
<1>2. <<m>> \in Seq(Fitting) /\ <<n>> \in Seq(Fitting) BY <1>1
<1>3. write' = write \o <<m, n>> /\ <<m, n>> = <<m>> \o <<n>> /\ <<m, n>> \in Seq(Fitting)
  <2>1. \A q \in Seq(Fitting) : \A a, b \in Fitting :
          (q \o <<a>>) \o <<b>> = q \o <<a, b>> /\ <<a, b>> = <<a>> \o <<b>> /\ <<a, b>> \in Seq(Fitting)
    BY Associates, Zenon
  <2> QED BY <1>1, <2>1, Zenon
<1>4. In(<<m, n>>) = {m, n}
  <2>1. In(<<m>>) = {m} /\ In(<<n>>) = {n} BY <1>1, InOne
  <2>2. \A q, x \in Seq(Fitting) : In(q \o x) = In(q) \cup In(x) BY InConcat
  <2>3. In(<<m, n>>) = In(<<m>>) \cup In(<<n>>) BY <1>2, <1>3, <2>2, Zenon
  <2> QED BY <2>1, <2>3
<1>5. Speaks(c, <<m, n>>) BY <1>3, <1>4 DEF Speaks
<1>6. ASSUME NEW t \in {"Data", "WindowAdjust"}
      PROVE  Bytes(<<m, n>>, t, c) = Bytes(<<m>>, t, c) + Bytes(<<n>>, t, c)
  <2>1. \A q, x \in Seq(Fitting) : Bytes(q \o x, t, c) = Bytes(q, t, c) + Bytes(x, t, c)
    BY BytesFacts
  <2> QED BY <1>2, <1>3, <2>1
<1>7. Replies(<<m, n>>, c) = Replies(<<m>>, c) + Replies(<<n>>, c)
  <2>1. \A q, x \in Seq(Fitting) : Replies(q \o x, c) = Replies(q, c) + Replies(x, c)
    BY RepliesFacts
  <2> QED BY <1>2, <1>3, <2>1
<1> QED BY <1>4, <1>5, <1>6, <1>7
\* The channel stays open, and nothing is said that ends anything.
LEMMA TalkAfter ==
  ASSUME Before, NEW id, NEW x, NEW c, c = channels[id].remote_id, Touch(id, x), id \in DOMAIN channels',
         \A m \in In(x) : m.type \in {"Success", "Failure", "WindowAdjust", "Data"},
         Has(x, To(c, {"Data"})) => St(id) \in {"None", "Requested", "Running"},
         channels'[id].close_sent = channels[id].close_sent,
         \/ SameTerminal(id)
         \/ RanKept /\ St(id) = "None" /\ St(id)' = "Requested"
         \/ RanKept /\ St(id) = "Requested" /\ St(id)' = "Running",
         Asking(c)', Counted(c)', Affords(c)'
  PROVE  After
<1>0. IInv /\ ShellsMove /\ Typed /\ Placed BY DEF Before
<1>1. Live(c) /\ Heard(c) /\ c \in RemoteIds BY <1>0, OwnedBy DEF Before, Touch
<1>2. Life(c)'
  <2>1. \A y \in In(x) : y.type \notin OpenedTypes BY DEF OpenedTypes
  <2> QED BY <1>0, <1>1, <2>1, OwnerLife DEF Live
<1>3. Coherent(c)'
  <2>1. St(id)' = "Reaping" => St(id) = "Reaping" BY DEF SameTerminal
  <2> QED BY <1>0, <1>1, <2>1, OwnerCoherent DEF Live
<1>4. Linked(c)' /\ Ordered(c)' BY <1>0, <1>1, OwnerTalks DEF Live, Heard
<1> QED BY <1>2, <1>3, <1>4, TouchAfter

Said == \E x \in Seq(Fitting) : write' = write \o x /\ \A y \in In(x) : y.type \in AnswerTypes

\* What is said to a channel is not of the key exchange.
LEMMA SpeaksSaid ==
  ASSUME NEW c, NEW x, Speaks(c, x)
  PROVE  Said
BY DEF Speaks, Said, AllTo, To

\* pty-req: the channel had no terminal, for this is the client's first.
LEMMA PtyReqAfter ==
  ASSUME Before, NEW m, Handles(m), m.type = "ChannelRequest", NEW b \in Nat, PtyReq(m, b)
  PROVE  After /\ Said
<1>0. IInv /\ IInv' /\ ShellsMove /\ Typed /\ Placed BY DEF Before
<1>1. PICK id : id = m.to OBVIOUS
<1>2. PICK c : c = channels[id].remote_id OBVIOUS
<1>3. /\ Live(c) /\ Heard(c) /\ id \in Ids /\ Known(id) /\ channels[id] \in Channel /\ Own(id, c) /\ c \in RemoteIds
      /\ m \in For(id) /\ m \in Sendable
  BY <1>1, <1>2, HandlesKnown DEF HandledTypes, ChannelTypes
<1>4. Takes /\ m = Head(read) /\ RanKept /\ UNCHANGED client BY DEF Handles
<1>5. m \in Ptys(id) /\ St(id) = "None"
  <2>1. m \in Ptys(id) BY <1>3 DEF PtyReq, Ptys
  <2>2. Has(read, Ptys(id)) BY <1>0, <1>4, <2>1, TakesFacts DEF Has
  <2> QED BY <1>3, <2>1, <2>2 DEF Live, Asking
<1>6. PICK s : s = Msg("Success", c, 0) OBVIOUS
<1>7. /\ Reply(m, "Success") = <<s>> /\ s \in Fitting /\ "Success" \in AnswerTypes
      /\ Reply(m, "Success") \in Seq(Fitting) /\ \A y \in In(<<s>>) : y \in AllTo(c) /\ y.type = "Success"
  BY <1>1, <1>2, <1>6, RepliesOnce
<1>8. In(<<s>>) = {s} BY <1>7, InOne
<1>9. Bytes(<<s>>, "Data", c) = 0 /\ Bytes(<<s>>, "WindowAdjust", c) = 0 /\ Replies(<<s>>, c) = 1
  BY <1>6, <1>7, OneCounts
<1>10. UNCHANGED pending /\ pending.out \in Seq(Fitting) BY <1>0 DEF PtyReq, Typed
<1>11. /\ Coming(read, "ChannelData", id) = Coming(read', "ChannelData", id)
       /\ Coming(read, "ChannelWindowAdjust", id) = Coming(read', "ChannelWindowAdjust", id)
       /\ Requests(read, id) = 1 + Requests(read', id)
       /\ Coming(read', "ChannelData", id) \in Nat /\ Coming(read', "ChannelWindowAdjust", id) \in Nat
  BY <1>1, RequestSums
<1>12. /\ channels[id].receive_window \in Nat /\ channels[id].send_window \in Nat
       /\ client[c].early \/ channels[id].receive_window = 0
  BY <1>3, <1>5 DEF Live, Counted, CountedAt, Channel
<1>13. Bytes(pending.out, "WindowAdjust", c) \in Nat BY <1>10, BytesFacts
<1>14. ASSUME NEW x, Speaks(c, x), NEW w \in 0..MaxWindow, NEW e,
              channels' = Update(id, e), e = WithSendWindow(WithTerminal(channels[id], TState("Requested")), w),
              w + Bytes(x, "Data", c) = channels[id].send_window, Bytes(x, "WindowAdjust", c) = 0, Replies(x, c) = 1,
              Bytes(x, "Data", c) \in Nat,
              \A y \in In(x) : y.type \in {"Success", "Data"}
       PROVE  After
  <2>1. /\ e \in Channel /\ e.terminal = TState("Requested") /\ e.remote_id = c /\ e.send_window = w
        /\ e.receive_window = channels[id].receive_window /\ e.close_sent = channels[id].close_sent
    <3>1. TState("Requested") \in Terminals BY TerminalOps
    <3> DEFINE f == WithTerminal(channels[id], TState("Requested"))
    <3>2. f \in Channel BY <1>3, <3>1, ChannelOpsType
    <3>3. f.terminal = TState("Requested") /\ f.remote_id = c /\ f.receive_window = channels[id].receive_window
          /\ f.close_sent = channels[id].close_sent
      BY <1>2, <1>3, ChannelOpsFields
    <3> HIDE DEF f
    <3>4. WithSendWindow(f, w) \in Channel BY <3>2, ChannelOpsType
    <3>5. LET g == WithSendWindow(f, w) IN g.send_window = w /\ g.terminal = f.terminal /\ g.remote_id = f.remote_id
            /\ g.receive_window = f.receive_window /\ g.close_sent = f.close_sent
      BY <3>2, ChannelOpsFields
    <3> QED BY <1>14, <3>3, <3>4, <3>5 DEF f
  <2>2. Touch(id, x) /\ id \in DOMAIN channels' /\ channels'[id] = e
    BY <1>2, <1>3, <1>4, <1>10, <1>14, <2>1, TouchUpdate
  <2>3. St(id)' = "Requested" BY <2>1, <2>2 DEF St, TState
  <2>4. Asking(c)' BY <1>0, <1>2, <1>3, <1>4, <1>5, <2>2, <2>3, OwnerAsking DEF Live
  <2>5. Counted(c)' /\ Affords(c)'
    <3>1. channels'[id].receive_window = channels[id].receive_window /\ channels'[id].send_window = w
      BY <2>1, <2>2
    <3>2. pending'.out = pending.out BY <1>10
    <3>3. channels'[id].receive_window + Bytes(pending.out, "WindowAdjust", c) + Coming(read, "ChannelData", id)
           = channels[id].receive_window + Bytes(x, "WindowAdjust", c) + Bytes(pending'.out, "WindowAdjust", c)
               + Coming(read', "ChannelData", id)
      BY <1>11, <1>12, <1>13, <1>14, <3>1, <3>2
    <3>4. channels'[id].send_window + Bytes(x, "Data", c) + Coming(read', "ChannelWindowAdjust", id)
           = channels[id].send_window + Coming(read, "ChannelWindowAdjust", id)
      BY <1>11, <1>12, <1>14, <3>1
    <3>5. Requests(read, id) = Replies(x, c) + Requests(read', id) BY <1>11, <1>14
    <3>6. St(id) \in {"None", "Requested"} /\ (client[c].early \/ channels'[id].receive_window = 0)
      BY <1>5, <1>12, <3>1
    <3> QED BY <1>0, <1>2, <1>3, <1>10, <2>2, <3>6, <3>1, <3>2, <3>3, <3>4, <3>5, OwnerCounted DEF Live
  <2>6. channels'[id].close_sent = channels[id].close_sent BY <2>1, <2>2
  <2> QED BY <1>2, <1>4, <1>5, <1>14, <2>2, <2>3, <2>4, <2>5, <2>6, TalkAfter
<1>15. CASE b > 0 /\ b <= channels[id].send_window
  <2>1. PICK n : n = Msg("Data", c, b) OBVIOUS
  <2>2. n \in Fitting /\ "Data" \in AnswerTypes BY <1>3, <2>1, MsgFits DEF AnswerTypes
  <2>3. In(<<n>>) = {n} /\ \A y \in In(<<n>>) : y.type = "Data" /\ y \in AllTo(c)
    BY <2>1, <2>2, OneSaid
  <2>4. Bytes(<<n>>, "Data", c) = b /\ Bytes(<<n>>, "WindowAdjust", c) = 0 /\ Replies(<<n>>, c) = 0
    BY <2>1, <2>2, OneCounts
  <2>5. /\ channels' = Update(id, WithSendWindow(WithTerminal(channels[id], TState("Requested")),
                                                 channels[id].send_window - b))
        /\ write' = write \o <<s>> \o <<n>>
    <3>1. b > 0 /\ b <= channels[m.to].send_window BY <1>1, <1>15
    <3>2. /\ channels' = Update(m.to, WithSendWindow(WithTerminal(channels[m.to], TState("Requested")),
                                                     channels[m.to].send_window - b))
          /\ write' = write \o Reply(m, "Success") \o <<Msg("Data", channels[m.to].remote_id, b)>>
      BY <3>1, Zenon DEF PtyReq
    <3>3. Reply(m, "Success") = <<s>> /\ Msg("Data", channels[m.to].remote_id, b) = n
      BY <1>1, <1>2, <1>7, <2>1
    <3>4. write' = write \o <<s>> \o <<n>> BY <3>2, <3>3, Zenon
    <3> QED BY <1>1, <3>2, <3>4, Zenon
  <2>6. s \in AllTo(c) /\ n \in AllTo(c) /\ s.type = "Success" /\ n.type = "Data"
    BY <1>7, <1>8, <2>3
  <2>7. PICK x : /\ Speaks(c, x) /\ In(x) = {s, n}
                 /\ Bytes(x, "Data", c) = Bytes(<<s>>, "Data", c) + Bytes(<<n>>, "Data", c)
                 /\ Bytes(x, "WindowAdjust", c) = Bytes(<<s>>, "WindowAdjust", c) + Bytes(<<n>>, "WindowAdjust", c)
                 /\ Replies(x, c) = Replies(<<s>>, c) + Replies(<<n>>, c)
    BY <1>0, <2>5, <2>6, TwoSaid, Zenon
  <2>9. Bytes(x, "Data", c) = b /\ Bytes(x, "WindowAdjust", c) = 0 /\ Replies(x, c) = 1
    BY <1>9, <2>4, <2>7
  <2>10. PICK w : w = channels[id].send_window - b OBVIOUS
  <2>11. w \in 0..MaxWindow /\ w + b = channels[id].send_window
    <3>1. channels[id].send_window \in 0..MaxWindow BY <1>3 DEF Channel
    <3>2. MaxWindow \in Nat BY ChannelsAssumption
    <3> QED BY <1>15, <2>10, <3>1, <3>2
  <2>12. PICK e : e = WithSendWindow(WithTerminal(channels[id], TState("Requested")), w) OBVIOUS
  <2>13. Speaks(c, x) /\ \A y \in In(x) : y.type \in {"Success", "Data"} BY <2>6, <2>7
  <2>14. channels' = Update(id, e) BY <2>5, <2>10, <2>12
  <2>15. Bytes(x, "Data", c) \in Nat /\ w + Bytes(x, "Data", c) = channels[id].send_window
    BY <2>9, <2>11
  <2> QED BY <1>14, <2>9, <2>11, <2>12, <2>13, <2>14, <2>15, SpeaksSaid
<1>16. CASE ~(b > 0 /\ b <= channels[id].send_window)
  <2>1. channels' = Update(id, WithTerminal(channels[id], TState("Requested"))) /\ write' = write \o <<s>>
    BY <1>1, <1>2, <1>7, <1>16 DEF PtyReq
  <2>2. PICK x : x = <<s>> OBVIOUS
  <2>3. PICK w : w = channels[id].send_window OBVIOUS
  <2>4. PICK e : e = WithSendWindow(WithTerminal(channels[id], TState("Requested")), w) OBVIOUS
  <2>5. e = WithTerminal(channels[id], TState("Requested"))
    <3> DEFINE f == WithTerminal(channels[id], TState("Requested"))
    <3>1. f \in Channel BY <1>3, TerminalOps, ChannelOpsType
    <3>2. f.send_window = w BY <1>3, <2>3, ChannelOpsFields
    <3> HIDE DEF f
    <3>3. WithSendWindow(f, w) = f BY <3>1, <3>2 DEF WithSendWindow, Channel
    <3> QED BY <2>4, <3>3 DEF f
  <2>6. w \in 0..MaxWindow BY <1>3, <2>3 DEF Channel
  <2>7. Speaks(c, x) BY <1>7, <2>1, <2>2 DEF Speaks
  <2>8. Bytes(x, "Data", c) = 0 /\ Bytes(x, "WindowAdjust", c) = 0 /\ Replies(x, c) = 1
    BY <1>9, <2>2
  <2>9. w + Bytes(x, "Data", c) = channels[id].send_window BY <1>12, <2>3, <2>8
  <2>10. \A y \in In(x) : y.type \in {"Success", "Data"} BY <1>7, <2>2
  <2>11. channels' = Update(id, e) BY <2>1, <2>5
  <2> QED BY <1>14, <2>4, <2>6, <2>7, <2>8, <2>9, <2>10, <2>11, SpeaksSaid
<1> QED BY <1>15, <1>16

\* shell: the terminal asked for starts, and the client may send.
LEMMA StartShellAfter ==
  ASSUME Before, NEW m, Handles(m), m.type = "ChannelRequest", StartShell(m)
  PROVE  After /\ Said
<1>0. IInv /\ IInv' /\ ShellsMove /\ Typed /\ Placed BY DEF Before
<1>1. PICK id : id = m.to OBVIOUS
<1>2. PICK c : c = channels[id].remote_id OBVIOUS
<1>3. /\ Live(c) /\ Heard(c) /\ id \in Ids /\ Known(id) /\ channels[id] \in Channel /\ Own(id, c) /\ c \in RemoteIds
      /\ m \in For(id) /\ m \in Sendable
  BY <1>1, <1>2, HandlesKnown DEF HandledTypes, ChannelTypes
<1>4. Takes /\ m = Head(read) /\ RanKept /\ UNCHANGED client BY DEF Handles
<1>5. m \in ShellAsks(id) /\ St(id) = "Requested" BY <1>1, <1>3 DEF StartShell, ShellAsks, St
<1>6. PICK s : s = Msg("Success", c, 0) OBVIOUS
<1>7. /\ Reply(m, "Success") = <<s>> /\ s \in Fitting /\ "Success" \in AnswerTypes
      /\ \A y \in In(<<s>>) : y \in AllTo(c) /\ y.type = "Success"
  BY <1>1, <1>2, <1>6, RepliesOnce
<1>8. In(<<s>>) = {s} BY <1>7, InOne
<1>9. Bytes(<<s>>, "Data", c) = 0 /\ Bytes(<<s>>, "WindowAdjust", c) = 0 /\ Replies(<<s>>, c) = 1
  BY <1>6, <1>7, OneCounts
<1>10. UNCHANGED pending /\ pending.out \in Seq(Fitting) BY <1>0 DEF StartShell, Typed
<1>11. /\ Coming(read, "ChannelData", id) = Coming(read', "ChannelData", id)
       /\ Coming(read, "ChannelWindowAdjust", id) = Coming(read', "ChannelWindowAdjust", id)
       /\ Requests(read, id) = 1 + Requests(read', id)
       /\ Coming(read', "ChannelData", id) \in Nat /\ Coming(read', "ChannelWindowAdjust", id) \in Nat
  BY <1>1, RequestSums
<1>12. /\ channels[id].receive_window \in Nat /\ channels[id].send_window \in Nat
       /\ client[c].early \/ channels[id].receive_window = 0
  BY <1>3, <1>5 DEF Live, Counted, CountedAt, Channel
<1>13. Bytes(pending.out, "WindowAdjust", c) \in Nat BY <1>10, BytesFacts
<1>14. INITIAL_WINDOW_SIZE \in 0..MaxWindow /\ INITIAL_WINDOW_SIZE \in Nat BY ChannelsAssumption
<1>15. PICK n : n = Msg("WindowAdjust", c, INITIAL_WINDOW_SIZE) OBVIOUS
<1>16. n \in Fitting /\ "WindowAdjust" \in AnswerTypes
  BY <1>3, <1>14, <1>15, MsgFits DEF AnswerTypes
<1>17. In(<<n>>) = {n} /\ \A y \in In(<<n>>) : y.type = "WindowAdjust" /\ y \in AllTo(c)
  BY <1>15, <1>16, OneSaid
<1>18. Bytes(<<n>>, "Data", c) = 0 /\ Bytes(<<n>>, "WindowAdjust", c) = INITIAL_WINDOW_SIZE /\ Replies(<<n>>, c) = 0
  BY <1>15, <1>16, OneCounts
<1>19. PICK p \in Shells :
         channels' = Update(m.to, WithReceiveWindow(WithTerminal(channels[m.to], WithShell("Running", p)),
                                                    INITIAL_WINDOW_SIZE))
  BY DEF StartShell
<1>20. write' = write \o <<n>> \o <<s>>
  <2>1. write' = write \o <<Msg("WindowAdjust", channels[m.to].remote_id, INITIAL_WINDOW_SIZE)>>
                       \o Reply(m, "Success")
    BY DEF StartShell
  <2>2. Reply(m, "Success") = <<s>> /\ Msg("WindowAdjust", channels[m.to].remote_id, INITIAL_WINDOW_SIZE) = n
    BY <1>1, <1>2, <1>7, <1>15
  <2> QED BY <2>1, <2>2, Zenon
<1>21. s \in AllTo(c) /\ n \in AllTo(c) /\ s.type = "Success" /\ n.type = "WindowAdjust"
  BY <1>7, <1>8, <1>17
<1>22. PICK x : /\ Speaks(c, x) /\ In(x) = {n, s}
                /\ Bytes(x, "Data", c) = Bytes(<<n>>, "Data", c) + Bytes(<<s>>, "Data", c)
                /\ Bytes(x, "WindowAdjust", c) = Bytes(<<n>>, "WindowAdjust", c) + Bytes(<<s>>, "WindowAdjust", c)
                /\ Replies(x, c) = Replies(<<n>>, c) + Replies(<<s>>, c)
  BY <1>0, <1>20, <1>21, TwoSaid, Zenon
<1>23. Bytes(x, "Data", c) = 0 /\ Bytes(x, "WindowAdjust", c) = INITIAL_WINDOW_SIZE /\ Replies(x, c) = 1
  BY <1>9, <1>14, <1>18, <1>22
<1>24. PICK e : e = WithReceiveWindow(WithTerminal(channels[id], WithShell("Running", p)), INITIAL_WINDOW_SIZE)
  OBVIOUS
<1>25. /\ e \in Channel /\ e.terminal.state = "Running" /\ e.remote_id = c /\ e.send_window = channels[id].send_window
       /\ e.receive_window = INITIAL_WINDOW_SIZE /\ e.close_sent = channels[id].close_sent
  <2>1. WithShell("Running", p) \in Terminals /\ WithShell("Running", p).state = "Running"
    BY TerminalOps DEF OwningStates
  <2> DEFINE f == WithTerminal(channels[id], WithShell("Running", p))
  <2>2. f \in Channel BY <1>3, <2>1, ChannelOpsType
  <2>3. f.terminal = WithShell("Running", p) /\ f.remote_id = c /\ f.send_window = channels[id].send_window
        /\ f.close_sent = channels[id].close_sent
    BY <1>2, <1>3, ChannelOpsFields
  <2> HIDE DEF f
  <2>4. WithReceiveWindow(f, INITIAL_WINDOW_SIZE) \in Channel BY <1>14, <2>2, ChannelOpsType
  <2>5. LET g == WithReceiveWindow(f, INITIAL_WINDOW_SIZE) IN
          /\ g.receive_window = INITIAL_WINDOW_SIZE /\ g.terminal = f.terminal /\ g.remote_id = f.remote_id
          /\ g.send_window = f.send_window /\ g.close_sent = f.close_sent
    BY <2>2, ChannelOpsFields
  <2> QED BY <1>24, <2>1, <2>3, <2>4, <2>5 DEF f
<1>26. channels' = Update(id, e) BY <1>1, <1>19, <1>24
<1>27. Touch(id, x) /\ id \in DOMAIN channels' /\ channels'[id] = e
  BY <1>2, <1>3, <1>4, <1>10, <1>22, <1>25, <1>26, TouchUpdate
<1>28. St(id)' = "Running" BY <1>25, <1>27 DEF St
<1>29. Asking(c)' BY <1>0, <1>2, <1>3, <1>4, <1>5, <1>27, <1>28, OwnerAsking DEF Live
<1>30. Counted(c)' /\ Affords(c)'
  <2>1. channels'[id].receive_window = INITIAL_WINDOW_SIZE /\ channels'[id].send_window = channels[id].send_window
    BY <1>25, <1>27
  <2>2. pending'.out = pending.out BY <1>10
  <2>3. channels'[id].receive_window + channels[id].receive_window + Bytes(pending.out, "WindowAdjust", c)
          + Coming(read, "ChannelData", id)
           = channels[id].receive_window + Bytes(x, "WindowAdjust", c) + Bytes(pending'.out, "WindowAdjust", c)
               + Coming(read', "ChannelData", id)
    BY <1>11, <1>12, <1>13, <1>14, <1>23, <2>1, <2>2
  <2>4. channels'[id].send_window + Bytes(x, "Data", c) + Coming(read', "ChannelWindowAdjust", id)
           = channels[id].send_window + Coming(read, "ChannelWindowAdjust", id)
    BY <1>11, <1>12, <1>23, <2>1
  <2>5. Requests(read, id) = Replies(x, c) + Requests(read', id) BY <1>11, <1>23
  <2> QED BY <1>0, <1>2, <1>3, <1>5, <1>10, <1>27, <1>28, <2>2, <2>3, <2>4, <2>5, OwnerCounted DEF Live
<1>31. channels'[id].close_sent = channels[id].close_sent BY <1>25, <1>27
<1>32. \A y \in In(x) : y.type \in {"Success", "WindowAdjust"} BY <1>21, <1>22
<1>33. ~Has(x, To(c, {"Data"})) BY <1>32 DEF Has, To
<1> QED
  BY <1>2, <1>4, <1>5, <1>22, <1>27, <1>28, <1>29, <1>30, <1>31, <1>32, <1>33, TalkAfter,
     SpeaksSaid

\* The replies that come alone.
LEMMA EnvAfter ==
  ASSUME Before, NEW m, Handles(m), m.type = "ChannelRequest",
         Env(m) \/ Refused(m) \/ (WindowChange(m) /\ session' = "running" /\ session = "running")
  PROVE  After /\ Said
<1>0. IInv /\ IInv' /\ ShellsMove /\ Typed /\ Placed BY DEF Before
<1>1. PICK id : id = m.to OBVIOUS
<1>2. PICK c : c = channels[id].remote_id OBVIOUS
<1>3. /\ id \in Ids /\ Known(id) /\ channels[id] \in Channel /\ c \in RemoteIds /\ m \in For(id)
  BY <1>1, <1>2, HandlesKnown DEF HandledTypes, ChannelTypes
<1>4. Takes /\ m = Head(read) /\ RanKept /\ UNCHANGED client BY DEF Handles
<1>5. m \notin Ptys(id) \cup ShellAsks(id) BY DEF Env, Refused, WindowChange, Ptys, ShellAsks
<1>6. UNCHANGED pending BY DEF Env, Refused, WindowChange, Fail
<1>7. PICK t \in {"Success", "Failure"} : write' = write \o Reply(m, t)
  BY DEF Env, Refused, WindowChange, Fail
<1>8. PICK x : x = Reply(m, t) OBVIOUS
<1>9. Speaks(c, x) BY <1>1, <1>2, <1>7, <1>8, RepliesOnce DEF Speaks
<1>10. \/ channels' = channels
       \/ channels' = Update(id, WithEnv(channels[id])) /\ channels[id].env < MAX_ENV
  BY <1>1 DEF Env, Refused, WindowChange
<1>11. CASE channels' = channels
  <2>1. Touch(id, x) /\ id \in DOMAIN channels' /\ channels'[id] = channels[id]
    BY <1>2, <1>3, <1>4, <1>6, <1>9, <1>11, TouchSame
  <2> QED BY <1>1, <1>2, <1>5, <1>6, <1>8, <1>9, <2>1, PlainReply, SpeaksSaid
<1>12. CASE channels' = Update(id, WithEnv(channels[id])) /\ channels[id].env < MAX_ENV
  <2>1. PICK d : d = WithEnv(channels[id]) OBVIOUS
  <2>2. /\ d \in Channel /\ d.remote_id = c /\ d.terminal = channels[id].terminal
        /\ d.send_window = channels[id].send_window /\ d.receive_window = channels[id].receive_window
        /\ d.close_sent = channels[id].close_sent
    BY <1>2, <1>3, <1>12, <2>1, ChannelOpsType, ChannelOpsFields
  <2>3. Touch(id, x) /\ id \in DOMAIN channels' /\ channels'[id] = d
    BY <1>2, <1>3, <1>4, <1>6, <1>9, <1>12, <2>1, <2>2, TouchUpdate
  <2> QED BY <1>1, <1>2, <1>5, <1>6, <1>8, <1>9, <2>2, <2>3, PlainReply, SpeaksSaid
<1> QED BY <1>10, <1>11, <1>12

\* Saying nothing is saying an empty queue.
LEMMA SpeaksNothing ==
  ASSUME Typed, UNCHANGED write, NEW c
  PROVE  \E x : /\ Speaks(c, x) /\ x = <<>> /\ In(x) = {} /\ Bytes(x, "Data", c) = 0 /\ Bytes(x, "WindowAdjust", c) = 0
                /\ Replies(x, c) = 0
<1>1. PICK x : x = <<>> OBVIOUS
<1>2. x \in Seq(Fitting) /\ write' = write \o x BY <1>1 DEF Typed
<1>3. In(x) = {} BY <1>1, InEmpty
<1>4. Speaks(c, x) BY <1>2, <1>3 DEF Speaks
<1>5. Bytes(<<>>, "Data", c) = 0 /\ Bytes(<<>>, "WindowAdjust", c) = 0 /\ Replies(<<>>, c) = 0
  BY BytesFacts, RepliesFacts
<1> QED BY <1>1, <1>3, <1>4, <1>5

\* Sizes are natural numbers that fit in a window.
LEMMA SizesNat == \A n \in Sizes : n \in Nat /\ n \in 0..MaxWindow
BY ChannelsAssumption

\* What a step of the session that goes on leaves.
Proceeds == UNCHANGED session /\ After /\ Said /\ pending'.out \in Seq(Fitting)

\* A message for a channel is not for one that is unknown.
LEMMA NeverUnknown ==
  ASSUME Before, NEW m, Handles(m), m.type \in HandledTypes
  PROVE  ~UnknownChannel(m)
BY HandlesKnown DEF UnknownChannel

\* adjust_window: the window grows by what the client has granted, and never
\* beyond the one it opened with.
LEMMA AdjustAfter ==
  ASSUME Before, NEW m, Handles(m), m.type = "ChannelWindowAdjust", adjust_window(m)
  PROVE  Proceeds
<1>0. IInv /\ IInv' /\ ShellsMove /\ Typed /\ Placed BY DEF Before
<1>1. PICK id : id = m.to OBVIOUS
<1>2. PICK c : c = channels[id].remote_id OBVIOUS
<1>3. /\ Live(c) /\ Heard(c) /\ id \in Ids /\ Known(id) /\ channels[id] \in Channel /\ Own(id, c) /\ c \in RemoteIds
      /\ m \in For(id) /\ m \in Sendable
  BY <1>1, <1>2, HandlesKnown DEF HandledTypes, ChannelTypes
<1>4. Takes /\ m = Head(read) /\ RanKept /\ UNCHANGED client BY DEF Handles
<1>5. /\ channels' = Update(id, GrantSendWindow(channels[id], m.n))
      /\ UNCHANGED <<write, pending, session>>
  BY <1>1, NeverUnknown DEF adjust_window, HandledTypes, ChannelTypes
<1>6. m.n \in Nat
  <2>1. m \in ChannelWindowAdjust BY <1>3, SendableKinds
  <2>2. m.n \in Sizes BY <2>1 DEF ChannelWindowAdjust
  <2> QED BY <2>2, SizesNat
<1>7. PICK k : k = m.n OBVIOUS
<1>8. /\ Coming(read, "ChannelData", id) = Coming(read', "ChannelData", id)
      /\ Coming(read, "ChannelWindowAdjust", id) = k + Coming(read', "ChannelWindowAdjust", id)
      /\ Requests(read, id) = Requests(read', id)
      /\ Coming(read', "ChannelData", id) \in Nat /\ Coming(read', "ChannelWindowAdjust", id) \in Nat
      /\ Requests(read', id) \in Nat
  <2>1. /\ Carries(m, "ChannelData", id) = 0 /\ Carries(m, "ChannelWindowAdjust", id) = k /\ IsRequest(m, id) = 0
    BY <1>1, <1>7 DEF Carries, IsRequest
  <2>2. /\ Coming(read', "ChannelData", id) \in Nat /\ Coming(read', "ChannelWindowAdjust", id) \in Nat
        /\ Requests(read', id) \in Nat
    BY <1>0, <1>4, TakesFacts, ComingFacts, RequestsFacts
  <2> QED BY <1>0, <1>4, <2>1, <2>2, TakenSums
<1>9. pending.out \in Seq(Fitting) /\ write \in Seq(Fitting) BY <1>0 DEF Typed
<1>10. Bytes(pending.out, "WindowAdjust", c) \in Nat /\ Bytes(write, "Data", c) \in Nat
  BY <1>9, BytesFacts
<1>11. PICK w : w = channels[id].send_window + k OBVIOUS
<1>12. w \in 0..MaxWindow /\ channels[id].send_window \in Nat /\ channels[id].receive_window \in Nat
  <2>1. channels[id].send_window \in Nat /\ channels[id].receive_window \in Nat
    BY <1>3, ChannelsAssumption DEF Channel
  <2>2. channels[id].send_window + Bytes(write, "Data", c) + Coming(read, "ChannelWindowAdjust", id) = client[c].window
    BY <1>3 DEF Live, Counted, CountedAt
  <2>3. client[c].window \in 0..ClientWindow BY <1>0, <1>3 DEF Typed, ClientChannel
  <2>4. ClientWindow \in Nat /\ MaxWindow \in Nat /\ ClientWindow <= MaxWindow
    BY ConnectionAssumption, ChannelsAssumption
  <2> QED BY <1>6, <1>7, <1>8, <1>10, <1>11, <2>1, <2>2, <2>3, <2>4
<1>13. PICK e : e = WithSendWindow(channels[id], w) OBVIOUS
<1>14. channels' = Update(id, e)
  <2>1. saturating_add(channels[id].send_window, k) = w
    BY <1>6, <1>7, <1>11, <1>12, ChannelsAssumption DEF saturating_add, Smaller
  <2>2. GrantSendWindow(channels[id], m.n) = e BY <1>7, <1>13, <2>1, Zenon DEF GrantSendWindow
  <2> QED BY <1>5, <2>2, Zenon
<1>15. /\ e \in Channel /\ e.terminal = channels[id].terminal /\ e.remote_id = c /\ e.send_window = w
       /\ e.receive_window = channels[id].receive_window /\ e.close_sent = channels[id].close_sent
  <2>1. e \in Channel BY <1>3, <1>12, <1>13, ChannelOpsType
  <2> QED BY <1>2, <1>3, <1>13, <2>1, ChannelOpsFields
<1>16. PICK x : /\ Speaks(c, x) /\ In(x) = {} /\ Bytes(x, "Data", c) = 0 /\ Bytes(x, "WindowAdjust", c) = 0
                /\ Replies(x, c) = 0
  BY <1>0, <1>5, SpeaksNothing
<1>17. Touch(id, x) /\ id \in DOMAIN channels' /\ channels'[id] = e
  BY <1>2, <1>3, <1>4, <1>5, <1>14, <1>15, <1>16, TouchUpdate
<1>18. SameTerminal(id) BY <1>15, <1>17 DEF SameTerminal, St
<1>19. Asking(c)'
  <2>1. m \notin Ptys(id) \cup ShellAsks(id) BY DEF Ptys, ShellAsks
  <2> QED BY <1>0, <1>2, <1>3, <1>4, <1>17, <1>18, <2>1, OwnerAsking DEF Live, SameTerminal
<1>20. Counted(c)' /\ Affords(c)'
  <2>1. channels'[id].receive_window = channels[id].receive_window /\ channels'[id].send_window = w
    BY <1>15, <1>17
  <2>2. pending'.out = pending.out BY <1>5
  <2>3. channels'[id].receive_window + Bytes(pending.out, "WindowAdjust", c) + Coming(read, "ChannelData", id)
           = channels[id].receive_window + Bytes(x, "WindowAdjust", c) + Bytes(pending'.out, "WindowAdjust", c)
               + Coming(read', "ChannelData", id)
    BY <1>8, <1>10, <1>12, <1>16, <2>1, <2>2
  <2>4. channels'[id].send_window + Bytes(x, "Data", c) + Coming(read', "ChannelWindowAdjust", id)
           = channels[id].send_window + Coming(read, "ChannelWindowAdjust", id)
    BY <1>6, <1>7, <1>8, <1>11, <1>12, <1>16, <2>1
  <2>5. Requests(read, id) = Replies(x, c) + Requests(read', id) BY <1>8, <1>16
  <2>6. St(id)' \in {"None", "Requested"} =>
          St(id) \in {"None", "Requested"} /\ (client[c].early \/ channels'[id].receive_window = 0)
    BY <1>3, <1>18, <2>1 DEF Live, Counted, CountedAt, SameTerminal
  <2> QED BY <1>0, <1>2, <1>3, <1>9, <1>17, <2>2, <2>3, <2>4, <2>5, <2>6, OwnerCounted DEF Live
<1>21. ~Has(x, To(c, {"Data"})) BY <1>16 DEF Has
<1>22. After BY <1>2, <1>15, <1>16, <1>17, <1>18, <1>19, <1>20, <1>21, TalkAfter
<1> QED BY <1>5, <1>9, <1>16, <1>22, SpeaksSaid DEF Proceeds

\* data, no more than the window: what it is refilled by goes out now, or
\* after the write to the PTY.
LEMMA DataAfter ==
  ASSUME Before, NEW m, Handles(m), m.type = "ChannelData", data(m), m.n <= channels[m.to].receive_window
  PROVE  Proceeds
<1>0. IInv /\ IInv' /\ ShellsMove /\ Typed /\ Placed BY DEF Before
<1>1. PICK id : id = m.to OBVIOUS
<1>2. PICK c : c = channels[id].remote_id OBVIOUS
<1>3. /\ Live(c) /\ Heard(c) /\ id \in Ids /\ Known(id) /\ channels[id] \in Channel /\ Own(id, c) /\ c \in RemoteIds
      /\ m \in For(id) /\ m \in Sendable
  BY <1>1, <1>2, HandlesKnown DEF HandledTypes, ChannelTypes
<1>4. Takes /\ m = Head(read) /\ RanKept /\ UNCHANGED client BY DEF Handles
<1>5. PICK k : k = m.n OBVIOUS
<1>6. k \in Nat
  <2>1. m \in ChannelData BY <1>3, SendableKinds
  <2>2. m.n \in Sizes BY <2>1 DEF ChannelData
  <2> QED BY <1>5, <2>2, SizesNat
<1>7. /\ Coming(read, "ChannelData", id) = k + Coming(read', "ChannelData", id)
      /\ Coming(read, "ChannelWindowAdjust", id) = Coming(read', "ChannelWindowAdjust", id)
      /\ Requests(read, id) = Requests(read', id)
      /\ Coming(read', "ChannelData", id) \in Nat /\ Coming(read', "ChannelWindowAdjust", id) \in Nat
      /\ Requests(read', id) \in Nat
  <2>1. /\ Carries(m, "ChannelData", id) = k /\ Carries(m, "ChannelWindowAdjust", id) = 0 /\ IsRequest(m, id) = 0
    BY <1>1, <1>5 DEF Carries, IsRequest
  <2>2. /\ Coming(read', "ChannelData", id) \in Nat /\ Coming(read', "ChannelWindowAdjust", id) \in Nat
        /\ Requests(read', id) \in Nat
    BY <1>0, <1>4, TakesFacts, ComingFacts, RequestsFacts
  <2> QED BY <1>0, <1>4, <2>1, <2>2, TakenSums
<1>8. pending.out \in Seq(Fitting) /\ write \in Seq(Fitting) BY <1>0 DEF Typed
<1>9. Bytes(pending.out, "WindowAdjust", c) \in Nat /\ Bytes(write, "WindowAdjust", c) \in Nat
  BY <1>8, BytesFacts
<1>10. PICK w : w = channels[id].receive_window OBVIOUS
<1>11. w \in 0..MaxWindow /\ w \in Nat /\ channels[id].send_window \in Nat /\ k <= w
  <2>1. channels[id].send_window \in Nat /\ w \in Nat /\ w \in 0..MaxWindow
    BY <1>3, <1>10, ChannelsAssumption DEF Channel
  <2> QED BY <1>1, <1>5, <1>10, <2>1
<1>25. St(id) \in {"None", "Requested"} => client[c].early
  <2>1. m \in Datas(id) /\ m \notin ShellAsks(id) BY <1>3 DEF Datas, ShellAsks
  <2>2. Has(read, Datas(id)) BY <1>0, <1>4, <2>1, TakesFacts DEF Has
  <2>3. NoneAfter(read, Datas(id), ShellAsks(id)) => ~Has(read, ShellAsks(id))
    BY <1>0, <1>4, <2>1, TakesFacts
  <2> QED BY <1>3, <2>2, <2>3 DEF Live, Asking
<1>12. PICK r : r = Replenish(w - k) OBVIOUS
<1>13. PICK v : v = r - (w - k) OBVIOUS
<1>14. r \in 0..MaxWindow /\ r \in Nat /\ v \in Nat /\ v + w = r + k
  <2>1. INITIAL_WINDOW_SIZE \in Nat /\ INITIAL_WINDOW_SIZE <= MaxWindow /\ MaxWindow \in Nat
    BY ChannelsAssumption
  <2>2. r = w - k \/ (r = INITIAL_WINDOW_SIZE /\ w - k < INITIAL_WINDOW_SIZE \div 2)
    BY <1>12 DEF Replenish
  <2>3. INITIAL_WINDOW_SIZE \div 2 <= INITIAL_WINDOW_SIZE /\ INITIAL_WINDOW_SIZE \div 2 \in Nat
    BY <2>1
  <2> QED BY <1>6, <1>11, <1>13, <2>1, <2>2, <2>3
<1>15. PICK a : a = IF v > 0 THEN <<Msg("WindowAdjust", c, v)>> ELSE <<>> OBVIOUS
<1>16. /\ a \in Seq(Fitting) /\ (\A y \in In(a) : y \in AllTo(c) /\ y.type = "WindowAdjust")
       /\ Bytes(a, "WindowAdjust", c) = v /\ Bytes(a, "Data", c) = 0 /\ Replies(a, c) = 0
  <2>1. CASE v > 0
    <3>1. PICK n : n = Msg("WindowAdjust", c, v) OBVIOUS
    <3>2. a = <<n>> BY <1>15, <2>1, <3>1
    <3>3. n \in Fitting /\ "WindowAdjust" \in AnswerTypes
      BY <1>3, <1>14, <3>1, MsgFits DEF AnswerTypes
    <3>4. <<n>> \in Seq(Fitting) /\ \A y \in In(<<n>>) : y.type = "WindowAdjust" /\ y \in AllTo(c)
      BY <3>1, <3>3, OneSaid
    <3>5. Bytes(<<n>>, "Data", c) = 0 /\ Bytes(<<n>>, "WindowAdjust", c) = v /\ Replies(<<n>>, c) = 0
      BY <3>1, <3>3, OneCounts
    <3> QED BY <3>2, <3>4, <3>5
  <2>2. CASE ~(v > 0)
    <3>1. a = <<>> /\ v = 0 BY <1>14, <1>15, <2>2
    <3>2. In(<<>>) = {} /\ <<>> \in Seq(Fitting) BY InEmpty
    <3>3. Bytes(<<>>, "Data", c) = 0 /\ Bytes(<<>>, "WindowAdjust", c) = 0 /\ Replies(<<>>, c) = 0
      BY BytesFacts, RepliesFacts
    <3> QED BY <3>1, <3>2, <3>3
  <2> QED BY <2>1, <2>2
<1>17. /\ channels' = Update(id, WithReceiveWindow(channels[id], r))
       /\ \/ pending'.out = a /\ UNCHANGED write
          \/ write' = write \o a /\ UNCHANGED pending
       /\ UNCHANGED session /\ pending = NoWrite
  <2>1. ~(m.n > channels[m.to].receive_window) BY <1>1, <1>5, <1>6, <1>10, <1>11
  <2>2. ~UnknownChannel(m) BY NeverUnknown DEF HandledTypes, ChannelTypes
  <2>3. Replenish(channels[m.to].receive_window - m.n) = r BY <1>1, <1>5, <1>10, <1>12
  <2>4. r - (channels[m.to].receive_window - m.n) = v BY <1>1, <1>5, <1>10, <1>13
  <2>5. channels[m.to].remote_id = c BY <1>1, <1>2
  <2> DEFINE adjust == IF r - (channels[m.to].receive_window - m.n) > 0
                       THEN <<Msg("WindowAdjust", channels[m.to].remote_id, r - (channels[m.to].receive_window - m.n))>>
                       ELSE <<>>
  <2>6. adjust = a BY <1>15, <2>4, <2>5, Zenon
  <2>7. /\ channels' = Update(m.to, WithReceiveWindow(channels[m.to], r))
        /\ \/ pending' = [shell |-> channels[m.to].terminal.shell, left |-> m.n, out |-> adjust] /\ UNCHANGED write
           \/ write' = write \o adjust /\ UNCHANGED pending
        /\ UNCHANGED session /\ pending = NoWrite
    BY <2>1, <2>2, <2>3, Zenon DEF data, Idle
  <2> HIDE DEF adjust
  <2>8. channels' = Update(id, WithReceiveWindow(channels[id], r)) BY <1>1, <2>7
  <2>9. CASE pending' = [shell |-> channels[m.to].terminal.shell, left |-> m.n, out |-> adjust] /\ UNCHANGED write
    <3>1. pending'.out = adjust BY <2>9
    <3> QED BY <2>6, <2>7, <2>8, <2>9, <3>1, Zenon
  <2>10. CASE write' = write \o adjust /\ UNCHANGED pending BY <2>6, <2>7, <2>8, <2>10, Zenon
  <2> QED BY <2>7, <2>9, <2>10
<1>18. pending.out = <<>> /\ Bytes(pending.out, "WindowAdjust", c) = 0
  BY <1>17, BytesFacts DEF NoWrite
<1>19. PICK e : e = WithReceiveWindow(channels[id], r) OBVIOUS
<1>20. /\ e \in Channel /\ e.terminal = channels[id].terminal /\ e.remote_id = c /\ e.send_window = channels[id].send_window
       /\ e.receive_window = r /\ e.close_sent = channels[id].close_sent
  <2>1. e \in Channel BY <1>3, <1>14, <1>19, ChannelOpsType
  <2> QED BY <1>2, <1>3, <1>19, <2>1, ChannelOpsFields
<1>21. channels' = Update(id, e) BY <1>17, <1>19
<1>22. ASSUME NEW x, Speaks(c, x), \A y \in In(x) : y.type = "WindowAdjust",
              Bytes(x, "Data", c) = 0, Replies(x, c) = 0, pending'.out \in Seq(Fitting),
              Bytes(x, "WindowAdjust", c) \in Nat, Bytes(pending'.out, "WindowAdjust", c) \in Nat,
              Bytes(x, "WindowAdjust", c) + Bytes(pending'.out, "WindowAdjust", c) = v,
              \A f : f /= c => Bytes(pending'.out, "WindowAdjust", f) = Bytes(pending.out, "WindowAdjust", f)
       PROVE  After
  <2>1. Touch(id, x) /\ id \in DOMAIN channels' /\ channels'[id] = e
    BY <1>2, <1>3, <1>4, <1>20, <1>21, <1>22, TouchUpdate
  <2>2. SameTerminal(id) BY <1>20, <2>1 DEF SameTerminal, St
  <2>3. Asking(c)'
    <3>1. m \notin Ptys(id) \cup ShellAsks(id) BY DEF Ptys, ShellAsks
    <3> QED BY <1>0, <1>2, <1>3, <1>4, <2>1, <2>2, <3>1, OwnerAsking DEF Live, SameTerminal
  <2>4. Counted(c)' /\ Affords(c)'
    <3>1. channels'[id].receive_window = r /\ channels'[id].send_window = channels[id].send_window
      BY <1>20, <2>1
    <3>2. channels'[id].receive_window + Bytes(pending.out, "WindowAdjust", c) + Coming(read, "ChannelData", id)
             = channels[id].receive_window + Bytes(x, "WindowAdjust", c) + Bytes(pending'.out, "WindowAdjust", c)
                 + Coming(read', "ChannelData", id)
      <4> DEFINE b == Bytes(x, "WindowAdjust", c)
                 p == Bytes(pending'.out, "WindowAdjust", c)
                 l == Coming(read', "ChannelData", id)
      <4>1. b \in Nat /\ p \in Nat /\ l \in Nat /\ b + p = v /\ Coming(read, "ChannelData", id) = k + l
        BY <1>7, <1>22
      <4> HIDE DEF b, p, l
      <4>2. r + 0 + (k + l) = w + b + p + l BY <1>6, <1>11, <1>14, <4>1
      <4>3. channels'[id].receive_window + Bytes(pending.out, "WindowAdjust", c) + Coming(read, "ChannelData", id)
             = channels[id].receive_window + b + p + l
        BY <1>10, <1>18, <3>1, <4>1, <4>2
      <4> QED BY <4>3 DEF b, p, l
    <3>3. channels'[id].send_window + Bytes(x, "Data", c) + Coming(read', "ChannelWindowAdjust", id)
             = channels[id].send_window + Coming(read, "ChannelWindowAdjust", id)
      BY <1>7, <1>11, <1>22, <3>1
    <3>4. Requests(read, id) = Replies(x, c) + Requests(read', id) BY <1>7, <1>22
    <3>5. St(id)' \in {"None", "Requested"} => St(id) \in {"None", "Requested"} /\ client[c].early
      BY <1>25, <2>2 DEF SameTerminal
    <3> QED BY <1>0, <1>2, <1>3, <1>22, <2>1, <3>2, <3>3, <3>4, <3>5, OwnerCounted DEF Live
  <2>5. ~Has(x, To(c, {"Data"})) BY <1>22 DEF Has, To
  <2>6. channels'[id].close_sent = channels[id].close_sent BY <1>20, <2>1
  <2> QED BY <1>2, <1>22, <2>1, <2>2, <2>3, <2>4, <2>5, <2>6, TalkAfter
<1>23. CASE pending'.out = a /\ UNCHANGED write
  <2>1. PICK x : /\ Speaks(c, x) /\ In(x) = {} /\ Bytes(x, "Data", c) = 0 /\ Bytes(x, "WindowAdjust", c) = 0
                 /\ Replies(x, c) = 0
    BY <1>0, <1>23, SpeaksNothing
  <2>2. \A f : f /= c => Bytes(pending'.out, "WindowAdjust", f) = Bytes(pending.out, "WindowAdjust", f)
    <3> TAKE f
    <3> HAVE f /= c
    <3>1. Bytes(a, "WindowAdjust", f) = 0 BY <1>16, OthersHearNothing
    <3>2. Bytes(<<>>, "WindowAdjust", f) = 0 BY BytesFacts
    <3> QED BY <1>18, <1>23, <3>1, <3>2
  <2>3. pending'.out \in Seq(Fitting) /\ Bytes(pending'.out, "WindowAdjust", c) = v BY <1>16, <1>23
  <2>4. After BY <1>14, <1>22, <2>1, <2>2, <2>3
  <2> QED BY <1>17, <2>1, <2>3, <2>4, SpeaksSaid DEF Proceeds
<1>24. CASE write' = write \o a /\ UNCHANGED pending
  <2>1. Speaks(c, a) BY <1>16, <1>24 DEF Speaks
  <2>2. pending'.out = pending.out BY <1>24
  <2>3. pending'.out \in Seq(Fitting) /\ Bytes(pending'.out, "WindowAdjust", c) = 0
    BY <1>8, <1>18, <2>2
  <2>4. Bytes(a, "WindowAdjust", c) + Bytes(pending'.out, "WindowAdjust", c) = v
    BY <1>14, <1>16, <2>3
  <2>5. Bytes(a, "WindowAdjust", c) \in Nat BY <1>14, <1>16
  <2>6. After BY <1>16, <1>22, <2>1, <2>2, <2>3, <2>4, <2>5
  <2> QED BY <1>17, <2>1, <2>3, <2>6, SpeaksSaid DEF Proceeds
<1> QED BY <1>17, <1>23, <1>24

\* A message that is neither data nor an adjustment nor a request.
LEMMA WeighsNothing ==
  ASSUME Typed, Takes, Head(read).type \notin {"ChannelData", "ChannelWindowAdjust", "ChannelRequest"}, NEW id
  PROVE  /\ Coming(read, "ChannelData", id) = Coming(read', "ChannelData", id)
         /\ Coming(read, "ChannelWindowAdjust", id) = Coming(read', "ChannelWindowAdjust", id)
         /\ Requests(read, id) = Requests(read', id)
         /\ Coming(read', "ChannelData", id) \in Nat /\ Coming(read', "ChannelWindowAdjust", id) \in Nat
         /\ Requests(read', id) \in Nat
<1>1. PICK m : m = Head(read) OBVIOUS
<1>2. /\ Carries(m, "ChannelData", id) = 0 /\ Carries(m, "ChannelWindowAdjust", id) = 0 /\ IsRequest(m, id) = 0
  BY <1>1 DEF Carries, IsRequest
<1>3. /\ Coming(read', "ChannelData", id) \in Nat /\ Coming(read', "ChannelWindowAdjust", id) \in Nat
      /\ Requests(read', id) \in Nat
  BY TakesFacts, ComingFacts, RequestsFacts
<1> QED BY <1>1, <1>2, <1>3, TakenSums

\* eof changes nothing.
LEMMA EofAfter ==
  ASSUME Before, NEW m, Handles(m), m.type = "ChannelEof", eof(m)
  PROVE  Proceeds
<1>0. IInv /\ IInv' /\ ShellsMove /\ Typed /\ Placed BY DEF Before
<1>1. PICK id : id = m.to OBVIOUS
<1>2. PICK c : c = channels[id].remote_id OBVIOUS
<1>3. /\ Live(c) /\ Heard(c) /\ id \in Ids /\ Known(id) /\ channels[id] \in Channel /\ Own(id, c) /\ c \in RemoteIds
      /\ m \in For(id) /\ m \in Sendable
  BY <1>1, <1>2, HandlesKnown DEF HandledTypes, ChannelTypes
<1>4. Takes /\ m = Head(read) /\ RanKept /\ UNCHANGED client BY DEF Handles
<1>5. channels' = channels /\ UNCHANGED <<write, pending, session>>
  BY NeverUnknown DEF eof, HandledTypes, ChannelTypes, vars
<1>6. pending.out \in Seq(Fitting) /\ write \in Seq(Fitting) BY <1>0 DEF Typed
<1>7. Bytes(pending.out, "WindowAdjust", c) \in Nat /\ channels[id].send_window \in Nat /\ channels[id].receive_window \in Nat
  <2>1. Bytes(pending.out, "WindowAdjust", c) \in Nat BY <1>6, BytesFacts
  <2> QED BY <1>3, <2>1, ChannelsAssumption DEF Channel
<1>8. PICK x : /\ Speaks(c, x) /\ In(x) = {} /\ Bytes(x, "Data", c) = 0 /\ Bytes(x, "WindowAdjust", c) = 0
               /\ Replies(x, c) = 0
  BY <1>0, <1>5, SpeaksNothing
<1>9. pending'.out = pending.out BY <1>5
<1>10. Touch(id, x) /\ id \in DOMAIN channels' /\ channels'[id] = channels[id]
  BY <1>2, <1>3, <1>4, <1>5, <1>8, <1>9, TouchSame
<1>11. SameTerminal(id) BY <1>10 DEF SameTerminal, St
<1>12. Asking(c)'
  <2>1. m \notin Ptys(id) \cup ShellAsks(id) BY DEF Ptys, ShellAsks
  <2> QED BY <1>0, <1>2, <1>3, <1>4, <1>10, <1>11, <2>1, OwnerAsking DEF Live, SameTerminal
<1>13. Counted(c)' /\ Affords(c)'
  <2>1. channels'[id].receive_window = channels[id].receive_window /\ channels'[id].send_window = channels[id].send_window
    BY <1>10
  <2>2. /\ Coming(read, "ChannelData", id) = Coming(read', "ChannelData", id)
        /\ Coming(read, "ChannelWindowAdjust", id) = Coming(read', "ChannelWindowAdjust", id)
        /\ Requests(read, id) = Requests(read', id)
        /\ Coming(read', "ChannelData", id) \in Nat /\ Coming(read', "ChannelWindowAdjust", id) \in Nat
        /\ Requests(read', id) \in Nat
    BY <1>0, <1>4, WeighsNothing
  <2>3. channels'[id].receive_window + Bytes(pending.out, "WindowAdjust", c) + Coming(read, "ChannelData", id)
           = channels[id].receive_window + Bytes(x, "WindowAdjust", c) + Bytes(pending'.out, "WindowAdjust", c)
               + Coming(read', "ChannelData", id)
    BY <1>7, <1>8, <1>9, <2>1, <2>2
  <2>4. channels'[id].send_window + Bytes(x, "Data", c) + Coming(read', "ChannelWindowAdjust", id)
           = channels[id].send_window + Coming(read, "ChannelWindowAdjust", id)
    BY <1>7, <1>8, <2>1, <2>2
  <2>5. Requests(read, id) = Replies(x, c) + Requests(read', id) BY <1>8, <2>2
  <2>6. St(id)' \in {"None", "Requested"} =>
          St(id) \in {"None", "Requested"} /\ (client[c].early \/ channels'[id].receive_window = 0)
    BY <1>3, <1>11, <2>1 DEF Live, Counted, CountedAt, SameTerminal
  <2> QED BY <1>0, <1>2, <1>3, <1>6, <1>9, <1>10, <2>3, <2>4, <2>5, <2>6, OwnerCounted DEF Live
<1>14. ~Has(x, To(c, {"Data"})) BY <1>8 DEF Has
<1>15. After BY <1>2, <1>8, <1>10, <1>11, <1>12, <1>13, <1>14, TalkAfter
<1> QED BY <1>5, <1>6, <1>8, <1>15, SpeaksSaid DEF Proceeds

\* Without messages for id there are no requests for it.
LEMMA NoRequests ==
  ASSUME NEW q \in Seq(Sendable), NEW id, ~Has(q, For(id))
  PROVE  Requests(q, id) = 0
<1>1. Requests(q, id) = Sum(q, RequestWeight(id)) /\ RequestWeight(id) \in [Sendable -> Nat]
  BY AsSums, Weights
<1>2. ASSUME NEW m \in In(q) PROVE RequestWeight(id)[m] = 0
  <2>1. m \in Sendable BY DEF In
  <2>2. m \notin For(id) BY DEF Has
  <2>3. ~(m.type = "ChannelRequest" /\ m.to = id) BY <2>1, <2>2 DEF For, HandledTypes, ChannelTypes
  <2> QED BY <2>1, <2>3 DEF RequestWeight
<1> QED BY <1>1, <1>2, SumNone

\* close: the client has closed the channel, so nothing for it follows; it goes
\* at once, or when its shell is reaped.
LEMMA CloseAfter ==
  ASSUME Before, NEW m, Handles(m), m.type = "ChannelClose", close(m)
  PROVE  Proceeds
<1>0. IInv /\ IInv' /\ ShellsMove /\ Typed /\ Placed BY DEF Before
<1>1. PICK id : id = m.to OBVIOUS
<1>2. PICK c : c = channels[id].remote_id OBVIOUS
<1>3. /\ Live(c) /\ Heard(c) /\ id \in Ids /\ Known(id) /\ channels[id] \in Channel /\ Own(id, c) /\ c \in RemoteIds
      /\ m \in For(id) /\ m \in Sendable
  BY <1>1, <1>2, HandlesKnown DEF HandledTypes, ChannelTypes
<1>4. Takes /\ m = Head(read) /\ RanKept /\ UNCHANGED client BY DEF Handles
<1>5. m \in Closes(id) BY <1>3 DEF Closes
<1>6. Has(read, Closes(id)) /\ Has(read, For(id)) BY <1>0, <1>3, <1>4, <1>5, TakesFacts DEF Has
<1>7. client[c].closed /\ St(id) /= "Reaping" /\ NoneAfter(read, Closes(id), For(id))
  BY <1>3, <1>6 DEF Live, Coherent
<1>8. ~Has(read', For(id)) BY <1>0, <1>4, <1>5, <1>7, TakesFacts
<1>9. PICK x : /\ Speaks(c, x) /\ Bytes(x, "Data", c) = 0 /\ Bytes(x, "WindowAdjust", c) = 0 /\ Replies(x, c) = 0
               /\ x = <<>> \/ (x = <<Msg("Close", c, 0)>> /\ ~channels[id].close_sent)
               /\ \A y \in In(x) : y.type \notin OpenedTypes
  <2>1. write' = IF channels[id].close_sent THEN write ELSE Append(write, Msg("Close", c, 0))
    BY <1>1, <1>2, <1>3 DEF close
  <2>2. CASE channels[id].close_sent
    <3>1. UNCHANGED write BY <2>1, <2>2
    <3> QED BY <1>0, <3>1, SpeaksNothing
  <2>3. CASE ~channels[id].close_sent
    <3>1. PICK n : n = Msg("Close", c, 0) OBVIOUS
    <3>2. n \in Fitting /\ "Close" \in AnswerTypes BY <1>3, <3>1, MsgFits DEF AnswerTypes
    <3>3. <<n>> \in Seq(Fitting) /\ \A y \in In(<<n>>) : y.type = "Close" /\ y \in AllTo(c)
      BY <3>1, <3>2, OneSaid
    <3>4. Bytes(<<n>>, "Data", c) = 0 /\ Bytes(<<n>>, "WindowAdjust", c) = 0 /\ Replies(<<n>>, c) = 0
      BY <3>1, <3>2, OneCounts
    <3>5. write' = Append(write, n) BY <2>1, <2>3, <3>1
    <3>6. write' = write \o <<n>>
      <4>1. write \in Seq(Fitting) BY <1>0 DEF Typed
      <4> QED BY <3>2, <3>5, <4>1, ConcatOne
    <3>7. Speaks(c, <<n>>) BY <3>3, <3>6 DEF Speaks
    <3> QED BY <2>3, <3>1, <3>3, <3>4, <3>7 DEF OpenedTypes
  <2> QED BY <2>2, <2>3
<1>10. UNCHANGED <<pending, session>> BY DEF close
<1>11. pending'.out = pending.out /\ pending.out \in Seq(Fitting) BY <1>0, <1>10 DEF Typed
<1>12. \/ /\ St(id) \in {"Running", "Exiting"}
          /\ channels' = Update(id, WithClose(WithTerminal(channels[id], WithShell("Reaping", channels[id].terminal.shell))))
       \/ St(id) \in {"None", "Requested", "Closing"} /\ channels' = Remove(id)
  BY <1>1, <1>3, <1>7 DEF close, St
<1>13. /\ Coming(read, "ChannelData", id) = Coming(read', "ChannelData", id)
       /\ Coming(read, "ChannelWindowAdjust", id) = Coming(read', "ChannelWindowAdjust", id)
       /\ Requests(read, id) = Requests(read', id)
       /\ Coming(read', "ChannelData", id) \in Nat /\ Coming(read', "ChannelWindowAdjust", id) \in Nat
       /\ Requests(read', id) \in Nat
  BY <1>0, <1>4, WeighsNothing
<1>14. CASE /\ St(id) \in {"Running", "Exiting"}
            /\ channels' = Update(id, WithClose(WithTerminal(channels[id], WithShell("Reaping", channels[id].terminal.shell))))
  <2>1. PICK e : e = WithClose(WithTerminal(channels[id], WithShell("Reaping", channels[id].terminal.shell))) OBVIOUS
  <2>2. /\ e \in Channel /\ e.terminal.state = "Reaping" /\ e.remote_id = c /\ e.close_sent
        /\ e.send_window = channels[id].send_window /\ e.receive_window = channels[id].receive_window
    <3>1. channels[id].terminal.shell \in Shells
      BY <1>0, <1>3, <1>14 DEF IInv, ShellsOwned, OwningStates, St, Known
    <3>2. PICK t : t = WithShell("Reaping", channels[id].terminal.shell) OBVIOUS
    <3>3. t \in Terminals /\ t.state = "Reaping" BY <3>1, <3>2, TerminalOps DEF OwningStates
    <3>4. PICK f : f = WithTerminal(channels[id], t) OBVIOUS
    <3>5. f \in Channel BY <1>3, <3>3, <3>4, ChannelOpsType
    <3>6. f.terminal = t /\ f.remote_id = c /\ f.send_window = channels[id].send_window
          /\ f.receive_window = channels[id].receive_window
      BY <1>2, <1>3, <3>4, ChannelOpsFields
    <3>7. e = WithClose(f) BY <2>1, <3>2, <3>4
    <3>8. e \in Channel BY <3>5, <3>7, ChannelOpsType
    <3> QED BY <3>3, <3>5, <3>6, <3>7, <3>8, ChannelOpsFields
  <2>3. channels' = Update(id, e) BY <1>14, <2>1
  <2>4. Touch(id, x) /\ id \in DOMAIN channels' /\ channels'[id] = e
    BY <1>2, <1>3, <1>4, <1>9, <1>11, <2>2, <2>3, TouchUpdate
  <2>5. St(id)' = "Reaping" /\ channels'[id].close_sent BY <2>2, <2>4 DEF St
  <2>6. Life(c)' BY <1>0, <1>2, <1>3, <1>9, <2>4, OwnerLife DEF Live
  <2>7. Coherent(c)' BY <1>0, <1>2, <1>3, <1>7, <1>8, <2>4, OwnerCoherent DEF Live
  <2>8. Asking(c)'
    <3>1. {St(id), St(id)'} \cap {"None", "Requested"} = {} BY <1>14, <2>5
    <3> QED BY <1>0, <1>2, <1>3, <2>4, <3>1, OwnerAsking DEF Live
  <2>9. Linked(c)' /\ Ordered(c)'
    BY <1>0, <1>2, <1>3, <1>7, <1>9, <2>4, <2>5, OwnerClosed DEF Live, Heard
  <2>10. Counted(c)' /\ Affords(c)'
    <3>1. channels'[id].receive_window = channels[id].receive_window /\ channels'[id].send_window = channels[id].send_window
      BY <2>2, <2>4
    <3>2. Bytes(pending.out, "WindowAdjust", c) \in Nat /\ channels[id].send_window \in Nat /\ channels[id].receive_window \in Nat
      <4>1. Bytes(pending.out, "WindowAdjust", c) \in Nat BY <1>11, BytesFacts
      <4> QED BY <1>3, <4>1, ChannelsAssumption DEF Channel
    <3>3. channels'[id].receive_window + Bytes(pending.out, "WindowAdjust", c) + Coming(read, "ChannelData", id)
             = channels[id].receive_window + Bytes(x, "WindowAdjust", c) + Bytes(pending'.out, "WindowAdjust", c)
                 + Coming(read', "ChannelData", id)
      BY <1>9, <1>11, <1>13, <3>1, <3>2
    <3>4. channels'[id].send_window + Bytes(x, "Data", c) + Coming(read', "ChannelWindowAdjust", id)
             = channels[id].send_window + Coming(read, "ChannelWindowAdjust", id)
      BY <1>9, <1>13, <3>1, <3>2
    <3>5. Requests(read, id) = Replies(x, c) + Requests(read', id) BY <1>9, <1>13
    <3> QED BY <1>0, <1>2, <1>3, <1>11, <2>4, <2>5, <3>3, <3>4, <3>5, OwnerCounted DEF Live
  <2> QED
    BY <1>2, <2>4, <2>6, <2>7, <2>8, <2>9, <2>10, <1>9, <1>10, <1>11, TouchAfter, SpeaksSaid DEF
       Proceeds
<1>15. CASE channels' = Remove(id)
  <2>1. /\ DOMAIN channels' = DOMAIN channels \ {id}
        /\ \A j \in DOMAIN channels : j /= id => j \in DOMAIN channels' /\ channels'[j] = channels[j]
    BY <1>15 DEF Remove
  <2>2. id \notin DOMAIN channels' BY <2>1
  <2>3. Touch(id, x) BY <1>2, <1>3, <1>4, <1>9, <1>11, <2>1 DEF Touch, RanKept
  <2>4. Life(c)' BY <1>0, <1>2, <1>3, <1>7, <1>9, <2>3, OwnerLife DEF Live
  <2>5. Coherent(c)' BY <1>0, <1>2, <1>3, <2>2, <2>3, OwnerCoherent DEF Live
  <2>6. Asking(c)' BY <1>0, <1>2, <1>3, <2>2, <2>3, OwnerAsking DEF Live
  <2>7. Linked(c)' /\ Ordered(c)'
    BY <1>0, <1>2, <1>3, <1>7, <1>9, <2>2, <2>3, OwnerClosed DEF Live, Heard
  <2>8. Requests(read, id) = 0
    <3>1. read' \in Seq(Sendable) BY <1>0, <1>4, TakesFacts
    <3> QED BY <1>8, <1>13, <3>1, NoRequests
  <2>9. Counted(c)' /\ Affords(c)'
    BY <1>0, <1>2, <1>3, <1>9, <2>2, <2>3, <2>8, OwnerGone DEF Live, Heard
  <2> QED
    BY <1>2, <1>8, <2>3, <2>4, <2>5, <2>6, <2>7, <2>9, <1>9, <1>10, <1>11, TouchAfter, SpeaksSaid
       DEF Proceeds
<1> QED BY <1>12, <1>14, <1>15

\* Nothing on its way weighs nothing.
LEMMA NothingTo ==
  ASSUME NEW q \in Seq(Fitting), NEW c, ~Has(q, AllTo(c))
  PROVE  Bytes(q, "Data", c) = 0 /\ Bytes(q, "WindowAdjust", c) = 0 /\ Replies(q, c) = 0
<1>1. ASSUME NEW m \in In(q) PROVE m \in Fitting /\ m \notin AllTo(c)
  BY DEF In, Has
<1>2. ASSUME NEW t \in {"Data", "WindowAdjust"} PROVE Bytes(q, t, c) = 0
  <2>1. Bytes(q, t, c) = Sum(q, ByteWeight(t, c)) /\ ByteWeight(t, c) \in [Fitting -> Nat]
    BY AsSums, Weights
  <2>2. ASSUME NEW m \in In(q) PROVE ByteWeight(t, c)[m] = 0
    <3>1. ~(m.type = t /\ m.to = c) BY <1>1 DEF AllTo, To, AnswerTypes
    <3> QED BY <1>1, <3>1 DEF ByteWeight
  <2> QED BY <2>1, <2>2, SumNone
<1>3. Replies(q, c) = 0
  <2>1. Replies(q, c) = Sum(q, ReplyWeight(c)) /\ ReplyWeight(c) \in [Fitting -> Nat]
    BY AsSums, Weights
  <2>2. ASSUME NEW m \in In(q) PROVE ReplyWeight(c)[m] = 0
    <3>1. ~(m.type \in {"Success", "Failure"} /\ m.to = c) BY <1>1 DEF AllTo, To, AnswerTypes
    <3> QED BY <1>1, <3>1 DEF ReplyWeight
  <2> QED BY <2>1, <2>2, SumNone
<1> QED BY <1>2, <1>3

\* Nothing on its way counts for nothing.
LEMMA NothingFor ==
  ASSUME NEW q \in Seq(Sendable), NEW id, ~Has(q, For(id))
  PROVE  Coming(q, "ChannelData", id) = 0 /\ Coming(q, "ChannelWindowAdjust", id) = 0 /\ Requests(q, id) = 0
<1>1. ASSUME NEW m \in In(q) PROVE m \in Sendable /\ m \notin For(id)
  BY DEF In, Has
<1>2. ASSUME NEW t \in {"ChannelData", "ChannelWindowAdjust"} PROVE Coming(q, t, id) = 0
  <2>1. Coming(q, t, id) = Sum(q, ComingWeight(t, id)) /\ ComingWeight(t, id) \in [Sendable -> Nat]
    BY AsSums, Weights
  <2>2. ASSUME NEW m \in In(q) PROVE ComingWeight(t, id)[m] = 0
    <3>1. ~(m.type = t /\ m.to = id) BY <1>1 DEF For, HandledTypes, ChannelTypes
    <3> QED BY <1>1, <3>1 DEF ComingWeight
  <2> QED BY <2>1, <2>2, SumNone
<1> QED BY <1>2, NoRequests

\* The process that the client of a channel left alone knows of.
LEMMA KeptRan ==
  ASSUME IInv, NEW e \in RemoteIds, Linked(e), RanKept \/ UNCHANGED ran,
         \A j \in DOMAIN channels' : channels'[j].remote_id = e /\ channels'[j].terminal.state = "Running" =>
           Known(j) /\ channels'[j].terminal = channels[j].terminal /\ channels[j].remote_id = e
  PROVE  ran'[e] = ran[e]
<1>1. CASE UNCHANGED ran BY <1>1
<1>2. CASE RanKept
  <2>1. ASSUME NEW j \in DOMAIN channels', channels'[j].remote_id = e, channels'[j].terminal.state = "Running"
        PROVE  channels'[j].terminal.shell = ran[e]
    <3>1. Known(j) /\ channels'[j].terminal = channels[j].terminal /\ channels[j].remote_id = e
      BY <2>1
    <3>2. j \in Ids /\ Own(j, e) BY <3>1 DEF IInv, TypeOK, Known, Own
    <3>3. St(j) = "Running" BY <2>1, <3>1 DEF St
    <3>4. ran[e] = channels[j].terminal.shell BY <3>2, <3>3 DEF Linked, LinkedAt
    <3> QED BY <3>1, <3>4
  <2> QED BY <1>2, <2>1, RanStays DEF RanKept
<1> QED BY <1>1, <1>2

\* What is known before the client's open is handled.
LEMMA Opening ==
  ASSUME Before, NEW m, Handles(m), m.type = "ChannelOpen", NEW c, c = m.sender
  PROVE  /\ m \in Opens(c) /\ c \in RemoteIds /\ m.kind = "session" /\ Live(c) /\ Heard(c)
         /\ client[c].phase = "opening" /\ Blank(c) /\ m.window = client[c].window /\ ~Has(read', Opens(c))
<1>0. IInv /\ Typed BY DEF Before
<1>1. Takes /\ m = Head(read) BY DEF Handles
<1>2. m \in Sendable /\ m \in In(read) BY <1>0, <1>1, TakesFacts
<1>3. m \in Opens(c) BY <1>2 DEF Opens
<1>4. m \in ChannelOpen BY <1>2, SendableKinds
<1>5. c \in RemoteIds /\ m.kind = "session" BY <1>2, <1>4 DEF ChannelOpen, Sendable
<1>6. Has(read, Opens(c)) BY <1>2, <1>3 DEF Has
<1>7. Live(c) /\ Heard(c) BY <1>5 DEF Before
<1>8. client[c].phase = "opening" /\ Blank(c) /\ m.window = client[c].window /\ NoneAfter(read, Opens(c), Opens(c))
  BY <1>2, <1>3, <1>6, <1>7 DEF Live, Life
<1> QED BY <1>0, <1>1, <1>3, <1>5, <1>7, <1>8, TakesFacts
\* open: the client hears of it, first of all, and of nothing else.
LEMMA OpenedAfter ==
  ASSUME Before, NEW m, Handles(m), m.type = "ChannelOpen", NEW c, c = m.sender, NEW t \in OpenedTypes, NEW a,
         Msg(t, c, a) \in Fitting, write' = write \o <<Msg(t, c, a)>>, UNCHANGED pending, pending = NoWrite,
         \/ t = "OpenFailure" /\ channels' = channels
         \/ t = "OpenConfirmation" /\ a \in Ids /\ ~Known(a) /\ channels' = Insert(a, NewChannel(m))
  PROVE  After
<1>0. IInv /\ IInv' /\ ShellsMove /\ Typed /\ Placed BY DEF Before
<1>1. /\ m \in Opens(c) /\ c \in RemoteIds /\ m.kind = "session" /\ Live(c) /\ Heard(c)
      /\ client[c].phase = "opening" /\ Blank(c) /\ m.window = client[c].window /\ ~Has(read', Opens(c))
  BY Opening
<1>2. Takes /\ m = Head(read) /\ RanKept /\ UNCHANGED client BY DEF Handles
<1>3. /\ read' \in Seq(Sendable) /\ read \in Seq(Sendable) /\ (\A y \in In(read') : y \in In(read))
      /\ (\A S : Has(read', S) => Has(read, S)) /\ \A S, T : NoneAfter(read, S, T) => NoneAfter(read', S, T)
  <2>1. read \in Seq(Sendable) BY <1>0 DEF Typed
  <2> QED BY <1>0, <1>2, <2>1, TakesFacts, ReadShrinks
<1>4. t \in AnswerTypes BY DEF OpenedTypes, AnswerTypes
<1>5. Speaks(c, <<Msg(t, c, a)>>) BY <1>4, OneSaid DEF Speaks
<1>6. Adds1(c, t) /\ In(write') = In(write) \cup {Msg(t, c, a)} BY <1>0, <1>4, <1>5, SaysOne
<1>7. ~Has(write, AllTo(c)) /\ (\A j \in Ids : ~Own(j, c)) BY <1>1 DEF Blank
<1>8. \A T \in SUBSET AnswerTypes : ~Has(write, To(c, T)) BY <1>7 DEF Has, AllTo, To
<1>9. \A T \in SUBSET AnswerTypes : Has(write', To(c, T)) <=> t \in T BY <1>6, <1>8 DEF Adds1
<1>10. DOMAIN channels \subseteq Ids BY <1>0 DEF IInv, TypeOK
<1>11. /\ DOMAIN channels \subseteq DOMAIN channels'
       /\ \A j \in DOMAIN channels : channels'[j] = channels[j]
       /\ \A j \in DOMAIN channels' : j \notin DOMAIN channels =>
            t = "OpenConfirmation" /\ j = a /\ channels'[j] = NewChannel(m)
       /\ t = "OpenConfirmation" => a \in DOMAIN channels' /\ a \notin DOMAIN channels /\ a \in Ids
                                    /\ channels'[a] = NewChannel(m)
  BY DEF Insert, Known, OpenedTypes
<1>12. NewChannel(m).remote_id = c /\ NewChannel(m).terminal.state = "None" /\ ~NewChannel(m).close_sent
       /\ NewChannel(m).send_window = m.window /\ NewChannel(m).receive_window = 0
  BY DEF NewChannel, TState
<1>13. \A j : Own(j, c)' => t = "OpenConfirmation" /\ j = a /\ channels'[j] = NewChannel(m)
  BY <1>7, <1>10, <1>11 DEF Own, Known
<1>14. \A y \in In(read) : y.type \in HandledTypes => Known(y.to) BY <1>0 DEF Placed
<1>15. t = "OpenConfirmation" => ~Has(read', For(a))
  <2>1. ASSUME t = "OpenConfirmation", NEW y \in In(read'), y \in For(a) PROVE FALSE
    <3>1. y.type \in HandledTypes /\ y.to = a BY <2>1 DEF For
    <3> QED BY <1>3, <1>11, <1>14, <2>1, <3>1 DEF Known
  <2> QED BY <2>1 DEF Has
<1>16. Placed'
  <2>1. \A y \in In(read') : y.type \in HandledTypes => y.to \in DOMAIN channels'
    BY <1>3, <1>11, <1>14 DEF Known
  <2>2. ASSUME NEW i \in DOMAIN channels', NEW j \in DOMAIN channels', channels'[i].remote_id = channels'[j].remote_id
        PROVE  i = j
    <3>1. \A k \in DOMAIN channels : channels[k].remote_id /= c BY <1>7, <1>10 DEF Own, Known
    <3>2. CASE i \in DOMAIN channels /\ j \in DOMAIN channels BY <1>0, <1>11, <2>2, <3>2 DEF Placed
    <3>3. CASE i \notin DOMAIN channels /\ j \notin DOMAIN channels BY <1>11, <3>3
    <3>4. CASE i \in DOMAIN channels /\ j \notin DOMAIN channels BY <1>11, <1>12, <2>2, <3>1, <3>4
    <3>5. CASE i \notin DOMAIN channels /\ j \in DOMAIN channels BY <1>11, <1>12, <2>2, <3>1, <3>5
    <3> QED BY <3>2, <3>3, <3>4, <3>5
  <2> QED BY <2>1, <2>2 DEF Placed, Known
<1>17. ASSUME NEW e \in RemoteIds, e /= c PROVE Live(e)' /\ Heard(e)'
  <2>0. Live(e) /\ Heard(e) BY DEF Before
  <2>1. \A id \in Ids : Own(id, e)' <=> Own(id, e) BY <1>11, <1>12, <1>17 DEF Own, Known
  <2>2. \A id \in Ids : Own(id, e) => channels'[id] = channels[id] BY <1>11 DEF Own, Known
  <2>3. \A id : SameFor(id)
    <3>1. \A id : m \notin For(id) BY DEF For, HandledTypes
    <3> QED BY <1>0, <1>2, <3>1, TakesSame
  <2>4. SameIn(read, read', Opens(e))
    <3>1. m \notin Opens(e) BY <1>17 DEF Opens
    <3> QED BY <1>0, <1>2, <3>1, TakesSame
  <2>5. SameTo(e) BY <1>0, <1>5, <1>17, SpeaksSame
  <2>6. ran'[e] = ran[e]
    <3>1. \A j \in DOMAIN channels' : channels'[j].remote_id = e /\ channels'[j].terminal.state = "Running" =>
           Known(j) /\ channels'[j].terminal = channels[j].terminal /\ channels[j].remote_id = e
      BY <1>11, <1>12, <1>17 DEF Known
    <3> QED BY <1>0, <1>2, <2>0, <3>1, KeptRan DEF Live
  <2>7. client'[e] = client[e] /\ pending'.out = pending.out BY <1>2
  <2>8. Untouched(e) BY <2>1, <2>2, <2>3, <2>4, <2>5, <2>6, <2>7 DEF Untouched
  <2> QED BY <1>0, <2>0, <2>8, UntouchedStays
<1>18. client'[c] = client[c] BY <1>2
<1>19. Life(c)'
  <2>1. NoneAfter(write', To(c, OpenedTypes), To(c, OpenedTypes))
    <3>1. NoneAfter(write, To(c, OpenedTypes), To(c, OpenedTypes)) BY <1>1 DEF Live, Life
    <3>2. ~Has(write, To(c, OpenedTypes)) BY <1>8 DEF OpenedTypes, AnswerTypes
    <3> QED BY <1>6, <3>1, <3>2 DEF Adds1
  <2>2. \A y \in In(write') : y \in To(c, {"OpenConfirmation"}) => Own(y.arg, c)'
    <3>1. ASSUME NEW y \in In(write'), y \in To(c, {"OpenConfirmation"}) PROVE Own(y.arg, c)'
      <4>1. ~Has(write, To(c, {"OpenConfirmation"})) BY <1>8 DEF AnswerTypes
      <4>2. y = Msg(t, c, a) BY <1>6, <3>1, <4>1 DEF Has
      <4>3. y.arg = a /\ t = "OpenConfirmation" BY <3>1, <4>2 DEF Msg, To
      <4> QED BY <1>11, <1>12, <4>3 DEF Own, Known
    <3> QED BY <3>1
  <2>3. Has(write', To(c, {"OpenFailure"})) => \A id \in Ids : ~Own(id, c)'
    <3>1. {"OpenFailure"} \in SUBSET AnswerTypes BY DEF AnswerTypes
    <3> QED BY <1>9, <1>13, <3>1
  <2>4. ~Has(read', Opens(c)) /\ NoneAfter(read', Opens(c), Opens(c))
    <3>1. NoneAfter(read, Opens(c), Opens(c)) BY <1>1 DEF Live, Life
    <3> QED BY <1>1, <1>3, <3>1
  <2>5. \A y \in In(read') : y \notin Opens(c) BY <2>4 DEF Has
  <2>6. client'[c].phase = "opening" /\ ~client'[c].pty /\ ~client'[c].closed /\ (client'[c].shell => client'[c].pty)
    BY <1>1, <1>18 DEF Live, Life
  <2> QED BY <2>1, <2>2, <2>3, <2>4, <2>5, <2>6 DEF Life
<1>20. Coherent(c)'
  <2>1. ASSUME NEW id \in Ids, Own(id, c)'
        PROVE  ~Has(read', For(id)) /\ ~Has(read', Closes(id)) /\ ~Has(read', Ptys(id)) /\ ~Has(read', ShellAsks(id))
               /\ St(id)' = "None"
    <3>1. ~Has(read', For(id)) /\ St(id)' = "None" BY <1>12, <1>13, <1>15, <2>1 DEF St
    <3> QED BY <3>1 DEF Has, Closes, Ptys, ShellAsks
  <2>2. ASSUME NEW id \in Ids, Own(id, c)' PROVE NoneAfter(read', Closes(id), For(id))
    BY <2>1, <2>2 DEF NoneAfter, Has, In
  <2> QED BY <2>1, <2>2 DEF Coherent
<1>21. Asking(c)'
  <2>1. ASSUME NEW id \in Ids, Own(id, c)'
        PROVE  ~Has(read', Ptys(id)) /\ ~Has(read', ShellAsks(id)) /\ ~Has(read', Datas(id)) /\ St(id)' = "None"
    <3>1. ~Has(read', For(id)) /\ St(id)' = "None" BY <1>12, <1>13, <1>15, <2>1 DEF St
    <3> QED BY <3>1 DEF Has, Ptys, ShellAsks, Datas
  <2>2. ASSUME NEW id \in Ids, Own(id, c)'
        PROVE  /\ NoneAfter(read', Ptys(id), Ptys(id)) /\ NoneAfter(read', ShellAsks(id), ShellAsks(id))
               /\ NoneAfter(read', ShellAsks(id), Ptys(id)) /\ NoneAfter(read', Datas(id), ShellAsks(id))
    BY <2>1, <2>2 DEF NoneAfter, Has, In
  <2>3. ~client'[c].pty /\ ~client'[c].shell BY <1>1, <1>18 DEF Live, Life
  <2> QED BY <2>1, <2>2, <2>3 DEF Asking
<1>22. ~client'[c].gclosed /\ ~client'[c].geof /\ client'[c].credit = 0 /\ client'[c].asked = 0
       /\ client'[c].window = m.window
  BY <1>1, <1>18 DEF Blank
<1>23. /\ ~Has(write', To(c, {"Close"})) /\ ~Has(write', To(c, {"Eof"})) /\ ~Has(write', To(c, {"ExitStatus"}))
       /\ ~Has(write', To(c, {"Data", "Eof"})) /\ ~Has(write', To(c, LastTypes))
  BY <1>9 DEF AnswerTypes, LastTypes, OpenedTypes
<1>24. Linked(c)'
  <2>1. \A id \in Ids : Own(id, c)' => St(id)' = "None" /\ ~channels'[id].close_sent
    BY <1>12, <1>13 DEF St
  <2> QED BY <1>22, <1>23, <2>1 DEF Linked, LinkedAt
<1>25. Bytes(write', "Data", c) = 0 /\ Bytes(write', "WindowAdjust", c) = 0 /\ Replies(write', c) = 0
  <2>1. write \in Seq(Fitting) BY <1>0 DEF Typed
  <2>2. Bytes(write, "Data", c) = 0 /\ Bytes(write, "WindowAdjust", c) = 0 /\ Replies(write, c) = 0
    BY <1>7, <2>1, NothingTo
  <2>3. /\ Bytes(<<Msg(t, c, a)>>, "Data", c) = 0 /\ Bytes(<<Msg(t, c, a)>>, "WindowAdjust", c) = 0
        /\ Replies(<<Msg(t, c, a)>>, c) = 0
    BY <1>4, OneCounts DEF OpenedTypes
  <2> QED BY <1>0, <1>5, <2>2, <2>3, SpokenSums
<1>26. Counted(c)'
  <2>1. ASSUME NEW id \in Ids, Own(id, c)'
        PROVE  /\ channels'[id].receive_window = 0 /\ channels'[id].send_window = m.window
               /\ Coming(read', "ChannelData", id) = 0 /\ Coming(read', "ChannelWindowAdjust", id) = 0
               /\ Requests(read', id) = 0
    <3>1. ~Has(read', For(id)) /\ channels'[id] = NewChannel(m) BY <1>13, <1>15, <2>1
    <3> QED BY <1>3, <1>12, <3>1, NothingFor
  <2>2. Bytes(pending'.out, "WindowAdjust", c) = 0 BY BytesFacts DEF NoWrite
  <2>3. m.window \in Nat
    <3>1. client[c].window \in 0..ClientWindow BY <1>0, <1>1 DEF Typed, ClientChannel
    <3>2. ClientWindow \in Nat BY ConnectionAssumption
    <3> QED BY <1>1, <3>1, <3>2
  <2>4. ASSUME NEW id \in Ids, Own(id, c)' PROVE CountedAt(id, c)'
    BY <1>22, <1>25, <2>1, <2>2, <2>3, <2>4, ChannelsAssumption DEF CountedAt, Granted
  <2> QED BY <1>22, <1>25, <2>4 DEF Counted
<1>27. Heard(c)'
  <2>1. Ordered(c)'
    <3>1. ~\E y \in In(write') : y \in To(c, {"Close"}) \/ y \in To(c, {"Eof"}) BY <1>23 DEF Has
    <3>2. NoneAfter(write', To(c, {"Close"}), To(c, LastTypes)) /\ NoneAfter(write', To(c, {"Eof"}), To(c, {"Data", "Eof"}))
      BY <3>1 DEF NoneAfter, In
    <3> QED BY <1>22, <1>23, <3>2 DEF Ordered
  <2>2. Affords(c)'
    <3>1. client[c].window \in 0..ClientWindow BY <1>0, <1>1 DEF Typed, ClientChannel
    <3>2. ClientWindow \in Nat BY ConnectionAssumption
    <3> QED BY <1>18, <1>22, <1>25, <3>1, <3>2 DEF Affords
  <2> QED BY <2>1, <2>2 DEF Heard
<1>28. Live(c)' BY <1>19, <1>20, <1>21, <1>24, <1>26 DEF Live
<1> QED BY <1>16, <1>17, <1>27, <1>28 DEF After

\* Channels::open.
LEMMA OpenAfter ==
  ASSUME Before, NEW m, Handles(m), m.type = "ChannelOpen", open(m)
  PROVE  Proceeds
<1>0. IInv /\ Typed BY DEF Before
<1>1. PICK c : c = m.sender OBVIOUS
<1>2. c \in RemoteIds /\ m.kind = "session" BY <1>1, Opening
<1>3. UNCHANGED <<pending, session>> /\ pending = NoWrite BY DEF open, Idle
<1>4. pending.out \in Seq(Fitting) /\ write \in Seq(Fitting) BY <1>0 DEF Typed
<1>5. next_id \in Ids /\ Ids \subseteq Nat BY <1>0, ChannelsAssumption DEF IInv, TypeOK, Ids
<1>6. ASSUME NEW t \in OpenedTypes, NEW a, Msg(t, c, a) \in Fitting, write' = Append(write, Msg(t, c, a)),
             \/ t = "OpenFailure" /\ channels' = channels
             \/ t = "OpenConfirmation" /\ a \in Ids /\ ~Known(a) /\ channels' = Insert(a, NewChannel(m))
      PROVE  Proceeds
  <2>1. write' = write \o <<Msg(t, c, a)>> BY <1>4, <1>6, ConcatOne
  <2>2. After BY <1>1, <1>3, <1>6, <2>1, OpenedAfter
  <2>3. t \in AnswerTypes BY DEF OpenedTypes, AnswerTypes
  <2>4. Speaks(c, <<Msg(t, c, a)>>) BY <1>6, <2>1, <2>3, OneSaid DEF Speaks
  <2> QED BY <1>3, <1>4, <2>2, <2>4, SpeaksSaid DEF Proceeds
<1>7. CASE Occupied(next_id)
  <2>1. channels' = channels /\ write' = Append(write, Msg("OpenFailure", c, 0))
    BY <1>1, <1>2, <1>7 DEF open, OpenFailure
  <2>2. Msg("OpenFailure", c, 0) \in Fitting BY <1>2, MsgFits DEF AnswerTypes
  <2> QED BY <1>6, <2>1, <2>2 DEF OpenedTypes
<1>8. CASE ~Occupied(next_id)
  <2>1. PICK a : a = next_id OBVIOUS
  <2>2. channels' = Insert(a, NewChannel(m)) /\ write' = Append(write, Msg("OpenConfirmation", c, a)) /\ a \in Ids /\ ~Known(a)
    BY <1>1, <1>2, <1>5, <1>8, <2>1 DEF open, Occupied
  <2>3. Msg("OpenConfirmation", c, a) \in Fitting BY <1>2, <1>5, <2>2, MsgFits DEF AnswerTypes
  <2> QED BY <1>6, <2>2, <2>3 DEF OpenedTypes
<1> QED BY <1>7, <1>8

\* The session ends, and the client has heard what it has heard.  It is ended
\* as a breach of the protocol only for an early client.
Fails ==
  /\ \/ session' \in {"closed", "io_error"}
     \/ session' = "proto_error" /\ \E c \in RemoteIds : client[c].early
  /\ UNCHANGED <<write, pending, client>>
  /\ \A e \in RemoteIds : ran'[e] = ran[e]

\* No channel starts a shell.
LEMMA NoneStarts ==
  ASSUME Before, RanKept \/ UNCHANGED ran,
         \A j \in DOMAIN channels' : channels'[j].terminal.state = "Running" =>
           Known(j) /\ channels'[j].terminal = channels[j].terminal /\ channels'[j].remote_id = channels[j].remote_id
  PROVE  \A e \in RemoteIds : ran'[e] = ran[e]
<1> TAKE e \in RemoteIds
<1>1. IInv /\ Linked(e) BY DEF Before, Live
<1> QED BY <1>1, KeptRan

\* data, more than the window: only an early client counts on more.
LEMMA DataFails ==
  ASSUME Before, NEW m, Handles(m), m.type = "ChannelData", data(m), m.n > channels[m.to].receive_window
  PROVE  Fails
<1>0. IInv /\ Typed BY DEF Before
<1>1. PICK id : id = m.to OBVIOUS
<1>2. PICK c : c = channels[id].remote_id OBVIOUS
<1>3. Live(c) /\ id \in Ids /\ Own(id, c) /\ c \in RemoteIds /\ m \in Sendable /\ channels[id] \in Channel
  BY <1>1, <1>2, HandlesKnown DEF HandledTypes, ChannelTypes
<1>4. Takes /\ m = Head(read) /\ RanKept /\ UNCHANGED client BY DEF Handles
<1>5. PICK k : k = m.n OBVIOUS
<1>6. k \in Nat /\ channels[id].receive_window \in Nat
  <2>1. m \in ChannelData BY <1>3, SendableKinds
  <2>2. m.n \in Sizes BY <2>1 DEF ChannelData
  <2> QED BY <1>3, <1>5, <2>2, SizesNat, ChannelNumbers
<1>7. Fail("proto_error") /\ UNCHANGED channels
  BY <1>1, <1>5, <1>6, NeverUnknown DEF data, HandledTypes, ChannelTypes
<1>8. client[c].early
  <2>1. Coming(read, "ChannelData", id) = k + Coming(read', "ChannelData", id)
    <3>1. Carries(m, "ChannelData", id) = k BY <1>1, <1>5 DEF Carries
    <3> QED BY <1>0, <1>4, <3>1, TakenSums
  <2>2. /\ Coming(read', "ChannelData", id) \in Nat /\ Bytes(write, "WindowAdjust", c) \in Nat
        /\ Bytes(pending.out, "WindowAdjust", c) \in Nat
    BY <1>0, <1>4, TakesFacts, ComingFacts, BytesFacts DEF Typed
  <2>3. client[c].credit \in Nat BY <1>0, <1>3 DEF Typed, ClientChannel
  <2>4. CountedAt(id, c) BY <1>3 DEF Live, Counted
  <2>5. ASSUME ~client[c].early PROVE FALSE
    <3>1. client[c].credit + Bytes(write, "WindowAdjust", c) + Bytes(pending.out, "WindowAdjust", c)
            + Coming(read, "ChannelData", id) = channels[id].receive_window
      BY <2>4, <2>5 DEF CountedAt, Granted
    <3> QED BY <1>1, <1>5, <1>6, <2>1, <2>2, <2>3, <3>1
  <2> QED BY <2>5
<1>9. \A e \in RemoteIds : ran'[e] = ran[e] BY <1>4, <1>7, NoneStarts DEF Known
<1> QED BY <1>3, <1>4, <1>7, <1>8, <1>9 DEF Fail, Fails

\* A shell is asked for once a terminal is.
LEMMA ShellWanted ==
  ASSUME Before, NEW m, Handles(m), m.type = "ChannelRequest", m.request = "shell"
  PROVE  channels[m.to].terminal.state = "Requested"
<1>0. IInv /\ Typed BY DEF Before
<1>1. PICK id : id = m.to OBVIOUS
<1>2. PICK c : c = channels[id].remote_id OBVIOUS
<1>3. Live(c) /\ id \in Ids /\ Own(id, c) /\ m \in For(id)
  BY <1>1, <1>2, HandlesKnown DEF HandledTypes, ChannelTypes
<1>4. Takes /\ m = Head(read) BY DEF Handles
<1>5. m \in ShellAsks(id) /\ m \notin Ptys(id) BY <1>3 DEF ShellAsks, Ptys
<1>6. Has(read, ShellAsks(id)) BY <1>0, <1>4, <1>5, TakesFacts DEF Has
<1>7. St(id) \in {"None", "Requested"} /\ client[c].shell /\ NoneAfter(read, ShellAsks(id), Ptys(id))
  BY <1>3, <1>6 DEF Live, Asking
<1>8. ~Has(read, Ptys(id)) BY <1>0, <1>4, <1>5, <1>7, TakesFacts
<1>9. client[c].pty BY <1>3, <1>7 DEF Live, Life
<1>10. St(id) /= "None" BY <1>3, <1>8, <1>9 DEF Live, Asking
<1> QED BY <1>1, <1>7, <1>10 DEF St

\* Channels::request: every type of request, and the errors of its system
\* calls.
LEMMA RequestAfter ==
  ASSUME Before, NEW m, Handles(m), m.type = "ChannelRequest", NEW b \in Nat, request(m, b)
  PROVE  Proceeds \/ Fails
<1>0. Typed BY DEF Before
<1>1. Known(m.to) BY HandlesKnown DEF HandledTypes, ChannelTypes
<1>2. Idle /\ Known(m.to) BY <1>1 DEF request, UnknownChannel
<1>3. session = "running" /\ pending.out \in Seq(Fitting) /\ UNCHANGED client /\ RanKept
  BY <1>0, <1>2 DEF Idle, Typed, Handles
<1>4. CASE PtyReq(m, b) BY <1>3, <1>4, PtyReqAfter DEF PtyReq, Proceeds
<1>5. CASE Env(m) BY <1>3, <1>5, EnvAfter DEF Env, Proceeds
<1>6. CASE Refused(m) BY <1>3, <1>6, EnvAfter DEF Refused, Proceeds
<1>7. CASE StartShell(m) BY <1>3, <1>7, StartShellAfter DEF StartShell, Proceeds
<1>8. CASE WindowChange(m)
  <2>1. CASE session' = "running" /\ UNCHANGED pending BY <1>3, <1>8, <2>1, EnvAfter DEF Proceeds
  <2>2. CASE Fail("io_error") /\ UNCHANGED channels
    <3>1. \A e \in RemoteIds : ran'[e] = ran[e] BY <1>3, <2>2, NoneStarts DEF Known
    <3> QED BY <1>3, <2>2, <3>1 DEF Fail, Fails
  <2> QED BY <1>3, <1>8, <2>1, <2>2 DEF WindowChange
<1>9. CASE ShellError(m)
  <2>1. Fail("io_error") /\ channels' = Update(m.to, WithTerminal(channels[m.to], TState("None")))
    BY <1>9, ShellWanted DEF ShellError
  <2>2. /\ DOMAIN channels' = DOMAIN channels /\ channels'[m.to] = WithTerminal(channels[m.to], TState("None"))
        /\ \A j \in DOMAIN channels : j /= m.to => channels'[j] = channels[j]
    BY <1>1, <2>1 DEF Update, Known
  <2>3. channels'[m.to].terminal.state = "None"
    <3>1. channels[m.to] \in Channel BY HandlesKnown DEF HandledTypes, ChannelTypes
    <3>2. WithTerminal(channels[m.to], TState("None")).terminal = TState("None")
      BY <3>1, ChannelOpsFields
    <3> QED BY <2>2, <3>2 DEF TState
  <2>4. \A e \in RemoteIds : ran'[e] = ran[e] BY <1>3, <2>2, <2>3, NoneStarts DEF Known
  <2> QED BY <1>3, <2>1, <2>4 DEF Fail, Fails
<1> QED BY <1>2, <1>4, <1>5, <1>6, <1>7, <1>8, <1>9 DEF request, UnknownChannel

\* The handlers, all of them.
LEMMA MessageAfter ==
  ASSUME Before, NEW m, Handles(m), m.type \in ChannelTypes, ChannelMessage(m)
  PROVE  Proceeds \/ Fails
<1>1. CASE m.type = "ChannelOpen" /\ open(m) BY <1>1, OpenAfter
<1>2. CASE m.type = "ChannelRequest" /\ request(m, banner(m))
  <2>1. banner(m) \in Nat BY ChannelsAssumption DEF banner
  <2> QED BY <1>2, <2>1, RequestAfter
<1>3. CASE m.type = "ChannelWindowAdjust" /\ adjust_window(m) BY <1>3, AdjustAfter
<1>4. CASE m.type = "ChannelData" /\ data(m)
  <2>1. m.n \in Nat /\ channels[m.to].receive_window \in Nat
    <3>1. m \in Sendable /\ channels[m.to] \in Channel BY <1>4, HandlesKnown DEF HandledTypes, ChannelTypes
    <3>2. m \in ChannelData BY <1>4, <3>1, SendableKinds
    <3>3. m.n \in Sizes BY <3>2 DEF ChannelData
    <3> QED BY <3>1, <3>3, SizesNat, ChannelNumbers
  <2>2. m.n <= channels[m.to].receive_window \/ m.n > channels[m.to].receive_window BY <2>1
  <2> QED BY <1>4, <2>2, DataAfter, DataFails
<1>5. CASE m.type = "ChannelEof" /\ eof(m) BY <1>5, EofAfter
<1>6. CASE m.type = "ChannelClose" /\ close(m) BY <1>6, CloseAfter
<1> QED BY <1>1, <1>2, <1>3, <1>4, <1>5, <1>6 DEF ChannelMessage

-----------------------------------------------------------------------------
(* The messages outside the channels. *)

\* A message of the loop is for no channel.
LEMMA LoopFits ==
  ASSUME NEW t \in KxTypes \cup {"RequestFailure"}
  PROVE  Msg(t, 0, 0) \in Fitting /\ t \notin AnswerTypes
BY DEF Msg, Fitting, ServerMessage, LoopMessage, KxTypes, AnswerTypes

\* A message of the loop is said, and no channel is spoken to.
LEMMA LoopSame ==
  ASSUME Typed, NEW t \in KxTypes \cup {"RequestFailure"}, write' = write \o <<Msg(t, 0, 0)>>, NEW c
  PROVE  SameTo(c)
<1>1. PICK m : m = Msg(t, 0, 0) OBVIOUS
<1>2. m \in Fitting /\ t \notin AnswerTypes /\ m.type = t BY <1>1, LoopFits DEF Msg
<1>3. write \in Seq(Fitting) /\ <<m>> \in Seq(Fitting) /\ In(<<m>>) = {m} /\ write' = write \o <<m>>
  BY <1>1, <1>2, InOne DEF Typed
<1>4. m \notin AllTo(c) BY <1>2 DEF AllTo, To
<1>5. SameIn(write, write', AllTo(c))
  <2>1. \A q, x \in Seq(Fitting) : (\A y \in In(x) : y \notin AllTo(c)) => SameIn(q, q \o x, AllTo(c))
    BY SameConcat
  <2>2. \A y \in In(<<m>>) : y \notin AllTo(c) BY <1>3, <1>4
  <2>3. SameIn(write, write \o <<m>>, AllTo(c)) BY <1>3, <2>1, <2>2, Zenon
  <2> QED BY <1>3, <2>3, Zenon
<1>6. ~Has(<<m>>, AllTo(c)) BY <1>3, <1>4 DEF Has
<1>7. Bytes(<<m>>, "Data", c) = 0 /\ Bytes(<<m>>, "WindowAdjust", c) = 0 /\ Replies(<<m>>, c) = 0
  BY <1>3, <1>6, NothingTo
<1>8. ASSUME NEW s \in {"Data", "WindowAdjust"} PROVE Bytes(write', s, c) = Bytes(write, s, c)
  <2>1. \A q, x \in Seq(Fitting) : Bytes(q \o x, s, c) = Bytes(q, s, c) + Bytes(x, s, c)
    BY BytesFacts
  <2>2. Bytes(write', s, c) = Bytes(write, s, c) + Bytes(<<m>>, s, c) BY <1>3, <2>1, Zenon
  <2>3. Bytes(write, s, c) \in Nat BY <1>3, BytesFacts
  <2> QED BY <1>7, <2>2, <2>3
<1>9. Replies(write', c) = Replies(write, c)
  <2>1. \A q, x \in Seq(Fitting) : Replies(q \o x, c) = Replies(q, c) + Replies(x, c)
    BY RepliesFacts
  <2>2. Replies(write', c) = Replies(write, c) + Replies(<<m>>, c) BY <1>3, <2>1, Zenon
  <2>3. Replies(write, c) \in Nat BY <1>3, RepliesFacts
  <2> QED BY <1>7, <2>2, <2>3
<1> QED BY <1>5, <1>8, <1>9 DEF SameTo

\* Nothing happens to any channel.
LEMMA QuietAfter ==
  ASSUME Before, UNCHANGED <<channels, client>>, pending'.out = pending.out, RanKept \/ UNCHANGED ran,
         UNCHANGED read \/ (Takes /\ Head(read).type \notin ChannelTypes), \A c \in RemoteIds : SameTo(c)
  PROVE  After
<1>0. IInv /\ ShellsMove /\ Typed /\ Placed BY DEF Before
<1>1. \A e \in RemoteIds : ran'[e] = ran[e] BY NoneStarts DEF Known
<1>2. (\A id : SameFor(id)) /\ \A c : SameIn(read, read', Opens(c))
  <2>1. CASE UNCHANGED read BY <2>1, LeavesSame
  <2>2. CASE Takes /\ Head(read).type \notin ChannelTypes
    <3>1. (\A id : Head(read) \notin For(id)) /\ \A c : Head(read) \notin Opens(c)
      BY <2>2 DEF For, HandledTypes, Opens, ChannelTypes
    <3> QED BY <1>0, <2>2, <3>1, TakesSame
  <2> QED BY <2>1, <2>2
<1>3. Placed'
  <2>1. \A y \in In(read') : y \in In(read) BY <1>0, ReadShrinks
  <2> QED BY <1>0, <2>1 DEF Placed, Known
<1>4. ASSUME NEW c \in RemoteIds PROVE Live(c)' /\ Heard(c)'
  <2>1. Live(c) /\ Heard(c) BY DEF Before
  <2>2. Untouched(c) BY <1>1, <1>2 DEF Untouched, Own, Known
  <2> QED BY <1>0, <2>1, <2>2, UntouchedStays
<1> QED BY <1>3, <1>4 DEF After

-----------------------------------------------------------------------------
(* Key exchanges. *)

\* What is said to the channels is not of the exchange.
LEMMA SaidSame ==
  ASSUME Typed, Said
  PROVE  SameIn(write, write', Loop(KxTypes)) /\ write' \in Seq(Fitting)
<1>1. PICK x \in Seq(Fitting) : write' = write \o x /\ \A y \in In(x) : y.type \in AnswerTypes
  BY DEF Said
<1>2. \A y \in In(x) : y \notin Loop(KxTypes) BY <1>1 DEF Loop, KxTypes, AnswerTypes
<1>3. write \in Seq(Fitting) BY DEF Typed
<1>4. \A q, z \in Seq(Fitting) : q \o z \in Seq(Fitting) OBVIOUS
<1>5. \A q, z \in Seq(Fitting) : (\A y \in In(z) : y \notin Loop(KxTypes)) => SameIn(q, q \o z, Loop(KxTypes))
  BY SameConcat
<1>6. SameIn(write, write \o x, Loop(KxTypes)) BY <1>2, <1>3, <1>5
<1>7. write \o x \in Seq(Fitting) BY <1>3, <1>4
<1> QED BY <1>1, <1>6, <1>7, Zenon

\* The queue to the client says the same of the exchange.
LEMMA SameSays ==
  ASSUME SameIn(write, write', Loop(KxTypes))
  PROVE  (Silent => Silent') /\ \A t \in KxTypes : Says(t) => Says(t)'
<1>1. Loop(KxTypes) \in SUBSET Loop(KxTypes)
      /\ \A t \in KxTypes : Loop({t}) \in SUBSET Loop(KxTypes) /\ Loop(KxTypes \ {t}) \in SUBSET Loop(KxTypes)
  BY DEF Loop
<1>2. \A S \in SUBSET Loop(KxTypes) : Has(write', S) <=> Has(write, S) BY SameHas
<1>3. \A S, T \in SUBSET Loop(KxTypes) : NoneAfter(write, S, T) => NoneAfter(write', S, T)
  BY DEF SameIn
<1> QED BY <1>1, <1>2, <1>3 DEF Silent, Says

\* A step that is not of the exchange.
LEMMA ExchangesKeep ==
  ASSUME Typed, Exchanges, UNCHANGED <<kx, ckx>>, SameIn(write, write', Loop(KxTypes)),
         UNCHANGED read \/ (Takes /\ Head(read) \notin Exchange)
  PROVE  Exchanges'
<1>1. Silent => Silent' BY SameSays
<1>2. (Says("KexInit") => Says("KexInit")') /\ (Says("EcdhReply") => Says("EcdhReply")') /\ (Says("NewKeys") => Says("NewKeys")')
  BY SameSays DEF KxTypes
<1>3. CASE UNCHANGED read BY <1>1, <1>2, <1>3 DEF Exchanges
<1>4. CASE Takes /\ Head(read) \notin Exchange
  <2>1. read /= <<>> BY <1>4 DEF Takes
  <2>2. Head(read) \notin OfType("EcdhInit") /\ Head(read) \notin OfType("NewKeys") /\ Head(read) \notin OfType("KexInit")
    BY <1>4 DEF OfType, Exchange
  <2>3. /\ \A S : Has(read', S) => Has(read, S)
        /\ \A S : Head(read) \notin S => (Has(read', S) <=> Has(read, S))
        /\ \A S, T : NoneAfter(read, S, T) => NoneAfter(read', S, T)
    BY <1>4, TakesFacts
  <2>4. CASE ckx = "idle" /\ kx.state = "AwaitingKexInit" /\ ~Has(read, Exchange) /\ Silent
    BY <1>1, <2>3, <2>4 DEF Exchanges
  <2>5. CASE /\ ckx = "init" /\ kx.state = "AwaitingKexInit" /\ Silent
             /\ NoneAfter(read, Exchange, Sendable) /\ ~Has(read, Exchange \ OfType("KexInit"))
             /\ Has(read, OfType("KexInit"))
    BY <1>1, <2>2, <2>3, <2>5 DEF Exchanges
  <2>6. CASE ckx = "awaiting" /\ kx.state = "AwaitingKexInit" /\ ~Has(read, Exchange) /\ Says("NewKeys")
    BY <1>2, <2>3, <2>6 DEF Exchanges
  <2> QED BY <2>1, <2>2, <2>4, <2>5, <2>6 DEF Exchanges
<1> QED BY <1>3, <1>4
\* The server says t, having said nothing of the exchange.
LEMMA SaysNow ==
  ASSUME Typed, Silent, NEW t \in KxTypes, write' = write \o <<Msg(t, 0, 0)>>
  PROVE  Says(t)'
<1>1. PICK m : m = Msg(t, 0, 0) OBVIOUS
<1>2. m \in Fitting /\ m.type = t BY <1>1, LoopFits DEF Msg
<1>3. write \in Seq(Fitting) /\ <<m>> \in Seq(Fitting) /\ In(<<m>>) = {m} /\ write' = write \o <<m>>
  BY <1>1, <1>2, InOne DEF Typed
<1>4. In(write') = In(write) \cup {m}
  <2>1. \A q, x \in Seq(Fitting) : In(q \o x) = In(q) \cup In(x) BY InConcat
  <2> QED BY <1>3, <2>1
<1>5. \A y \in In(write) : y \notin Loop(KxTypes) BY DEF Silent, Has
<1>6. Has(write', Loop({t})) BY <1>2, <1>4 DEF Has, Loop
<1>7. ~Has(write', Loop(KxTypes \ {t})) BY <1>2, <1>4, <1>5 DEF Has, Loop
<1>8. NoneAfter(write', Loop({t}), Loop({t}))
  <2>1. NoneAfter(write, Loop({t}), Loop({t})) /\ ~Has(write, Loop({t}))
    BY <1>5 DEF NoneAfter, In, Has, Loop
  <2>2. NoneAfter(<<m>>, Loop({t}), Loop({t})) BY AfterOne
  <2>3. \A q, x \in Seq(Fitting) : \A S, T : NoneAfter(q, S, T) /\ NoneAfter(x, S, T) /\ (Has(q, S) => ~Has(x, T))
          => NoneAfter(q \o x, S, T)
    BY AfterConcat
  <2>4. NoneAfter(write \o <<m>>, Loop({t}), Loop({t})) BY <1>3, <2>1, <2>2, <2>3
  <2> QED BY <1>3, <2>4, Zenon
<1> QED BY <1>6, <1>7, <1>8 DEF Says

\* Only what the exchange awaits is there to be taken.
LEMMA ExchangeAwaits ==
  ASSUME Typed, Exchanges, Takes, NEW m, m = Head(read)
  PROVE  /\ kx.state = "AwaitingKexInit" \/ kx.state = "AwaitingEcdhInit" \/ kx.state = "AwaitingNewKeys"
         /\ kx.state = "AwaitingEcdhInit" => ckx = "ecdh" /\ m.type = "EcdhInit" /\ m.ok /\ read' = <<>> /\ Silent
         /\ kx.state = "AwaitingNewKeys" => ckx = "awaiting" /\ m.type = "NewKeys" /\ ~Has(read', Exchange) /\ Silent
         /\ kx.state = "AwaitingKexInit" =>
              /\ m.type = "KexInit" => ckx = "init" /\ m.ok /\ read' = <<>> /\ Silent
              /\ m.type \notin {"EcdhInit", "NewKeys"}
<1>1. m \in Sendable /\ m \in In(read) /\ read' \in Seq(Sendable) /\ read' = Tail(read) /\ read /= <<>>
  BY TakesFacts DEF Takes
<1>2. m.type \in {"KexInit", "EcdhInit"} => m.ok BY <1>1 DEF Sendable
<1>3. m.type \in {"KexInit", "EcdhInit", "NewKeys"} => m \in Exchange /\ Has(read, Exchange)
  BY <1>1 DEF Exchange, Has
<1>4. CASE kx.state = "AwaitingEcdhInit"
  <2>1. ckx = "ecdh" /\ Silent /\ m \in OfType("EcdhInit") /\ Tail(read) = <<>>
    BY <1>1, <1>4 DEF Exchanges
  <2> QED BY <1>1, <1>2, <1>4, <2>1 DEF OfType
<1>5. CASE kx.state = "AwaitingNewKeys"
  <2>1. ckx = "awaiting" /\ Silent /\ m \in OfType("NewKeys") /\ ~Has(Tail(read), Exchange)
    BY <1>1, <1>5 DEF Exchanges
  <2> QED BY <1>1, <1>5, <2>1 DEF OfType
<1>6. CASE kx.state = "AwaitingKexInit"
  <2>1. CASE ~Has(read, Exchange) BY <1>3, <1>6, <2>1
  <2>2. CASE /\ ckx = "init" /\ Silent /\ NoneAfter(read, Exchange, Sendable) /\ ~Has(read, Exchange \ OfType("KexInit"))
    <3>1. m.type \notin {"EcdhInit", "NewKeys"}
      <4>1. m \in Exchange => m \in OfType("KexInit") BY <1>1, <2>2 DEF Has
      <4> QED BY <1>3, <4>1 DEF OfType
    <3>2. ASSUME m.type = "KexInit" PROVE read' = <<>>
      <4>1. ~Has(read', Sendable) BY <1>1, <1>3, <2>2, <3>2, TakesFacts
      <4>2. ASSUME read' /= <<>> PROVE FALSE
        <5>1. Head(read') \in In(read') /\ Head(read') \in Sendable BY <1>1, <4>2, InTail
        <5> QED BY <4>1, <5>1 DEF Has
      <4> QED BY <4>2
    <3> QED BY <1>2, <1>6, <2>2, <3>1, <3>2
  <2> QED BY <1>6, <2>1, <2>2 DEF Exchanges
<1> QED BY <1>4, <1>5, <1>6 DEF Exchanges

\* The session's part of the exchange.
LEMMA RekeyAfter ==
  ASSUME Before, TypeOKSession, Exchanges, NEW m, Handles(m), UNCHANGED ckx, m.type = "KexInit" \/ in_progress, Rekey(m)
  PROVE  /\ UNCHANGED session /\ After /\ Exchanges' /\ write' \in Seq(Fitting) /\ UNCHANGED pending
<1>0. IInv /\ Typed BY DEF Before
<1>1. Takes /\ m = Head(read) /\ UNCHANGED client /\ RanKept BY DEF Handles
<1>2. Expected(m) BY <1>0, <1>1, ExchangeAwaits DEF Expected, in_progress
<1>3. write \in Seq(Fitting) BY <1>0 DEF Typed
<1>4. UNCHANGED <<channels, pending, session>> BY <1>2 DEF Rekey
<1>5. HandleKexInit(m) \/ HandleEcdhInit(m) \/ HandleNewKeys(m) BY <1>2 DEF Rekey
<1>6. ASSUME NEW t \in KxTypes, write' = Append(write, Msg(t, 0, 0)), Silent, Says(t)' => Exchanges'
      PROVE  After /\ Exchanges' /\ write' \in Seq(Fitting)
  <2>1. Msg(t, 0, 0) \in Fitting BY LoopFits
  <2>2. write' = write \o <<Msg(t, 0, 0)>> /\ write' \in Seq(Fitting) BY <1>3, <1>6, <2>1, ConcatOne
  <2>3. \A c \in RemoteIds : SameTo(c) BY <1>0, <2>2, LoopSame
  <2>4. m.type \notin ChannelTypes BY <1>2 DEF Expected, ChannelTypes
  <2>5. After BY <1>1, <1>4, <2>3, <2>4, QuietAfter
  <2> QED BY <1>0, <1>6, <2>2, <2>5, SaysNow
<1>7. CASE HandleKexInit(m)
  <2>1. write' = Append(write, Msg("KexInit", 0, 0)) /\ kx'.state = "AwaitingEcdhInit"
    BY <1>7 DEF HandleKexInit
  <2>2. ckx = "init" /\ read' = <<>> /\ Silent BY <1>0, <1>1, <1>7, ExchangeAwaits DEF HandleKexInit
  <2>3. Says("KexInit")' => Exchanges' BY <2>1, <2>2 DEF Exchanges
  <2> QED BY <1>4, <1>6, <2>1, <2>2, <2>3 DEF KxTypes
<1>8. CASE HandleEcdhInit(m)
  <2>1. write' = Append(write, Msg("EcdhReply", 0, 0)) BY <1>8 DEF HandleEcdhInit
  <2>2. ckx = "ecdh" /\ read' = <<>> /\ Silent
    BY <1>0, <1>1, <1>8, ExchangeAwaits DEF HandleEcdhInit
  <2>3. kx'.state = "AwaitingNewKeys" BY <1>8 DEF HandleEcdhInit, TypeOKSession, KxStates
  <2>4. Says("EcdhReply")' => Exchanges' BY <2>2, <2>3 DEF Exchanges
  <2> QED BY <1>4, <1>6, <2>1, <2>2, <2>4 DEF KxTypes
<1>9. CASE HandleNewKeys(m)
  <2>1. write' = Append(write, Msg("NewKeys", 0, 0)) /\ kx'.state = "AwaitingKexInit"
    BY <1>9 DEF HandleNewKeys
  <2>2. ckx = "awaiting" /\ ~Has(read', Exchange) /\ Silent
    BY <1>0, <1>1, <1>9, ExchangeAwaits DEF HandleNewKeys
  <2>3. Says("NewKeys")' => Exchanges' BY <2>1, <2>2 DEF Exchanges
  <2> QED BY <1>4, <1>6, <2>1, <2>2, <2>3 DEF KxTypes
<1> QED BY <1>5, <1>7, <1>8, <1>9

\* A step after which the session runs.
Goes == Running' /\ After /\ Exchanges' /\ write' \in Seq(Fitting) /\ pending'.out \in Seq(Fitting)

\* A handler outside the exchange, seen as a step of the session.
LEMMA ProceedsGoes ==
  ASSUME Before, Exchanges, Running, Proceeds, UNCHANGED <<kx, ckx>>,
         UNCHANGED read \/ (Takes /\ Head(read) \notin Exchange)
  PROVE  Goes
<1>1. Typed BY DEF Before
<1>2. SameIn(write, write', Loop(KxTypes)) /\ write' \in Seq(Fitting) BY <1>1, SaidSame DEF Proceeds
<1>3. Exchanges' BY <1>1, <1>2, ExchangesKeep
<1> QED BY <1>2, <1>3 DEF Proceeds, Goes, Running

\* The server receives what the client has sent.
LEMMA ReceiveAfter ==
  ASSUME Before, TypeOKSession, Exchanges, Running, ServerReceives
  PROVE  Goes \/ Fails
<1>0. IInv /\ Typed /\ write \in Seq(Fitting) /\ pending.out \in Seq(Fitting) BY DEF Before, Typed
<1>1. PICK m : m = Head(read) OBVIOUS
<1>2. Takes /\ Handles(m) /\ Receive(m) /\ UNCHANGED clientVars /\ RanKept
  BY <1>1 DEF ServerReceives, Server, Takes, Handles, RanKept, clientVars
<1>3. UNCHANGED <<client, ckx>> BY <1>2 DEF clientVars
<1>4. m \in Sendable BY <1>0, <1>1, <1>2, TakesFacts
<1>5. m.type \in ChannelTypes \cup {"KexInit", "EcdhInit", "NewKeys", "GlobalRequest", "Ignore", "Disconnect"}
  BY <1>4 DEF Sendable
<1>6. m.type \notin {"KexInit", "EcdhInit", "NewKeys"} => m \notin Exchange BY DEF Exchange
<1>7. UNCHANGED channels => \A e \in RemoteIds : ran'[e] = ran[e] BY <1>2, NoneStarts DEF Known
<1>8. CASE Ignored(m) /\ UNCHANGED sessionVars
  <2>1. m.type = "Ignore" BY <1>5, <1>8 DEF Ignored, ChannelTypes
  <2>2. UNCHANGED <<channels, write, pending, session, kx>> BY <1>8 DEF sessionVars, vars, kxVars
  <2>3. \A c \in RemoteIds : SameTo(c) BY <2>2, QuietSame
  <2>4. After BY <1>1, <1>2, <1>3, <2>1, <2>2, <2>3, QuietAfter DEF ChannelTypes
  <2>5. SameIn(write, write', Loop(KxTypes)) BY <2>2, SameSelf
  <2>6. Exchanges' BY <1>0, <1>1, <1>2, <1>3, <1>6, <2>1, <2>2, <2>5, ExchangesKeep
  <2> QED BY <1>0, <2>2, <2>4, <2>6 DEF Goes, Running
<1>9. CASE m.type = "Disconnect" /\ Ends("closed")
  BY <1>3, <1>7, <1>9 DEF Ends, Fails
<1>10. CASE (m.type = "KexInit" \/ in_progress) /\ Rekey(m)
  <2>1. UNCHANGED session /\ After /\ Exchanges' /\ write' \in Seq(Fitting) /\ UNCHANGED pending
    BY <1>2, <1>3, <1>10, RekeyAfter
  <2> QED BY <1>0, <2>1 DEF Goes, Running
<1>11. CASE /\ m.type \notin {"Ignore", "Disconnect", "KexInit", "RequestSuccess"} /\ ~in_progress
            /\ IF m.type = "GlobalRequest" THEN RefuseGlobal(m) ELSE ChannelMessage(m)
            /\ UNCHANGED kxVars
  <2>1. m.type \notin {"EcdhInit", "NewKeys"}
    BY <1>0, <1>1, <1>2, <1>11, ExchangeAwaits DEF in_progress
  <2>2. m \notin Exchange /\ UNCHANGED kx BY <1>6, <1>11, <2>1 DEF kxVars
  <2>3. CASE m.type = "GlobalRequest"
    <3>1. /\ UNCHANGED <<channels, pending, session>>
          /\ write' = IF m.want_reply THEN Append(write, Msg("RequestFailure", 0, 0)) ELSE write
      BY <1>11, <2>3 DEF RefuseGlobal
    <3>2. (\A c \in RemoteIds : SameTo(c)) /\ SameIn(write, write', Loop(KxTypes)) /\ write' \in Seq(Fitting)
      <4>1. CASE UNCHANGED write BY <1>0, <4>1, QuietSame, SameSelf
      <4>2. CASE write' = Append(write, Msg("RequestFailure", 0, 0))
        <5>1. PICK n : n = Msg("RequestFailure", 0, 0) OBVIOUS
        <5>2. n \in Fitting /\ n \notin Loop(KxTypes) BY <5>1, LoopFits DEF Msg, Loop, KxTypes
        <5>3. write' = write \o <<n>> /\ write' \in Seq(Fitting)
          BY <1>0, <4>2, <5>1, <5>2, ConcatOne
        <5>4. \A c \in RemoteIds : SameTo(c) BY <1>0, <5>1, <5>3, LoopSame
        <5>5. <<n>> \in Seq(Fitting) /\ \A y \in In(<<n>>) : y \notin Loop(KxTypes) BY <5>2, InOne
        <5>6. \A q, z \in Seq(Fitting) : (\A y \in In(z) : y \notin Loop(KxTypes)) => SameIn(q, q \o z, Loop(KxTypes))
          BY SameConcat
        <5>7. SameIn(write, write \o <<n>>, Loop(KxTypes)) BY <1>0, <5>5, <5>6
        <5> QED BY <5>3, <5>4, <5>7, Zenon
      <4> QED BY <3>1, <4>1, <4>2
    <3>3. After BY <1>1, <1>2, <1>3, <2>3, <3>1, <3>2, QuietAfter DEF ChannelTypes
    <3>4. Exchanges' BY <1>0, <1>1, <1>2, <1>3, <2>2, <3>2, ExchangesKeep
    <3> QED BY <1>0, <3>1, <3>2, <3>3, <3>4 DEF Goes, Running
  <2>4. CASE m.type /= "GlobalRequest"
    <3>1. ChannelMessage(m) /\ m.type \in ChannelTypes BY <1>5, <1>11, <2>1, <2>4
    <3>2. Proceeds \/ Fails BY <1>2, <3>1, MessageAfter
    <3>3. Proceeds => Goes BY <1>1, <1>2, <1>3, <2>2, ProceedsGoes
    <3> QED BY <3>2, <3>3
  <2> QED BY <2>3, <2>4
<1> QED BY <1>2, <1>8, <1>9, <1>10, <1>11 DEF Receive

-----------------------------------------------------------------------------
(* The polls. *)

\* No channel that is passed changes: none that is Exiting has sent a close.
LEMMA NonePassed ==
  ASSUME Before, NEW j \in DOMAIN channels, ~Returns(j)
  PROVE  PassedChannel(j) = channels[j]
<1>1. IInv /\ Placed BY DEF Before
<1>2. PICK c : c = channels[j].remote_id OBVIOUS
<1>3. j \in Ids /\ Own(j, c) /\ c \in RemoteIds BY <1>1, <1>2, OwnedBy DEF Known
<1>4. LinkedAt(j, c) BY <1>3 DEF Before, Live, Linked
<1>5. St(j) = "Exiting" => ~channels[j].close_sent BY <1>4 DEF LinkedAt
<1>6. ~PassedReaps(j) BY <1>5 DEF PassedReaps, Returns, Woken, St
<1> QED BY <1>6 DEF PassedChannel

\* A poll that returns at the first channel that is ready replaces that
\* channel, and no other one.
LEMMA PolledMap ==
  ASSUME Before, NEW id \in DOMAIN channels, \A j \in DOMAIN channels : j < id => ~Returns(j), NEW e, PollAt(id, e)
  PROVE  channels' = Update(id, e)
<1>1. \A j \in DOMAIN channels : j < id => PassedChannel(j) = channels[j] BY NonePassed
<1>2. channels' = [j \in DOMAIN channels |-> IF j = id THEN e ELSE channels[j]]
  <2>1. channels' = [j \in DOMAIN channels |-> IF j = id THEN e ELSE IF j < id THEN PassedChannel(j) ELSE channels[j]]
    BY DEF PollAt
  <2>2. \A j \in DOMAIN channels : (IF j = id THEN e ELSE IF j < id THEN PassedChannel(j) ELSE channels[j])
                                     = (IF j = id THEN e ELSE channels[j])
    BY <1>1
  <2> QED BY <2>1, <2>2
<1> QED BY <1>2 DEF Update

\* A message, n bytes of it data.
LEMMA PolledCounted ==
  ASSUME Before, NEW id, NEW x, Touch(id, x), NEW c, c = channels[id].remote_id, UNCHANGED <<read, pending>>,
         id \in DOMAIN channels', NEW n \in Nat, Bytes(x, "Data", c) = n, Bytes(x, "WindowAdjust", c) = 0, Replies(x, c) = 0,
         channels'[id].receive_window = channels[id].receive_window,
         channels'[id].send_window = channels[id].send_window - n, St(id)' \notin {"None", "Requested"}
  PROVE  Counted(c)' /\ Affords(c)'
<1>0. IInv /\ IInv' /\ Typed /\ Placed BY DEF Before
<1>1. Live(c) /\ channels[id] \in Channel BY <1>0, OwnedBy DEF Before, Touch
<1>2. pending.out \in Seq(Fitting) /\ read \in Seq(Sendable) BY <1>0 DEF Typed
<1>3. Bytes(pending.out, "WindowAdjust", c) \in Nat BY <1>2, BytesFacts
<1>4. /\ Coming(read, "ChannelData", id) \in Nat /\ Coming(read, "ChannelWindowAdjust", id) \in Nat
      /\ Requests(read, id) \in Nat
  BY <1>2, Numbers
<1>5. channels[id].send_window \in Nat /\ channels[id].receive_window \in Nat
  BY <1>1, ChannelsAssumption DEF Channel
<1>6. channels'[id].receive_window + Bytes(pending.out, "WindowAdjust", c) + Coming(read, "ChannelData", id)
             = channels[id].receive_window + Bytes(x, "WindowAdjust", c) + Bytes(pending'.out, "WindowAdjust", c)
                 + Coming(read', "ChannelData", id)
  BY <1>3, <1>4, <1>5
<1>7. channels'[id].send_window + Bytes(x, "Data", c) + Coming(read', "ChannelWindowAdjust", id)
             = channels[id].send_window + Coming(read, "ChannelWindowAdjust", id)
  BY <1>4, <1>5
<1>8. Requests(read, id) = Replies(x, c) + Requests(read', id) BY <1>4
<1> QED BY <1>0, <1>1, <1>2, <1>6, <1>7, <1>8, OwnerCounted DEF Live

\* What every poll that returns at id leaves alone.
Polls == UNCHANGED read /\ UNCHANGED client /\ RanKept /\ UNCHANGED <<pending, session>> /\ Running

\* A poll that returns at a channel touches that channel alone.
LEMMA PolledTouch ==
  ASSUME Before, Polls, NEW id \in DOMAIN channels, NEW c, c = channels[id].remote_id,
         \A j \in DOMAIN channels : j < id => ~Returns(j), NEW e \in Channel, e.remote_id = c, PollAt(id, e),
         NEW t \in AnswerTypes, NEW a, Msg(t, c, a) \in Fitting, write' = Append(write, Msg(t, c, a))
  PROVE  /\ Touch(id, <<Msg(t, c, a)>>) /\ id \in DOMAIN channels' /\ channels'[id] = e
         /\ Said /\ pending'.out \in Seq(Fitting)
<1>0. IInv /\ Typed /\ write \in Seq(Fitting) /\ pending.out \in Seq(Fitting) BY DEF Before, Typed
<1>1. channels' = Update(id, e) BY PolledMap
<1>2. write' = write \o <<Msg(t, c, a)>> BY <1>0, ConcatOne
<1>3. PICK x : x = <<Msg(t, c, a)>> OBVIOUS
<1>4. Speaks(c, x) BY <1>2, <1>3, OneSaid DEF Speaks
<1>5. pending'.out = pending.out BY DEF Polls
<1>6. Touch(id, x) /\ id \in DOMAIN channels' /\ channels'[id] = e
  BY <1>1, <1>4, <1>5, TouchUpdate DEF Polls, Known
<1> QED BY <1>0, <1>3, <1>4, <1>5, <1>6, SpeaksSaid

\* A poll that returns: where it stands.
LEMMA PollOwner ==
  ASSUME Before, NEW id \in DOMAIN channels, NEW c, c = channels[id].remote_id
  PROVE  /\ Live(c) /\ Heard(c) /\ id \in Ids /\ Known(id) /\ channels[id] \in Channel /\ Own(id, c) /\ c \in RemoteIds
         /\ channels[id].send_window \in Nat
<1>1. IInv /\ Placed BY DEF Before
<1>2. id \in Ids /\ Known(id) /\ channels[id] \in Channel /\ Own(id, c) /\ c \in RemoteIds
  BY <1>1, OwnedBy DEF Known
<1> QED BY <1>2, ChannelsAssumption DEF Before, Channel

\* PollRead: output goes to the client.
LEMMA PollReadAfter ==
  ASSUME Before, Polls, NEW id \in DOMAIN channels, PollRead(id)
  PROVE  Proceeds
<1>0. IInv /\ IInv' /\ Typed /\ Placed BY DEF Before
<1>1. PICK c : c = channels[id].remote_id OBVIOUS
<1>2. /\ Live(c) /\ Heard(c) /\ id \in Ids /\ Known(id) /\ channels[id] \in Channel /\ Own(id, c) /\ c \in RemoteIds
      /\ channels[id].send_window \in Nat
  BY <1>1, PollOwner
<1>3. PICK n \in 1..Smaller(limit(channels[id]), ShellOf(id).out) :
        /\ PollAt(id, WithSendWindow(channels[id], channels[id].send_window - n))
        /\ write' = Append(write, Msg("Data", channels[id].remote_id, n))
  BY DEF PollRead
<1>4. n \in Nat /\ n <= channels[id].send_window
  <2>1. channels[id].terminal.shell \in Shells
    BY <1>0 DEF PollRead, IInv, ShellsOwned, OwningStates
  <2>2. ShellOf(id).out \in Nat BY <1>0, <2>1, TerminalAssumption DEF IInv, TypeOK, Shell, ShellOf
  <2>3. READ_BUF \in Nat /\ channels[id].maximum_packet_size \in Nat
    BY <1>2, ChannelsAssumption DEF Channel
  <2> QED BY <1>2, <1>3, <2>2, <2>3, ReadBounds DEF limit
<1>5. PICK w : w = channels[id].send_window - n OBVIOUS
<1>6. w \in 0..MaxWindow
  <2>1. channels[id].send_window \in 0..MaxWindow /\ MaxWindow \in Nat
    BY <1>2, ChannelsAssumption DEF Channel
  <2> QED BY <1>4, <1>5, <2>1
<1>7. PICK e : e = WithSendWindow(channels[id], w) OBVIOUS
<1>8. e \in Channel BY <1>2, <1>6, <1>7, ChannelOpsType
<1>9. /\ e.terminal = channels[id].terminal /\ e.remote_id = c /\ e.send_window = w
      /\ e.receive_window = channels[id].receive_window /\ e.close_sent = channels[id].close_sent
  BY <1>1, <1>2, <1>7, ChannelOpsFields
<1>10. "Data" \in AnswerTypes /\ Msg("Data", c, n) \in Fitting
  BY <1>2, <1>4, MsgFits DEF AnswerTypes
<1>11. PollAt(id, e) /\ write' = Append(write, Msg("Data", c, n)) BY <1>1, <1>3, <1>5, <1>7
<1>12. \A j \in DOMAIN channels : j < id => ~Returns(j) BY DEF PollRead, FirstReady
<1>13. PICK x : x = <<Msg("Data", c, n)>> OBVIOUS
<1>14. Touch(id, x) /\ id \in DOMAIN channels' /\ channels'[id] = e /\ Said /\ pending'.out \in Seq(Fitting)
  BY <1>1, <1>8, <1>9, <1>10, <1>11, <1>12, <1>13, PolledTouch
<1>15. St(id) = "Running" /\ SameTerminal(id) BY <1>9, <1>14 DEF SameTerminal, St, PollRead
<1>16. Asking(c)' BY <1>0, <1>1, <1>2, <1>14, <1>15, OwnerAsking DEF Live, SameTerminal, Polls
<1>17. Counted(c)' /\ Affords(c)'
  <2>1. Bytes(x, "Data", c) = n /\ Bytes(x, "WindowAdjust", c) = 0 /\ Replies(x, c) = 0
    BY <1>10, <1>13, OneCounts
  <2>2. channels'[id].receive_window = channels[id].receive_window /\ channels'[id].send_window = channels[id].send_window - n
    BY <1>5, <1>9, <1>14
  <2>3. St(id)' \notin {"None", "Requested"} BY <1>15 DEF SameTerminal
  <2>4. UNCHANGED <<read, pending>> BY DEF Polls
  <2> QED BY <1>1, <1>4, <1>14, <2>1, <2>2, <2>3, <2>4, PolledCounted
<1>18. \A y \in In(x) : y.type = "Data" BY <1>10, <1>13, OneSaid
<1>19. channels'[id].close_sent = channels[id].close_sent BY <1>9, <1>14
<1>20. After BY <1>1, <1>14, <1>15, <1>16, <1>17, <1>18, <1>19, TalkAfter
<1> QED BY <1>14, <1>20 DEF Proceeds, Polls

\* One message about the end, and the windows as they were.
LEMMA PolledEnd ==
  ASSUME Before, Polls, NEW id, NEW c, c = channels[id].remote_id, NEW t \in {"Eof", "ExitStatus", "Close"}, NEW a,
         Msg(t, c, a) \in Fitting, Touch(id, <<Msg(t, c, a)>>), id \in DOMAIN channels',
         St(id) \in {"Running", "Exiting", "Closing"}, St(id)' \in {"Exiting", "Closing"},
         channels'[id].receive_window = channels[id].receive_window,
         channels'[id].send_window = channels[id].send_window, Linked(c)', Ordered(c)'
  PROVE  After
<1>0. IInv /\ IInv' /\ Typed /\ Placed BY DEF Before
<1>1. PICK x : x = <<Msg(t, c, a)>> OBVIOUS
<1>2. Touch(id, x) BY <1>1
<1>3. t \in AnswerTypes BY DEF AnswerTypes
<1>4. \A y \in In(x) : y.type = t BY <1>1, <1>3, OneSaid
<1>5. Live(c) /\ Heard(c) /\ channels[id] \in Channel /\ channels[id].send_window \in Nat
  <2>1. id \in DOMAIN channels BY DEF Touch, Known
  <2> QED BY <2>1, PollOwner
<1>6. Life(c)'
  <2>1. \A y \in In(x) : y.type \notin OpenedTypes BY <1>4 DEF OpenedTypes
  <2> QED BY <1>0, <1>2, <1>5, <2>1, OwnerLife DEF Live
<1>7. Coherent(c)' BY <1>0, <1>2, <1>5, OwnerCoherent DEF Live
<1>8. Asking(c)'
  <2>1. {St(id), St(id)'} \cap {"None", "Requested"} = {} OBVIOUS
  <2> QED BY <1>0, <1>2, <1>5, <2>1, OwnerAsking DEF Live
<1>9. Counted(c)' /\ Affords(c)'
  <2>1. Bytes(x, "Data", c) = 0 /\ Bytes(x, "WindowAdjust", c) = 0 /\ Replies(x, c) = 0
    BY <1>1, <1>3, OneCounts
  <2>2. channels'[id].send_window = channels[id].send_window - 0 /\ 0 \in Nat BY <1>5
  <2>3. UNCHANGED <<read, pending>> BY DEF Polls
  <2> QED BY <1>2, <2>1, <2>2, <2>3, PolledCounted
<1> QED BY <1>2, <1>6, <1>7, <1>8, <1>9, TouchAfter

\* PollEof: the end of output goes to the client.
LEMMA PollEofAfter ==
  ASSUME Before, Polls, NEW id \in DOMAIN channels, PollEof(id)
  PROVE  Proceeds
<1>0. IInv /\ IInv' /\ Typed /\ Placed /\ ShellsMove BY DEF Before
<1>1. PICK c : c = channels[id].remote_id OBVIOUS
<1>2. Live(c) /\ Heard(c) /\ id \in Ids /\ Known(id) /\ channels[id] \in Channel /\ Own(id, c) /\ c \in RemoteIds
  BY <1>1, PollOwner
<1>3. St(id) = "Running" /\ AtEof(shells[channels[id].terminal.shell]) BY DEF PollEof, St, ShellOf
<1>4. channels[id].terminal.shell \in Shells BY <1>0, <1>3 DEF IInv, ShellsOwned, OwningStates, St
<1>5. PICK u : u = WithShell("Exiting", channels[id].terminal.shell) OBVIOUS
<1>6. u \in Terminals /\ u.state = "Exiting" /\ u.shell = channels[id].terminal.shell
  BY <1>4, <1>5, TerminalOps DEF OwningStates
<1>7. PICK e : e = WithTerminal(channels[id], u) OBVIOUS
<1>8. e \in Channel BY <1>2, <1>6, <1>7, ChannelOpsType
<1>9. /\ e.terminal = u /\ e.remote_id = c /\ e.send_window = channels[id].send_window
      /\ e.receive_window = channels[id].receive_window /\ e.close_sent = channels[id].close_sent
  BY <1>1, <1>2, <1>7, ChannelOpsFields
<1>10. "Eof" \in AnswerTypes /\ Msg("Eof", c, 0) \in Fitting BY <1>2, MsgFits DEF AnswerTypes
<1>11. PollAt(id, e) /\ write' = Append(write, Msg("Eof", c, 0)) BY <1>1, <1>5, <1>7 DEF PollEof
<1>12. \A j \in DOMAIN channels : j < id => ~Returns(j) BY DEF PollEof, FirstReady
<1>13. Touch(id, <<Msg("Eof", c, 0)>>) /\ id \in DOMAIN channels' /\ channels'[id] = e /\ Said /\ pending'.out \in Seq(Fitting)
  BY <1>1, <1>8, <1>9, <1>10, <1>11, <1>12, PolledTouch
<1>14. /\ St(id)' = "Exiting" /\ channels'[id].terminal.shell = channels[id].terminal.shell
       /\ channels'[id].close_sent = channels[id].close_sent /\ channels'[id].send_window = channels[id].send_window
       /\ channels'[id].receive_window = channels[id].receive_window
  BY <1>6, <1>9, <1>13 DEF St
<1>15. Linked(c)' /\ Ordered(c)'
  BY <1>0, <1>1, <1>2, <1>3, <1>13, <1>14, OwnerEof DEF Live, Heard, Polls
<1>16. After BY <1>1, <1>3, <1>10, <1>13, <1>14, <1>15, PolledEnd
<1> QED BY <1>13, <1>16 DEF Proceeds, Polls

\* PollExit: the exit code goes to the client, or the close at once.
LEMMA PollExitAfter ==
  ASSUME Before, Polls, NEW id \in DOMAIN channels, PollExit(id)
  PROVE  Proceeds
<1>0. IInv /\ IInv' /\ Typed /\ Placed /\ ShellsMove BY DEF Before
<1>1. PICK c : c = channels[id].remote_id OBVIOUS
<1>2. Live(c) /\ Heard(c) /\ id \in Ids /\ Known(id) /\ channels[id] \in Channel /\ Own(id, c) /\ c \in RemoteIds
  BY <1>1, PollOwner
<1>3. St(id) = "Exiting" BY DEF PollExit, St
<1>4. PICK p : p = channels[id].terminal.shell OBVIOUS
<1>5. p \in Shells BY <1>0, <1>3, <1>4 DEF IInv, ShellsOwned, OwningStates, St
<1>6. shells'[p] = Reaped(shells[p])
  <2>1. PassedShells(Below(id))[p] = shells[p]
    BY <1>0, <1>3, <1>4, PassedOwnShell DEF OwningStates, St
  <2>2. PassedShells(Below(id)) \in [Shells -> Shell] BY <1>0, PollBase
  <2>3. shells' = [PassedShells(Below(id)) EXCEPT ![p] = Reaped(@)] BY <1>4 DEF PollExit
  <2> QED BY <1>5, <2>1, <2>2, <2>3
<1>7. PICK f : f = WithTerminal(channels[id], TState("Closing")) OBVIOUS
<1>8. TState("Closing") \in Terminals /\ TState("Closing").state = "Closing" BY TerminalOps
<1>9. f \in Channel BY <1>2, <1>7, <1>8, ChannelOpsType
<1>10. /\ f.terminal = TState("Closing") /\ f.remote_id = c /\ f.send_window = channels[id].send_window
       /\ f.receive_window = channels[id].receive_window /\ f.close_sent = channels[id].close_sent
  BY <1>1, <1>2, <1>7, ChannelOpsFields
<1>11. \A j \in DOMAIN channels : j < id => ~Returns(j) BY DEF PollExit, FirstReady
<1>12. ASSUME NEW t \in {"ExitStatus", "Close"}, NEW a \in Nat \cup ExitCodes, NEW e \in Channel, e.terminal = f.terminal,
              e.remote_id = c, e.send_window = f.send_window, e.receive_window = f.receive_window,
              Msg(t, c, a) \in Fitting, PollAt(id, e), write' = Append(write, Msg(t, c, a)),
              t = "ExitStatus" => a = shells[p].status /\ a \in ExitCodes /\ e.close_sent = f.close_sent,
              t = "Close" => shells[p].status \notin ExitCodes /\ e.close_sent
       PROVE  Proceeds
  <2>1. t \in AnswerTypes /\ t \in {"Eof", "ExitStatus", "Close"} BY DEF AnswerTypes
  <2>2. Touch(id, <<Msg(t, c, a)>>) /\ id \in DOMAIN channels' /\ channels'[id] = e /\ Said /\ pending'.out \in Seq(Fitting)
    BY <1>1, <1>11, <1>12, <2>1, PolledTouch
  <2>3. /\ St(id)' = "Closing" /\ channels'[id].send_window = channels[id].send_window
        /\ channels'[id].receive_window = channels[id].receive_window
    BY <1>8, <1>10, <1>12, <2>2 DEF St
  <2>4. /\ t = "ExitStatus" => a = shells[channels[id].terminal.shell].status /\ a \in ExitCodes
                               /\ channels'[id].close_sent = channels[id].close_sent
        /\ t = "Close" => shells[channels[id].terminal.shell].status \notin ExitCodes /\ channels'[id].close_sent
        /\ shells'[channels[id].terminal.shell] = Reaped(shells[channels[id].terminal.shell])
    BY <1>4, <1>6, <1>10, <1>12, <2>2
  <2>5. Linked(c)' /\ Ordered(c)'
    BY <1>0, <1>1, <1>2, <1>3, <1>12, <2>2, <2>3, <2>4, OwnerExit DEF Live, Heard, Polls
  <2>6. After BY <1>1, <1>3, <1>12, <2>1, <2>2, <2>3, <2>5, PolledEnd
  <2> QED BY <2>2, <2>6 DEF Proceeds, Polls
<1>13. CASE shells[p].status \in ExitCodes
  <2>1. PICK a : a = shells[p].status OBVIOUS
  <2>2. PollAt(id, f) /\ write' = Append(write, Msg("ExitStatus", c, a))
    BY <1>1, <1>4, <1>7, <1>13, <2>1 DEF PollExit, ShellOf
  <2>3. Msg("ExitStatus", c, a) \in Fitting /\ a \in Nat \cup ExitCodes
    BY <1>2, <1>13, <2>1, MsgFits DEF AnswerTypes
  <2> QED BY <1>9, <1>10, <1>12, <1>13, <2>1, <2>2, <2>3
<1>14. CASE shells[p].status \notin ExitCodes
  <2>1. PICK e : e = WithClose(f) OBVIOUS
  <2>2. e \in Channel BY <1>9, <2>1, ChannelOpsType
  <2>3. e.terminal = f.terminal /\ e.remote_id = c /\ e.send_window = f.send_window /\ e.receive_window = f.receive_window
        /\ e.close_sent
    BY <1>9, <1>10, <2>1, ChannelOpsFields
  <2>4. PollAt(id, e) /\ write' = Append(write, Msg("Close", c, 0))
    BY <1>1, <1>4, <1>7, <1>14, <2>1 DEF PollExit, ShellOf
  <2>5. Msg("Close", c, 0) \in Fitting /\ 0 \in Nat \cup ExitCodes BY <1>2, MsgFits DEF AnswerTypes
  <2> QED BY <1>12, <1>14, <2>2, <2>3, <2>4, <2>5
<1> QED BY <1>13, <1>14

\* PollClose: after the exit code, the close.
LEMMA PollCloseAfter ==
  ASSUME Before, Polls, NEW id \in DOMAIN channels, PollClose(id)
  PROVE  Proceeds
<1>0. IInv /\ IInv' /\ Typed /\ Placed /\ ShellsMove BY DEF Before
<1>1. PICK c : c = channels[id].remote_id OBVIOUS
<1>2. Live(c) /\ Heard(c) /\ id \in Ids /\ Known(id) /\ channels[id] \in Channel /\ Own(id, c) /\ c \in RemoteIds
  BY <1>1, PollOwner
<1>3. St(id) = "Closing" /\ ~channels[id].close_sent
  BY DEF PollClose, St, FirstReady, Returns, Woken
<1>4. PICK e : e = WithClose(channels[id]) OBVIOUS
<1>5. e \in Channel BY <1>2, <1>4, ChannelOpsType
<1>6. /\ e.terminal = channels[id].terminal /\ e.remote_id = c /\ e.send_window = channels[id].send_window
      /\ e.receive_window = channels[id].receive_window /\ e.close_sent
  BY <1>1, <1>2, <1>4, ChannelOpsFields
<1>7. "Close" \in AnswerTypes /\ Msg("Close", c, 0) \in Fitting BY <1>2, MsgFits DEF AnswerTypes
<1>8. PollAt(id, e) /\ write' = Append(write, Msg("Close", c, 0)) BY <1>1, <1>4 DEF PollClose
<1>9. \A j \in DOMAIN channels : j < id => ~Returns(j) BY DEF PollClose, FirstReady
<1>10. Touch(id, <<Msg("Close", c, 0)>>) /\ id \in DOMAIN channels' /\ channels'[id] = e /\ Said /\ pending'.out \in Seq(Fitting)
  BY <1>1, <1>5, <1>6, <1>7, <1>8, <1>9, PolledTouch
<1>11. /\ St(id)' = "Closing" /\ channels'[id].close_sent /\ channels'[id].send_window = channels[id].send_window
       /\ channels'[id].receive_window = channels[id].receive_window
  BY <1>3, <1>6, <1>10 DEF St
<1>12. Linked(c)' /\ Ordered(c)'
  BY <1>0, <1>1, <1>2, <1>3, <1>10, <1>11, OwnerClosing DEF Live, Heard, Polls
<1>13. After BY <1>1, <1>3, <1>7, <1>10, <1>11, <1>12, PolledEnd
<1> QED BY <1>10, <1>13 DEF Proceeds, Polls

\* PollReap: the channel that the client has closed goes.
LEMMA PollReapAfter ==
  ASSUME Before, Polls, NEW id \in DOMAIN channels, PollReap(id)
  PROVE  Proceeds
<1>0. IInv /\ IInv' /\ Typed /\ Placed /\ ShellsMove BY DEF Before
<1>1. PICK c : c = channels[id].remote_id OBVIOUS
<1>2. Live(c) /\ Heard(c) /\ id \in Ids /\ Known(id) /\ channels[id] \in Channel /\ Own(id, c) /\ c \in RemoteIds
  BY <1>1, PollOwner
<1>3. St(id) = "Reaping" /\ client[c].closed /\ ~Has(read, For(id))
  BY <1>2 DEF PollReap, St, Live, Coherent
<1>4. UNCHANGED <<write, pending, read, client>> /\ read \in Seq(Sendable) /\ pending.out \in Seq(Fitting)
  BY <1>0 DEF PollReap, Polls, Typed
<1>5. PICK x : /\ Speaks(c, x) /\ x = <<>> /\ In(x) = {} /\ Bytes(x, "Data", c) = 0 /\ Bytes(x, "WindowAdjust", c) = 0
               /\ Replies(x, c) = 0
  BY <1>0, <1>4, SpeaksNothing
<1>6. /\ DOMAIN channels' = DOMAIN channels \ {id}
      /\ \A j \in DOMAIN channels : j /= id => j \in DOMAIN channels' /\ channels'[j] = channels[j]
  <2>1. \A j \in DOMAIN channels : j < id => PassedChannel(j) = channels[j]
    BY NonePassed DEF PollReap, FirstReady
  <2>2. channels' = [j \in DOMAIN channels \ {id} |-> IF j < id THEN PassedChannel(j) ELSE channels[j]]
    BY DEF PollReap
  <2> QED BY <2>1, <2>2
<1>7. id \notin DOMAIN channels' BY <1>6
<1>8. Touch(id, x) BY <1>1, <1>2, <1>4, <1>5, <1>6 DEF Touch, RanKept, Polls
<1>9. Life(c)' BY <1>0, <1>1, <1>2, <1>3, <1>5, <1>8, OwnerLife DEF Live
<1>10. Coherent(c)' BY <1>0, <1>1, <1>2, <1>7, <1>8, OwnerCoherent DEF Live
<1>11. Asking(c)' BY <1>0, <1>1, <1>2, <1>7, <1>8, OwnerAsking DEF Live
<1>12. Linked(c)' /\ Ordered(c)'
  BY <1>0, <1>1, <1>2, <1>3, <1>5, <1>7, <1>8, OwnerClosed DEF Live, Heard
<1>13. Requests(read, id) = 0 BY <1>3, <1>4, NoRequests
<1>14. Counted(c)' /\ Affords(c)'
  BY <1>0, <1>1, <1>2, <1>5, <1>7, <1>8, <1>13, OwnerGone DEF Live, Heard
<1>15. After BY <1>1, <1>3, <1>4, <1>8, <1>9, <1>10, <1>11, <1>12, <1>14, TouchAfter
<1> QED BY <1>4, <1>5, <1>15, SpeaksSaid DEF Proceeds, Polls

\* The poll finds nothing to return for.
LEMMA PollPendingAfter ==
  ASSUME Before, Polls, PollPending
  PROVE  Proceeds
<1>0. IInv /\ Typed /\ pending.out \in Seq(Fitting) /\ write \in Seq(Fitting) BY DEF Before, Typed
<1>1. UNCHANGED <<write, pending, session, client, read>> /\ RanKept BY DEF PollPending, Polls
<1>2. channels' = channels
  <2>1. \A j \in DOMAIN channels : PassedChannel(j) = channels[j] BY NonePassed DEF PollPending
  <2>2. channels' = [j \in DOMAIN channels |-> channels[j]] BY <2>1 DEF PollPending
  <2>3. channels = [j \in DOMAIN channels |-> channels[j]] BY <1>0 DEF IInv, TypeOK
  <2> QED BY <2>2, <2>3
<1>3. \A c \in RemoteIds : SameTo(c) BY <1>1, QuietSame
<1>4. After BY <1>1, <1>2, <1>3, QuietAfter
<1>5. Said
  <2>1. PICK x : Speaks(0, x) BY <1>0, <1>1, SpeaksNothing
  <2> QED BY <2>1, SpeaksSaid
<1> QED BY <1>0, <1>1, <1>4, <1>5 DEF Proceeds

\* A read error ends the session.
LEMMA PollErrorFails ==
  ASSUME Before, UNCHANGED client, RanKept, NEW id \in DOMAIN channels, PollReadError(id)
  PROVE  Fails
<1>0. IInv BY DEF Before
<1>1. \A j \in DOMAIN channels : j < id => ~Returns(j) BY DEF PollReadError, Below
<1>2. PICK e : e = channels[id] OBVIOUS
<1>3. PollAt(id, e) /\ Fail("io_error") BY <1>2 DEF PollReadError
<1>4. channels' = Update(id, e) BY <1>1, <1>3, PolledMap
<1>5. channels' = channels BY <1>0, <1>2, <1>4 DEF Update, IInv, TypeOK
<1>6. \A e0 \in RemoteIds : ran'[e0] = ran[e0] BY <1>5, NoneStarts DEF Known
<1> QED BY <1>3, <1>6 DEF Fail, Fails

\* The poll of the terminals.
LEMMA PollsAfter ==
  ASSUME Before, Exchanges, Running, ServerPolls
  PROVE  Goes \/ Fails
<1>1. UNCHANGED read /\ UNCHANGED <<client, ckx, kx>> /\ RanKept /\ Poll
  BY DEF ServerPolls, Server, PollTerminals, clientVars, kxVars, RanKept
<1>2. CASE PollPending
  <2>1. Polls BY <1>1, <1>2 DEF Polls, PollPending, PollUnchanged
  <2>2. Proceeds BY <1>2, <2>1, PollPendingAfter
  <2> QED BY <1>1, <2>2, ProceedsGoes
<1>3. ASSUME NEW id \in DOMAIN channels, PollReady(id)
      PROVE  Goes \/ Fails
  <2>1. CASE PollReadError(id) BY <1>1, <2>1, PollErrorFails
  <2>2. CASE PollRead(id) \/ PollEof(id) \/ PollExit(id) \/ PollClose(id) \/ PollReap(id)
    <3>1. Polls
      BY <1>1, <2>2 DEF Polls, PollRead, PollEof, PollExit, PollClose, PollReap, PollUnchanged
    <3>2. Proceeds
      BY <2>2, <3>1, PollReadAfter, PollEofAfter, PollExitAfter, PollCloseAfter, PollReapAfter
    <3> QED BY <1>1, <3>2, ProceedsGoes
  <2> QED BY <1>3, <2>1, <2>2 DEF PollReady
<1> QED BY <1>1, <1>2, <1>3 DEF Poll

-----------------------------------------------------------------------------
(* The write to a PTY. *)

\* What waits for the write to end is a window adjustment for a channel that
\* is there.
Awaited ==
  pending.out /= <<>> =>
    \E id \in DOMAIN channels : \E n \in Nat : pending.out = <<Msg("WindowAdjust", channels[id].remote_id, n)>>

\* Neither the message nor the owners of the channels change.
LEMMA AwaitedKept ==
  ASSUME Awaited, pending'.out = pending.out, DOMAIN channels' = DOMAIN channels,
         \A id \in DOMAIN channels : channels'[id].remote_id = channels[id].remote_id
  PROVE  Awaited'
BY DEF Awaited

\* Every step of the session keeps it so, as long as the session runs.
LEMMA AwaitedStep ==
  ASSUME IInv, Awaited, [NextSession]_sessionVars, session' = "running"
  PROVE  Awaited'
<1>0. channels \in [DOMAIN channels -> Channel] /\ DOMAIN channels \subseteq Ids BY DEF IInv, TypeOK
<1>1. CASE pending' = NoWrite BY <1>1 DEF Awaited, NoWrite
<1>2. CASE pending = NoWrite /\ UNCHANGED pending BY <1>1, <1>2
<1>3. CASE UNCHANGED <<channels, pending>> BY <1>3, AwaitedKept
<1>4. ASSUME NEW m \in ChannelData, data(m), pending' /= NoWrite
      PROVE  Awaited'
  <2>1. PICK left : left = channels[m.to].receive_window - m.n OBVIOUS
  <2>2. PICK added : added = Replenish(left) - left OBVIOUS
  <2>3. /\ Idle /\ Known(m.to) /\ channels' = Update(m.to, WithReceiveWindow(channels[m.to], Replenish(left)))
        /\ pending'.out = IF added > 0 THEN <<Msg("WindowAdjust", channels[m.to].remote_id, added)>> ELSE <<>>
        /\ m.n <= channels[m.to].receive_window
    BY <1>4, <2>1, <2>2 DEF data, Idle, UnknownChannel, Fail
  <2>4. /\ DOMAIN channels' = DOMAIN channels
        /\ channels'[m.to] = WithReceiveWindow(channels[m.to], Replenish(left))
    BY <1>0, <2>3 DEF Update, Known
  <2>5. m.to \in DOMAIN channels' /\ channels'[m.to].remote_id = channels[m.to].remote_id
    BY <1>0, <2>3, <2>4, ChannelOpsFields DEF Known
  <2>6. added > 0 => added \in Nat
    <3>1. m.n \in Nat BY SizesNat DEF ChannelData
    <3>2. channels[m.to].receive_window \in Nat BY <1>0, <2>3, ChannelsAssumption DEF Known, Channel
    <3>3. left \in Int BY <2>1, <3>1, <3>2
    <3>4. added \in Int BY <2>2, <3>3, ChannelsAssumption DEF Replenish
    <3> QED BY <3>4
  <2> QED BY <2>3, <2>5, <2>6 DEF Awaited
<1>5. CASE WritePty
  <2>1. CASE pending' = NoWrite BY <1>1, <2>1
  <2>2. CASE pending' = [pending EXCEPT !.left = pending.left - Smaller(pending.left, Room(shells[pending.shell]))] /\ UNCHANGED channels
    <3>1. pending'.out = pending.out BY <2>2 DEF IInv, TypeOK
    <3> QED BY <2>2, <3>1, AwaitedKept
  <2> QED BY <1>5, <2>1, <2>2 DEF WritePty, Fail
<1>6. CASE DeadlinePasses
  <2>1. PICK id \in DOMAIN channels : channels' = Update(id, WithTerminal(channels[id], Late(channels[id].terminal)))
    BY <1>6 DEF DeadlinePasses
  <2>2. DOMAIN channels' = DOMAIN channels /\ \A j \in DOMAIN channels : channels'[j].remote_id = channels[j].remote_id
    BY <1>0, <2>1, ChannelOpsFields DEF Update
  <2>3. UNCHANGED pending BY <1>6 DEF DeadlinePasses
  <2> QED BY <2>2, <2>3, AwaitedKept
<1>7. CASE Poll
  <2>1. pending = NoWrite /\ UNCHANGED pending
    BY <1>7 DEF Poll, PollPending, PollReady, PollRead, PollEof, PollReadError, PollExit,
       PollClose, PollReap, PollUnchanged, Idle, Fail
  <2> QED BY <1>2, <2>1
<1>8. ASSUME NEW m \in PeerPackets, Receive(m)
      PROVE  Awaited'
  <2>1. pending = NoWrite BY <1>8 DEF Receive, Idle
  <2>2. CASE UNCHANGED pending BY <1>2, <2>1, <2>2
  <2>3. CASE m.type = "ChannelData" /\ data(m)
    <3>1. m \in ChannelData BY <1>8, <2>3, PacketKinds
    <3> QED BY <1>1, <1>4, <2>3, <3>1
  <2>4. CASE open(m) BY <2>2, <2>4 DEF open
  <2>5. ASSUME NEW b, request(m, b) PROVE Awaited'
    BY <2>2, <2>5 DEF request, UnknownChannel, Fail, PtyReq, Env, ShellError, StartShell,
       WindowChange, Refused
  <2>6. CASE adjust_window(m) BY <2>2, <2>6 DEF adjust_window, UnknownChannel, Fail
  <2>7. CASE eof(m) BY <2>2, <2>7 DEF eof, UnknownChannel, Fail, vars
  <2>8. CASE close(m) BY <2>2, <2>8 DEF close
  <2>9. CASE ChannelMessage(m)
    <3>1. CASE Fail("proto_error") BY <2>2, <3>1 DEF Fail
    <3> QED BY <2>3, <2>4, <2>5, <2>6, <2>7, <2>8, <2>9, <3>1 DEF ChannelMessage
  <2>10. CASE Rekey(m) BY <2>2, <2>10 DEF Rekey, Fail
  <2>11. CASE UNCHANGED sessionVars BY <2>2, <2>11 DEF sessionVars, vars
  <2>12. CASE Ends("closed") BY <2>2, <2>12 DEF Ends
  <2>13. CASE RefuseGlobal(m) BY <2>2, <2>13 DEF RefuseGlobal
  <2> QED BY <1>8, <2>9, <2>10, <2>11, <2>12, <2>13 DEF Receive
<1>9. CASE ShellSteps BY <1>3, <1>9 DEF ShellSteps
<1>10. CASE ConnectionLost BY <1>2, <1>10 DEF ConnectionLost, Ends
<1>11. CASE PeerReads BY <1>3, <1>11 DEF PeerReads
<1>12. CASE UNCHANGED sessionVars BY <1>3, <1>12 DEF sessionVars, vars
<1> QED
  BY <1>5, <1>6, <1>7, <1>8, <1>9, <1>10, <1>11, <1>12 DEF NextSession, PollTerminals, AwaitWrite,
     Environment

\* The write ends, and the window adjustment goes out.
LEMMA WrittenAfter ==
  ASSUME Before, NEW id \in DOMAIN channels, NEW n \in Nat, NEW c, c = channels[id].remote_id,
         pending.out = <<Msg("WindowAdjust", c, n)>>, pending' = NoWrite,
         write' = write \o <<Msg("WindowAdjust", c, n)>>, UNCHANGED <<channels, client, session, read>>, RanKept
  PROVE  Proceeds
<1>0. IInv /\ IInv' /\ ShellsMove /\ Typed /\ Placed BY DEF Before
<1>1. Live(c) /\ Heard(c) /\ Known(id) /\ channels[id] \in Channel /\ Own(id, c) /\ c \in RemoteIds /\ id \in Ids
  BY PollOwner
<1>2. "WindowAdjust" \in AnswerTypes /\ Msg("WindowAdjust", c, n) \in Fitting
  BY <1>1, MsgFits DEF AnswerTypes
<1>3. PICK x : x = <<Msg("WindowAdjust", c, n)>> OBVIOUS
<1>4. x \in Seq(Fitting) /\ \A y \in In(x) : y.type = "WindowAdjust" /\ y \in AllTo(c)
  BY <1>2, <1>3, OneSaid
<1>5. Bytes(x, "Data", c) = 0 /\ Bytes(x, "WindowAdjust", c) = n /\ Replies(x, c) = 0
  BY <1>2, <1>3, OneCounts
<1>6. Speaks(c, x) BY <1>3, <1>4 DEF Speaks
<1>7. pending.out = x /\ pending'.out = <<>> /\ pending'.out \in Seq(Fitting) BY <1>3 DEF NoWrite
<1>8. \A e : e /= c => Bytes(pending'.out, "WindowAdjust", e) = Bytes(pending.out, "WindowAdjust", e)
  <2> TAKE e
  <2> HAVE e /= c
  <2>1. Bytes(x, "WindowAdjust", e) = 0 BY <1>4, OthersHearNothing
  <2>2. Bytes(<<>>, "WindowAdjust", e) = 0 BY BytesFacts
  <2> QED BY <1>7, <2>1, <2>2
<1>9. Touch(id, x) /\ id \in DOMAIN channels' /\ channels'[id] = channels[id]
  BY <1>1, <1>6, <1>8, TouchSame
<1>10. SameTerminal(id) BY <1>9 DEF SameTerminal, St
<1>11. Asking(c)' BY <1>0, <1>1, <1>9, <1>10, OwnerAsking DEF Live, SameTerminal
<1>12. Counted(c)' /\ Affords(c)'
  <2>1. channels[id].send_window \in Nat /\ channels[id].receive_window \in Nat
    BY <1>1, ChannelsAssumption DEF Channel
  <2>2. Coming(read, "ChannelData", id) \in Nat /\ Coming(read, "ChannelWindowAdjust", id) \in Nat /\ Requests(read, id) \in Nat
    BY <1>0, ComingFacts, RequestsFacts DEF Typed
  <2>3. Bytes(<<>>, "WindowAdjust", c) = 0 BY BytesFacts
  <2>4. read' = read OBVIOUS
  <2>5. channels'[id].receive_window + Bytes(pending.out, "WindowAdjust", c) + Coming(read, "ChannelData", id)
          = channels[id].receive_window + Bytes(x, "WindowAdjust", c) + Bytes(pending'.out, "WindowAdjust", c)
              + Coming(read', "ChannelData", id)
    <3>1. Bytes(pending.out, "WindowAdjust", c) = n /\ Bytes(pending'.out, "WindowAdjust", c) = 0
      BY <1>5, <1>7, <2>3, Zenon
    <3>2. channels'[id].receive_window = channels[id].receive_window
          /\ Coming(read', "ChannelData", id) = Coming(read, "ChannelData", id)
      BY <1>9, <2>4
    <3> DEFINE w == channels[id].receive_window
               l == Coming(read, "ChannelData", id)
    <3>3. w \in Nat /\ l \in Nat BY <2>1, <2>2
    <3> HIDE DEF w, l
    <3>4. w + n + l = w + n + 0 + l BY <3>3
    <3> QED BY <1>5, <3>1, <3>2, <3>4 DEF w, l
  <2>6. channels'[id].send_window + Bytes(x, "Data", c) + Coming(read', "ChannelWindowAdjust", id)
          = channels[id].send_window + Coming(read, "ChannelWindowAdjust", id)
    BY <1>5, <1>9, <2>1, <2>2, <2>4
  <2>7. Requests(read, id) = Replies(x, c) + Requests(read', id) BY <1>5, <2>2, <2>4
  <2>8. St(id)' \in {"None", "Requested"} =>
          St(id) \in {"None", "Requested"} /\ (client[c].early \/ channels'[id].receive_window = 0)
    BY <1>1, <1>9, <1>10 DEF Live, Counted, CountedAt, SameTerminal
  <2> QED BY <1>0, <1>1, <1>7, <1>9, <2>5, <2>6, <2>7, <2>8, OwnerCounted DEF Live
<1>13. ~Has(x, To(c, {"Data"})) BY <1>4 DEF Has, To
<1>14. channels'[id].close_sent = channels[id].close_sent BY <1>9
<1>15. After BY <1>4, <1>9, <1>10, <1>11, <1>12, <1>13, <1>14, TalkAfter
<1> QED BY <1>6, <1>7, <1>15, SpeaksSaid DEF Proceeds

\* No channel is touched, and nothing is said.
LEMMA StillAfter ==
  ASSUME Before, Exchanges, Running, UNCHANGED <<channels, client, write, session, read, kx, ckx>>,
         pending'.out = pending.out, RanKept \/ UNCHANGED ran
  PROVE  Goes
<1>0. Typed /\ write \in Seq(Fitting) /\ pending.out \in Seq(Fitting) BY DEF Before, Typed
<1>1. \A c \in RemoteIds : SameTo(c) BY QuietSame
<1>2. After BY <1>1, QuietAfter
<1>3. SameIn(write, write', Loop(KxTypes)) BY SameSelf
<1>4. Exchanges' BY <1>0, <1>3, ExchangesKeep
<1> QED BY <1>0, <1>2, <1>4 DEF Goes, Running

\* The write to the PTY goes on, ends or fails.
LEMMA WritesAfter ==
  ASSUME Before, Exchanges, Running, Awaited, ServerWrites
  PROVE  Goes \/ Fails
<1>0. IInv /\ Typed /\ write \in Seq(Fitting) BY DEF Before, Typed
<1>1. UNCHANGED read /\ UNCHANGED <<client, ckx, kx>> /\ RanKept /\ WritePty
  BY DEF ServerWrites, Server, AwaitWrite, clientVars, kxVars, RanKept
<1>2. CASE Fail("io_error") /\ UNCHANGED channels
  <2>1. \A e \in RemoteIds : ran'[e] = ran[e] BY <1>1, <1>2, NoneStarts DEF Known
  <2> QED BY <1>1, <1>2, <2>1 DEF Fail, Fails
<1>3. CASE UNCHANGED <<channels, session, write>> /\ pending' = [pending EXCEPT !.left = pending'.left]
  <2>1. pending'.out = pending.out BY <1>0, <1>3 DEF IInv, TypeOK
  <2> QED BY <1>1, <1>3, <2>1, StillAfter
<1>4. CASE UNCHANGED <<channels, session>> /\ pending' = NoWrite /\ write' = write \o pending.out
  <2>1. CASE pending.out = <<>>
    <3>1. write' = write /\ pending'.out = pending.out BY <1>0, <1>4, <2>1 DEF NoWrite
    <3> QED BY <1>1, <1>4, <3>1, StillAfter
  <2>2. CASE pending.out /= <<>>
    <3>1. PICK id \in DOMAIN channels : \E n \in Nat : pending.out = <<Msg("WindowAdjust", channels[id].remote_id, n)>>
      BY <2>2 DEF Awaited
    <3>2. PICK n \in Nat : pending.out = <<Msg("WindowAdjust", channels[id].remote_id, n)>> BY <3>1
    <3>3. PICK c : c = channels[id].remote_id OBVIOUS
    <3>4. Proceeds BY <1>1, <1>4, <3>2, <3>3, WrittenAfter
    <3> QED BY <1>1, <3>4, ProceedsGoes
  <2> QED BY <2>1, <2>2
<1>5. UNCHANGED <<channels, session, write>> /\ pending' = [pending EXCEPT !.left = pending.left - Smaller(pending.left, Room(shells[pending.shell]))]
      => pending' = [pending EXCEPT !.left = pending'.left]
  BY <1>0 DEF IInv, TypeOK
<1> QED BY <1>1, <1>2, <1>3, <1>4, <1>5 DEF WritePty

-----------------------------------------------------------------------------
(* The world around the session. *)

\* A grace period ends: the terminal is late.
LEMMA LateAfter ==
  ASSUME Before, DeadlinePasses, UNCHANGED <<read, client, ran>>
  PROVE  Proceeds
<1>0. IInv /\ IInv' /\ ShellsMove /\ Typed /\ Placed /\ pending.out \in Seq(Fitting)
  BY DEF Before, Typed
<1>1. PICK id \in DOMAIN channels : channels' = Update(id, WithTerminal(channels[id], Late(channels[id].terminal)))
  BY DEF DeadlinePasses
<1>2. PICK c : c = channels[id].remote_id OBVIOUS
<1>3. Live(c) /\ Heard(c) /\ id \in Ids /\ Known(id) /\ channels[id] \in Channel /\ Own(id, c) /\ c \in RemoteIds
  BY <1>2, PollOwner
<1>4. UNCHANGED <<write, pending, session>> BY DEF DeadlinePasses
<1>5. PICK u : u = Late(channels[id].terminal) OBVIOUS
<1>6. u \in Terminals /\ u.state = channels[id].terminal.state /\ u.shell = channels[id].terminal.shell
  BY <1>3, <1>5 DEF Channel, Late, Terminals
<1>7. PICK e : e = WithTerminal(channels[id], u) OBVIOUS
<1>8. e \in Channel BY <1>3, <1>6, <1>7, ChannelOpsType
<1>9. /\ e.terminal = u /\ e.remote_id = c /\ e.send_window = channels[id].send_window
      /\ e.receive_window = channels[id].receive_window /\ e.close_sent = channels[id].close_sent
  BY <1>2, <1>3, <1>7, ChannelOpsFields
<1>10. PICK x : /\ Speaks(c, x) /\ x = <<>> /\ In(x) = {} /\ Bytes(x, "Data", c) = 0 /\ Bytes(x, "WindowAdjust", c) = 0
                /\ Replies(x, c) = 0
  BY <1>0, <1>4, SpeaksNothing
<1>11. Touch(id, x) /\ id \in DOMAIN channels' /\ channels'[id] = e
  BY <1>1, <1>2, <1>3, <1>4, <1>5, <1>7, <1>8, <1>9, <1>10, TouchUpdate
<1>12. SameTerminal(id) BY <1>6, <1>9, <1>11 DEF SameTerminal, St
<1>13. Asking(c)' BY <1>0, <1>2, <1>3, <1>11, <1>12, OwnerAsking DEF Live, SameTerminal
<1>14. Counted(c)' /\ Affords(c)'
  <2>1. channels'[id].receive_window = channels[id].receive_window /\ channels'[id].send_window = channels[id].send_window
    BY <1>9, <1>11
  <2>2. channels[id].send_window \in Nat /\ channels[id].receive_window \in Nat
    BY <1>3, ChannelsAssumption DEF Channel
  <2>3. Coming(read, "ChannelData", id) \in Nat /\ Coming(read, "ChannelWindowAdjust", id) \in Nat /\ Requests(read, id) \in Nat
    BY <1>0, ComingFacts, RequestsFacts DEF Typed
  <2>4. Bytes(pending.out, "WindowAdjust", c) \in Nat BY <1>0, BytesFacts
  <2>5. read' = read /\ pending' = pending BY <1>4
  <2>6. channels'[id].receive_window + Bytes(pending.out, "WindowAdjust", c) + Coming(read, "ChannelData", id)
          = channels[id].receive_window + Bytes(x, "WindowAdjust", c) + Bytes(pending'.out, "WindowAdjust", c)
              + Coming(read', "ChannelData", id)
    BY <1>10, <2>1, <2>2, <2>3, <2>4, <2>5
  <2>7. channels'[id].send_window + Bytes(x, "Data", c) + Coming(read', "ChannelWindowAdjust", id)
          = channels[id].send_window + Coming(read, "ChannelWindowAdjust", id)
    BY <1>10, <2>1, <2>2, <2>3, <2>5
  <2>8. Requests(read, id) = Replies(x, c) + Requests(read', id) BY <1>10, <2>3, <2>5
  <2>9. St(id)' \in {"None", "Requested"} =>
          St(id) \in {"None", "Requested"} /\ (client[c].early \/ channels'[id].receive_window = 0)
    BY <1>3, <1>12, <2>1 DEF Live, Counted, CountedAt, SameTerminal
  <2> QED BY <1>0, <1>2, <1>3, <1>4, <1>11, <2>6, <2>7, <2>8, <2>9, OwnerCounted DEF Live
<1>15. ~Has(x, To(c, {"Data"})) BY <1>10 DEF Has
<1>16. channels'[id].close_sent = channels[id].close_sent BY <1>9, <1>11
<1>17. After BY <1>2, <1>10, <1>11, <1>12, <1>13, <1>14, <1>15, <1>16, TalkAfter
<1> QED BY <1>0, <1>4, <1>10, <1>17, SpeaksSaid DEF Proceeds

\* Shells, deadlines and the loss of the connection.
LEMMA WorldAfter ==
  ASSUME Before, Exchanges, Running, World
  PROVE  Goes \/ Fails
<1>1. UNCHANGED read /\ UNCHANGED <<client, ckx, ran>> BY DEF World, clientVars
<1>2. CASE DeadlinePasses /\ UNCHANGED kxVars
  <2>1. Proceeds BY <1>1, <1>2, LateAfter
  <2> QED BY <1>1, <1>2, <2>1, ProceedsGoes DEF kxVars
<1>3. CASE ShellSteps /\ UNCHANGED kxVars
  <2>1. UNCHANGED <<channels, write, pending, session>> BY <1>3 DEF ShellSteps
  <2> QED BY <1>1, <1>3, <2>1, StillAfter DEF kxVars
<1>4. CASE ConnectionLost BY <1>1, <1>4 DEF ConnectionLost, Ends, Fails
<1> QED BY <1>2, <1>3, <1>4 DEF World, Environment

-----------------------------------------------------------------------------
(* The client sends. *)

Puts(m) == m \in Sendable /\ read' = Append(read, m) /\ UNCHANGED <<sessionVars, ran>>

\* The queue with one message more.
LEMMA PutFacts ==
  ASSUME Typed, NEW m, Puts(m)
  PROVE  /\ read \in Seq(Sendable) /\ read' = read \o <<m>> /\ read' \in Seq(Sendable) /\ In(read') = In(read) \cup {m}
         /\ \A S : Has(read', S) <=> Has(read, S) \/ m \in S
         /\ \A S, T : NoneAfter(read, S, T) /\ (Has(read, S) => m \notin T) => NoneAfter(read', S, T)
         /\ UNCHANGED <<shells, next_id, channels, write, pending, session, credit, kx, post_quantum_kx, ran>>
<1>1. m \in Sendable /\ read \in Seq(Sendable) /\ <<m>> \in Seq(Sendable) BY DEF Puts, Typed
<1>2. read' = read \o <<m>> /\ read' \in Seq(Sendable)
  <2>1. read' = Append(read, m) BY DEF Puts
  <2> QED BY <1>1, <2>1, ConcatOne
<1>3. In(<<m>>) = {m} BY <1>1, InOne
<1>4. In(read \o <<m>>) = In(read) \cup In(<<m>>) BY <1>1, InConcat
<1>5. In(read') = In(read) \cup {m} BY <1>2, <1>3, <1>4, Zenon
<1>6. \A S, T : NoneAfter(read, S, T) /\ (Has(read, S) => m \notin T) => NoneAfter(read', S, T)
  <2> TAKE S, T
  <2> HAVE NoneAfter(read, S, T) /\ (Has(read, S) => m \notin T)
  <2>1. NoneAfter(<<m>>, S, T) BY AfterOne
  <2>2. Has(read, S) => ~Has(<<m>>, T) BY <1>3 DEF Has
  <2>3. NoneAfter(read \o <<m>>, S, T) BY <1>1, <2>1, <2>2, AfterConcat
  <2> QED BY <1>2, <2>3, Zenon
<1>7. UNCHANGED <<shells, next_id, channels, write, pending, session, credit, kx, post_quantum_kx, ran>>
  BY DEF Puts, sessionVars, vars, kxVars
<1> QED BY <1>1, <1>2, <1>5, <1>6, <1>7 DEF Has

\* What is not for id or does not open c changes nothing for it.
LEMMA PutSame ==
  ASSUME Typed, NEW m, Puts(m)
  PROVE  /\ \A id : m \notin For(id) => SameFor(id)
         /\ \A c : m \notin Opens(c) => SameIn(read, read', Opens(c))
<1>1. read \in Seq(Sendable) /\ m \in Sendable /\ read' = read \o <<m>> /\ <<m>> \in Seq(Sendable)
  BY PutFacts DEF Puts
<1>2. In(<<m>>) = {m} BY <1>1, InOne
<1>3. \A q, z \in Seq(Sendable) : \A A : (\A y \in In(z) : y \notin A) => SameIn(q, q \o z, A)
  BY SameConcat
<1>4. \A A : m \notin A => SameIn(read, read', A)
  <2>1. \A A : m \notin A => SameIn(read, read \o <<m>>, A) BY <1>1, <1>2, <1>3
  <2> QED BY <1>1, <2>1, Zenon
<1>5. ASSUME NEW id, m \notin For(id) PROVE SameFor(id)
  <2>1. /\ Coming(read \o <<m>>, "ChannelData", id) = Coming(read, "ChannelData", id) + Carries(m, "ChannelData", id)
        /\ Coming(read \o <<m>>, "ChannelWindowAdjust", id)
             = Coming(read, "ChannelWindowAdjust", id) + Carries(m, "ChannelWindowAdjust", id)
        /\ Coming(read, "ChannelData", id) \in Nat /\ Coming(read, "ChannelWindowAdjust", id) \in Nat
    BY <1>1, ComingFacts
  <2>2. Requests(read \o <<m>>, id) = Requests(read, id) + IsRequest(m, id) /\ Requests(read, id) \in Nat
    BY <1>1, RequestsFacts
  <2>3. Carries(m, "ChannelData", id) = 0 /\ Carries(m, "ChannelWindowAdjust", id) = 0 /\ IsRequest(m, id) = 0
    BY <1>1, <1>5 DEF For, HandledTypes, ChannelTypes, Carries, IsRequest
  <2>4. /\ Coming(read \o <<m>>, "ChannelData", id) = Coming(read, "ChannelData", id)
        /\ Coming(read \o <<m>>, "ChannelWindowAdjust", id) = Coming(read, "ChannelWindowAdjust", id)
        /\ Requests(read \o <<m>>, id) = Requests(read, id)
    BY <2>1, <2>2, <2>3
  <2>5. /\ Coming(read', "ChannelData", id) = Coming(read, "ChannelData", id)
        /\ Coming(read', "ChannelWindowAdjust", id) = Coming(read, "ChannelWindowAdjust", id)
        /\ Requests(read', id) = Requests(read, id)
    BY <1>1, <2>4, Zenon
  <2> QED BY <1>4, <1>5, <2>5 DEF SameFor
<1> QED BY <1>4, <1>5

\* A channel of the client's that the message is not about.
LEMMA PutOthers ==
  ASSUME Before, NEW m, Puts(m), NEW e \in RemoteIds, client'[e] = client[e],
         \A id \in Ids : Own(id, e) => m \notin For(id), m \notin Opens(e)
  PROVE  Live(e)' /\ Heard(e)'
<1>1. IInv /\ ShellsMove /\ Typed /\ Live(e) /\ Heard(e) BY DEF Before
<1>2. UNCHANGED <<channels, write, pending, ran>> BY <1>1, PutFacts
<1>3. SameTo(e) BY <1>2, QuietSame
<1>4. Untouched(e) BY <1>1, <1>2, <1>3, PutSame DEF Untouched, Own, Known
<1> QED BY <1>1, <1>4, UntouchedStays

\* A message outside the channels.
LEMMA PutLoopAfter ==
  ASSUME Before, NEW m, Puts(m), m.type \notin ChannelTypes, UNCHANGED client
  PROVE  After
<1>1. Typed /\ Placed BY DEF Before
<1>2. In(read') = In(read) \cup {m} /\ UNCHANGED channels BY <1>1, PutFacts
<1>3. Placed' BY <1>1, <1>2 DEF Placed, Known, HandledTypes
<1>4. (\A id : m \notin For(id)) /\ \A c : m \notin Opens(c)
  BY DEF For, HandledTypes, Opens, ChannelTypes
<1>5. ASSUME NEW e \in RemoteIds PROVE Live(e)' /\ Heard(e)' BY <1>4, PutOthers
<1> QED BY <1>3, <1>5 DEF After

\* A message about an open channel; d is what the client knows of it then.
Tells(c, m, p, d) ==
  /\ c \in RemoteIds /\ Usable(c) /\ p = client[c].peer /\ m \in For(p) /\ Puts(m)
  /\ d \in ClientChannel /\ client' = [client EXCEPT ![c] = d]
  /\ d.phase = "open" /\ d.peer = p
  /\ d.geof = client[c].geof /\ d.gclosed = client[c].gclosed /\ d.status = client[c].status
  /\ m \in Closes(p) => d.closed
  /\ client[c].early \/ (m \in Datas(p) /\ ~client[c].shell) => d.early

\* What is known of the channel.
LEMMA TellsNow ==
  ASSUME Before, NEW c, NEW m, NEW p, NEW d, Tells(c, m, p, d)
  PROVE  /\ c \in RemoteIds /\ p \in Ids /\ Own(p, c) /\ (\A id \in Ids : Own(id, c) => id = p) /\ p \in DOMAIN channels
         /\ client[c] \in ClientChannel /\ client'[c] = d /\ \A e \in RemoteIds : e /= c => client'[e] = client[e]
         /\ client[c].phase = "open" /\ ~client[c].closed /\ d \in ClientChannel
         /\ \A id \in Ids : Own(id, c)' <=> Own(id, c)
         /\ ~Has(read, Closes(p)) /\ St(p) /= "Reaping" /\ ~Has(read, Opens(c)) /\ ~Has(write, To(c, OpenedTypes))
<1>1. Typed /\ c \in RemoteIds BY DEF Before, Tells
<1>2. Live(c) BY <1>1 DEF Before
<1>3. client \in [RemoteIds -> ClientChannel] BY <1>1 DEF Typed
<1>4. client[c] \in ClientChannel /\ client'[c] = d /\ \A e \in RemoteIds : e /= c => client'[e] = client[e]
  BY <1>1, <1>3 DEF Tells
<1>5. client[c].phase = "open" /\ ~client[c].closed /\ p = client[c].peer /\ d \in ClientChannel
  BY DEF Tells, Usable
<1>6. p \in Ids BY <1>4, <1>5 DEF ClientChannel
<1>7. Own(p, c) /\ \A id \in Ids : Own(id, c) => id = p BY <1>2, <1>5 DEF Live, Life
<1>8. UNCHANGED channels BY <1>1, PutFacts DEF Tells
<1>9. \A id \in Ids : Own(id, c)' <=> Own(id, c) BY <1>8 DEF Own, Known
<1>10. ~Has(read, Closes(p)) /\ St(p) /= "Reaping" BY <1>2, <1>5, <1>6, <1>7 DEF Live, Coherent
<1>11. ~Has(read, Opens(c)) /\ ~Has(write, To(c, OpenedTypes)) BY <1>2, <1>5 DEF Live, Life
<1> QED BY <1>1, <1>4, <1>5, <1>6, <1>7, <1>9, <1>10, <1>11 DEF Own, Known

\* The life of c, and what it has on its way, after it has sent a message.
LEMMA TellsLife ==
  ASSUME Before, NEW c, NEW m, NEW p, NEW d, Tells(c, m, p, d), d.shell => d.pty
  PROVE  Life(c)' /\ Coherent(c)'
<1>0. Typed /\ Puts(m) /\ m \in For(p) BY DEF Before, Tells
<1>1. /\ c \in RemoteIds /\ p \in Ids /\ Own(p, c) /\ (\A id \in Ids : Own(id, c) => id = p)
      /\ client'[c] = d /\ (\A id \in Ids : Own(id, c)' <=> Own(id, c))
      /\ ~Has(read, Closes(p)) /\ St(p) /= "Reaping" /\ ~Has(read, Opens(c)) /\ ~Has(write, To(c, OpenedTypes))
  BY TellsNow
<1>2. Live(c) BY <1>1 DEF Before
<1>3. UNCHANGED <<channels, write>> /\ \A S : Has(read', S) <=> Has(read, S) \/ m \in S
  BY <1>0, PutFacts
<1>4. d.phase = "open" /\ d.peer = p /\ (m \in Closes(p) => d.closed) BY DEF Tells
<1>5. ~Has(read', Opens(c)) BY <1>0, <1>1, <1>3 DEF Opens, For, HandledTypes
<1>6. ~Has(write', To(c, OpenedTypes)) BY <1>1, <1>3
<1>7. ~Has(write', To(c, {"OpenConfirmation"})) /\ ~Has(write', To(c, {"OpenFailure"}))
  BY <1>6 DEF Has, To, OpenedTypes
<1>8. NoneAfter(read', Opens(c), Opens(c)) /\ NoneAfter(write', To(c, OpenedTypes), To(c, OpenedTypes))
  BY <1>5, <1>6 DEF NoneAfter, Has, In
<1>9. (\A y \in In(read') : y \notin Opens(c)) /\ (\A y \in In(write') : y \notin To(c, {"OpenConfirmation"}))
  BY <1>5, <1>7 DEF Has
<1>10. Own(p, c)' /\ \A id \in Ids : Own(id, c)' => id = p BY <1>1
<1>11. Life(c)' BY <1>1, <1>4, <1>5, <1>6, <1>7, <1>8, <1>9, <1>10 DEF Life
<1>12. Coherent(c)'
  <2> SUFFICES ASSUME NEW id \in Ids, Own(id, c)'
               PROVE  /\ Has(read', For(id)) => client'[c].phase = "open"
                      /\ NoneAfter(read', Closes(id), For(id))
                      /\ Has(read', Closes(id)) => client'[c].closed
                      /\ St(id)' = "Reaping" => client'[c].closed /\ ~Has(read', For(id))
    BY DEF Coherent
  <2>1. id = p BY <1>10
  <2>2. NoneAfter(read, Closes(p), For(p)) BY <1>1, <1>2 DEF Live, Coherent
  <2>3. NoneAfter(read', Closes(p), For(p)) BY <1>0, <1>1, <2>2, PutFacts
  <2>4. St(p)' /= "Reaping" BY <1>1, <1>3 DEF St
  <2> QED BY <1>1, <1>3, <1>4, <2>1, <2>3, <2>4
<1> QED BY <1>11, <1>12

\* A terminal is asked for, or a shell, or neither.
LEMMA TellsAsking ==
  ASSUME Before, NEW c, NEW m, NEW p, NEW d, Tells(c, m, p, d),
         \/ m \notin Ptys(p) /\ m \notin ShellAsks(p) /\ d.pty = client[c].pty /\ d.shell = client[c].shell
         \/ m \in Ptys(p) /\ ~client[c].pty /\ d.pty /\ d.shell = client[c].shell
         \/ m \in ShellAsks(p) /\ client[c].pty /\ ~client[c].shell /\ d.pty /\ d.shell
  PROVE  Asking(c)' /\ (d.shell => d.pty)
<1>0. Typed /\ Puts(m) BY DEF Before, Tells
<1>1. /\ c \in RemoteIds /\ p \in Ids /\ Own(p, c) /\ (\A id \in Ids : Own(id, c) => id = p)
      /\ client'[c] = d /\ (\A id \in Ids : Own(id, c)' <=> Own(id, c))
      /\ client[c] \in ClientChannel /\ d \in ClientChannel
  BY TellsNow
<1>2. Life(c) /\ Asking(c) BY <1>1 DEF Before, Live
<1>3. St(p)' = St(p) BY <1>0, PutFacts DEF St
<1>4. /\ \A S : Has(read', S) <=> Has(read, S) \/ m \in S
      /\ \A S, T : NoneAfter(read, S, T) /\ (Has(read, S) => m \notin T) => NoneAfter(read', S, T)
  BY <1>0, PutFacts
<1>5. /\ Has(read, Ptys(p)) => St(p) = "None" /\ client[c].pty
      /\ NoneAfter(read, Ptys(p), Ptys(p))
      /\ St(p) /= "None" => client[c].pty
      /\ St(p) \notin {"None", "Requested"} => client[c].shell
      /\ Has(read, ShellAsks(p)) => St(p) \in {"None", "Requested"} /\ client[c].shell
      /\ NoneAfter(read, ShellAsks(p), ShellAsks(p))
      /\ NoneAfter(read, ShellAsks(p), Ptys(p))
      /\ St(p) = "None" /\ client[c].pty => Has(read, Ptys(p))
      /\ client[c].shell /\ St(p) \in {"None", "Requested"} => Has(read, ShellAsks(p))
      /\ ~client[c].early /\ Has(read, Datas(p)) => client[c].shell
      /\ ~client[c].early => NoneAfter(read, Datas(p), ShellAsks(p))
  BY <1>1, <1>2 DEF Asking
<1>10. /\ ~d.early => ~client[c].early
       /\ ~d.early /\ m \in Datas(p) => client[c].shell
  BY DEF Tells
<1>6. client[c].shell => client[c].pty BY <1>2 DEF Life
<1>7. m \in Ptys(p) => m \notin ShellAsks(p) BY DEF Ptys, ShellAsks
<1>8. /\ Has(read', Ptys(p)) => St(p)' = "None" /\ d.pty
      /\ NoneAfter(read', Ptys(p), Ptys(p))
      /\ St(p)' /= "None" => d.pty
      /\ St(p)' \notin {"None", "Requested"} => d.shell
      /\ Has(read', ShellAsks(p)) => St(p)' \in {"None", "Requested"} /\ d.shell
      /\ NoneAfter(read', ShellAsks(p), ShellAsks(p))
      /\ NoneAfter(read', ShellAsks(p), Ptys(p))
      /\ St(p)' = "None" /\ d.pty => Has(read', Ptys(p))
      /\ d.shell /\ St(p)' \in {"None", "Requested"} => Has(read', ShellAsks(p))
      /\ ~d.early /\ Has(read', Datas(p)) => d.shell
      /\ ~d.early => NoneAfter(read', Datas(p), ShellAsks(p))
  <2>1. CASE m \notin Ptys(p) /\ m \notin ShellAsks(p) /\ d.pty = client[c].pty /\ d.shell = client[c].shell
    BY <1>3, <1>4, <1>5, <1>10, <2>1
  <2>2. CASE m \in Ptys(p) /\ ~client[c].pty /\ d.pty /\ d.shell = client[c].shell
    BY <1>3, <1>4, <1>5, <1>6, <1>7, <1>10, <2>2
  <2>3. CASE m \in ShellAsks(p) /\ client[c].pty /\ ~client[c].shell /\ d.pty /\ d.shell
    BY <1>3, <1>4, <1>5, <1>7, <1>10, <2>3
  <2> QED BY <2>1, <2>2, <2>3
<1>9. Asking(c)' BY <1>1, <1>8 DEF Asking
<1> QED BY <1>6, <1>9

\* What the client has heard does not change.
LEMMA TellsLinked ==
  ASSUME Before, NEW c, NEW m, NEW p, NEW d, Tells(c, m, p, d)
  PROVE  Linked(c)' /\ Ordered(c)'
<1>0. Typed /\ Puts(m) BY DEF Before, Tells
<1>1. /\ c \in RemoteIds /\ p \in Ids /\ Own(p, c) /\ (\A id \in Ids : Own(id, c) => id = p)
      /\ client'[c] = d /\ (\A id \in Ids : Own(id, c)' <=> Own(id, c)) /\ ~client[c].closed
  BY TellsNow
<1>2. Linked(c) /\ Ordered(c) BY <1>1 DEF Before, Live, Heard
<1>3. UNCHANGED <<channels, write, shells, ran>> BY <1>0, PutFacts
<1>4. d.geof = client[c].geof /\ d.gclosed = client[c].gclosed /\ d.status = client[c].status
  BY DEF Tells
<1>5. Told(c) => Told(c)' BY <1>1, <1>3, <1>4 DEF Told
<1>6. LinkedAt(p, c)'
  <2>1. LinkedAt(p, c) BY <1>1, <1>2 DEF Linked
  <2>2. St(p)' = St(p) /\ channels'[p] = channels[p] BY <1>3 DEF St
  <2> QED BY <1>1, <1>3, <1>4, <1>5, <2>1, <2>2 DEF LinkedAt
<1>7. Linked(c)' BY <1>1, <1>6 DEF Linked
<1>8. Ordered(c)' BY <1>1, <1>2, <1>3, <1>4, <1>5 DEF Ordered
<1> QED BY <1>7, <1>8

\* The client keeps count.
LEMMA TellsCounted ==
  ASSUME Before, NEW c, NEW m, NEW p, NEW d, Tells(c, m, p, d),
         d.credit + Carries(m, "ChannelData", p) = client[c].credit,
         d.window = client[c].window + Carries(m, "ChannelWindowAdjust", p),
         d.asked = client[c].asked + IsRequest(m, p)
  PROVE  Counted(c)' /\ Affords(c)'
<1>0. Typed /\ Puts(m) /\ m \in Sendable BY DEF Before, Tells, Puts
<1>1. /\ c \in RemoteIds /\ p \in Ids /\ Own(p, c) /\ (\A id \in Ids : Own(id, c) => id = p)
      /\ client'[c] = d /\ (\A id \in Ids : Own(id, c)' <=> Own(id, c)) /\ p \in DOMAIN channels
      /\ client[c] \in ClientChannel /\ d \in ClientChannel
  BY TellsNow
<1>2. CountedAt(p, c) /\ Affords(c) BY <1>1 DEF Before, Live, Heard, Counted
<1>3. UNCHANGED <<channels, write, pending>> /\ read' = read \o <<m>> /\ read \in Seq(Sendable)
  BY <1>0, PutFacts
<1>4. St(p)' = St(p) /\ channels'[p] = channels[p] BY <1>3 DEF St
<1> DEFINE a == Carries(m, "ChannelData", p)
           b == Carries(m, "ChannelWindowAdjust", p)
           r == IsRequest(m, p)
           ca == Coming(read, "ChannelData", p)
           cb == Coming(read, "ChannelWindowAdjust", p)
           cr == Requests(read, p)
           wa == Bytes(write, "WindowAdjust", c)
           pa == Bytes(pending.out, "WindowAdjust", c)
           wd == Bytes(write, "Data", c)
           wr == Replies(write, c)
<1>5. /\ Coming(read', "ChannelData", p) = ca + a /\ Coming(read', "ChannelWindowAdjust", p) = cb + b
      /\ Requests(read', p) = cr + r
  <2>1. /\ Coming(read \o <<m>>, "ChannelData", p) = ca + a /\ Coming(read \o <<m>>, "ChannelWindowAdjust", p) = cb + b
        /\ Requests(read \o <<m>>, p) = cr + r
    BY <1>0, <1>3, ComingFacts, RequestsFacts
  <2> QED BY <1>3, <2>1, Zenon
<1>6. a \in Nat /\ b \in Nat /\ r \in Nat /\ ca \in Nat /\ cb \in Nat /\ cr \in Nat
  <2>1. a \in Nat /\ b \in Nat /\ ca \in Nat /\ cb \in Nat BY <1>0, <1>3, ComingFacts
  <2>2. r \in Nat /\ cr \in Nat BY <1>3, RequestsFacts DEF IsRequest
  <2> QED BY <2>1, <2>2
<1>7. wa \in Nat /\ pa \in Nat /\ wd \in Nat /\ wr \in Nat
  <2>1. write \in Seq(Fitting) /\ pending.out \in Seq(Fitting) BY <1>0 DEF Typed
  <2> QED BY <2>1, BytesFacts, RepliesFacts
<1>8. /\ channels[p].receive_window <= client[c].credit + wa + pa + ca
      /\ client[c].credit + wa + pa + ca <= channels[p].receive_window + INITIAL_WINDOW_SIZE
      /\ ~client[c].early \/ St(p) \in {"None", "Requested"} =>
           client[c].credit + wa + pa + ca = channels[p].receive_window
      /\ channels[p].send_window + wd + cb = client[c].window
      /\ client[c].asked = wr + cr
      /\ St(p) \in {"None", "Requested"} => client[c].early \/ channels[p].receive_window = 0
      /\ wd <= client[c].window /\ wr <= client[c].asked
  BY <1>2 DEF CountedAt, Granted, Affords
<1>9. /\ Bytes(write', "WindowAdjust", c) = wa /\ Bytes(pending'.out, "WindowAdjust", c) = pa
      /\ Bytes(write', "Data", c) = wd /\ Replies(write', c) = wr
  BY <1>3
<1>10. /\ client[c].credit \in Nat /\ client[c].window \in Nat /\ client[c].asked \in Nat
       /\ d.credit \in Nat /\ d.window \in Nat /\ d.asked \in Nat
  <2>1. 0..ClientWindow \subseteq Nat BY ConnectionAssumption
  <2> QED BY <1>1, <2>1 DEF ClientChannel
<1>11. channels[p].send_window \in Nat /\ channels[p].receive_window \in Nat
  <2>1. channels[p] \in Channel BY <1>1 DEF Before, IInv, TypeOK
  <2> QED BY <2>1, ChannelsAssumption DEF Channel
<1>12. d.credit + a = client[c].credit /\ d.window = client[c].window + b /\ d.asked = client[c].asked + r OBVIOUS
<1> HIDE DEF a, b, r, ca, cb, cr, wa, pa, wd, wr
<1>13. d.credit + wa + pa + (ca + a) = client[c].credit + wa + pa + ca BY <1>6, <1>7, <1>10, <1>12
<1>20. client[c].early => d.early BY DEF Tells
<1>21. Granted(p, c)' = client[c].credit + wa + pa + ca BY <1>1, <1>5, <1>9, <1>13 DEF Granted
<1>14. channels[p].send_window + wd + (cb + b) = d.window BY <1>6, <1>7, <1>8, <1>10, <1>11, <1>12
<1>15. d.asked = wr + (cr + r) BY <1>6, <1>7, <1>8, <1>10, <1>12
<1>16. wd <= d.window /\ wr <= d.asked BY <1>6, <1>7, <1>8, <1>10, <1>12
<1>17. CountedAt(p, c)' BY <1>1, <1>4, <1>5, <1>8, <1>9, <1>14, <1>15, <1>20, <1>21 DEF CountedAt
<1>18. Counted(c)' BY <1>1, <1>17 DEF Counted
<1>19. Affords(c)' BY <1>1, <1>9, <1>16 DEF Affords
<1> QED BY <1>18, <1>19

\* All of it, if the message balances the counts and asks in turn.
LEMMA TellsAfter ==
  ASSUME Before, NEW c, NEW m, NEW p, NEW d, Tells(c, m, p, d),
         d.credit + Carries(m, "ChannelData", p) = client[c].credit,
         d.window = client[c].window + Carries(m, "ChannelWindowAdjust", p),
         d.asked = client[c].asked + IsRequest(m, p),
         \/ m \notin Ptys(p) /\ m \notin ShellAsks(p) /\ d.pty = client[c].pty /\ d.shell = client[c].shell
         \/ m \in Ptys(p) /\ ~client[c].pty /\ d.pty /\ d.shell = client[c].shell
         \/ m \in ShellAsks(p) /\ client[c].pty /\ ~client[c].shell /\ d.pty /\ d.shell
  PROVE  After /\ client' \in [RemoteIds -> ClientChannel]
<1>0. Typed /\ Placed /\ Puts(m) /\ m \in For(p) BY DEF Before, Tells
<1>1. /\ c \in RemoteIds /\ p \in Ids /\ Own(p, c) /\ (\A id \in Ids : Own(id, c) => id = p)
      /\ (\A e \in RemoteIds : e /= c => client'[e] = client[e]) /\ d \in ClientChannel /\ p \in DOMAIN channels
  BY TellsNow
<1>2. Asking(c)' /\ (d.shell => d.pty) BY TellsAsking
<1>3. Life(c)' /\ Coherent(c)' BY <1>2, TellsLife
<1>4. Linked(c)' /\ Ordered(c)' BY TellsLinked
<1>5. Counted(c)' /\ Affords(c)' BY TellsCounted
<1>6. Placed'
  <2>1. In(read') = In(read) \cup {m} /\ UNCHANGED channels BY <1>0, PutFacts
  <2>2. m.to = p BY <1>0 DEF For
  <2> QED BY <1>0, <1>1, <2>1, <2>2 DEF Placed, Known
<1>7. ASSUME NEW e \in RemoteIds, e /= c PROVE Live(e)' /\ Heard(e)'
  <2>1. \A id \in Ids : Own(id, e) => m \notin For(id) BY <1>0, <1>1, <1>7 DEF Own, For
  <2>2. m \notin Opens(e) BY <1>0 DEF For, Opens, HandledTypes
  <2>3. client'[e] = client[e] BY <1>1, <1>7
  <2> QED BY <1>0, <2>1, <2>2, <2>3, PutOthers
<1>8. client' \in [RemoteIds -> ClientChannel] BY <1>0, <1>1 DEF Tells, Typed
<1> QED BY <1>2, <1>3, <1>4, <1>5, <1>6, <1>7, <1>8 DEF After, Live, Heard

\* The messages of the client.
LEMMA RequestFits ==
  ASSUME NEW p \in Ids, NEW r \in {"pty-req", "shell", "env", "window-change", "other"}, NEW m,
         m = [type |-> "ChannelRequest", to |-> p, request |-> r, want_reply |-> TRUE]
  PROVE  /\ m \in Sendable /\ m \in For(p) /\ m \notin Closes(p) /\ m \notin Exchange
         /\ m \in Ptys(p) <=> r = "pty-req"
         /\ m \in ShellAsks(p) <=> r = "shell"
         /\ m \notin Datas(p)
         /\ Carries(m, "ChannelData", p) = 0 /\ Carries(m, "ChannelWindowAdjust", p) = 0 /\ IsRequest(m, p) = 1
<1>1. m.type = "ChannelRequest" /\ m.to = p /\ m.request = r /\ m.want_reply OBVIOUS
<1>2. m \in ChannelRequest BY DEF ChannelRequest, RequestTypes
<1>3. m \in Sendable BY <1>1, <1>2 DEF Sendable, PeerPackets, ChannelTypes
<1>4. m \in For(p) BY <1>1, <1>3 DEF For, HandledTypes, ChannelTypes
<1> QED BY <1>1, <1>3, <1>4 DEF Closes, Exchange, Ptys, ShellAsks, Datas, Carries, IsRequest

\* Data, as the client sends it.
LEMMA DataFits ==
  ASSUME NEW p \in Ids, NEW n \in Sizes, NEW m, m = [type |-> "ChannelData", to |-> p, n |-> n]
  PROVE  /\ m \in Sendable /\ m \in For(p) /\ m \notin Closes(p) /\ m \notin Exchange
         /\ m \notin Ptys(p) /\ m \notin ShellAsks(p)
         /\ Carries(m, "ChannelData", p) = n /\ Carries(m, "ChannelWindowAdjust", p) = 0 /\ IsRequest(m, p) = 0
<1>1. m.type = "ChannelData" /\ m.to = p /\ m.n = n OBVIOUS
<1>2. m \in ChannelData BY DEF ChannelData
<1>3. m \in Sendable BY <1>1, <1>2 DEF Sendable, PeerPackets, ChannelTypes
<1>4. m \in For(p) BY <1>1, <1>3 DEF For, HandledTypes, ChannelTypes
<1> QED BY <1>1, <1>3, <1>4 DEF Closes, Exchange, Ptys, ShellAsks, Datas, Carries, IsRequest

\* A window adjustment, as the client sends it.
LEMMA AdjustFits ==
  ASSUME NEW p \in Ids, NEW n \in Sizes, NEW m, m = [type |-> "ChannelWindowAdjust", to |-> p, n |-> n]
  PROVE  /\ m \in Sendable /\ m \in For(p) /\ m \notin Closes(p) /\ m \notin Exchange
         /\ m \notin Ptys(p) /\ m \notin ShellAsks(p) /\ m \notin Datas(p)
         /\ Carries(m, "ChannelData", p) = 0 /\ Carries(m, "ChannelWindowAdjust", p) = n /\ IsRequest(m, p) = 0
<1>1. m.type = "ChannelWindowAdjust" /\ m.to = p /\ m.n = n OBVIOUS
<1>2. m \in ChannelWindowAdjust BY DEF ChannelWindowAdjust
<1>3. m \in Sendable BY <1>1, <1>2 DEF Sendable, PeerPackets, ChannelTypes
<1>4. m \in For(p) BY <1>1, <1>3 DEF For, HandledTypes, ChannelTypes
<1> QED BY <1>1, <1>3, <1>4 DEF Closes, Exchange, Ptys, ShellAsks, Datas, Carries, IsRequest

\* An end of input or a close, as the client sends it.
LEMMA EndFits ==
  ASSUME NEW p \in Ids, NEW t \in {"ChannelEof", "ChannelClose"}, NEW m, m = [type |-> t, to |-> p]
  PROVE  /\ m \in Sendable /\ m \in For(p) /\ (m \in Closes(p) => t = "ChannelClose") /\ m \notin Exchange
         /\ m \notin Ptys(p) /\ m \notin ShellAsks(p) /\ m \notin Datas(p)
         /\ Carries(m, "ChannelData", p) = 0 /\ Carries(m, "ChannelWindowAdjust", p) = 0 /\ IsRequest(m, p) = 0
<1>1. m.type = t /\ m.to = p OBVIOUS
<1>2. m \in ChannelEof \cup ChannelClose BY DEF ChannelEof, ChannelClose
<1>3. m \in Sendable BY <1>1, <1>2 DEF Sendable, PeerPackets, ChannelTypes
<1>4. m \in For(p) BY <1>1, <1>3 DEF For, HandledTypes, ChannelTypes
<1> QED BY <1>1, <1>3, <1>4 DEF Closes, Exchange, Ptys, ShellAsks, Datas, Carries, IsRequest

\* What the client notes has the type of its notes.
LEMMA ClientOps ==
  ASSUME NEW k \in ClientChannel, NEW n \in Nat
  PROVE  /\ [k EXCEPT !.pty = TRUE, !.asked = n] \in ClientChannel
         /\ [k EXCEPT !.shell = TRUE, !.asked = n] \in ClientChannel
         /\ [k EXCEPT !.asked = n] \in ClientChannel
         /\ [k EXCEPT !.credit = n] \in ClientChannel
         /\ \A b \in BOOLEAN : [k EXCEPT !.credit = n, !.early = b] \in ClientChannel
         /\ [k EXCEPT !.eof = TRUE] \in ClientChannel
         /\ [k EXCEPT !.closed = TRUE] \in ClientChannel
         /\ [k EXCEPT !.geof = TRUE] \in ClientChannel
         /\ [k EXCEPT !.gclosed = TRUE] \in ClientChannel
         /\ \A w \in 0..ClientWindow : [k EXCEPT !.window = w] \in ClientChannel
         /\ \A w \in 0..ClientWindow : [k EXCEPT !.phase = "opening", !.window = w] \in ClientChannel
         /\ \A p \in Ids : [k EXCEPT !.phase = "open", !.peer = p] \in ClientChannel
         /\ [k EXCEPT !.phase = "refused"] \in ClientChannel
         /\ \A s \in ExitCodes : [k EXCEPT !.status = s] \in ClientChannel
<1>1. [k EXCEPT !.pty = TRUE, !.asked = n] \in ClientChannel BY DEF ClientChannel
<1>2. [k EXCEPT !.shell = TRUE, !.asked = n] \in ClientChannel BY DEF ClientChannel
<1>3. [k EXCEPT !.asked = n] \in ClientChannel /\ [k EXCEPT !.credit = n] \in ClientChannel
  BY DEF ClientChannel
<1>4. [k EXCEPT !.eof = TRUE] \in ClientChannel BY DEF ClientChannel
<1>5. [k EXCEPT !.closed = TRUE] \in ClientChannel BY DEF ClientChannel
<1>6. [k EXCEPT !.geof = TRUE] \in ClientChannel BY DEF ClientChannel
<1>7. [k EXCEPT !.gclosed = TRUE] \in ClientChannel BY DEF ClientChannel
<1>8. \A w \in 0..ClientWindow : [k EXCEPT !.window = w] \in ClientChannel BY DEF ClientChannel
<1>9. \A w \in 0..ClientWindow : [k EXCEPT !.phase = "opening", !.window = w] \in ClientChannel
  BY DEF ClientChannel
<1>10. \A p \in Ids : [k EXCEPT !.phase = "open", !.peer = p] \in ClientChannel BY DEF ClientChannel
<1>11. [k EXCEPT !.phase = "refused"] \in ClientChannel BY DEF ClientChannel
<1>12. \A s \in ExitCodes : [k EXCEPT !.status = s] \in ClientChannel BY DEF ClientChannel
<1>13. \A b \in BOOLEAN : [k EXCEPT !.credit = n, !.early = b] \in ClientChannel BY DEF ClientChannel
<1> QED BY <1>1, <1>2, <1>3, <1>4, <1>5, <1>6, <1>7, <1>8, <1>9, <1>10, <1>11, <1>12, <1>13

\* What a message of an open channel leaves.
Sends == After /\ client' \in [RemoteIds -> ClientChannel] /\ \E m : Puts(m) /\ m \notin Exchange

\* The client's side of an open channel.
LEMMA UsableNow ==
  ASSUME Before, NEW c \in RemoteIds, Usable(c)
  PROVE  /\ client[c] \in ClientChannel /\ client[c].peer \in Ids /\ client[c].phase = "open" /\ ~client[c].closed
         /\ client[c].credit \in Nat /\ client[c].window \in 0..ClientWindow /\ client[c].window \in Nat /\ client[c].asked \in Nat
         /\ client \in [RemoteIds -> ClientChannel]
<1>1. client \in [RemoteIds -> ClientChannel] BY DEF Before, Typed
<1>2. client[c] \in ClientChannel BY <1>1
<1>3. 0..ClientWindow \subseteq Nat BY ConnectionAssumption
<1> QED BY <1>1, <1>2, <1>3 DEF ClientChannel, Usable

\* Puts, from Put.
LEMMA PutPuts ==
  ASSUME NEW m \in Sendable, Put(m)
  PROVE  Puts(m)
BY DEF Put, Puts

\* The client sends a request.
LEMMA AskAfter ==
  ASSUME Before, NEW c \in RemoteIds, Usable(c), NEW r \in {"pty-req", "shell", "env", "window-change", "other"},
         Put(Request(c, r)), NEW d, client' = [client EXCEPT ![c] = d],
         \/ r = "pty-req" /\ ~client[c].pty /\ d = [client[c] EXCEPT !.pty = TRUE, !.asked = @ + 1]
         \/ r = "shell" /\ client[c].pty /\ ~client[c].shell /\ d = [client[c] EXCEPT !.shell = TRUE, !.asked = @ + 1]
         \/ r \in {"env", "window-change", "other"} /\ d = [client[c] EXCEPT !.asked = @ + 1]
  PROVE  Sends
<1>1. /\ client[c] \in ClientChannel /\ client[c].peer \in Ids /\ client[c].phase = "open" /\ ~client[c].closed
      /\ client[c].credit \in Nat /\ client[c].window \in Nat /\ client[c].asked \in Nat
  BY UsableNow
<1>2. PICK p : p = client[c].peer OBVIOUS
<1>3. PICK m : m = Request(c, r) OBVIOUS
<1>4. m = [type |-> "ChannelRequest", to |-> p, request |-> r, want_reply |-> TRUE] /\ p \in Ids
  BY <1>1, <1>2, <1>3 DEF Request
<1>5. /\ m \in Sendable /\ m \in For(p) /\ m \notin Closes(p) /\ m \notin Exchange
      /\ (m \in Ptys(p) <=> r = "pty-req") /\ (m \in ShellAsks(p) <=> r = "shell") /\ m \notin Datas(p)
      /\ Carries(m, "ChannelData", p) = 0 /\ Carries(m, "ChannelWindowAdjust", p) = 0 /\ IsRequest(m, p) = 1
  BY <1>4, RequestFits
<1>6. Puts(m) BY <1>3, <1>5, PutPuts
<1>7. /\ d \in ClientChannel /\ d.phase = "open" /\ d.peer = p /\ d.geof = client[c].geof /\ d.gclosed = client[c].gclosed
      /\ d.status = client[c].status /\ d.credit = client[c].credit /\ d.window = client[c].window
      /\ d.asked = client[c].asked + 1 /\ d.early = client[c].early
      /\ r = "pty-req" => ~client[c].pty /\ d.pty /\ d.shell = client[c].shell
      /\ r = "shell" => client[c].pty /\ ~client[c].shell /\ d.pty /\ d.shell
      /\ r \notin {"pty-req", "shell"} => d.pty = client[c].pty /\ d.shell = client[c].shell
  <2>0. PICK n \in Nat : n = client[c].asked + 1 BY <1>1
  <2>1. CASE r = "pty-req" /\ ~client[c].pty /\ d = [client[c] EXCEPT !.pty = TRUE, !.asked = client[c].asked + 1]
    <3>1. d \in ClientChannel BY <1>1, <2>0, <2>1, ClientOps, Zenon
    <3> QED BY <1>1, <1>2, <2>1, <3>1 DEF ClientChannel
  <2>2. CASE r = "shell" /\ client[c].pty /\ ~client[c].shell /\ d = [client[c] EXCEPT !.shell = TRUE, !.asked = client[c].asked + 1]
    <3>1. d \in ClientChannel BY <1>1, <2>0, <2>2, ClientOps, Zenon
    <3> QED BY <1>1, <1>2, <2>2, <3>1 DEF ClientChannel
  <2>3. CASE r \in {"env", "window-change", "other"} /\ d = [client[c] EXCEPT !.asked = client[c].asked + 1]
    <3>1. d \in ClientChannel BY <1>1, <2>0, <2>3, ClientOps, Zenon
    <3> QED BY <1>1, <1>2, <2>3, <3>1 DEF ClientChannel
  <2> QED BY <2>1, <2>2, <2>3
<1>8. Tells(c, m, p, d) BY <1>2, <1>5, <1>6, <1>7 DEF Tells
<1>9. /\ d.credit + Carries(m, "ChannelData", p) = client[c].credit
      /\ d.window = client[c].window + Carries(m, "ChannelWindowAdjust", p)
      /\ d.asked = client[c].asked + IsRequest(m, p)
  BY <1>1, <1>5, <1>7
<1>10. After /\ client' \in [RemoteIds -> ClientChannel] BY <1>5, <1>7, <1>8, <1>9, TellsAfter
<1> QED BY <1>5, <1>6, <1>10 DEF Sends

\* Data, an end of data, a close, a window that is filled up again.
LEMMA TellAfter ==
  ASSUME Before, NEW c \in RemoteIds, Usable(c), NEW m, Put(m), NEW p, p = client[c].peer, NEW d, d \in ClientChannel,
         m \in Sendable, m \in For(p), m \notin Exchange, m \notin Ptys(p), m \notin ShellAsks(p), IsRequest(m, p) = 0,
         client' = [client EXCEPT ![c] = d], m \in Closes(p) => d.closed,
         d.phase = client[c].phase, d.peer = client[c].peer, d.asked = client[c].asked, d.pty = client[c].pty,
         d.shell = client[c].shell, d.geof = client[c].geof, d.gclosed = client[c].gclosed, d.status = client[c].status,
         client[c].early \/ (m \in Datas(p) /\ ~client[c].shell) => d.early,
         d.credit + Carries(m, "ChannelData", p) = client[c].credit,
         d.window = client[c].window + Carries(m, "ChannelWindowAdjust", p)
  PROVE  Sends
<1>1. client[c].phase = "open" /\ client[c].asked \in Nat BY UsableNow
<1>2. Puts(m) BY PutPuts
<1>3. Tells(c, m, p, d) BY <1>1, <1>2 DEF Tells
<1>4. d.asked = client[c].asked + IsRequest(m, p) BY <1>1
<1>5. After /\ client' \in [RemoteIds -> ClientChannel] BY <1>3, <1>4, TellsAfter
<1> QED BY <1>2, <1>5 DEF Sends

\* The client sends data that it has credit for.
LEMMA SendDataAfter ==
  ASSUME Before, NEW c \in RemoteIds, SendData(c)
  PROVE  Sends
<1>1. Usable(c) BY DEF SendData
<1>2. PICK n \in DataSizes : /\ n <= client[c].credit
                             /\ Put([type |-> "ChannelData", to |-> client[c].peer, n |-> n])
                             /\ client' = [client EXCEPT ![c].credit = client[c].credit - n,
                                                         ![c].early = client[c].early \/ ~client[c].shell]
  BY DEF SendData
<1>3. /\ client[c] \in ClientChannel /\ client[c].peer \in Ids
      /\ client[c].credit \in Nat /\ client[c].window \in Nat /\ client \in [RemoteIds -> ClientChannel]
  BY <1>1, UsableNow
<1>4. n \in Sizes /\ n \in Nat
  <2>1. n \in 0..MaxWindow /\ n \in Sizes BY ConnectionAssumption
  <2> QED BY <2>1, ChannelsAssumption
<1>5. PICK p : p = client[c].peer OBVIOUS
<1>6. PICK m : m = [type |-> "ChannelData", to |-> p, n |-> n] OBVIOUS
<1>7. PICK k \in Nat : k = client[c].credit - n BY <1>2, <1>3, <1>4
<1>15. PICK b \in BOOLEAN : b = (client[c].early \/ ~client[c].shell) OBVIOUS
<1>8. PICK d : d = [client[c] EXCEPT !.credit = k, !.early = b] OBVIOUS
<1>9. d \in ClientChannel BY <1>3, <1>8, ClientOps, Zenon
<1>10. client' = [client EXCEPT ![c] = d] BY <1>2, <1>3, <1>7, <1>8, <1>15
<1>11. /\ d.phase = client[c].phase /\ d.peer = client[c].peer /\ d.asked = client[c].asked /\ d.pty = client[c].pty
       /\ d.shell = client[c].shell /\ d.geof = client[c].geof /\ d.gclosed = client[c].gclosed /\ d.status = client[c].status
       /\ d.credit = k /\ d.window = client[c].window /\ d.early = b
  BY <1>3, <1>8 DEF ClientChannel
<1>12. /\ m \in Sendable /\ m \in For(p) /\ m \notin Closes(p) /\ m \notin Exchange
       /\ m \notin Ptys(p) /\ m \notin ShellAsks(p)
       /\ Carries(m, "ChannelData", p) = n /\ Carries(m, "ChannelWindowAdjust", p) = 0 /\ IsRequest(m, p) = 0
  BY <1>3, <1>4, <1>5, <1>6, DataFits
<1>13. d.credit + Carries(m, "ChannelData", p) = client[c].credit /\ d.window = client[c].window + Carries(m, "ChannelWindowAdjust", p)
  BY <1>3, <1>4, <1>7, <1>11, <1>12
<1>14. Put(m) BY <1>2, <1>5, <1>6
<1>16. client[c].early \/ (m \in Datas(p) /\ ~client[c].shell) => d.early BY <1>11, <1>15
<1> QED BY <1>1, <1>16, <1>5, <1>9, <1>10, <1>11, <1>12, <1>13, <1>14, TellAfter

\* The client ends its input or closes the channel.
LEMMA EndAfter ==
  ASSUME Before, NEW c \in RemoteIds, SendEof(c) \/ PutClose(c)
  PROVE  Sends
<1>1. Usable(c) BY DEF SendEof, PutClose
<1>2. /\ client[c] \in ClientChannel /\ client[c].peer \in Ids
      /\ client[c].credit \in Nat /\ client[c].window \in Nat /\ client \in [RemoteIds -> ClientChannel]
  BY <1>1, UsableNow
<1>3. PICK p : p = client[c].peer OBVIOUS
<1>4. \E t \in {"ChannelEof", "ChannelClose"} :
        /\ Put([type |-> t, to |-> p])
        /\ t = "ChannelEof" => client' = [client EXCEPT ![c].eof = TRUE]
        /\ t = "ChannelClose" => client' = [client EXCEPT ![c].closed = TRUE]
  BY <1>3 DEF SendEof, PutClose
<1>5. PICK t \in {"ChannelEof", "ChannelClose"} :
        /\ Put([type |-> t, to |-> p])
        /\ t = "ChannelEof" => client' = [client EXCEPT ![c].eof = TRUE]
        /\ t = "ChannelClose" => client' = [client EXCEPT ![c].closed = TRUE]
  BY <1>4
<1>6. PICK m : m = [type |-> t, to |-> p] OBVIOUS
<1>7. PICK d : d = IF t = "ChannelEof" THEN [client[c] EXCEPT !.eof = TRUE] ELSE [client[c] EXCEPT !.closed = TRUE] OBVIOUS
<1>8. d \in ClientChannel BY <1>2, <1>7, ClientOps
<1>9. client' = [client EXCEPT ![c] = d] BY <1>2, <1>5, <1>7
<1>10. /\ d.phase = client[c].phase /\ d.peer = client[c].peer /\ d.asked = client[c].asked /\ d.pty = client[c].pty
       /\ d.shell = client[c].shell /\ d.geof = client[c].geof /\ d.gclosed = client[c].gclosed /\ d.status = client[c].status
       /\ d.credit = client[c].credit /\ d.window = client[c].window /\ d.early = client[c].early
  BY <1>2, <1>7 DEF ClientChannel
<1>11. t = "ChannelClose" => d.closed BY <1>2, <1>7 DEF ClientChannel
<1>12. /\ m \in Sendable /\ m \in For(p) /\ (m \in Closes(p) => t = "ChannelClose") /\ m \notin Exchange
       /\ m \notin Ptys(p) /\ m \notin ShellAsks(p) /\ m \notin Datas(p)
       /\ Carries(m, "ChannelData", p) = 0 /\ Carries(m, "ChannelWindowAdjust", p) = 0 /\ IsRequest(m, p) = 0
  BY <1>2, <1>3, <1>6, EndFits
<1>13. d.credit + Carries(m, "ChannelData", p) = client[c].credit /\ d.window = client[c].window + Carries(m, "ChannelWindowAdjust", p)
  BY <1>2, <1>10, <1>12
<1>14. Put(m) /\ (m \in Closes(p) => d.closed) BY <1>5, <1>6, <1>11, <1>12
<1> QED BY <1>1, <1>3, <1>8, <1>9, <1>10, <1>12, <1>13, <1>14, TellAfter

\* The client fills the window up again.
LEMMA RefillAfter ==
  ASSUME Before, NEW c \in RemoteIds, Refill(c)
  PROVE  Sends
<1>1. Usable(c) BY DEF Refill
<1>2. /\ client[c] \in ClientChannel /\ client[c].peer \in Ids /\ client[c].window \in 0..ClientWindow
      /\ client[c].credit \in Nat /\ client[c].window \in Nat /\ client \in [RemoteIds -> ClientChannel]
  BY <1>1, UsableNow
<1>3. PICK p : p = client[c].peer OBVIOUS
<1>4. PICK n : n = ClientWindow - client[c].window OBVIOUS
<1>5. n \in Sizes /\ n \in Nat /\ ClientWindow \in 0..ClientWindow /\ ClientWindow = client[c].window + n
  <2>1. ClientWindow \in Nat BY ConnectionAssumption, ChannelsAssumption
  <2>2. n \in 0..ClientWindow BY <1>2, <1>4, <2>1
  <2> QED BY <1>2, <1>4, <2>1, <2>2, ConnectionAssumption
<1>6. PICK m : m = [type |-> "ChannelWindowAdjust", to |-> p, n |-> n] OBVIOUS
<1>7. PICK d : d = [client[c] EXCEPT !.window = ClientWindow] OBVIOUS
<1>8. d \in ClientChannel BY <1>2, <1>5, <1>7, ClientOps
<1>9. client' = [client EXCEPT ![c] = d] BY <1>2, <1>7 DEF Refill
<1>10. /\ d.phase = client[c].phase /\ d.peer = client[c].peer /\ d.asked = client[c].asked /\ d.pty = client[c].pty
       /\ d.shell = client[c].shell /\ d.geof = client[c].geof /\ d.gclosed = client[c].gclosed /\ d.status = client[c].status
       /\ d.credit = client[c].credit /\ d.window = ClientWindow /\ d.early = client[c].early
  BY <1>2, <1>7 DEF ClientChannel
<1>11. /\ m \in Sendable /\ m \in For(p) /\ m \notin Closes(p) /\ m \notin Exchange
       /\ m \notin Ptys(p) /\ m \notin ShellAsks(p) /\ m \notin Datas(p)
       /\ Carries(m, "ChannelData", p) = 0 /\ Carries(m, "ChannelWindowAdjust", p) = n /\ IsRequest(m, p) = 0
  BY <1>2, <1>3, <1>5, <1>6, AdjustFits
<1>12. d.credit + Carries(m, "ChannelData", p) = client[c].credit /\ d.window = client[c].window + Carries(m, "ChannelWindowAdjust", p)
  BY <1>2, <1>5, <1>10, <1>11
<1>13. Put(m) BY <1>3, <1>4, <1>6 DEF Refill
<1> QED BY <1>1, <1>3, <1>8, <1>9, <1>10, <1>11, <1>12, <1>13, TellAfter

\* The client opens a channel: nothing has been said of it yet.
LEMMA OpenChannelAfter ==
  ASSUME Before, NEW c \in RemoteIds, OpenChannel(c)
  PROVE  Sends
<1>0. Typed /\ Placed BY DEF Before
<1>1. PICK m : m = [type |-> "ChannelOpen", kind |-> "session", sender |-> c, window |-> ClientWindow, maximum |-> ClientPacket]
  OBVIOUS
<1>2. m.type = "ChannelOpen" /\ m.kind = "session" /\ m.sender = c /\ m.window = ClientWindow
  BY <1>1
<1>3. ClientWindow \in Nat /\ ClientWindow \in Sizes /\ ClientPacket \in Sizes /\ ClientWindow \in 0..ClientWindow
  <2>1. ClientWindow \in Nat BY ConnectionAssumption, ChannelsAssumption
  <2>2. ClientWindow \in 0..ClientWindow BY <2>1
  <2> QED BY <2>1, <2>2, ConnectionAssumption
<1>4. m \in ChannelOpen BY <1>1, <1>3 DEF ChannelOpen
<1>5. m \in Sendable BY <1>2, <1>4 DEF Sendable, PeerPackets, ChannelTypes
<1>6. m \in Opens(c) /\ m \notin Exchange /\ (\A id : m \notin For(id)) /\ \A e : e /= c => m \notin Opens(e)
  BY <1>2, <1>5 DEF Opens, Exchange, For, HandledTypes
<1>7. Puts(m) BY <1>1, <1>5, PutPuts DEF OpenChannel
<1>8. client \in [RemoteIds -> ClientChannel] /\ client[c] \in ClientChannel BY <1>0 DEF Typed
<1>9. PICK d : d = [client[c] EXCEPT !.phase = "opening", !.window = ClientWindow] OBVIOUS
<1>10. d \in ClientChannel BY <1>3, <1>8, <1>9, ClientOps
<1>11. client' = [client EXCEPT ![c] = d] BY <1>8, <1>9 DEF OpenChannel
<1>12. client'[c] = d /\ client' \in [RemoteIds -> ClientChannel] /\ \A e \in RemoteIds : e /= c => client'[e] = client[e]
  BY <1>8, <1>10, <1>11
<1>13. /\ d.phase = "opening" /\ d.window = ClientWindow /\ d.credit = client[c].credit /\ d.asked = client[c].asked
       /\ d.pty = client[c].pty /\ d.shell = client[c].shell /\ d.closed = client[c].closed /\ d.geof = client[c].geof
       /\ d.gclosed = client[c].gclosed /\ d.status = client[c].status
  BY <1>8, <1>9 DEF ClientChannel
<1>14. client[c].phase = "unopened" /\ Live(c) /\ Heard(c) BY DEF OpenChannel, Before
<1>15. Blank(c) /\ ~Has(read, Opens(c)) BY <1>14 DEF Live, Life
<1>16. /\ UNCHANGED <<channels, write, pending, ran, shells>> /\ In(read') = In(read) \cup {m}
       /\ \A S : Has(read', S) <=> Has(read, S) \/ m \in S
       /\ \A S, T : NoneAfter(read, S, T) /\ (Has(read, S) => m \notin T) => NoneAfter(read', S, T)
  BY <1>0, <1>7, PutFacts
<1>17. (\A id \in Ids : ~Own(id, c)') /\ \A id \in Ids : ~Own(id, c)
  BY <1>15, <1>16 DEF Blank, Own, Known
<1>18. Blank(c)' BY <1>12, <1>13, <1>15, <1>16, <1>17 DEF Blank
<1>19. ~Has(write, AllTo(c)) BY <1>15 DEF Blank
<1>20. Life(c)'
  <2>1. ~Has(write', To(c, OpenedTypes)) /\ ~Has(write', To(c, {"OpenConfirmation"})) /\ ~Has(write', To(c, {"OpenFailure"}))
    BY <1>16, <1>19 DEF Has, AllTo, To, OpenedTypes, AnswerTypes
  <2>2. NoneAfter(write', To(c, OpenedTypes), To(c, OpenedTypes)) BY <2>1 DEF NoneAfter, Has, In
  <2>3. NoneAfter(read', Opens(c), Opens(c)) BY <1>14, <1>15, <1>16 DEF Live, Life
  <2>4. \A y \in In(read') : y \in Opens(c) => y.window = d.window
    BY <1>2, <1>13, <1>15, <1>16 DEF Has
  <2>5. \A y \in In(write') : y \notin To(c, {"OpenConfirmation"}) BY <2>1 DEF Has
  <2>6. ~d.pty /\ ~d.closed /\ (d.shell => d.pty) BY <1>13, <1>14 DEF Live, Life
  <2> QED BY <1>12, <1>13, <1>17, <1>18, <2>1, <2>2, <2>3, <2>4, <2>5, <2>6 DEF Life
<1>21. Coherent(c)' /\ Asking(c)' /\ Linked(c)' BY <1>17 DEF Coherent, Asking, Linked
<1>22. Counted(c)' BY <1>12, <1>13, <1>14, <1>16, <1>17 DEF Live, Counted
<1>23. Heard(c)'
  <2>1. Told(c) => Told(c)' BY <1>12, <1>13, <1>16 DEF Told
  <2>2. Ordered(c)' BY <1>12, <1>13, <1>14, <1>16, <2>1 DEF Heard, Ordered
  <2>3. Bytes(write, "Data", c) = 0 BY <1>0, <1>19, NothingTo DEF Typed
  <2>4. Affords(c)' BY <1>3, <1>12, <1>13, <1>14, <1>16, <2>3 DEF Heard, Affords
  <2> QED BY <2>2, <2>4 DEF Heard
<1>24. Placed' BY <1>0, <1>2, <1>16 DEF Placed, Known, HandledTypes
<1>25. ASSUME NEW e \in RemoteIds, e /= c PROVE Live(e)' /\ Heard(e)'
  BY <1>6, <1>7, <1>12, <1>25, PutOthers
<1>26. After BY <1>20, <1>21, <1>22, <1>23, <1>24, <1>25 DEF After, Live
<1> QED BY <1>6, <1>7, <1>12, <1>26 DEF Sends

\* Every message of the client about its channels.
LEMMA ClientActSends ==
  ASSUME Before, NEW c \in RemoteIds, ClientAct(c)
  PROVE  Sends /\ MaySend /\ UNCHANGED ckx /\ steps' \in Nat
<1>0. steps \in Nat /\ client \in [RemoteIds -> ClientChannel] /\ client[c] \in ClientChannel
  BY DEF Before, Typed
<1>1. CASE OpenChannel(c) BY <1>0, <1>1, OpenChannelAfter DEF OpenChannel
<1>2. CASE AskPty(c)
  <2>1. PICK d : d = [client[c] EXCEPT !.pty = TRUE, !.asked = client[c].asked + 1] OBVIOUS
  <2>2. client' = [client EXCEPT ![c] = d] BY <1>0, <1>2, <2>1 DEF AskPty
  <2>3. Usable(c) /\ Put(Request(c, "pty-req")) /\ ~client[c].pty BY <1>2 DEF AskPty
  <2>4. Sends BY <2>1, <2>2, <2>3, AskAfter
  <2> QED BY <1>0, <1>2, <2>4 DEF AskPty
<1>3. CASE AskShell(c)
  <2>1. PICK d : d = [client[c] EXCEPT !.shell = TRUE, !.asked = client[c].asked + 1] OBVIOUS
  <2>2. client' = [client EXCEPT ![c] = d] BY <1>0, <1>3, <2>1 DEF AskShell
  <2>3. Usable(c) /\ Put(Request(c, "shell")) /\ client[c].pty /\ ~client[c].shell
    BY <1>3 DEF AskShell
  <2>4. Sends BY <2>1, <2>2, <2>3, AskAfter
  <2> QED BY <1>0, <1>3, <2>4 DEF AskShell
<1>4. CASE AskOther(c)
  <2>1. PICK d : d = [client[c] EXCEPT !.asked = client[c].asked + 1] OBVIOUS
  <2>2. client' = [client EXCEPT ![c] = d] BY <1>0, <1>4, <2>1 DEF AskOther
  <2>3. PICK r \in {"env", "window-change", "other"} : Spend(r) /\ Put(Request(c, r))
    BY <1>4 DEF AskOther
  <2>4. Usable(c) BY <1>4 DEF AskOther
  <2>5. Sends BY <2>1, <2>2, <2>3, <2>4, AskAfter
  <2> QED BY <1>0, <1>4, <2>3, <2>5 DEF AskOther, Spend
<1>5. CASE SendData(c)
  <2>1. Sends BY <1>5, SendDataAfter
  <2>2. Spend("data") /\ MaySend /\ UNCHANGED ckx BY <1>5 DEF SendData
  <2> QED BY <1>0, <2>1, <2>2 DEF Spend
<1>6. CASE SendEof(c)
  <2>1. Sends BY <1>6, EndAfter
  <2>2. Spend("eof") /\ MaySend /\ UNCHANGED ckx BY <1>6 DEF SendEof
  <2> QED BY <1>0, <2>1, <2>2 DEF Spend
<1>7. CASE SendClose(c)
  <2>1. Sends BY <1>7, EndAfter DEF SendClose
  <2>2. Spend("close") /\ MaySend /\ UNCHANGED ckx BY <1>7 DEF SendClose, PutClose
  <2> QED BY <1>0, <2>1, <2>2 DEF Spend
<1>8. CASE AnswerClose(c) BY <1>0, <1>8, EndAfter DEF AnswerClose, PutClose
<1>9. CASE Refill(c) BY <1>0, <1>9, RefillAfter DEF Refill
<1> QED BY <1>1, <1>2, <1>3, <1>4, <1>5, <1>6, <1>7, <1>8, <1>9 DEF ClientAct

-----------------------------------------------------------------------------
(* The client and the exchange. *)

\* A message that is not of an exchange, outside one.
LEMMA SendExchanges ==
  ASSUME Typed, Exchanges, NEW m, Puts(m), m \notin Exchange, MaySend, UNCHANGED ckx
  PROVE  Exchanges'
<1>1. /\ read \in Seq(Sendable) /\ read' = read \o <<m>> /\ UNCHANGED <<write, kx>>
      /\ \A S : Has(read', S) <=> Has(read, S) \/ m \in S
  BY PutFacts
<1>2. (Silent => Silent') /\ \A t \in KxTypes : Says(t) => Says(t)' BY <1>1, SameSelf, SameSays
<1>3. CASE ckx = "idle" /\ kx.state = "AwaitingKexInit" /\ ~Has(read, Exchange) /\ Silent
  BY <1>1, <1>2, <1>3 DEF Exchanges
<1>4. CASE /\ ckx = "awaiting" /\ kx.state = "AwaitingNewKeys" /\ Silent
           /\ read /= <<>> /\ Head(read) \in OfType("NewKeys") /\ ~Has(Tail(read), Exchange)
  <2>1. m \in Sendable /\ read' = Append(read, m) BY DEF Puts
  <2>2. read' /= <<>> /\ Head(read') = Head(read) /\ Tail(read') = Append(Tail(read), m) /\ Tail(read) \in Seq(Sendable)
    BY <1>1, <1>4, <2>1
  <2>3. In(Tail(read')) = In(Tail(read)) \cup {m}
    <3>0. Tail(read) \in Seq(Sendable) /\ m \in Sendable BY <2>1, <2>2
    <3>1. PICK q \in Seq(Sendable) : q = Tail(read) BY <3>0
    <3>2. Append(q, m) = q \o <<m>>
      <4>1. m \in Sendable BY <3>0
      <4> QED BY <4>1, ConcatOne
    <3>3. In(q \o <<m>>) = In(q) \cup In(<<m>>)
      <4>1. <<m>> \in Seq(Sendable) BY <3>0
      <4> QED BY <4>1, InConcat
    <3>4. In(<<m>>) = {m} BY <3>0, InOne
    <3>5. Tail(read') = q \o <<m>> BY <2>2, <3>1, <3>2, Zenon
    <3> QED BY <3>1, <3>3, <3>4, <3>5, Zenon
  <2>4. ~Has(Tail(read'), Exchange) BY <1>4, <2>3 DEF Has
  <2>5. read' /= <<>> /\ Head(read') \in OfType("NewKeys") /\ Silent' /\ ckx' = "awaiting" /\ kx'.state = "AwaitingNewKeys"
    BY <1>1, <1>2, <1>4, <2>2
  <2> QED BY <2>4, <2>5 DEF Exchanges
<1>5. CASE /\ ckx = "awaiting" /\ kx.state = "AwaitingKexInit" /\ ~Has(read, Exchange)
           /\ Says("NewKeys")
  BY <1>1, <1>2, <1>5 DEF Exchanges, KxTypes
<1> QED BY <1>3, <1>4, <1>5 DEF Exchanges, MaySend

\* The client's part of Typed.
ClientTyped ==
  /\ read \in Seq(Sendable)
  /\ client \in [RemoteIds -> ClientChannel]
  /\ ckx \in {"idle", "init", "got_init", "ecdh", "got_reply", "awaiting"}
  /\ steps \in Nat

\* The messages outside the channels.
LEMMA PlainFits ==
  ASSUME NEW m,
         \/ \E w \in BOOLEAN : m = [type |-> "GlobalRequest", want_reply |-> w]
         \/ m = [type |-> "Ignore"]
         \/ m = [type |-> "Disconnect"]
         \/ \E pq \in BOOLEAN : m = [type |-> "KexInit", pq |-> pq, ok |-> TRUE]
         \/ m = [type |-> "EcdhInit", ok |-> TRUE]
         \/ m = [type |-> "NewKeys"]
  PROVE  /\ m \in Sendable /\ m.type \notin ChannelTypes
         /\ m.type \in {"GlobalRequest", "Ignore", "Disconnect"} => m \notin Exchange
         /\ m.type \in {"KexInit", "EcdhInit", "NewKeys"} => m \in Exchange /\ m \in OfType(m.type)
<1>1. CASE \E w \in BOOLEAN : m = [type |-> "GlobalRequest", want_reply |-> w]
  <2>1. m \in GlobalRequest /\ m.type = "GlobalRequest" BY <1>1 DEF GlobalRequest
  <2> QED BY <2>1 DEF Sendable, PeerPackets, ChannelTypes, Exchange
<1>2. CASE m = [type |-> "Ignore"] \/ m = [type |-> "Disconnect"] \/ m = [type |-> "NewKeys"]
  <2>1. m \in Transport /\ m.type \in {"Ignore", "Disconnect", "NewKeys"} BY <1>2 DEF Transport
  <2>2. m \in Sendable BY <2>1 DEF Sendable, PeerPackets, ChannelTypes
  <2> QED BY <2>1, <2>2 DEF ChannelTypes, Exchange, OfType
<1>3. CASE \E pq \in BOOLEAN : m = [type |-> "KexInit", pq |-> pq, ok |-> TRUE]
  <2>1. m \in KexInit /\ m.type = "KexInit" /\ m.ok BY <1>3 DEF KexInit
  <2>2. m \in Sendable BY <2>1 DEF Sendable, PeerPackets, ChannelTypes
  <2> QED BY <2>1, <2>2 DEF ChannelTypes, Exchange, OfType
<1>4. CASE m = [type |-> "EcdhInit", ok |-> TRUE]
  <2>1. m \in EcdhInit /\ m.type = "EcdhInit" /\ m.ok BY <1>4 DEF EcdhInit
  <2>2. m \in Sendable BY <2>1 DEF Sendable, PeerPackets, ChannelTypes
  <2> QED BY <2>1, <2>2 DEF ChannelTypes, Exchange, OfType
<1> QED BY <1>1, <1>2, <1>3, <1>4

\* What the session has is left alone.
LEMMA PutGoes ==
  ASSUME Before, Running, NEW m, Puts(m), After, Exchanges'
  PROVE  Goes /\ read' \in Seq(Sendable)
<1>1. Typed BY DEF Before
<1>2. UNCHANGED <<write, pending, session>> /\ read' \in Seq(Sendable) BY <1>1, PutFacts
<1> QED BY <1>1, <1>2 DEF Goes, Running, Typed

\* The client does something about one of its channels.
LEMMA ClientActGoes ==
  ASSUME Before, Exchanges, Running, NEW c \in RemoteIds, ClientAct(c)
  PROVE  Goes /\ ClientTyped'
<1>1. Sends /\ MaySend /\ UNCHANGED ckx /\ steps' \in Nat BY ClientActSends
<1>2. PICK m : Puts(m) /\ m \notin Exchange BY <1>1 DEF Sends
<1>3. Typed BY DEF Before
<1>4. Exchanges' BY <1>1, <1>2, <1>3, SendExchanges
<1>5. Goes /\ read' \in Seq(Sendable) BY <1>1, <1>2, <1>4, PutGoes DEF Sends
<1>6. ckx' \in {"idle", "init", "got_init", "ecdh", "got_reply", "awaiting"} BY <1>1, <1>3 DEF Typed
<1> QED BY <1>1, <1>5, <1>6 DEF Sends, ClientTyped

\* The client sends a global request, an ignorable message or a disconnect.
LEMMA GlobalGoes ==
  ASSUME Before, Exchanges, Running, SendGlobal
  PROVE  Goes /\ ClientTyped'
<1>0. Typed BY DEF Before
<1>1. PICK m : /\ Put(m)
               /\ \/ \E w \in BOOLEAN : m = [type |-> "GlobalRequest", want_reply |-> w]
                  \/ m = [type |-> "Ignore"]
                  \/ m = [type |-> "Disconnect"]
  BY DEF SendGlobal
<1>2. m.type \in {"GlobalRequest", "Ignore", "Disconnect"} BY <1>1
<1>3. m \in Sendable /\ m.type \notin ChannelTypes /\ m \notin Exchange BY <1>1, <1>2, PlainFits
<1>4. Puts(m) BY <1>1, <1>3, PutPuts
<1>5. UNCHANGED <<client, ckx>> /\ MaySend BY DEF SendGlobal
<1>6. steps' \in Nat
  <2>1. steps > 0 /\ steps' = steps - 1 BY DEF SendGlobal, Spend
  <2> QED BY <1>0, <2>1 DEF Typed
<1>7. After BY <1>3, <1>4, <1>5, PutLoopAfter
<1>8. Exchanges' BY <1>0, <1>3, <1>4, <1>5, SendExchanges
<1>9. Goes /\ read' \in Seq(Sendable) BY <1>4, <1>7, <1>8, PutGoes
<1> QED BY <1>0, <1>5, <1>6, <1>9 DEF Typed, ClientTyped

\* The client starts a key exchange.
LEMMA StartRekeyGoes ==
  ASSUME Before, Exchanges, Running, StartRekey
  PROVE  Goes /\ ClientTyped'
<1>0. Typed BY DEF Before
<1>1. PICK m : Put(m) /\ \E pq \in BOOLEAN : m = [type |-> "KexInit", pq |-> pq, ok |-> TRUE]
  BY DEF StartRekey
<1>2. m.type = "KexInit" BY <1>1
<1>3. m \in Sendable /\ m.type \notin ChannelTypes /\ m \in Exchange /\ m \in OfType("KexInit")
  BY <1>1, <1>2, PlainFits
<1>4. Puts(m) BY <1>1, <1>3, PutPuts
<1>5. UNCHANGED client /\ ckx = "idle" /\ ckx' = "init" BY DEF StartRekey
<1>6. steps' \in Nat
  <2>1. steps > 0 /\ steps' = steps - 1 BY DEF StartRekey, Spend
  <2> QED BY <1>0, <2>1 DEF Typed
<1>7. After BY <1>3, <1>4, <1>5, PutLoopAfter
<1>8. Exchanges'
  <2>1. kx.state = "AwaitingKexInit" /\ ~Has(read, Exchange) /\ Silent BY <1>5 DEF Exchanges
  <2>2. /\ UNCHANGED <<write, kx>> /\ (\A S : Has(read', S) <=> Has(read, S) \/ m \in S)
        /\ \A S, T : NoneAfter(read, S, T) /\ (Has(read, S) => m \notin T) => NoneAfter(read', S, T)
    BY <1>0, <1>4, PutFacts
  <2>3. NoneAfter(read, Exchange, Sendable) BY <2>1 DEF NoneAfter, Has, In
  <2>4. NoneAfter(read', Exchange, Sendable) BY <2>1, <2>2, <2>3
  <2>5. ~Has(read', Exchange \ OfType("KexInit")) BY <1>3, <2>1, <2>2 DEF Has
  <2>6. Has(read', OfType("KexInit")) /\ Silent' /\ kx'.state = "AwaitingKexInit"
    BY <1>3, <2>1, <2>2 DEF Silent
  <2> QED BY <1>5, <2>4, <2>5, <2>6 DEF Exchanges
<1>9. Goes /\ read' \in Seq(Sendable) BY <1>4, <1>7, <1>8, PutGoes
<1> QED BY <1>0, <1>5, <1>6, <1>9 DEF Typed, ClientTyped

\* The client goes on with a key exchange.
LEMMA ContinueGoes ==
  ASSUME Before, Exchanges, Running, ContinueRekey
  PROVE  Goes /\ ClientTyped'
<1>0. Typed BY DEF Before
<1>1. PICK m : /\ Put(m)
               /\ \/ ckx = "got_init" /\ m = [type |-> "EcdhInit", ok |-> TRUE] /\ ckx' = "ecdh"
                  \/ ckx = "got_reply" /\ m = [type |-> "NewKeys"] /\ ckx' = "awaiting"
  BY DEF ContinueRekey
<1>2. m.type \in {"EcdhInit", "NewKeys"} /\ m.type = IF ckx = "got_init" THEN "EcdhInit" ELSE "NewKeys"
  BY <1>1
<1>3. m \in Sendable /\ m.type \notin ChannelTypes /\ m \in OfType(m.type) BY <1>1, <1>2, PlainFits
<1>4. Puts(m) BY <1>1, <1>3, PutPuts
<1>5. UNCHANGED <<client, steps>> BY DEF ContinueRekey
<1>6. After BY <1>3, <1>4, <1>5, PutLoopAfter
<1>7. Exchanges'
  <2>1. read = <<>> /\ Silent /\ kx.state = IF ckx = "got_init" THEN "AwaitingEcdhInit" ELSE "AwaitingNewKeys"
    BY <1>1 DEF Exchanges
  <2>2. UNCHANGED <<write, kx>> BY <1>0, <1>4, PutFacts
  <2>3. read' = <<m>> BY <1>4, <2>1 DEF Puts
  <2>4. read' /= <<>> /\ Head(read') = m /\ Tail(read') = <<>> BY <2>3
  <2>5. ~Has(Tail(read'), Exchange) BY <2>4, InEmpty DEF Has
  <2>6. Silent' /\ kx' = kx BY <2>1, <2>2 DEF Silent
  <2> QED BY <1>1, <1>2, <1>3, <2>1, <2>4, <2>5, <2>6 DEF Exchanges
<1>8. Goes /\ read' \in Seq(Sendable) BY <1>4, <1>6, <1>7, PutGoes
<1> QED BY <1>0, <1>1, <1>5, <1>8 DEF Typed, ClientTyped

-----------------------------------------------------------------------------
(* The client receives. *)

Hears == write /= <<>> /\ write' = Tail(write)

\* The queue to the client without its head.
LEMMA HearsFacts ==
  ASSUME Typed, Hears
  PROVE  /\ Head(write) \in Fitting /\ Head(write) \in In(write)
         /\ write' \in Seq(Fitting) /\ In(write) = {Head(write)} \cup In(write')
         /\ \A S : Has(write', S) => Has(write, S)
         /\ \A S : Head(write) \notin S => (Has(write', S) <=> Has(write, S))
         /\ \A S : Head(write) \in S => Has(write, S)
         /\ \A S, T : NoneAfter(write, S, T) => NoneAfter(write', S, T) /\ (Head(write) \in S => ~Has(write', T))
<1>1. write \in Seq(Fitting) /\ write /= <<>> /\ write' = Tail(write) BY DEF Typed, Hears
<1>2. In(write) = {Head(write)} \cup In(Tail(write)) /\ Head(write) \in Fitting /\ Tail(write) \in Seq(Fitting)
  BY <1>1, InTail
<1>3. \A S, T : NoneAfter(write, S, T) => NoneAfter(Tail(write), S, T) /\ (Head(write) \in S => ~Has(Tail(write), T))
  BY <1>1, AfterTail
<1>4. /\ write' \in Seq(Fitting) /\ In(write) = {Head(write)} \cup In(write')
      /\ \A S, T : NoneAfter(write, S, T) => NoneAfter(write', S, T) /\ (Head(write) \in S => ~Has(write', T))
  BY <1>1, <1>2, <1>3, Zenon
<1> QED BY <1>2, <1>4 DEF Has

\* The counts of what is on its way to c, after the client has heard a
\* message.
LEMMA HearsSums ==
  ASSUME Typed, Hears, NEW c
  PROVE  /\ Bytes(write, "Data", c) = Weight(Head(write), "Data", c) + Bytes(write', "Data", c)
         /\ Bytes(write, "WindowAdjust", c) = Weight(Head(write), "WindowAdjust", c) + Bytes(write', "WindowAdjust", c)
         /\ Replies(write, c) = IsReply(Head(write), c) + Replies(write', c)
         /\ Weight(Head(write), "Data", c) \in Nat /\ Weight(Head(write), "WindowAdjust", c) \in Nat
         /\ Bytes(write', "Data", c) \in Nat /\ Bytes(write', "WindowAdjust", c) \in Nat /\ Replies(write', c) \in Nat
<1>1. write \in Seq(Fitting) /\ write /= <<>> /\ write' = Tail(write) BY DEF Typed, Hears
<1>2. Head(write) \in Fitting /\ write' \in Seq(Fitting) BY HearsFacts
<1>3. /\ Bytes(write, "Data", c) = Weight(Head(write), "Data", c) + Bytes(Tail(write), "Data", c)
      /\ Bytes(write, "WindowAdjust", c) = Weight(Head(write), "WindowAdjust", c) + Bytes(Tail(write), "WindowAdjust", c)
      /\ Replies(write, c) = IsReply(Head(write), c) + Replies(Tail(write), c)
  BY <1>1, BytesFacts, RepliesFacts
<1>4. Weight(Head(write), "Data", c) \in Nat /\ Weight(Head(write), "WindowAdjust", c) \in Nat
  BY <1>2, BytesFacts
<1>5. Bytes(write', "Data", c) \in Nat /\ Bytes(write', "WindowAdjust", c) \in Nat /\ Replies(write', c) \in Nat
  BY <1>2, BytesFacts, RepliesFacts
<1>6. /\ Bytes(write, "Data", c) = Weight(Head(write), "Data", c) + Bytes(write', "Data", c)
      /\ Bytes(write, "WindowAdjust", c) = Weight(Head(write), "WindowAdjust", c) + Bytes(write', "WindowAdjust", c)
      /\ Replies(write, c) = IsReply(Head(write), c) + Replies(write', c)
  BY <1>1, <1>3, Zenon
<1> QED BY <1>4, <1>5, <1>6

\* What is not for c.
LEMMA HearsSame ==
  ASSUME Typed, Hears, NEW c, Head(write) \notin AllTo(c)
  PROVE  SameTo(c)
<1>1. write \in Seq(Fitting) /\ write /= <<>> /\ write' = Tail(write) /\ Head(write) \in Fitting
  BY HearsFacts DEF Typed, Hears
<1>2. SameIn(write, write', AllTo(c))
  <2>1. SameIn(write, Tail(write), AllTo(c)) BY <1>1, SameTail
  <2> QED BY <1>1, <2>1, Zenon
<1>3. /\ Weight(Head(write), "Data", c) = 0 /\ Weight(Head(write), "WindowAdjust", c) = 0
      /\ IsReply(Head(write), c) = 0
  BY <1>1 DEF Weight, IsReply, AllTo, To, AnswerTypes
<1>4. /\ Bytes(write, "Data", c) = Bytes(write', "Data", c) /\ Bytes(write, "WindowAdjust", c) = Bytes(write', "WindowAdjust", c)
      /\ Replies(write, c) = Replies(write', c)
  BY <1>3, HearsSums
<1> QED BY <1>2, <1>4 DEF SameTo

\* What the client notes of a message.
LEMMA GotFields ==
  ASSUME NEW c, NEW k, k = client[c], k \in ClientChannel, NEW m \in Fitting, m.type \in AnswerTypes, m.to = c,
         NEW d, d = Got(c, m)
  PROVE  /\ d.pty = k.pty /\ d.shell = k.shell /\ d.closed = k.closed /\ d.early = k.early
         /\ (d.gclosed <=> k.gclosed \/ m.type = "Close") /\ (d.geof <=> k.geof \/ m.type = "Eof")
         /\ d.phase = IF m.type = "OpenConfirmation" THEN "open" ELSE IF m.type = "OpenFailure" THEN "refused" ELSE k.phase
         /\ d.peer = IF m.type = "OpenConfirmation" THEN m.arg ELSE k.peer
         /\ d.status = IF m.type = "ExitStatus" THEN m.arg ELSE k.status
         /\ d.asked = k.asked - IsReply(m, c) /\ d.credit = k.credit + Weight(m, "WindowAdjust", c)
         /\ d.window = k.window - Weight(m, "Data", c)
<1>0. k.asked \in Nat /\ k.credit \in Nat /\ k.window \in Nat
  <2>1. 0..ClientWindow \subseteq Nat BY ConnectionAssumption
  <2> QED BY <2>1 DEF ClientChannel
<1>1. CASE m.type = "OpenConfirmation"
  <2>1. d = [k EXCEPT !.phase = "open", !.peer = m.arg] BY <1>1 DEF Got
  <2>2. d.pty = k.pty /\ d.shell = k.shell /\ d.closed = k.closed /\ d.early = k.early /\ d.gclosed = k.gclosed /\ d.geof = k.geof
    BY <2>1 DEF ClientChannel
  <2>3. d.phase = "open" /\ d.peer = m.arg /\ d.status = k.status /\ d.asked = k.asked /\ d.credit = k.credit /\ d.window = k.window
    BY <2>1 DEF ClientChannel
  <2>4. IsReply(m, c) = 0 /\ Weight(m, "WindowAdjust", c) = 0 /\ Weight(m, "Data", c) = 0
    BY <1>1 DEF IsReply, Weight
  <2> QED BY <1>0, <1>1, <2>2, <2>3, <2>4
<1>2. CASE m.type = "OpenFailure" BY <1>0, <1>2 DEF Got, ClientChannel, IsReply, Weight
<1>3. CASE m.type \in {"Success", "Failure"} BY <1>0, <1>3 DEF Got, ClientChannel, IsReply, Weight
<1>4. CASE m.type = "WindowAdjust" BY <1>0, <1>4 DEF Got, ClientChannel, IsReply, Weight
<1>5. CASE m.type = "Data" BY <1>0, <1>5 DEF Got, ClientChannel, IsReply, Weight
<1>6. CASE m.type = "Eof" BY <1>0, <1>6 DEF Got, ClientChannel, IsReply, Weight
<1>7. CASE m.type = "ExitStatus" BY <1>0, <1>7 DEF Got, ClientChannel, IsReply, Weight
<1>8. CASE m.type = "Close" BY <1>0, <1>8 DEF Got, ClientChannel, IsReply, Weight
<1> QED BY <1>1, <1>2, <1>3, <1>4, <1>5, <1>6, <1>7, <1>8 DEF AnswerTypes

\* The counters of the client do not go below zero.
LEMMA GotTyped ==
  ASSUME NEW c, NEW k, k = client[c], k \in ClientChannel, NEW m \in Fitting, m.type \in AnswerTypes, m.to = c,
         Weight(m, "Data", c) <= k.window, IsReply(m, c) <= k.asked
  PROVE  Got(c, m) \in ClientChannel
<1>0. k.asked \in Nat /\ k.credit \in Nat /\ k.window \in Nat /\ k.window \in 0..ClientWindow /\ ClientWindow \in Nat
  <2>1. 0..ClientWindow \subseteq Nat /\ ClientWindow \in Nat
    BY ConnectionAssumption, ChannelsAssumption
  <2> QED BY <2>1 DEF ClientChannel
<1>1. CASE m.type = "OpenConfirmation"
  <2>1. m.arg \in Ids BY <1>1 DEF Fitting
  <2> QED BY <1>0, <1>1, <2>1, ClientOps DEF Got
<1>2. CASE m.type = "OpenFailure" BY <1>0, <1>2, ClientOps DEF Got
<1>3. CASE m.type \in {"Success", "Failure"}
  <2>1. PICK n \in Nat : n = k.asked - 1 BY <1>0, <1>3 DEF IsReply
  <2>2. [k EXCEPT !.asked = n] \in ClientChannel BY ClientOps
  <2> QED BY <1>3, <2>1, <2>2 DEF Got
<1>4. CASE m.type = "WindowAdjust"
  <2>1. m.arg \in Nat BY <1>4 DEF Fitting
  <2>2. PICK n \in Nat : n = k.credit + m.arg BY <1>0, <2>1
  <2>3. [k EXCEPT !.credit = n] \in ClientChannel BY ClientOps
  <2> QED BY <1>4, <2>2, <2>3 DEF Got
<1>5. CASE m.type = "Data"
  <2>1. m.arg \in Nat BY <1>5 DEF Fitting
  <2>2. PICK n \in 0..ClientWindow : n = k.window - m.arg BY <1>0, <1>5, <2>1 DEF Weight
  <2>3. [k EXCEPT !.window = n] \in ClientChannel BY <1>0, ClientOps
  <2> QED BY <1>5, <2>2, <2>3 DEF Got
<1>6. CASE m.type = "Eof" BY <1>0, <1>6, ClientOps DEF Got
<1>7. CASE m.type = "ExitStatus"
  <2>1. m.arg \in ExitCodes BY <1>7 DEF Fitting
  <2> QED BY <1>0, <1>7, <2>1, ClientOps DEF Got
<1>8. CASE m.type = "Close" BY <1>0, <1>8, ClientOps DEF Got
<1> QED BY <1>1, <1>2, <1>3, <1>4, <1>5, <1>6, <1>7, <1>8 DEF AnswerTypes

\* The client hears m about its channel c.
Learns(c, m) ==
  /\ c \in RemoteIds /\ Hears /\ m = Head(write) /\ m.type \in AnswerTypes /\ m.to = c
  /\ client' = [client EXCEPT ![c] = Got(c, m)]
  /\ UNCHANGED <<shells, ran>>

\* The client hears a message about c: what it knows of the other channels,
\* and what it can afford, stays so.
LEMMA LearnsFacts ==
  ASSUME Typed, NEW c, NEW m, Learns(c, m), Affords(c)
  PROVE  /\ client'[c] = Got(c, m) /\ client' \in [RemoteIds -> ClientChannel] /\ client[c] \in ClientChannel
         /\ (\A e \in RemoteIds : e /= c => client'[e] = client[e])
         /\ m \in Fitting /\ m \in AllTo(c) /\ (\A e : e /= c => m \notin AllTo(e)) /\ Affords(c)'
<1>1. client \in [RemoteIds -> ClientChannel] /\ c \in RemoteIds /\ Hears BY DEF Typed, Learns
<1>2. client[c] \in ClientChannel BY <1>1
<1>3. m = Head(write) /\ m \in Fitting /\ m.type \in AnswerTypes /\ m.to = c
  BY <1>1, HearsFacts DEF Learns
<1>4. m \in AllTo(c) /\ \A e : e /= c => m \notin AllTo(e) BY <1>3 DEF AllTo, To
<1>5. client'[c] = Got(c, m) /\ \A e \in RemoteIds : e /= c => client'[e] = client[e]
  BY <1>1 DEF Learns
<1> DEFINE a == Weight(m, "Data", c)
           r == IsReply(m, c)
           b == Bytes(write', "Data", c)
           s == Replies(write', c)
<1>6. Bytes(write, "Data", c) = a + b /\ Replies(write, c) = r + s /\ a \in Nat /\ b \in Nat /\ s \in Nat
  BY <1>1, <1>3, HearsSums
<1>7. r \in Nat BY DEF IsReply
<1>8. Bytes(write, "Data", c) <= client[c].window /\ Replies(write, c) <= client[c].asked
  BY DEF Affords
<1>9. client[c].window \in Nat /\ client[c].asked \in Nat
  <2>1. 0..ClientWindow \subseteq Nat BY ConnectionAssumption
  <2> QED BY <1>2, <2>1 DEF ClientChannel
<1>10. PICK d : d = Got(c, m) OBVIOUS
<1>11. d.window = client[c].window - a /\ d.asked = client[c].asked - r
  BY <1>2, <1>3, <1>10, GotFields
<1> HIDE DEF a, r, b, s
<1>12. a <= client[c].window /\ r <= client[c].asked BY <1>6, <1>7, <1>8, <1>9
<1>13. b <= d.window /\ s <= d.asked BY <1>6, <1>7, <1>8, <1>9, <1>11
<1>14. Got(c, m) \in ClientChannel BY <1>2, <1>3, <1>12, GotTyped DEF a, r
<1>15. client' \in [RemoteIds -> ClientChannel] BY <1>1, <1>14 DEF Learns
<1>16. Affords(c)' BY <1>5, <1>10, <1>13 DEF Affords, b, s
<1> QED BY <1>2, <1>3, <1>4, <1>5, <1>15, <1>16

\* What the client knows after it.
LEMMA LearnsNotes ==
  ASSUME Typed, NEW c, NEW m, Learns(c, m), Affords(c), NEW d, d = client'[c]
  PROVE  /\ d.pty = client[c].pty /\ d.shell = client[c].shell /\ d.closed = client[c].closed /\ d.early = client[c].early
         /\ (d.gclosed <=> client[c].gclosed \/ m.type = "Close") /\ (d.geof <=> client[c].geof \/ m.type = "Eof")
         /\ d.phase = IF m.type = "OpenConfirmation" THEN "open" ELSE IF m.type = "OpenFailure" THEN "refused" ELSE client[c].phase
         /\ d.peer = IF m.type = "OpenConfirmation" THEN m.arg ELSE client[c].peer
         /\ d.status = IF m.type = "ExitStatus" THEN m.arg ELSE client[c].status
         /\ d.asked = client[c].asked - IsReply(m, c) /\ d.credit = client[c].credit + Weight(m, "WindowAdjust", c)
         /\ d.window = client[c].window - Weight(m, "Data", c)
         /\ \A T : T \subseteq AnswerTypes => (m \in To(c, T) <=> m.type \in T)
<1>1. client[c] \in ClientChannel /\ m \in Fitting /\ client'[c] = Got(c, m) /\ m.type \in AnswerTypes /\ m.to = c
  BY LearnsFacts DEF Learns
<1>2. d = Got(c, m) BY <1>1
<1>3. \A T : T \subseteq AnswerTypes => (m \in To(c, T) <=> m.type \in T) BY <1>1 DEF To
<1> QED BY <1>1, <1>2, <1>3, GotFields

\* It is heard of, or on its way.
LEMMA LearnsTold ==
  ASSUME Typed, NEW c, NEW m, Learns(c, m), Affords(c)
  PROVE  /\ (client'[c].gclosed \/ Has(write', To(c, {"Close"}))) => (client[c].gclosed \/ Has(write, To(c, {"Close"})))
         /\ (client'[c].geof \/ Has(write', To(c, {"Eof"}))) <=> (client[c].geof \/ Has(write, To(c, {"Eof"})))
         /\ Told(c) => Told(c)'
<1>0. Hears /\ m = Head(write) /\ UNCHANGED <<shells, ran>> BY DEF Learns
<1>1. PICK d : d = client'[c] OBVIOUS
<1>2. /\ d.gclosed <=> client[c].gclosed \/ m.type = "Close"
      /\ d.geof <=> client[c].geof \/ m.type = "Eof"
      /\ d.status = IF m.type = "ExitStatus" THEN m.arg ELSE client[c].status
      /\ \A T : T \subseteq AnswerTypes => (m \in To(c, T) <=> m.type \in T)
  BY <1>1, LearnsNotes
<1>3. /\ m \in In(write) /\ In(write) = {m} \cup In(write')
      /\ \A S : Has(write', S) => Has(write, S)
      /\ \A S : m \notin S => (Has(write', S) <=> Has(write, S))
      /\ \A S : m \in S => Has(write, S)
  BY <1>0, HearsFacts
<1>4. {"Close"} \subseteq AnswerTypes /\ {"Eof"} \subseteq AnswerTypes /\ {"ExitStatus"} \subseteq AnswerTypes
  BY DEF AnswerTypes
<1>5. (m \in To(c, {"Close"}) <=> m.type = "Close") /\ (m \in To(c, {"Eof"}) <=> m.type = "Eof")
      /\ (m \in To(c, {"ExitStatus"}) <=> m.type = "ExitStatus")
  BY <1>2, <1>4
<1>6. (d.gclosed \/ Has(write', To(c, {"Close"}))) => (client[c].gclosed \/ Has(write, To(c, {"Close"})))
  BY <1>2, <1>3, <1>5
<1>7. (d.geof \/ Has(write', To(c, {"Eof"}))) <=> (client[c].geof \/ Has(write, To(c, {"Eof"})))
  BY <1>2, <1>3, <1>5
<1>8. ASSUME Told(c) PROVE Told(c)'
  <2>1. /\ client[c].geof \/ Has(write, To(c, {"Eof"}))
        /\ ran[c] \in Shells /\ shells[ran[c]].run = "reaped" /\ shells[ran[c]].out = 0
        /\ \A y \in In(write) : y \in To(c, {"ExitStatus"}) => y.arg = shells[ran[c]].status
        /\ shells[ran[c]].status \in ExitCodes => client[c].status = shells[ran[c]].status \/ Has(write, To(c, {"ExitStatus"}))
    BY <1>8 DEF Told
  <2>2. shells[ran[c]].status \in ExitCodes => d.status = shells[ran[c]].status \/ Has(write', To(c, {"ExitStatus"}))
    BY <1>2, <1>3, <1>5, <2>1
  <2>3. \A y \in In(write') : y \in To(c, {"ExitStatus"}) => y.arg = shells[ran[c]].status
    BY <1>3, <2>1
  <2> QED BY <1>0, <1>1, <1>7, <2>1, <2>2, <2>3 DEF Told
<1> QED BY <1>1, <1>6, <1>7, <1>8

\* The rest still comes in order, and completely.
LEMMA LearnsHeard ==
  ASSUME Typed, NEW c, NEW m, Learns(c, m), Heard(c)
  PROVE  Heard(c)'
<1>0. Hears /\ m = Head(write) /\ Affords(c) /\ Ordered(c) BY DEF Learns, Heard
<1>1. Affords(c)' BY <1>0, LearnsFacts
<1>2. PICK d : d = client'[c] OBVIOUS
<1>3. /\ d.closed = client[c].closed
      /\ d.gclosed <=> client[c].gclosed \/ m.type = "Close"
      /\ d.geof <=> client[c].geof \/ m.type = "Eof"
      /\ \A T : T \subseteq AnswerTypes => (m \in To(c, T) <=> m.type \in T)
  BY <1>0, <1>2, LearnsNotes
<1>4. /\ (d.gclosed \/ Has(write', To(c, {"Close"}))) => (client[c].gclosed \/ Has(write, To(c, {"Close"})))
      /\ Told(c) => Told(c)'
  BY <1>0, <1>2, LearnsTold
<1>5. /\ \A S : Has(write', S) => Has(write, S)
      /\ \A S, T : NoneAfter(write, S, T) => NoneAfter(write', S, T) /\ (m \in S => ~Has(write', T))
  BY <1>0, HearsFacts
<1>6. {"Close"} \subseteq AnswerTypes /\ {"Eof"} \subseteq AnswerTypes BY DEF AnswerTypes
<1>7. (m.type = "Close" => m \in To(c, {"Close"})) /\ (m.type = "Eof" => m \in To(c, {"Eof"}))
  BY <1>3, <1>6
<1>8. /\ NoneAfter(write', To(c, {"Close"}), To(c, LastTypes)) /\ NoneAfter(write', To(c, {"Eof"}), To(c, {"Data", "Eof"}))
      /\ m.type = "Close" => ~Has(write', To(c, LastTypes))
      /\ m.type = "Eof" => ~Has(write', To(c, {"Data", "Eof"}))
  BY <1>0, <1>5, <1>7 DEF Ordered
<1>9. (d.gclosed => ~Has(write', To(c, LastTypes))) /\ (d.geof => ~Has(write', To(c, {"Data", "Eof"})))
  BY <1>0, <1>3, <1>5, <1>8 DEF Ordered
<1>10. (d.gclosed \/ Has(write', To(c, {"Close"}))) /\ ~d.closed => Told(c)'
  BY <1>0, <1>3, <1>4 DEF Ordered
<1>11. Ordered(c)' BY <1>2, <1>8, <1>9, <1>10 DEF Ordered
<1> QED BY <1>1, <1>11 DEF Heard

\* The life of c, and what it has on its way, after it has heard a message.
LEMMA LearnsLife ==
  ASSUME Before, NEW c, NEW m, Learns(c, m), UNCHANGED <<channels, read>>
  PROVE  Life(c)' /\ Coherent(c)' /\ Asking(c)'
<1>0. IInv /\ Typed /\ Placed /\ c \in RemoteIds /\ Hears /\ m = Head(write) BY DEF Before, Learns
<1>1. Life(c) /\ Coherent(c) /\ Asking(c) /\ Affords(c) BY <1>0 DEF Before, Live, Heard
<1>2. PICK d : d = client'[c] OBVIOUS
<1>3. /\ d.pty = client[c].pty /\ d.shell = client[c].shell /\ d.closed = client[c].closed /\ d.early = client[c].early
      /\ d.phase = IF m.type = "OpenConfirmation" THEN "open" ELSE IF m.type = "OpenFailure" THEN "refused" ELSE client[c].phase
      /\ d.peer = IF m.type = "OpenConfirmation" THEN m.arg ELSE client[c].peer
      /\ d.window = client[c].window - Weight(m, "Data", c)
      /\ \A T : T \subseteq AnswerTypes => (m \in To(c, T) <=> m.type \in T)
  BY <1>0, <1>1, <1>2, LearnsNotes
<1>4. /\ m \in In(write) /\ In(write) = {m} \cup In(write')
      /\ \A S : Has(write', S) => Has(write, S)
      /\ \A S : m \in S => Has(write, S)
      /\ \A S, T : NoneAfter(write, S, T) => NoneAfter(write', S, T) /\ (m \in S => ~Has(write', T))
  BY <1>0, HearsFacts
<1>5. m \in AllTo(c) BY <1>0, <1>1, LearnsFacts
<1>6. ~Blank(c) BY <1>4, <1>5 DEF Blank
<1>7. client[c].phase /= "unopened" /\ ~Has(read, Opens(c)) BY <1>1, <1>6 DEF Life
<1>8. \A id \in Ids : Own(id, c)' <=> Own(id, c) BY DEF Own, Known
<1>9. OpenedTypes \subseteq AnswerTypes /\ {"OpenConfirmation"} \subseteq AnswerTypes /\ {"OpenFailure"} \subseteq AnswerTypes
  BY DEF OpenedTypes, AnswerTypes
<1>10. /\ m.type \in OpenedTypes => m \in To(c, OpenedTypes)
       /\ m.type = "OpenConfirmation" => m \in To(c, {"OpenConfirmation"})
       /\ m.type = "OpenFailure" => m \in To(c, {"OpenFailure"})
  BY <1>3, <1>9
<1>11. m.type \in OpenedTypes => client[c].phase = "opening" /\ ~Has(write', To(c, OpenedTypes))
  BY <1>1, <1>4, <1>10 DEF Life
<1>12. m.type = "OpenConfirmation" => Own(m.arg, c) BY <1>1, <1>4, <1>10 DEF Life
<1>13. m.type = "OpenFailure" => \A id \in Ids : ~Own(id, c) BY <1>1, <1>4, <1>10 DEF Life
<1>14. \A i, j \in Ids : Own(i, c) /\ Own(j, c) => i = j BY <1>0 DEF Placed, Own, Known
<1>15. m.type = "OpenConfirmation" => m.arg \in Ids BY <1>0, <1>12 DEF Own, Known, IInv, TypeOK
<1>16. ~Has(read', Opens(c)) /\ (\A y \in In(read') : y \notin Opens(c)) /\ NoneAfter(read', Opens(c), Opens(c))
  <2>1. ~Has(read', Opens(c)) BY <1>7
  <2> QED BY <2>1 DEF Has, NoneAfter, In
<1>17. d.phase /= "unopened" BY <1>3, <1>7
<1>18. /\ d.phase /= "open" => ~d.pty /\ ~d.closed
       /\ d.shell => d.pty
       /\ d.phase = "open" /\ ~d.closed => Own(d.peer, c)'
       /\ \A id \in Ids : Own(id, c)' => d.phase \in {"opening", "open"} /\ (d.phase = "open" => d.peer = id)
  <2>1. CASE m.type = "OpenConfirmation"
    <3>1. Own(m.arg, c)' BY <1>8, <1>12, <1>15, <2>1
    <3>2. \A id \in Ids : Own(id, c)' => id = m.arg BY <1>8, <1>12, <1>14, <1>15, <2>1
    <3>3. client[c].phase = "opening" BY <1>11, <2>1 DEF OpenedTypes
    <3>4. ~client[c].pty /\ ~client[c].closed /\ (client[c].shell => client[c].pty)
      BY <1>1, <3>3 DEF Life
    <3> QED BY <1>3, <2>1, <3>1, <3>2, <3>4
  <2>2. CASE m.type = "OpenFailure"
    <3>1. client[c].phase = "opening" BY <1>11, <2>2 DEF OpenedTypes
    <3>2. ~client[c].pty /\ ~client[c].closed /\ (client[c].shell => client[c].pty)
      BY <1>1, <3>1 DEF Life
    <3> QED BY <1>3, <1>8, <1>13, <2>2, <3>2
  <2>3. CASE m.type \notin OpenedTypes
    <3>1. d.phase = client[c].phase /\ d.peer = client[c].peer BY <1>3, <2>3 DEF OpenedTypes
    <3>2. Own(d.peer, c)' <=> Own(d.peer, c) BY DEF Own, Known
    <3> QED BY <1>1, <1>3, <1>8, <3>1, <3>2 DEF Life
  <2> QED BY <2>1, <2>2, <2>3 DEF OpenedTypes
<1>19. /\ NoneAfter(write', To(c, OpenedTypes), To(c, OpenedTypes))
       /\ Has(write', To(c, OpenedTypes)) => d.phase = "opening"
       /\ \A y \in In(write') : y \in To(c, {"OpenConfirmation"}) => Own(y.arg, c)'
       /\ Has(write', To(c, {"OpenFailure"})) => \A id \in Ids : ~Own(id, c)'
  <2>1. NoneAfter(write', To(c, OpenedTypes), To(c, OpenedTypes)) BY <1>1, <1>4 DEF Life
  <2>2. Has(write', To(c, OpenedTypes)) => d.phase = "opening"
    <3>1. m.type \notin OpenedTypes => d.phase = client[c].phase BY <1>3 DEF OpenedTypes
    <3> QED BY <1>1, <1>4, <1>11, <3>1 DEF Life
  <2>3. \A y \in In(write') : y \in To(c, {"OpenConfirmation"}) => Own(y.arg, c)'
    BY <1>1, <1>4 DEF Life, Own, Known
  <2>4. Has(write', To(c, {"OpenFailure"})) => \A id \in Ids : ~Own(id, c)'
    BY <1>1, <1>4, <1>8 DEF Life
  <2> QED BY <2>1, <2>2, <2>3, <2>4
<1>20. Life(c)' BY <1>2, <1>16, <1>17, <1>18, <1>19 DEF Life
<1>21. Coherent(c)'
  <2>1. client[c].phase = "open" => d.phase = "open" BY <1>3, <1>11 DEF OpenedTypes
  <2>2. \A id \in Ids : St(id)' = St(id) BY DEF St
  <2> QED BY <1>1, <1>2, <1>3, <1>8, <2>1, <2>2 DEF Coherent
<1>22. Asking(c)'
  <2>1. \A id \in Ids : St(id)' = St(id) BY DEF St
  <2> QED BY <1>1, <1>2, <1>3, <1>8, <2>1 DEF Asking
<1> QED BY <1>20, <1>21, <1>22

\* What has been said of the end of output and of the close.
LEMMA LearnsLinked ==
  ASSUME Before, NEW c, NEW m, Learns(c, m), UNCHANGED <<channels, read>>
  PROVE  Linked(c)'
<1>0. Typed /\ c \in RemoteIds /\ Hears /\ m = Head(write) /\ UNCHANGED <<shells, ran>>
  BY DEF Before, Learns
<1>1. Linked(c) /\ Affords(c) BY <1>0 DEF Before, Live, Heard
<1>2. PICK d : d = client'[c] OBVIOUS
<1>3. d.closed = client[c].closed BY <1>0, <1>1, <1>2, LearnsNotes
<1>4. /\ (d.gclosed \/ Has(write', To(c, {"Close"}))) => (client[c].gclosed \/ Has(write, To(c, {"Close"})))
      /\ (d.geof \/ Has(write', To(c, {"Eof"}))) <=> (client[c].geof \/ Has(write, To(c, {"Eof"})))
      /\ Told(c) => Told(c)'
  BY <1>0, <1>1, <1>2, LearnsTold
<1>5. \A S : Has(write', S) => Has(write, S) BY <1>0, HearsFacts
<1>6. ASSUME NEW id \in Ids, Own(id, c)' PROVE LinkedAt(id, c)'
  <2>1. LinkedAt(id, c) BY <1>1, <1>6 DEF Linked, Own, Known
  <2>2. St(id)' = St(id) /\ channels'[id] = channels[id] BY DEF St
  <2> QED BY <1>0, <1>2, <1>3, <1>4, <1>5, <2>1, <2>2 DEF LinkedAt
<1> QED BY <1>6 DEF Linked

\* The windows, the requests and the replies.
LEMMA LearnsCounted ==
  ASSUME Before, NEW c, NEW m, Learns(c, m), UNCHANGED <<channels, read, pending>>
  PROVE  Counted(c)'
<1>0. IInv /\ Typed /\ c \in RemoteIds /\ Hears /\ m = Head(write) BY DEF Before, Learns
<1>1. Counted(c) /\ Affords(c) BY <1>0 DEF Before, Live, Heard
<1>2. PICK d : d = client'[c] OBVIOUS
<1> DEFINE a == Weight(m, "WindowAdjust", c)
           b == Weight(m, "Data", c)
           r == IsReply(m, c)
           wa == Bytes(write', "WindowAdjust", c)
           wd == Bytes(write', "Data", c)
           wr == Replies(write', c)
<1>3. d.credit = client[c].credit + a /\ d.window = client[c].window - b /\ d.asked = client[c].asked - r
      /\ d.early = client[c].early
  BY <1>0, <1>1, <1>2, LearnsNotes
<1>4. /\ Bytes(write, "WindowAdjust", c) = a + wa /\ Bytes(write, "Data", c) = b + wd /\ Replies(write, c) = r + wr
      /\ a \in Nat /\ b \in Nat /\ wa \in Nat /\ wd \in Nat /\ wr \in Nat
  BY <1>0, HearsSums
<1>5. r \in Nat BY DEF IsReply
<1>6. client[c].credit \in Nat /\ client[c].window \in Nat /\ client[c].asked \in Nat
  <2>1. 0..ClientWindow \subseteq Nat BY ConnectionAssumption
  <2>2. client[c] \in ClientChannel BY <1>0 DEF Typed
  <2> QED BY <2>1, <2>2 DEF ClientChannel
<1> HIDE DEF a, b, r, wa, wd, wr
<1>7. ASSUME NEW id \in Ids, Own(id, c)' PROVE CountedAt(id, c)'
  <2>1. CountedAt(id, c) /\ id \in DOMAIN channels BY <1>1, <1>7 DEF Counted, Own, Known
  <2>2. St(id)' = St(id) /\ channels'[id] = channels[id] BY DEF St
  <2> DEFINE pa == Bytes(pending.out, "WindowAdjust", c)
             ca == Coming(read, "ChannelData", id)
             cb == Coming(read, "ChannelWindowAdjust", id)
             cr == Requests(read, id)
  <2>3. pa \in Nat BY <1>0, BytesFacts DEF Typed
  <2>4. ca \in Nat /\ cb \in Nat /\ cr \in Nat BY <1>0, ComingFacts, RequestsFacts DEF Typed
  <2>5. channels[id].send_window \in Nat /\ channels[id].receive_window \in Nat
    <3>1. channels[id] \in Channel BY <1>0, <2>1 DEF IInv, TypeOK
    <3> QED BY <3>1, ChannelsAssumption DEF Channel
  <2>6. /\ channels[id].receive_window <= client[c].credit + (a + wa) + pa + ca
        /\ client[c].credit + (a + wa) + pa + ca <= channels[id].receive_window + INITIAL_WINDOW_SIZE
        /\ ~client[c].early \/ St(id) \in {"None", "Requested"}
             => client[c].credit + (a + wa) + pa + ca = channels[id].receive_window
        /\ channels[id].send_window + (b + wd) + cb = client[c].window
        /\ client[c].asked = (r + wr) + cr
        /\ St(id) \in {"None", "Requested"} => client[c].early \/ channels[id].receive_window = 0
    BY <1>4, <2>1 DEF CountedAt, Granted
  <2>7. Bytes(pending'.out, "WindowAdjust", c) = pa /\ Coming(read', "ChannelData", id) = ca
        /\ Coming(read', "ChannelWindowAdjust", id) = cb /\ Requests(read', id) = cr
    OBVIOUS
  <2> HIDE DEF pa, ca, cb, cr
  <2>8. d.credit + wa + pa + ca = client[c].credit + (a + wa) + pa + ca
    BY <1>3, <1>4, <1>6, <2>3, <2>4
  <2>9. channels[id].send_window + wd + cb = d.window BY <1>3, <1>4, <1>6, <2>4, <2>5, <2>6
  <2>10. d.asked = wr + cr BY <1>3, <1>4, <1>5, <1>6, <2>4, <2>6
  <2> QED BY <1>2, <1>3, <2>2, <2>6, <2>7, <2>8, <2>9, <2>10 DEF CountedAt, Granted, wa, wd, wr
<1>8. ASSUME \A id \in Ids : ~Own(id, c)' PROVE client'[c].asked = Replies(write', c)
  <2>1. client[c].asked = Replies(write, c) BY <1>1, <1>8 DEF Counted, Own, Known
  <2>2. d.asked = wr BY <1>3, <1>4, <1>5, <1>6, <2>1
  <2> QED BY <1>2, <2>2 DEF wr
<1> QED BY <1>7, <1>8 DEF Counted

\* A message is of the exchange, a refusal of a global request, or for one of
\* the client's channels.
LEMMA ReadsKinds ==
  ASSUME Typed, ClientReads, NEW m, m = Head(write)
  PROVE  /\ Hears /\ m \in Fitting /\ UNCHANGED <<shells, channels, pending, session, kx, read, steps, ran>>
         /\ \/ /\ m.type \in KxTypes /\ UNCHANGED client /\ (\A c : m \notin AllTo(c))
               /\ m.type = "KexInit" => ckx' = "got_init"
               /\ m.type = "EcdhReply" => ckx' = "got_reply"
               /\ m.type = "NewKeys" => ckx' = "idle"
            \/ UNCHANGED <<client, ckx>> /\ m \notin Loop(KxTypes) /\ (\A c : m \notin AllTo(c))
            \/ Learns(m.to, m) /\ UNCHANGED ckx /\ m \notin Loop(KxTypes)
<1>1. Hears
  BY DEF ClientReads, Hears
<1>2. m \in Fitting
  BY <1>1, HearsFacts
<1>3. m \in ServerMessage
  BY <1>2 DEF Fitting
<1>4. UNCHANGED <<shells, channels, pending, session, kx, read, steps, ran>>
  BY DEF ClientReads, kxVars
<1>5. KxTypes = {"KexInit", "EcdhReply", "NewKeys"}
  BY DEF KxTypes
<1>6. m.type \in KxTypes \cup {"RequestFailure"} => \A c : m \notin AllTo(c)
  BY <1>5 DEF AllTo, To, AnswerTypes
<1>7. m.type \notin KxTypes => m \notin Loop(KxTypes)
  BY DEF Loop
<1>8. CASE m.type \in KxTypes /\ UNCHANGED client
           /\ ckx' = CASE m.type = "KexInit" -> "got_init"
                       [] m.type = "EcdhReply" -> "got_reply"
                       [] m.type = "NewKeys" -> "idle"
  BY <1>1, <1>2, <1>4, <1>5, <1>6, <1>8
<1>9. CASE m.type = "RequestFailure" /\ UNCHANGED <<client, ckx>>
  BY <1>1, <1>2, <1>4, <1>5, <1>6, <1>7, <1>9
<1>10. CASE /\ ForChannels(m) /\ m.to \in RemoteIds
            /\ client' = [client EXCEPT ![m.to] = Got(m.to, m)] /\ UNCHANGED ckx
  <2>1. m.type \in AnswerTypes /\ m.type \notin KxTypes
    BY <1>3, <1>5, <1>10 DEF ForChannels, ServerMessage, LoopMessage, AnswerTypes
  <2>2. Learns(m.to, m)
    BY <1>1, <1>4, <1>10, <2>1 DEF Learns
  <2> QED
    BY <1>1, <1>2, <1>4, <1>7, <1>10, <2>1, <2>2
<1> QED
  BY <1>5, <1>8, <1>9, <1>10 DEF ClientReads

\* Whether the session runs or not, the client hears what it can afford.
LEMMA ReadsHeard ==
  ASSUME IInv, ShellsMove, Typed, \A c \in RemoteIds : Heard(c), ClientReads
  PROVE  /\ \A c \in RemoteIds : Heard(c)' /\ client'[c].early = client[c].early
         /\ write' \in Seq(Fitting) /\ ClientTyped'
<1> PICK m : m = Head(write)
  OBVIOUS
<1>1. /\ Hears /\ m \in Fitting /\ UNCHANGED <<shells, channels, pending, session, kx, read, steps, ran>>
      /\ \/ /\ m.type \in KxTypes /\ UNCHANGED client /\ (\A c : m \notin AllTo(c))
            /\ m.type = "KexInit" => ckx' = "got_init"
            /\ m.type = "EcdhReply" => ckx' = "got_reply"
            /\ m.type = "NewKeys" => ckx' = "idle"
         \/ UNCHANGED <<client, ckx>> /\ m \notin Loop(KxTypes) /\ (\A c : m \notin AllTo(c))
         \/ Learns(m.to, m) /\ UNCHANGED ckx /\ m \notin Loop(KxTypes)
  BY ReadsKinds
<1>2. write' \in Seq(Fitting)
  BY <1>1, HearsFacts
<1>3. read' \in Seq(Sendable) /\ steps' \in Nat
  BY <1>1 DEF Typed
<1>4. ckx' \in {"idle", "init", "got_init", "ecdh", "got_reply", "awaiting"}
  <2>1. CASE UNCHANGED ckx
    BY <2>1 DEF Typed
  <2>2. CASE m.type \in KxTypes /\ (m.type = "KexInit" => ckx' = "got_init")
             /\ (m.type = "EcdhReply" => ckx' = "got_reply") /\ (m.type = "NewKeys" => ckx' = "idle")
    BY <2>2 DEF KxTypes
  <2> QED
    BY <1>1, <2>1, <2>2
<1>5. CASE UNCHANGED client /\ \A c : m \notin AllTo(c)
  <2>1. client' \in [RemoteIds -> ClientChannel]
    BY <1>5 DEF Typed
  <2>2. \A c \in RemoteIds : Heard(c)'
    <3> SUFFICES ASSUME NEW c \in RemoteIds PROVE Heard(c)'
      OBVIOUS
    <3>1. SameTo(c)
      BY <1>1, <1>5, HearsSame
    <3>2. client'[c] = client[c] /\ ran'[c] = ran[c]
      BY <1>1, <1>5
    <3> QED
      BY <3>1, <3>2, HeardStays
  <2> QED
    BY <1>2, <1>3, <1>4, <1>5, <2>1, <2>2 DEF ClientTyped
<1>6. CASE Learns(m.to, m)
  <2> PICK d : d = m.to
    OBVIOUS
  <2>0. Learns(d, m) /\ d \in RemoteIds
    BY <1>6 DEF Learns
  <2>1. Heard(d) /\ Affords(d)
    BY <2>0 DEF Heard
  <2>2. /\ client' \in [RemoteIds -> ClientChannel] /\ (\A e : e /= d => m \notin AllTo(e))
        /\ (\A e \in RemoteIds : e /= d => client'[e] = client[e])
    BY <2>0, <2>1, LearnsFacts
  <2>3. Heard(d)'
    BY <2>0, <2>1, LearnsHeard
  <2>4. \A c \in RemoteIds : Heard(c)'
    <3> SUFFICES ASSUME NEW c \in RemoteIds, c /= d PROVE Heard(c)'
      BY <2>3
    <3>1. SameTo(c)
      BY <1>1, <2>2, HearsSame
    <3>2. client'[c] = client[c] /\ ran'[c] = ran[c]
      BY <1>1, <2>2
    <3> QED
      BY <3>1, <3>2, HeardStays
  <2>5. client'[d].early = client[d].early
    BY <2>0, <2>1, LearnsNotes
  <2> QED
    BY <1>2, <1>3, <1>4, <2>2, <2>4, <2>5 DEF ClientTyped
<1> QED
  BY <1>1, <1>5, <1>6

\* The server has said one thing of the exchange, and the client hears it.
LEMMA HearsSaid ==
  ASSUME Typed, Hears, NEW m, m = Head(write), m.type \in KxTypes
  PROVE  ~Silent /\ \A t \in KxTypes : Says(t) => m.type = t /\ Silent'
<1>1. /\ m \in Fitting /\ m \in In(write)
      /\ (\A S : Has(write', S) => Has(write, S)) /\ (\A S : m \in S => Has(write, S))
      /\ \A S, T : NoneAfter(write, S, T) => (m \in S => ~Has(write', T))
  BY HearsFacts
<1>2. m \in Loop(KxTypes)
  BY <1>1 DEF Loop
<1>3. ~Silent
  BY <1>1, <1>2 DEF Silent
<1>4. ASSUME NEW t \in KxTypes, Says(t) PROVE m.type = t /\ Silent'
  <2>1. ~Has(write, Loop(KxTypes \ {t})) /\ NoneAfter(write, Loop({t}), Loop({t}))
    BY <1>4 DEF Says
  <2>2. m.type = t
    <3> SUFFICES ASSUME m.type /= t PROVE FALSE
      OBVIOUS
    <3>1. m \in Loop(KxTypes \ {t})
      BY <1>1 DEF Loop
    <3> QED
      BY <1>1, <2>1, <3>1
  <2>3. m \in Loop({t})
    BY <1>1, <2>2 DEF Loop
  <2>4. ~Has(write', Loop({t}))
    BY <1>1, <2>1, <2>3
  <2>5. ~Has(write', Loop(KxTypes \ {t}))
    BY <1>1, <2>1
  <2>6. ~Has(write', Loop(KxTypes))
    BY <2>4, <2>5 DEF Has, Loop
  <2> QED
    BY <2>2, <2>6 DEF Silent
<1> QED
  BY <1>3, <1>4

\* The client hears of the exchange, and the exchange goes on.
LEMMA ReadsExchanges ==
  ASSUME Typed, Exchanges, Hears, NEW m, m = Head(write), m.type \in KxTypes, UNCHANGED <<kx, read>>,
         m.type = "KexInit" => ckx' = "got_init",
         m.type = "EcdhReply" => ckx' = "got_reply",
         m.type = "NewKeys" => ckx' = "idle"
  PROVE  Exchanges'
<1>1. ~Silent /\ \A t \in KxTypes : Says(t) => m.type = t /\ Silent'
  BY HearsSaid
<1>2. "KexInit" \in KxTypes /\ "EcdhReply" \in KxTypes /\ "NewKeys" \in KxTypes
  BY DEF KxTypes
<1>3. \/ ckx = "init" /\ kx.state = "AwaitingEcdhInit" /\ read = <<>> /\ Says("KexInit")
      \/ ckx = "ecdh" /\ kx.state = "AwaitingNewKeys" /\ read = <<>> /\ Says("EcdhReply")
      \/ ckx = "awaiting" /\ kx.state = "AwaitingKexInit" /\ ~Has(read, Exchange) /\ Says("NewKeys")
  BY <1>1, Zenon DEF Exchanges
<1>4. kx'.state = kx.state /\ read' = read
  OBVIOUS
<1>5. CASE ckx = "init" /\ kx.state = "AwaitingEcdhInit" /\ read = <<>> /\ Says("KexInit")
  <2>1. ckx' = "got_init" /\ kx'.state = "AwaitingEcdhInit" /\ read' = <<>> /\ Silent'
    BY <1>1, <1>2, <1>4, <1>5
  <2> QED
    BY <2>1, Zenon DEF Exchanges
<1>6. CASE ckx = "ecdh" /\ kx.state = "AwaitingNewKeys" /\ read = <<>> /\ Says("EcdhReply")
  <2>1. ckx' = "got_reply" /\ kx'.state = "AwaitingNewKeys" /\ read' = <<>> /\ Silent'
    BY <1>1, <1>2, <1>4, <1>6
  <2> QED
    BY <2>1, Zenon DEF Exchanges
<1>7. CASE ckx = "awaiting" /\ kx.state = "AwaitingKexInit" /\ ~Has(read, Exchange) /\ Says("NewKeys")
  <2>1. ckx' = "idle" /\ kx'.state = "AwaitingKexInit" /\ Silent'
    BY <1>1, <1>2, <1>4, <1>7
  <2>2. ~Has(read, Exchange)'
    BY <1>4, <1>7 DEF Has, In, Exchange, Sendable
  <2> QED
    BY <2>1, <2>2, Zenon DEF Exchanges
<1> QED
  BY <1>3, <1>5, <1>6, <1>7

\* The client receives what the server has sent.
LEMMA ReadsGoes ==
  ASSUME Before, Exchanges, Running, ClientReads
  PROVE  Goes /\ ClientTyped'
<1> PICK m : m = Head(write)
  OBVIOUS
<1>0. IInv /\ ShellsMove /\ Typed /\ Placed /\ \A c \in RemoteIds : Live(c) /\ Heard(c)
  BY DEF Before
<1>1. /\ Hears /\ m \in Fitting /\ UNCHANGED <<shells, channels, pending, session, kx, read, steps, ran>>
      /\ \/ /\ m.type \in KxTypes /\ UNCHANGED client /\ (\A c : m \notin AllTo(c))
            /\ m.type = "KexInit" => ckx' = "got_init"
            /\ m.type = "EcdhReply" => ckx' = "got_reply"
            /\ m.type = "NewKeys" => ckx' = "idle"
         \/ UNCHANGED <<client, ckx>> /\ m \notin Loop(KxTypes) /\ (\A c : m \notin AllTo(c))
         \/ Learns(m.to, m) /\ UNCHANGED ckx /\ m \notin Loop(KxTypes)
  BY <1>0, ReadsKinds
<1>2. write' \in Seq(Fitting) /\ ClientTyped' /\ \A c \in RemoteIds : Heard(c)'
  BY <1>0, ReadsHeard
<1>3. Running' /\ pending'.out \in Seq(Fitting)
  BY <1>0, <1>1 DEF Running, Typed
<1>4. Exchanges'
  <2>1. CASE UNCHANGED ckx /\ m \notin Loop(KxTypes)
    <3>1. SameIn(write, write', Loop(KxTypes))
      BY <1>0, <1>1, <2>1, SameTail DEF Hears, Typed
    <3> QED
      BY <1>0, <1>1, <2>1, <3>1, ExchangesKeep
  <2>2. CASE /\ m.type \in KxTypes
             /\ m.type = "KexInit" => ckx' = "got_init"
             /\ m.type = "EcdhReply" => ckx' = "got_reply"
             /\ m.type = "NewKeys" => ckx' = "idle"
    <3>1. UNCHANGED <<kx, read>>
      BY <1>1
    <3> QED
      BY <1>0, <1>1, <2>2, <3>1, ReadsExchanges
  <2> QED
    BY <1>1, <2>1, <2>2
<1>5. After
  <2>1. CASE UNCHANGED client /\ \A c : m \notin AllTo(c)
    <3>1. \A c \in RemoteIds : SameTo(c)
      BY <1>0, <1>1, <2>1, HearsSame
    <3>2. UNCHANGED <<channels, client>> /\ pending'.out = pending.out /\ UNCHANGED ran /\ UNCHANGED read
      BY <1>1, <2>1
    <3> QED
      BY <3>1, <3>2, QuietAfter
  <2>2. CASE Learns(m.to, m)
    <3> PICK d : d = m.to
      OBVIOUS
    <3>0. Learns(d, m) /\ d \in RemoteIds
      BY <2>2 DEF Learns
    <3>1. Heard(d) /\ Affords(d)
      BY <1>0, <3>0 DEF Heard
    <3>2. /\ (\A e : e /= d => m \notin AllTo(e))
          /\ (\A e \in RemoteIds : e /= d => client'[e] = client[e])
      BY <1>0, <3>0, <3>1, LearnsFacts
    <3>3. UNCHANGED <<channels, read>> /\ UNCHANGED <<channels, read, pending>>
      BY <1>1
    <3>4. Life(d)' /\ Coherent(d)' /\ Asking(d)' /\ Linked(d)' /\ Counted(d)'
      BY <3>0, <3>3, LearnsLife, LearnsLinked, LearnsCounted
    <3>5. Live(d)'
      BY <3>4 DEF Live
    <3>6. Placed'
      BY <1>0, <3>3 DEF Placed, In, Known, HandledTypes, ChannelTypes
    <3>7. \A c \in RemoteIds : Live(c)'
      <4> SUFFICES ASSUME NEW c \in RemoteIds, c /= d PROVE Live(c)'
        BY <3>5
      <4>1. SameTo(c)
        BY <1>0, <1>1, <3>2, HearsSame
      <4>2. client'[c] = client[c] /\ ran'[c] = ran[c]
        BY <1>1, <3>2
      <4>3. \A id \in Ids : (Own(id, c)' <=> Own(id, c)) /\ channels'[id] = channels[id]
        BY <3>3 DEF Own, Known
      <4>4. \A id \in Ids : SameFor(id)
        BY <3>3, SameSelf DEF SameFor
      <4>5. SameIn(read, read', Opens(c)) /\ Bytes(pending'.out, "WindowAdjust", c) = Bytes(pending.out, "WindowAdjust", c)
        BY <3>3, SameSelf
      <4>6. Untouched(c)
        BY <4>1, <4>2, <4>3, <4>4, <4>5 DEF Untouched
      <4> QED
        BY <1>0, <4>6, UntouchedStays
    <3> QED
      BY <1>2, <3>6, <3>7 DEF After
  <2> QED
    BY <1>1, <2>1, <2>2
<1> QED
  BY <1>2, <1>3, <1>4, <1>5 DEF Goes

-----------------------------------------------------------------------------
(* No shell is forgotten. *)

\* A shell that is alive is held on to.
HoldsOn(j) ==
  channels[j].terminal.state \in OwningStates /\ shells[channels[j].terminal.shell].run = "alive" =>
    /\ j \in DOMAIN channels' /\ channels'[j].terminal.state \in OwningStates
    /\ channels'[j].terminal.shell = channels[j].terminal.shell
NoneRise == \A p \in Shells : shells'[p].run = "alive" => shells[p].run = "alive"

\* No living shell appears, and every channel holds on to its own.
LEMMA StrayKept ==
  ASSUME NoStrayShell, Running, NoneRise, \A j \in DOMAIN channels : HoldsOn(j)
  PROVE  NoStrayShell'
<1> SUFFICES ASSUME NEW p \in Shells, shells'[p].run = "alive"
             PROVE  \E id \in DOMAIN channels' :
                      channels'[id].terminal.state \in OwningStates /\ channels'[id].terminal.shell = p
  BY DEF NoStrayShell
<1>1. PICK id \in DOMAIN channels : channels[id].terminal.state \in OwningStates /\ channels[id].terminal.shell = p
  BY DEF NoStrayShell, NoneRise
<1>2. HoldsOn(id) /\ shells[channels[id].terminal.shell].run = "alive"
  BY <1>1 DEF NoneRise
<1> QED
  BY <1>1, <1>2 DEF HoldsOn

\* The shells as they were, and one channel replaced.
LEMMA StrayUpdate ==
  ASSUME IInv, NoStrayShell, Running, NoneRise, NEW id \in DOMAIN channels, NEW d, channels' = Update(id, d),
         \/ d.terminal.state \in OwningStates /\ d.terminal.shell = channels[id].terminal.shell
         \/ d.terminal = channels[id].terminal
         \/ channels[id].terminal.state \notin OwningStates
  PROVE  NoStrayShell'
<1>1. /\ DOMAIN channels' = DOMAIN channels /\ channels'[id] = d
      /\ \A j \in DOMAIN channels : j /= id => channels'[j] = channels[j]
  BY DEF IInv, TypeOK, Update
<1>2. \A j \in DOMAIN channels : HoldsOn(j)
  BY <1>1 DEF HoldsOn
<1> QED
  BY <1>2, StrayKept

\* A channel without a shell goes.
LEMMA StrayRemove ==
  ASSUME IInv, NoStrayShell, Running, UNCHANGED shells, NEW id, channels' = Remove(id),
         channels[id].terminal.state \notin OwningStates
  PROVE  NoStrayShell'
<1>1. DOMAIN channels' = DOMAIN channels \ {id} /\ \A j \in DOMAIN channels' : channels'[j] = channels[j]
  BY DEF Remove
<1>2. \A j \in DOMAIN channels : HoldsOn(j)
  BY <1>1 DEF HoldsOn
<1> QED
  BY <1>2, StrayKept DEF NoneRise

\* Neither the shells nor the channels change.
LEMMA StraySame ==
  ASSUME NoStrayShell, Running, UNCHANGED <<shells, channels>>
  PROVE  NoStrayShell'
BY StrayKept DEF HoldsOn, NoneRise

\* A poll.
LEMMA PassedRise ==
  ASSUME IInv, NEW js \in SUBSET DOMAIN channels
  PROVE  /\ \A p \in Shells : PassedShells(js)[p].run = "alive" => shells[p].run = "alive"
         /\ \A j \in DOMAIN channels : shells[channels[j].terminal.shell].run = "alive" => PassedChannel(j) = channels[j]
<1>1. ASSUME NEW p \in Shells, PassedShells(js)[p].run = "alive" PROVE shells[p].run = "alive"
  <2>1. shells[p] \in Shell
    BY DEF IInv, TypeOK
  <2>2. PassedShells(js)[p] \in {Reaped(shells[p]), start_kill(shells[p]), shells[p]}
    BY DEF PassedShells
  <2> QED
    BY <1>1, <2>1, <2>2, ShellOpsRun
<1>2. \A j \in DOMAIN channels : shells[channels[j].terminal.shell].run = "alive" => PassedChannel(j) = channels[j]
  BY DEF PassedChannel, PassedReaps, ReadyWait, ShellOf
<1> QED
  BY <1>1, <1>2

\* The shell of the channel the poll returns at, if any, does not come alive.
LEMMA PolledRise ==
  ASSUME IInv, NEW id \in DOMAIN channels,
         \/ shells' = PassedShells(Below(id))
         \/ /\ channels[id].terminal.state \in OwningStates
            /\ \E t \in Shell : /\ shells' = [PassedShells(Below(id)) EXCEPT ![channels[id].terminal.shell] = t]
                                /\ t.run = "alive" => shells[channels[id].terminal.shell].run = "alive"
  PROVE  NoneRise
<1>1. Below(id) \in SUBSET DOMAIN channels
  BY DEF Below
<1>2. \A p \in Shells : PassedShells(Below(id))[p].run = "alive" => shells[p].run = "alive"
  BY <1>1, PassedRise
<1>3. PassedShells(Below(id)) \in [Shells -> Shell]
  BY <1>1, PassedShellsFacts
<1>4. CASE shells' = PassedShells(Below(id))
  BY <1>2, <1>4 DEF NoneRise
<1>5. CASE /\ channels[id].terminal.state \in OwningStates
           /\ \E t \in Shell : /\ shells' = [PassedShells(Below(id)) EXCEPT ![channels[id].terminal.shell] = t]
                               /\ t.run = "alive" => shells[channels[id].terminal.shell].run = "alive"
  BY <1>2, <1>3, <1>5 DEF NoneRise
<1> QED
  BY <1>4, <1>5

\* The poll returns at id, whose shell is dead or still held.
LEMMA StrayPolled ==
  ASSUME IInv, NoStrayShell, Running, NoneRise, NEW id \in DOMAIN channels, NEW d \in Channel, PollAt(id, d),
         channels[id].terminal.state \in OwningStates /\ shells[channels[id].terminal.shell].run = "alive" =>
           d.terminal.state \in OwningStates /\ d.terminal.shell = channels[id].terminal.shell
  PROVE  NoStrayShell'
<1>1. /\ DOMAIN channels' = DOMAIN channels /\ channels'[id] = d
      /\ \A j \in DOMAIN channels : j /= id => channels'[j] \in {PassedChannel(j), channels[j]}
  BY DEF PollAt
<1>2. \A j \in DOMAIN channels : shells[channels[j].terminal.shell].run = "alive" => PassedChannel(j) = channels[j]
  BY PassedRise
<1>3. \A j \in DOMAIN channels : HoldsOn(j)
  BY <1>1, <1>2 DEF HoldsOn
<1> QED
  BY <1>3, StrayKept

\* A poll of the terminals.
LEMMA StrayPoll ==
  ASSUME IInv, NoStrayShell, Running, Poll, session' = "running"
  PROVE  NoStrayShell'
<1>1. CASE PollPending
  <2>1. DOMAIN channels \in SUBSET DOMAIN channels
    OBVIOUS
  <2>2. /\ NoneRise
        /\ \A j \in DOMAIN channels : shells[channels[j].terminal.shell].run = "alive" => PassedChannel(j) = channels[j]
    BY <1>1, <2>1, PassedRise DEF PollPending, NoneRise
  <2>3. \A j \in DOMAIN channels : HoldsOn(j)
    BY <1>1, <2>2 DEF PollPending, HoldsOn
  <2> QED
    BY <2>2, <2>3, StrayKept
<1>2. ASSUME NEW id \in DOMAIN channels, PollReady(id) PROVE NoStrayShell'
  <2> PICK c : c = channels[id]
    OBVIOUS
  <2> PICK p : p = channels[id].terminal.shell
    OBVIOUS
  <2>0. c \in Channel /\ c.terminal \in Terminals
    BY PollBase
  <2>1. ASSUME c.terminal.state \in OwningStates
        PROVE  p \in Shells /\ shells[p] \in Shell /\ PassedShells(Below(id))[p] = shells[p]
    BY <2>1, PollBase, PassedOwnShell
  <2>2. CASE PollRead(id)
    <3>1. PICK n \in 1..Smaller(limit(c), ShellOf(id).out) :
            /\ PollAt(id, WithSendWindow(c, c.send_window - n))
            /\ shells' = [PassedShells(Below(id)) EXCEPT ![p] = Drained(@, n)]
      BY <2>2 DEF PollRead
    <3>2. c.terminal.state = "Running" /\ c.terminal.state \in OwningStates /\ ShellOf(id).out > 0
      BY <2>2 DEF PollRead, OwningStates
    <3>3. shells' = [PassedShells(Below(id)) EXCEPT ![p] = Drained(shells[p], n)]
      BY <2>1, <3>1, <3>2
    <3>4. n \in 1..Smaller(limit(c), shells[p].out) /\ shells[p].out > 0
      BY <3>1, <3>2 DEF ShellOf
    <3>a. READ_BUF \in Nat /\ c.maximum_packet_size \in Nat /\ c.send_window \in Nat /\ shells[p].out \in Nat
      BY <2>0, <2>1, <3>2, ChannelsAssumption, TerminalAssumption DEF Channel, Shell
    <3>b. n \in 1..Smaller(Smaller(READ_BUF, Smaller(c.maximum_packet_size, c.send_window)), shells[p].out)
      BY <3>4 DEF limit
    <3>5. n \in Nat /\ n \in 1..shells[p].out /\ n <= c.send_window
      BY <3>a, <3>b, ReadBounds
    <3>c. c.send_window \in 0..MaxWindow /\ MaxWindow \in Nat
      BY <2>0, ChannelsAssumption DEF Channel
    <3>d. c.send_window - n \in 0..MaxWindow
      BY <3>5, <3>c
    <3>6. c.send_window - n \in 0..MaxWindow /\ Drained(shells[p], n) \in Shell
      BY <2>1, <3>2, <3>5, <3>d, ShellOpsType
    <3>7. Drained(shells[p], n).run = shells[p].run
      BY <2>1, <3>2, ShellOpsRun
    <3>8. NoneRise
      BY <3>2, <3>3, <3>6, <3>7, PolledRise
    <3>9. WithSendWindow(c, c.send_window - n) \in Channel
      BY <2>0, <3>6, ChannelOpsType
    <3>e. WithSendWindow(c, c.send_window - n).terminal = c.terminal
      BY <2>0, ChannelOpsFields
    <3>10. PICK d \in Channel : PollAt(id, d) /\ d.terminal = c.terminal
      BY <3>1, <3>9, <3>e
    <3> QED
      BY <3>2, <3>8, <3>10, StrayPolled
  <2>3. CASE PollEof(id)
    <3>1. /\ PollAt(id, WithTerminal(c, WithShell("Exiting", p))) /\ shells' = PassedShells(Below(id))
          /\ c.terminal.state \in OwningStates
      BY <2>3 DEF PollEof, OwningStates
    <3>2. WithShell("Exiting", p) \in Terminals /\ WithShell("Exiting", p).state = "Exiting" /\ WithShell("Exiting", p).shell = p
      BY <2>1, <3>1, TerminalOps DEF OwningStates
    <3>3. WithTerminal(c, WithShell("Exiting", p)) \in Channel
      BY <2>0, <3>2, ChannelOpsType
    <3>a. WithTerminal(c, WithShell("Exiting", p)).terminal = WithShell("Exiting", p)
      BY <2>0, ChannelOpsFields
    <3>4. NoneRise
      BY <3>1, PolledRise
    <3>5. PICK d \in Channel : PollAt(id, d) /\ d.terminal.state = "Exiting" /\ d.terminal.shell = p
      BY <3>1, <3>2, <3>3, <3>a
    <3>6. d.terminal.state \in OwningStates
      BY <3>5 DEF OwningStates
    <3> QED
      BY <3>4, <3>5, <3>6, StrayPolled
  <2>4. CASE PollReadError(id)
    BY <2>4 DEF PollReadError, Fail
  <2>5. CASE PollExit(id)
    <3>1. /\ c.terminal.state = "Exiting" /\ FirstReady(id)
          /\ shells' = [PassedShells(Below(id)) EXCEPT ![p] = Reaped(@)]
          /\ \/ PollAt(id, WithTerminal(c, TState("Closing")))
             \/ PollAt(id, WithClose(WithTerminal(c, TState("Closing"))))
      BY <2>5 DEF PollExit
    <3>2. c.terminal.state \in OwningStates
      BY <3>1 DEF OwningStates
    <3>3. shells[p].run = "zombie"
      BY <3>1 DEF FirstReady, Returns, Woken, ReadyWait, ShellOf
    <3>4. shells' = [PassedShells(Below(id)) EXCEPT ![p] = Reaped(shells[p])]
      BY <2>1, <3>1, <3>2
    <3>5. Reaped(shells[p]) \in Shell /\ Reaped(shells[p]).run = "reaped"
      BY <2>1, <3>2, ShellOpsType, ShellOpsRun
    <3>6. NoneRise
      BY <3>2, <3>4, <3>5, PolledRise
    <3>7. WithTerminal(c, TState("Closing")) \in Channel
      BY <2>0, TerminalOps, ChannelOpsType
    <3>8. WithClose(WithTerminal(c, TState("Closing"))) \in Channel
      BY <3>7, ChannelOpsType
    <3>9. PICK d \in Channel : PollAt(id, d)
      BY <3>1, <3>7, <3>8
    <3> QED
      BY <3>3, <3>6, <3>9, StrayPolled
  <2>6. CASE PollClose(id)
    <3>1. PollAt(id, WithClose(c)) /\ shells' = PassedShells(Below(id)) /\ c.terminal.state = "Closing"
      BY <2>6 DEF PollClose
    <3>2. WithClose(c) \in Channel
      BY <2>0, ChannelOpsType
    <3>3. NoneRise
      BY <3>1, PolledRise
    <3>4. c.terminal.state \notin OwningStates
      BY <3>1 DEF OwningStates
    <3> QED
      BY <3>1, <3>2, <3>3, <3>4, StrayPolled
  <2>7. CASE PollReap(id)
    <3>1. /\ c.terminal.state = "Reaping"
          /\ channels' = [j \in DOMAIN channels \ {id} |-> IF j < id THEN PassedChannel(j) ELSE channels[j]]
          /\ \/ shells' = [PassedShells(Below(id)) EXCEPT ![p] = Reaped(@)]
             \/ shells' = PassedShells(Below(id))
      BY <2>7 DEF PollReap
    <3>2. c.terminal.state \in OwningStates
      BY <3>1 DEF OwningStates
    <3>3. shells[p].run /= "alive"
      BY <3>1, <3>2 DEF IInv, ShellsOwned
    <3>4. Reaped(shells[p]) \in Shell /\ Reaped(shells[p]).run = "reaped"
      BY <2>1, <3>2, ShellOpsType, ShellOpsRun
    <3>5. \/ shells' = [PassedShells(Below(id)) EXCEPT ![p] = Reaped(shells[p])]
          \/ shells' = PassedShells(Below(id))
      BY <2>1, <3>1, <3>2
    <3>6. NoneRise
      BY <3>2, <3>4, <3>5, PolledRise
    <3>7. \A j \in DOMAIN channels : shells[channels[j].terminal.shell].run = "alive" => PassedChannel(j) = channels[j]
      BY PassedRise
    <3>8. /\ DOMAIN channels' = DOMAIN channels \ {id}
          /\ \A j \in DOMAIN channels' : channels'[j] \in {PassedChannel(j), channels[j]}
      BY <3>1
    <3>9. \A j \in DOMAIN channels : HoldsOn(j)
      BY <3>3, <3>7, <3>8 DEF HoldsOn
    <3> QED
      BY <3>6, <3>9, StrayKept
  <2> QED
    BY <1>2, <2>2, <2>3, <2>4, <2>5, <2>6, <2>7 DEF PollReady
<1> QED
  BY <1>1, <1>2 DEF Poll

\* A request starts a shell, or leaves the terminals that hold one alone: a
\* terminal is asked for before there is a shell.
LEMMA StrayRequest ==
  ASSUME IInv, NoStrayShell, Running, NEW m, NEW b, request(m, b), session' = "running",
         Known(m.to) /\ m.request = "pty-req" => channels[m.to].terminal.state = "None"
  PROVE  NoStrayShell'
<1>0. channels \in [DOMAIN channels -> Channel] /\ shells \in [Shells -> Shell]
  BY DEF IInv, TypeOK
<1>1. Known(m.to)
  BY DEF request, UnknownChannel, Fail
<1> PICK id : id = m.to
  OBVIOUS
<1>2. id \in DOMAIN channels /\ channels[id] \in Channel
  BY <1>0, <1>1 DEF Known
<1>3. CASE PtyReq(m, b)
  <2>1. PICK d : channels' = Update(id, d)
    BY <1>3 DEF PtyReq
  <2>2. NoneRise
    BY <1>3 DEF PtyReq, NoneRise
  <2>3. channels[id].terminal.state \notin OwningStates
    BY <1>1, <1>3 DEF PtyReq, OwningStates
  <2> QED
    BY <1>2, <2>1, <2>2, <2>3, StrayUpdate
<1>4. CASE Env(m)
  <2>1. channels' = Update(id, WithEnv(channels[id])) /\ NoneRise
    BY <1>4 DEF Env, NoneRise
  <2>2. WithEnv(channels[id]).terminal = channels[id].terminal
    BY <1>2, ChannelOpsFields
  <2> QED
    BY <1>2, <2>1, <2>2, StrayUpdate
<1>5. CASE ShellError(m)
  BY <1>5 DEF ShellError, Fail
<1>6. CASE StartShell(m)
  <2>1. PICK p \in Shells :
          /\ shells' = spawn(p)
          /\ channels' = Update(id, WithReceiveWindow(WithTerminal(channels[id], WithShell("Running", p)), INITIAL_WINDOW_SIZE))
    BY <1>6 DEF StartShell
  <2>2. channels[id].terminal.state = "Requested"
    BY <1>6 DEF StartShell
  <2>3. \A q \in Shells : q /= p => shells'[q] = shells[q]
    BY <1>0, <2>1 DEF spawn
  <2> PICK d : d = WithReceiveWindow(WithTerminal(channels[id], WithShell("Running", p)), INITIAL_WINDOW_SIZE)
    OBVIOUS
  <2>4. /\ DOMAIN channels' = DOMAIN channels /\ channels'[id] = d
        /\ \A j \in DOMAIN channels : j /= id => channels'[j] = channels[j]
    BY <1>0, <1>2, <2>1 DEF Update
  <2>5. WithShell("Running", p) \in Terminals /\ WithShell("Running", p).state = "Running" /\ WithShell("Running", p).shell = p
    BY TerminalOps DEF OwningStates
  <2>6. WithTerminal(channels[id], WithShell("Running", p)) \in Channel
    BY <1>2, <2>5, ChannelOpsType
  <2>7. WithTerminal(channels[id], WithShell("Running", p)).terminal = WithShell("Running", p)
    BY <1>2, ChannelOpsFields
  <2>8. d.terminal = WithShell("Running", p)
    BY <2>6, <2>7, ChannelOpsFields
  <2> SUFFICES ASSUME NEW q \in Shells, shells'[q].run = "alive"
               PROVE  \E j \in DOMAIN channels' :
                        channels'[j].terminal.state \in OwningStates /\ channels'[j].terminal.shell = q
    BY DEF NoStrayShell
  <2>9. CASE q = p
    BY <1>2, <2>4, <2>5, <2>8, <2>9 DEF OwningStates
  <2>10. CASE q /= p
    <3>1. shells[q].run = "alive"
      BY <2>3, <2>10
    <3>2. PICK j \in DOMAIN channels : channels[j].terminal.state \in OwningStates /\ channels[j].terminal.shell = q
      BY <3>1 DEF NoStrayShell
    <3>3. j /= id
      BY <2>2, <3>2 DEF OwningStates
    <3> QED
      BY <2>4, <3>2, <3>3
  <2> QED
    BY <2>9, <2>10
<1>7. CASE WindowChange(m) \/ Refused(m)
  <2>1. UNCHANGED <<shells, channels>>
    BY <1>7 DEF WindowChange, Refused
  <2> QED
    BY <2>1, StraySame
<1> QED
  BY <1>1, <1>3, <1>4, <1>5, <1>6, <1>7 DEF request, UnknownChannel

\* Channels::close: the shell is killed, and held until it is reaped.
LEMMA StrayClose ==
  ASSUME IInv, NoStrayShell, Running, NEW m, close(m)
  PROVE  NoStrayShell'
<1>0. channels \in [DOMAIN channels -> Channel] /\ shells \in [Shells -> Shell]
  BY DEF IInv, TypeOK
<1> PICK id : id = m.to
  OBVIOUS
<1> PICK p : p = channels[id].terminal.shell
  OBVIOUS
<1>1. CASE ~Known(id)
  <2>1. UNCHANGED <<shells, channels>>
    BY <1>1 DEF close
  <2> QED
    BY <2>1, StraySame
<1>2. CASE /\ Known(id) /\ channels[id].terminal.state \in {"Running", "Exiting"}
           /\ shells' = [shells EXCEPT ![p] = start_kill(@)]
           /\ channels' = Update(id, WithClose(WithTerminal(channels[id], WithShell("Reaping", p))))
  <2>1. id \in DOMAIN channels /\ channels[id] \in Channel /\ channels[id].terminal.state \in OwningStates
    BY <1>0, <1>2 DEF Known, OwningStates
  <2>2. p \in Shells
    BY <2>1 DEF IInv, ShellsOwned
  <2>3. start_kill(shells[p]).run /= "alive"
    BY <1>0, <2>2, ShellOpsRun
  <2>4. NoneRise
    BY <1>0, <1>2, <2>2, <2>3 DEF NoneRise
  <2>5. WithShell("Reaping", p) \in Terminals /\ WithShell("Reaping", p).state = "Reaping" /\ WithShell("Reaping", p).shell = p
    BY <2>2, TerminalOps DEF OwningStates
  <2>6. WithTerminal(channels[id], WithShell("Reaping", p)) \in Channel
    BY <2>1, <2>5, ChannelOpsType
  <2>7. WithTerminal(channels[id], WithShell("Reaping", p)).terminal = WithShell("Reaping", p)
    BY <2>1, ChannelOpsFields
  <2>8. WithClose(WithTerminal(channels[id], WithShell("Reaping", p))).terminal = WithShell("Reaping", p)
    BY <2>6, <2>7, ChannelOpsFields
  <2>9. PICK d : channels' = Update(id, d) /\ d.terminal = WithShell("Reaping", p)
    BY <1>2, <2>8
  <2>10. d.terminal.state \in OwningStates /\ d.terminal.shell = channels[id].terminal.shell
    BY <2>5, <2>9 DEF OwningStates
  <2> QED
    BY <2>1, <2>4, <2>9, <2>10, StrayUpdate
<1>3. CASE Known(id) /\ channels' = Update(id, WithClose(channels[id])) /\ UNCHANGED shells
  <2>1. id \in DOMAIN channels /\ channels[id] \in Channel /\ NoneRise
    BY <1>0, <1>3 DEF Known, NoneRise
  <2>2. WithClose(channels[id]).terminal = channels[id].terminal
    BY <2>1, ChannelOpsFields
  <2> QED
    BY <1>3, <2>1, <2>2, StrayUpdate
<1>4. CASE channels[id].terminal.state \in {"None", "Requested", "Closing"} /\ channels' = Remove(id) /\ UNCHANGED shells
  <2>1. channels[id].terminal.state \notin OwningStates
    BY <1>4 DEF OwningStates
  <2> QED
    BY <1>4, <2>1, StrayRemove
<1> QED
  BY <1>1, <1>2, <1>3, <1>4 DEF close

\* The handlers, all of them.
LEMMA StrayMessage ==
  ASSUME IInv, NoStrayShell, Running, NEW m, ChannelMessage(m), session' = "running",
         m.type = "ChannelRequest" /\ Known(m.to) /\ m.request = "pty-req" => channels[m.to].terminal.state = "None"
  PROVE  NoStrayShell'
<1>0. channels \in [DOMAIN channels -> Channel] /\ shells \in [Shells -> Shell]
  BY DEF IInv, TypeOK
<1> PICK id : id = m.to
  OBVIOUS
<1>1. CASE UNCHANGED <<shells, channels>>
  BY <1>1, StraySame
<1>2. CASE open(m)
  <2>1. CASE channels' = Insert(next_id, NewChannel(m)) /\ ~Occupied(next_id)
    <3>1. /\ \A j \in DOMAIN channels : j /= next_id
          /\ \A j \in DOMAIN channels : j \in DOMAIN channels' /\ channels'[j] = channels[j]
      BY <2>1 DEF Insert, Occupied, Known
    <3>2. NoneRise
      BY <1>2 DEF open, NoneRise
    <3>3. \A j \in DOMAIN channels : HoldsOn(j)
      BY <3>1 DEF HoldsOn
    <3> QED
      BY <3>2, <3>3, StrayKept
  <2>2. CASE UNCHANGED channels
    <3>1. UNCHANGED <<shells, channels>>
      BY <1>2, <2>2 DEF open
    <3> QED
      BY <1>1, <3>1
  <2> QED
    BY <1>2, <2>1, <2>2 DEF open
<1>3. CASE m.type = "ChannelRequest" /\ request(m, banner(m))
  BY <1>3, StrayRequest
<1>4. CASE adjust_window(m)
  <2>1. /\ Known(id) /\ channels' = Update(id, GrantSendWindow(channels[id], m.n)) /\ NoneRise
    BY <1>4 DEF adjust_window, UnknownChannel, Fail, NoneRise
  <2>2. id \in DOMAIN channels /\ channels[id] \in Channel
    BY <1>0, <2>1 DEF Known
  <2>3. GrantSendWindow(channels[id], m.n).terminal = channels[id].terminal
    BY <2>2, ChannelOpsFields DEF GrantSendWindow
  <2> QED
    BY <2>1, <2>2, <2>3, StrayUpdate
<1>5. CASE data(m)
  <2>1. PICK w : Known(id) /\ channels' = Update(id, WithReceiveWindow(channels[id], w)) /\ NoneRise
    BY <1>5 DEF data, UnknownChannel, Fail, NoneRise
  <2>2. id \in DOMAIN channels /\ channels[id] \in Channel
    BY <1>0, <2>1 DEF Known
  <2>3. WithReceiveWindow(channels[id], w).terminal = channels[id].terminal
    BY <2>2, ChannelOpsFields
  <2> QED
    BY <2>1, <2>2, <2>3, StrayUpdate
<1>6. CASE eof(m)
  <2>1. UNCHANGED <<shells, channels>>
    BY <1>6 DEF eof, UnknownChannel, vars
  <2> QED
    BY <1>1, <2>1
<1>7. CASE close(m)
  BY <1>7, StrayClose
<1>8. CASE Fail("proto_error")
  BY <1>8 DEF Fail
<1> QED
  BY <1>2, <1>3, <1>4, <1>5, <1>6, <1>7, <1>8 DEF ChannelMessage

\* The server receives a packet.
LEMMA StrayReceive ==
  ASSUME IInv, NoStrayShell, Running, NEW m, Receive(m), session' = "running",
         m.type = "ChannelRequest" /\ Known(m.to) /\ m.request = "pty-req" => channels[m.to].terminal.state = "None"
  PROVE  NoStrayShell'
<1>1. CASE UNCHANGED <<shells, channels>>
  BY <1>1, StraySame
<1>2. CASE ChannelMessage(m)
  BY <1>2, StrayMessage
<1>3. CASE UNCHANGED sessionVars
  BY <1>1, <1>3 DEF sessionVars, vars
<1>4. CASE Ends("closed")
  BY <1>1, <1>4 DEF Ends
<1>5. CASE Rekey(m)
  BY <1>1, <1>5 DEF Rekey
<1>6. CASE RefuseGlobal(m)
  BY <1>1, <1>6 DEF RefuseGlobal
<1> QED
  BY <1>2, <1>3, <1>4, <1>5, <1>6 DEF Receive

\* The steps of the world, and of the write to a PTY.
LEMMA StrayOther ==
  ASSUME IInv, NoStrayShell, Running, AwaitWrite \/ Environment \/ ConnectionLost, session' = "running"
  PROVE  NoStrayShell'
<1>0. channels \in [DOMAIN channels -> Channel] /\ shells \in [Shells -> Shell]
  BY DEF IInv, TypeOK
<1>1. CASE UNCHANGED <<shells, channels>>
  BY <1>1, StraySame
<1>2. CASE WritePty
  <2>1. CASE UNCHANGED shells
    BY <1>1, <1>2, <2>1 DEF WritePty, Fail
  <2>2. CASE /\ UNCHANGED channels
             /\ \E k : shells' = [shells EXCEPT ![pending.shell] = Filled(shells[pending.shell], k)]
    <3>1. PICK k : shells' = [shells EXCEPT ![pending.shell] = Filled(shells[pending.shell], k)]
      BY <2>2
    <3>2. \A q \in Shells : Filled(shells[q], k).run = shells[q].run
      BY <1>0, ShellOpsRun
    <3>3. NoneRise
      BY <1>0, <3>1, <3>2 DEF NoneRise
    <3>4. \A j \in DOMAIN channels : HoldsOn(j)
      BY <2>2 DEF HoldsOn
    <3> QED
      BY <3>3, <3>4, StrayKept
  <2> QED
    BY <1>2, <2>1, <2>2 DEF WritePty
<1>3. CASE DeadlinePasses
  <2>1. PICK id \in DOMAIN channels : channels' = Update(id, WithTerminal(channels[id], Late(channels[id].terminal)))
    BY <1>3 DEF DeadlinePasses
  <2>2. channels[id] \in Channel /\ channels[id].terminal \in Terminals
    BY <1>0 DEF Channel
  <2>3. WithTerminal(channels[id], Late(channels[id].terminal)).terminal = Late(channels[id].terminal)
    BY <2>2, ChannelOpsFields
  <2>4. /\ Late(channels[id].terminal).state = channels[id].terminal.state
        /\ Late(channels[id].terminal).shell = channels[id].terminal.shell
    BY <2>2, TerminalOps
  <2>5. NoneRise
    BY <1>3 DEF DeadlinePasses, NoneRise
  <2>6. PICK d : /\ channels' = Update(id, d) /\ d.terminal.state = channels[id].terminal.state
                 /\ d.terminal.shell = channels[id].terminal.shell
    BY <2>1, <2>3, <2>4
  <2> QED
    BY <2>5, <2>6, StrayUpdate
<1>4. CASE ShellSteps
  <2>1. PICK p \in Shells : ShellStep(p)
    BY <1>4 DEF ShellSteps
  <2>2. NoneRise
    BY <1>0, <2>1, ShellStepEffect DEF NoneRise
  <2>3. \A j \in DOMAIN channels : HoldsOn(j)
    BY <1>4 DEF ShellSteps, HoldsOn
  <2> QED
    BY <2>2, <2>3, StrayKept
<1>5. CASE ConnectionLost
  BY <1>1, <1>5 DEF ConnectionLost, Ends
<1> QED
  BY <1>2, <1>3, <1>4, <1>5 DEF AwaitWrite, Environment

-----------------------------------------------------------------------------
(* The invariant is inductive. *)

\* A step of the server leaves what the client has alone.
LEMMA ServerTyped ==
  ASSUME Typed, IInv', RanKept, UNCHANGED clientVars, UNCHANGED read \/ Takes,
         write' \in Seq(Fitting), pending'.out \in Seq(Fitting)
  PROVE  Typed'
<1>1. read' \in Seq(Sendable)
  BY InTail DEF Typed, Takes
<1>2. /\ client' \in [RemoteIds -> ClientChannel]
      /\ ckx' \in {"idle", "init", "got_init", "ecdh", "got_reply", "awaiting"}
      /\ steps' \in Nat
  BY DEF Typed, clientVars
<1>3. \A id \in DOMAIN channels' : channels'[id].terminal.shell \in 0..MaxShells
  <2>1. channels' \in [DOMAIN channels' -> Channel]
    BY DEF IInv, TypeOK
  <2> QED
    BY <2>1 DEF Channel, Terminals
<1>4. ran' \in [RemoteIds -> 0..MaxShells]
  <2>1. \A c \in RemoteIds : Started(c) \in 0..MaxShells
    <3> SUFFICES ASSUME NEW c \in RemoteIds PROVE Started(c) \in 0..MaxShells
      OBVIOUS
    <3> DEFINE ids == {id \in DOMAIN channels' : channels'[id].remote_id = c /\ channels'[id].terminal.state = "Running"}
    <3>1. Started(c) = IF ids = {} THEN ran[c] ELSE channels'[CHOOSE id \in ids : TRUE].terminal.shell
      BY DEF Started
    <3>2. ran[c] \in 0..MaxShells
      BY DEF Typed
    <3>3. ids /= {} => (CHOOSE id \in ids : TRUE) \in ids
      OBVIOUS
    <3>4. ids /= {} => (CHOOSE id \in ids : TRUE) \in DOMAIN channels'
      BY <3>3
    <3> HIDE DEF ids
    <3> QED
      BY <1>3, <3>1, <3>2, <3>4
  <2> QED
    BY <2>1 DEF RanKept
<1> QED
  BY <1>1, <1>2, <1>4 DEF Typed

\* While the session runs no living shell is let go of.
LEMMA StrayConnection ==
  ASSUME Before, NoStrayShell, Running, NextConnection, session' = "running"
  PROVE  NoStrayShell'
<1>0. IInv /\ Typed /\ \A c \in RemoteIds : Live(c)
  BY DEF Before
<1>1. CASE UNCHANGED <<shells, channels>>
  BY <1>1, StraySame
<1>2. CASE ServerReceives
  <2> PICK m : m = Head(read)
    OBVIOUS
  <2>1. Receive(m) /\ read /= <<>>
    BY <1>2 DEF ServerReceives, Server
  <2>2. m \in Sendable /\ m \in In(read)
    BY <1>0, <2>1, InTail DEF Typed
  <2>3. ASSUME m.type = "ChannelRequest", Known(m.to), m.request = "pty-req"
        PROVE  channels[m.to].terminal.state = "None"
    <3> PICK id : id = m.to
      OBVIOUS
    <3> PICK c : c = channels[id].remote_id
      OBVIOUS
    <3>1. id \in Ids /\ c \in RemoteIds /\ Own(id, c)
      BY <1>0, <2>3, KnownType DEF IInv, Own
    <3>2. m \in Ptys(id)
      BY <2>2, <2>3 DEF Ptys, For, HandledTypes, ChannelTypes
    <3>3. Has(read, Ptys(id))
      BY <2>2, <3>2 DEF Has
    <3>4. Asking(c)
      BY <1>0, <3>1 DEF Live
    <3> QED
      BY <3>1, <3>3, <3>4 DEF Asking, St
  <2> QED
    BY <1>0, <2>1, <2>3, StrayReceive
<1>3. CASE ServerPolls
  <2>1. Poll
    BY <1>3 DEF ServerPolls, Server, PollTerminals
  <2> QED
    BY <1>0, <2>1, StrayPoll
<1>4. CASE ServerWrites
  <2>1. AwaitWrite
    BY <1>4 DEF ServerWrites, Server
  <2> QED
    BY <1>0, <2>1, StrayOther
<1>5. CASE World
  <2>1. Environment \/ ConnectionLost
    BY <1>5 DEF World
  <2> QED
    BY <1>0, <2>1, StrayOther
<1>6. ASSUME NEW m, Put(m) PROVE NoStrayShell'
  BY <1>1, <1>6 DEF Put, sessionVars, vars
<1>7. ASSUME NEW c \in RemoteIds, ClientAct(c) PROVE NoStrayShell'
  BY <1>6, <1>7 DEF ClientAct, OpenChannel, AskPty, AskShell, AskOther, SendData, SendEof,
     SendClose, AnswerClose, PutClose, Refill
<1>8. CASE SendGlobal \/ StartRekey \/ ContinueRekey
  BY <1>6, <1>8 DEF SendGlobal, StartRekey, ContinueRekey
<1>9. CASE ClientReads
  BY <1>1, <1>9 DEF ClientReads
<1> QED
  BY <1>2, <1>3, <1>4, <1>5, <1>7, <1>8, <1>9 DEF NextConnection

\* Once the session has ended the client reads on, and nothing else happens.
LEMMA EndedSteps ==
  ASSUME ~Running, NextConnection
  PROVE  ClientReads
<1>1. session /= "running"
  BY DEF Running
<1>2. ~Idle
  BY <1>1 DEF Idle
<1>3. ~ServerReceives
  BY <1>2 DEF ServerReceives, Server, Receive
<1>4. ~ServerPolls
  BY <1>2 DEF ServerPolls, Server, PollTerminals, Poll, PollPending, PollReady, PollRead, PollEof,
     PollReadError, PollExit, PollClose, PollReap
<1>5. ~ServerWrites
  BY <1>1 DEF ServerWrites, Server, AwaitWrite, WritePty
<1>6. ~World
  BY <1>1 DEF World, Environment, DeadlinePasses, ShellSteps, ConnectionLost
<1>7. \A m : ~Put(m)
  BY <1>1 DEF Put
<1>8. \A c \in RemoteIds : ~ClientAct(c)
  BY <1>7 DEF ClientAct, OpenChannel, AskPty, AskShell, AskOther, SendData, SendEof, SendClose,
     AnswerClose, PutClose, Refill
<1>9. ~SendGlobal /\ ~StartRekey /\ ~ContinueRekey
  BY <1>7 DEF SendGlobal, StartRekey, ContinueRekey
<1> QED
  BY <1>3, <1>4, <1>5, <1>6, <1>8, <1>9 DEF NextConnection

\* The invariant: what the two sides believe of each other while the session
\* runs, and what the client hears, of a session that has ended too.
CInv ==
  /\ IInv /\ TypeOKSession /\ Typed
  /\ NoProtocolError
  /\ Running => Placed /\ Exchanges /\ Awaited /\ NoStrayShell /\ \A c \in RemoteIds : Live(c)
  /\ \A c \in RemoteIds : Heard(c)

\* A running session goes on or ends, and all is typed.
LEMMA RunningSteps ==
  ASSUME Before, TypeOKSession, Exchanges, Awaited, Running, [NextConnection]_allVars
  PROVE  (Goes \/ Fails) /\ Typed'
<1>0. IInv /\ IInv' /\ ShellsMove /\ Typed
  BY DEF Before
<1>1. ASSUME Goes \/ Fails, RanKept, UNCHANGED clientVars, UNCHANGED read \/ Takes PROVE Typed'
  <2>1. write' \in Seq(Fitting) /\ pending'.out \in Seq(Fitting)
    BY <1>0, <1>1 DEF Goes, Fails, Typed
  <2> QED
    BY <1>0, <1>1, <2>1, ServerTyped
<1>2. ASSUME Goes, ClientTyped', UNCHANGED ran PROVE Typed'
  BY <1>0, <1>2 DEF Goes, ClientTyped, Typed
<1>3. CASE ServerReceives
  <2>1. RanKept /\ UNCHANGED clientVars /\ Takes
    BY <1>3 DEF ServerReceives, Server, RanKept, Takes
  <2>2. Goes \/ Fails
    BY <1>3, ReceiveAfter
  <2> QED
    BY <1>1, <2>1, <2>2
<1>4. CASE ServerPolls
  <2>1. RanKept /\ UNCHANGED clientVars /\ UNCHANGED read
    BY <1>4 DEF ServerPolls, Server, RanKept
  <2>2. Goes \/ Fails
    BY <1>4, PollsAfter
  <2> QED
    BY <1>1, <2>1, <2>2
<1>5. CASE ServerWrites
  <2>1. RanKept /\ UNCHANGED clientVars /\ UNCHANGED read
    BY <1>5 DEF ServerWrites, Server, RanKept
  <2>2. Goes \/ Fails
    BY <1>5, WritesAfter
  <2> QED
    BY <1>1, <2>1, <2>2
<1>6. ASSUME Goes \/ Fails, UNCHANGED <<read, clientVars, ran>> PROVE Typed'
  <2>1. write' \in Seq(Fitting) /\ pending'.out \in Seq(Fitting)
    BY <1>0, <1>6 DEF Goes, Fails, Typed
  <2> QED
    BY <1>0, <1>6, <2>1 DEF Typed, clientVars
<1>7. CASE World
  <2>1. Goes \/ Fails
    BY <1>7, WorldAfter
  <2> QED
    BY <1>6, <1>7, <2>1 DEF World
<1>8. CASE UNCHANGED allVars
  <2>1. /\ UNCHANGED <<channels, client, write, session, read, kx, ckx>> /\ pending'.out = pending.out /\ UNCHANGED ran
        /\ UNCHANGED <<read, clientVars, ran>>
    BY <1>8 DEF allVars, sessionVars, vars, kxVars, clientVars
  <2>2. Goes
    BY <2>1, StillAfter
  <2> QED
    BY <1>6, <2>1, <2>2
<1>9. ASSUME NEW m, Put(m) PROVE UNCHANGED ran
  BY <1>9 DEF Put
<1>10. ASSUME NEW c \in RemoteIds, ClientAct(c) PROVE Goes /\ Typed'
  <2>1. UNCHANGED ran
    BY <1>9, <1>10 DEF ClientAct, OpenChannel, AskPty, AskShell, AskOther, SendData, SendEof,
       SendClose, AnswerClose, PutClose, Refill
  <2>2. Goes /\ ClientTyped'
    BY <1>10, ClientActGoes
  <2> QED
    BY <1>2, <2>1, <2>2
<1>11. CASE SendGlobal \/ StartRekey \/ ContinueRekey
  <2>1. UNCHANGED ran
    BY <1>9, <1>11 DEF SendGlobal, StartRekey, ContinueRekey
  <2>2. Goes /\ ClientTyped'
    BY <1>11, GlobalGoes, StartRekeyGoes, ContinueGoes
  <2> QED
    BY <1>2, <2>1, <2>2
<1>12. CASE ClientReads
  <2>1. UNCHANGED ran
    BY <1>12 DEF ClientReads
  <2>2. Goes /\ ClientTyped'
    BY <1>12, ReadsGoes
  <2> QED
    BY <1>2, <2>1, <2>2
<1> QED
  BY <1>3, <1>4, <1>5, <1>7, <1>8, <1>10, <1>11, <1>12 DEF NextConnection

\* Every step of the connection preserves the invariant.
LEMMA CInvStep == CInv /\ [NextConnection]_allVars => CInv'
<1> SUFFICES ASSUME CInv, [NextConnection]_allVars PROVE CInv'
  OBVIOUS
<1>0. IInv /\ TypeOKSession /\ Typed /\ NoProtocolError /\ \A c \in RemoteIds : Heard(c)
  BY DEF CInv
<1>1. [NextSession]_sessionVars
  BY <1>0, ConnectionStep
<1>2. IInv' /\ TypeOKSession'
  BY <1>0, <1>1, SessionIInv, SessionTyped
<1>3. ShellsMove
  BY <1>0, <1>1, SessionMoves
<1>4. CASE Running
  <2>1. Placed /\ Exchanges /\ Awaited /\ NoStrayShell /\ \A c \in RemoteIds : Live(c)
    BY <1>4 DEF CInv
  <2>2. Before
    BY <1>0, <1>2, <1>3, <2>1 DEF Before
  <2>3. (Goes \/ Fails) /\ Typed'
    BY <1>0, <1>4, <2>1, <2>2, RunningSteps
  <2>4. CASE Goes
    <3>1. Running' /\ session' = "running" /\ Placed' /\ Exchanges' /\ \A c \in RemoteIds : Live(c)' /\ Heard(c)'
      BY <2>4 DEF Goes, After, Running
    <3>2. Awaited'
      BY <1>0, <1>1, <2>1, <3>1, AwaitedStep
    <3>3. NoStrayShell'
      <4>1. CASE NextConnection
        BY <1>4, <2>1, <2>2, <3>1, <4>1, StrayConnection
      <4>2. CASE UNCHANGED allVars
        <5>1. UNCHANGED <<shells, channels>>
          BY <4>2 DEF allVars, sessionVars, vars
        <5> QED
          BY <1>4, <2>1, <5>1, StraySame
      <4> QED
        BY <4>1, <4>2
    <3>4. NoProtocolError'
      BY <3>1 DEF NoProtocolError
    <3> QED
      BY <1>2, <2>3, <3>1, <3>2, <3>3, <3>4 DEF CInv
  <2>5. CASE Fails
    <3>1. NoProtocolError' /\ ~Running'
      BY <2>5 DEF Fails, NoProtocolError, Running
    <3>2. \A c \in RemoteIds : Heard(c)'
      <4> SUFFICES ASSUME NEW c \in RemoteIds PROVE Heard(c)'
        OBVIOUS
      <4>1. UNCHANGED write /\ client'[c] = client[c] /\ ran'[c] = ran[c]
        BY <2>5 DEF Fails
      <4>2. SameTo(c)
        BY <4>1, QuietSame
      <4> QED
        BY <1>0, <1>3, <4>1, <4>2, HeardStays
    <3> QED
      BY <1>2, <2>3, <3>1, <3>2 DEF CInv
  <2> QED
    BY <2>3, <2>4, <2>5
<1>5. CASE ~Running
  <2>1. CASE ClientReads
    <3>1. /\ \A c \in RemoteIds : Heard(c)' /\ client'[c].early = client[c].early
          /\ write' \in Seq(Fitting) /\ ClientTyped'
      BY <1>0, <1>3, <2>1, ReadsHeard
    <3>2. UNCHANGED <<pending, session, ran>>
      BY <2>1 DEF ClientReads
    <3>3. Typed'
      BY <1>0, <3>1, <3>2 DEF Typed, ClientTyped
    <3>4. NoProtocolError' /\ ~Running'
      BY <1>0, <1>5, <3>1, <3>2 DEF NoProtocolError, Running
    <3> QED
      BY <1>2, <3>1, <3>3, <3>4 DEF CInv
  <2>2. CASE UNCHANGED allVars
    <3>1. UNCHANGED <<shells, write, pending, session, read, client, ckx, steps, ran>>
      BY <2>2 DEF allVars, sessionVars, vars, clientVars
    <3>2. Typed'
      BY <1>0, <3>1 DEF Typed
    <3>3. NoProtocolError' /\ ~Running'
      BY <1>0, <1>5, <3>1 DEF NoProtocolError, Running
    <3>4. \A c \in RemoteIds : Heard(c)'
      <4> SUFFICES ASSUME NEW c \in RemoteIds PROVE Heard(c)'
        OBVIOUS
      <4>1. UNCHANGED write /\ client'[c] = client[c] /\ ran'[c] = ran[c]
        BY <3>1
      <4>2. SameTo(c)
        BY <4>1, QuietSame
      <4> QED
        BY <1>0, <1>3, <4>1, <4>2, HeardStays
    <3> QED
      BY <1>2, <3>2, <3>3, <3>4 DEF CInv
  <2> QED
    BY <1>5, <2>1, <2>2, EndedSteps
<1> QED
  BY <1>4, <1>5

\* The invariant holds at first.
LEMMA InitCInv == InitConnection => CInv
<1> SUFFICES ASSUME InitConnection PROVE CInv
  OBVIOUS
<1>1. /\ InitSession /\ read = <<>> /\ client = [c \in RemoteIds |-> Unopened] /\ ckx = "idle" /\ steps = MaxSteps
      /\ ran = [c \in RemoteIds |-> 0]
  BY DEF InitConnection
<1>2. Init /\ kx = [state |-> "AwaitingKexInit", pq |-> FALSE] /\ post_quantum_kx \in BOOLEAN
  BY <1>1 DEF InitSession
<1>3. DOMAIN channels = {} /\ write = <<>> /\ pending = NoWrite /\ session = "running" /\ shells = [p \in Shells |-> Unspawned]
  BY <1>2 DEF Init, InitShells
<1>4. IInv
  BY <1>2, InitIInv
<1>5. TypeOKSession
  BY <1>2 DEF TypeOKSession, KxStates
<1>6. pending.out = <<>>
  BY <1>3 DEF NoWrite
<1>7. Typed
  <2>1. <<>> \in Seq(Sendable) /\ <<>> \in Seq(Fitting)
    OBVIOUS
  <2>2. Unopened \in ClientChannel
    <3>1. 0 \in Ids
      BY ChannelsAssumption DEF Ids
    <3>2. 0 \in 0..ClientWindow
      BY ConnectionAssumption
    <3> QED
      BY <3>1, <3>2 DEF Unopened, ClientChannel
  <2>3. 0 \in 0..MaxShells /\ MaxSteps \in Nat
    BY TerminalAssumption, ConnectionAssumption
  <2>4. client \in [RemoteIds -> ClientChannel] /\ ran \in [RemoteIds -> 0..MaxShells]
    BY <1>1, <2>2, <2>3
  <2> QED
    BY <1>1, <1>3, <1>6, <2>1, <2>3, <2>4 DEF Typed
<1>8. (\A S : ~Has(<<>>, S)) /\ In(<<>>) = {}
  BY InEmpty DEF Has
<1>9. Placed
  BY <1>1, <1>3, <1>8 DEF Placed
<1>10. Exchanges
  <2>1. ckx = "idle" /\ kx.state = "AwaitingKexInit" /\ ~Has(read, Exchange) /\ Silent
    BY <1>1, <1>2, <1>3, <1>8 DEF Silent
  <2> QED
    BY <2>1, Zenon DEF Exchanges
<1>11. Awaited
  BY <1>6 DEF Awaited
<1>12. NoStrayShell
  BY <1>3 DEF NoStrayShell, Unspawned
<1>13. ASSUME NEW c \in RemoteIds PROVE Live(c) /\ Heard(c)
  <2>1. client[c] = Unopened
    BY <1>1
  <2>2. /\ client[c].phase = "unopened" /\ client[c].asked = 0 /\ client[c].credit = 0 /\ client[c].window = 0
        /\ ~client[c].pty /\ ~client[c].shell /\ ~client[c].closed /\ ~client[c].geof /\ ~client[c].gclosed
    BY <2>1 DEF Unopened
  <2>3. \A id \in Ids : ~Own(id, c)
    BY <1>3 DEF Own, Known
  <2>4. \A S, T : NoneAfter(<<>>, S, T)
    BY AfterEmpty
  <2>5. Bytes(write, "Data", c) = 0 /\ Replies(write, c) = 0
    BY <1>3, BytesFacts, RepliesFacts
  <2>6. Blank(c)
    BY <1>3, <1>8, <2>2, <2>3 DEF Blank
  <2>7. Life(c)
    BY <1>1, <1>3, <1>8, <2>2, <2>3, <2>4, <2>6 DEF Life
  <2>8. Coherent(c) /\ Asking(c) /\ Linked(c)
    BY <2>3 DEF Coherent, Asking, Linked
  <2>9. Counted(c)
    BY <2>2, <2>3, <2>5 DEF Counted
  <2>10. Ordered(c)
    BY <1>3, <1>8, <2>2, <2>4 DEF Ordered
  <2>11. Affords(c)
    BY <2>2, <2>5 DEF Affords
  <2> QED
    BY <2>7, <2>8, <2>9, <2>10, <2>11 DEF Live, Heard
<1> QED
  BY <1>3, <1>4, <1>5, <1>7, <1>9, <1>10, <1>11, <1>12, <1>13 DEF CInv, NoProtocolError

\* What the invariant says of the two sides.
LEMMA CInvCredits ==
  ASSUME CInv
  PROVE  ReceiveCredit /\ SendCredit
<1> SUFFICES ASSUME Running, NEW id \in DOMAIN channels, NEW c, c = channels[id].remote_id
             PROVE  /\ ~client[c].early => Granted(id, c) = channels[id].receive_window
                    /\ Granted(id, c) \in channels[id].receive_window..channels[id].receive_window + INITIAL_WINDOW_SIZE
                    /\ channels[id].send_window + Bytes(write, "Data", c)
                         + Coming(read, "ChannelWindowAdjust", id) = client[c].window
  BY DEF ReceiveCredit, SendCredit, Granted
<1>1. id \in Ids /\ c \in RemoteIds /\ Own(id, c)
  BY KnownType DEF CInv, IInv, Own, Known
<1>2. Counted(c)
  BY <1>1 DEF CInv, Live
<1>3. CountedAt(id, c)
  BY <1>1, <1>2 DEF Counted
<1>4. Granted(id, c) \in Nat /\ channels[id].receive_window \in Nat /\ INITIAL_WINDOW_SIZE \in Nat
  <2>1. Bytes(write, "WindowAdjust", c) \in Nat /\ Bytes(pending.out, "WindowAdjust", c) \in Nat
    BY BytesFacts DEF CInv, Typed
  <2>2. Coming(read, "ChannelData", id) \in Nat
    BY ComingFacts DEF CInv, Typed
  <2>3. client[c].credit \in Nat
    BY <1>1 DEF CInv, Typed, ClientChannel
  <2>4. channels[id] \in Channel
    BY DEF CInv, IInv, TypeOK
  <2>5. channels[id].receive_window \in Nat /\ INITIAL_WINDOW_SIZE \in Nat
    BY <2>4, ChannelsAssumption DEF Channel
  <2> QED
    BY <2>1, <2>2, <2>3, <2>5 DEF Granted
<1> QED
  BY <1>3, <1>4 DEF CountedAt

\* The requests and the replies.
LEMMA CInvReplies ==
  ASSUME CInv
  PROVE  RepliesMatch
<1> SUFFICES ASSUME Running, NEW c \in RemoteIds
             PROVE  LET ids == {id \in DOMAIN channels : channels[id].remote_id = c} IN
                    /\ ids = {} => client[c].asked = Replies(write, c)
                    /\ \A id \in ids : client[c].asked = Replies(write, c) + Requests(read, id)
  BY DEF RepliesMatch
<1>1. Counted(c)
  BY DEF CInv, Live
<1>2. DOMAIN channels \subseteq Ids
  BY DEF CInv, IInv, TypeOK
<1> DEFINE ids == {id \in DOMAIN channels : channels[id].remote_id = c}
<1>3. ASSUME ids = {} PROVE client[c].asked = Replies(write, c)
  <2>1. \A id \in Ids : ~Own(id, c)
    BY <1>3 DEF Own, Known
  <2> QED
    BY <1>1, <2>1 DEF Counted
<1>4. ASSUME NEW id \in ids PROVE client[c].asked = Replies(write, c) + Requests(read, id)
  <2>1. id \in Ids /\ Own(id, c)
    BY <1>2 DEF Own, Known
  <2> QED
    BY <1>1, <2>1 DEF Counted, CountedAt
<1> QED
  BY <1>3, <1>4

\* A message in a place is on its way.
LEMMA SentIs ==
  ASSUME Typed, NEW c, NEW types, NEW i \in Sent(write, types, c)
  PROVE  i \in 1..Len(write) /\ write[i] \in Fitting /\ write[i] \in In(write) /\ write[i] \in To(c, types) /\ i \in Nat
<1>1. write \in Seq(Fitting) /\ DOMAIN write = 1..Len(write) /\ Len(write) \in Nat
  BY DEF Typed
<1>2. i \in 1..Len(write) /\ write[i].type \in types /\ write[i].to = c
  BY <1>1 DEF Sent
<1>3. write[i] \in Fitting
  BY <1>1, <1>2
<1> QED
  BY <1>1, <1>2, <1>3 DEF In, To

\* The order of what is on its way to the client.
LEMMA CInvLast ==
  ASSUME CInv
  PROVE  CloseIsLast
<1> SUFFICES ASSUME NEW c \in RemoteIds, NEW i \in Sent(write, {"Data", "Eof", "ExitStatus"}, c)
             PROVE  /\ ~client[c].gclosed
                    /\ \A j \in Sent(write, {"Close"}, c) : i < j
                    /\ write[i].type = "Data" =>
                         ~client[c].geof /\ \A j \in Sent(write, {"Eof"}, c) : i < j
  BY DEF CloseIsLast
<1>0. Typed /\ Ordered(c)
  BY DEF CInv, Heard
<1>1. i \in 1..Len(write) /\ write[i] \in In(write) /\ write[i] \in To(c, {"Data", "Eof", "ExitStatus"}) /\ i \in Nat
  BY <1>0, SentIs
<1>2. write[i] \in To(c, LastTypes) /\ (write[i].type = "Data" => write[i] \in To(c, {"Data", "Eof"}))
  BY <1>1 DEF To, LastTypes
<1>3. /\ NoneAfter(write, To(c, {"Close"}), To(c, LastTypes))
      /\ NoneAfter(write, To(c, {"Eof"}), To(c, {"Data", "Eof"}))
      /\ client[c].gclosed => ~Has(write, To(c, LastTypes))
      /\ client[c].geof => ~Has(write, To(c, {"Data", "Eof"}))
  BY <1>0 DEF Ordered
<1>4. ~client[c].gclosed /\ (write[i].type = "Data" => ~client[c].geof)
  BY <1>1, <1>2, <1>3 DEF Has
<1>5. ASSUME NEW j \in Sent(write, {"Close"}, c) PROVE i < j
  <2>1. j \in 1..Len(write) /\ write[j] \in To(c, {"Close"}) /\ j \in Nat
    BY <1>0, SentIs
  <2>2. i /= j
    BY <1>1, <2>1 DEF To
  <2>3. ~(j < i)
    BY <1>1, <1>2, <1>3, <2>1 DEF NoneAfter
  <2> QED
    BY <1>1, <2>1, <2>2, <2>3
<1>6. ASSUME write[i].type = "Data", NEW j \in Sent(write, {"Eof"}, c) PROVE i < j
  <2>1. j \in 1..Len(write) /\ write[j] \in To(c, {"Eof"}) /\ j \in Nat
    BY <1>0, SentIs
  <2>2. i /= j
    BY <1>6, <2>1 DEF To
  <2>3. ~(j < i)
    BY <1>1, <1>2, <1>3, <1>6, <2>1 DEF NoneAfter
  <2> QED
    BY <1>1, <2>1, <2>2, <2>3
<1> QED
  BY <1>4, <1>5, <1>6

\* What the client has been told when it sees a close.
LEMMA CInvComplete ==
  ASSUME CInv
  PROVE  CompleteBeforeClose
<1> SUFFICES ASSUME NEW c \in RemoteIds, client[c].gclosed, ~client[c].closed
             PROVE  /\ client[c].geof
                    /\ ran[c] \in Shells /\ shells[ran[c]].out = 0
                    /\ shells[ran[c]].status \in ExitCodes => client[c].status = shells[ran[c]].status
  BY DEF CompleteBeforeClose
<1>1. Ordered(c)
  BY DEF CInv, Heard
<1>2. Told(c) /\ ~Has(write, To(c, LastTypes))
  BY <1>1 DEF Ordered
<1>3. ~Has(write, To(c, {"Eof"})) /\ ~Has(write, To(c, {"ExitStatus"}))
  BY <1>2 DEF Has, To, LastTypes
<1> QED
  BY <1>2, <1>3 DEF Told

-----------------------------------------------------------------------------
(* The theorems. *)

\* What the session and the client believe of each other is invariant, for
\* any number of channels, processes and messages on their way, through key
\* exchanges, I/O errors and the end of the session.
THEOREM ConnectionInductive == SpecConnection => []CInv
<1>1. InitConnection => CInv
  BY InitCInv
<1>2. CInv /\ [NextConnection]_allVars => CInv'
  BY CInvStep
<1> QED
  BY <1>1, <1>2, PTL DEF SpecConnection

\* The client's counters never go below zero, not even when it reads on after
\* the session has ended: the server never sends a byte that the client has no
\* window for, nor a reply that it has not asked for.
THEOREM ConnectionTypeCorrect == SpecConnection => []TypeOKConnection
<1>1. CInv => TypeOKConnection
  BY DEF CInv, Typed, ClientChannel, TypeOKConnection
<1> QED
  BY <1>1, ConnectionInductive, PTL

\* A client that keeps to the protocol, and sends no data before it asks for
\* its shell, is never cut off for breaking it: no message it may send,
\* whenever it sends it, takes Session::run to an error of the protocol.
THEOREM NeverCutOff == SpecConnection => []NoProtocolError
<1>1. CInv => NoProtocolError
  BY DEF CInv
<1> QED
  BY <1>1, ConnectionInductive, PTL

\* The receive window that Channels::data enforces is the one the client counts
\* on, with the data and the adjustments on their way, those that wait for a
\* PTY write to end (Session::run) included.  A client that sent data before it
\* asked for its shell counts on no less, and on one initial window more at most.
THEOREM ReceiveCreditAgrees == SpecConnection => []ReceiveCredit
<1>1. CInv => ReceiveCredit
  BY CInvCredits
<1> QED
  BY <1>1, ConnectionInductive, PTL

\* The send window that the banner and the reads of TerminalsFuture::poll keep
\* to is what the client is prepared to receive, with the data and the
\* adjustments on their way.
THEOREM SendCreditAgrees == SpecConnection => []SendCredit
<1>1. CInv => SendCredit
  BY CInvCredits
<1> QED
  BY <1>1, ConnectionInductive, PTL

\* Every request on its way or handled accounts for one reply, on its way or
\* received (Channels::request), of channels that are gone too.
THEOREM EveryRequestOneReply == SpecConnection => []RepliesMatch
<1>1. CInv => RepliesMatch
  BY CInvReplies
<1> QED
  BY <1>1, ConnectionInductive, PTL

\* Nothing of the shell follows the close, and no output the end of output
\* (Channels::close, TerminalsFuture::poll).
THEOREM NothingAfterClose == SpecConnection => []CloseIsLast
<1>1. CInv => CloseIsLast
  BY CInvLast
<1> QED
  BY <1>1, ConnectionInductive, PTL

\* "Its exit status must reach the client before the channel close": a close
\* that the client did not ask for comes after all that its shell left.
THEOREM AllBeforeClose == SpecConnection => []CompleteBeforeClose
<1>1. CInv => CompleteBeforeClose
  BY CInvComplete
<1> QED
  BY <1>1, ConnectionInductive, PTL

\* While the session runs every living shell is held by a channel: none is
\* forgotten by a pty-req, a close or a poll.
THEOREM NoShellForgotten == SpecConnection => []NoStrayShell
<1>1. CInv => NoStrayShell
  BY DEF CInv, NoStrayShell
<1> QED
  BY <1>1, ConnectionInductive, PTL
=============================================================================
