-------------------------- MODULE DataSourceProofs --------------------------
(***************************************************************************)
(* That php_pdo_parse_data_source finds in a data source of the documented *)
(* form the pairs it was written from, and that libpq reads from the       *)
(* connection string of create the values that went into it, for every set *)
(* of options, names, values and pairs that meets DataSourceAssumption.    *)
(*                                                                         *)
(* The recursive functions of the model (FlattenSeq, conninfo_parse) are   *)
(* CHOOSEn among the functions that satisfy their equations: the lemmas    *)
(* show that there is one and only one, by induction over sets of numbers. *)
(* Layout says where the parts of a pair lie in the data source, PairFound *)
(* that the loop finds them there; ReadOption says that libpq reads one    *)
(* option back. IInv, at the theorems' centre, says that the loop is       *)
(* always at the beginning of a pair, the pairs before it being taken.     *)
(***************************************************************************)
EXTENDS DataSource, FiniteSetTheorems, WellFoundedInduction, TLAPS

-----------------------------------------------------------------------------
(* Induction *)

\* A set of numbers with zero and with the successor of each of its numbers has
\* them all.
LEMMA Induction ==
  ASSUME NEW S, 0 \in S, \A n \in Nat : n \in S => n + 1 \in S
  PROVE  \A n \in Nat : n \in S
<1> DEFINE Rest == {n \in Nat : n \notin S}
<1> SUFFICES ASSUME Rest # {} PROVE FALSE
  OBVIOUS
<1>1. PICK x \in Rest : \A y \in Rest : ~(<<y, x>> \in OpToRel(<, Nat))
  BY NatLessThanWellFounded, WFMin
<1>2. x \in Nat /\ x # 0 /\ x - 1 \in Nat /\ x - 1 \in S
  <2>1. x \in Nat /\ x \notin S /\ x # 0
    OBVIOUS
  <2>2. x - 1 \in Nat /\ <<x - 1, x>> \in OpToRel(<, Nat)
    BY <2>1 DEF OpToRel
  <2> QED BY <1>1, <2>1, <2>2
<1>3. (x - 1) + 1 \in S
  BY <1>2
<1> QED BY <1>2, <1>3

\* A set of numbers that is not empty has a least one.
LEMMA Least ==
  ASSUME NEW S, S \subseteq Nat, S # {}
  PROVE  \E x \in S : \A y \in S : x <= y
<1>1. PICK x \in S : \A y \in S : ~(<<y, x>> \in OpToRel(<, Nat))
  BY NatLessThanWellFounded, WFMin
<1>2. ASSUME NEW y \in S PROVE x <= y
  <2>1. y < x => <<y, x>> \in OpToRel(<, Nat)
    BY DEF OpToRel
  <2>2. ~(y < x)
    BY <1>1, <2>1
  <2> QED BY <2>2
<1> QED BY <1>2

\* A set of sequences with the empty one and with whatever is one longer than
\* one of its sequences has them all.
LEMMA SeqInduction ==
  ASSUME NEW A, NEW S, <<>> \in S,
         \A s \in Seq(A) : \A x \in A : s \in S => Append(s, x) \in S
  PROVE  \A s \in Seq(A) : s \in S
<1> SUFFICES ASSUME NEW s \in Seq(A) PROVE s \in S
  OBVIOUS
<1> DEFINE T == {n \in Nat : n <= Len(s) => SubSeq(s, 1, n) \in S}
<1>1. 0 \in T
  <2>1. SubSeq(s, 1, 0) = <<>>
    OBVIOUS
  <2> QED BY <2>1
<1>2. ASSUME NEW n \in Nat, n \in T PROVE n + 1 \in T
  <2> SUFFICES ASSUME n + 1 <= Len(s) PROVE SubSeq(s, 1, n + 1) \in S
    OBVIOUS
  <2>1. SubSeq(s, 1, n) \in S /\ SubSeq(s, 1, n) \in Seq(A) /\ s[n+1] \in A
    BY <1>2
  <2>2. SubSeq(s, 1, n + 1) = Append(SubSeq(s, 1, n), s[n+1])
    OBVIOUS
  <2> QED BY <2>1, <2>2
<1> HIDE DEF T
<1>3. \A n \in Nat : n \in T
  BY <1>1, <1>2, Induction
<1>4. SubSeq(s, 1, Len(s)) = s /\ Len(s) \in Nat
  OBVIOUS
<1>5. Len(s) \in T
  BY <1>3, <1>4
<1>6. SubSeq(s, 1, Len(s)) \in S
  BY <1>4, <1>5 DEF T
<1> QED BY <1>4, <1>6

-----------------------------------------------------------------------------
(* Concatenation *)

\* IsFlatten: f concatenates the first m of some sequences as FlattenSeq does.
IsFlatten(f, seqs, m) ==
  f = [n \in 1..m |-> IF n = 1 THEN seqs[n] ELSE f[n-1] \o seqs[n]]

\* One sequence more: such an f can be continued.
LEMMA FlattenContinues ==
  ASSUME NEW seqs, NEW m \in Nat, NEW f, IsFlatten(f, seqs, m)
  PROVE  \E g : IsFlatten(g, seqs, m + 1)
<1> DEFINE last == IF m = 0 THEN seqs[m+1] ELSE f[m] \o seqs[m+1]
           g == [n \in 1..(m+1) |-> IF n = m + 1 THEN last ELSE f[n]]
<1>1. ASSUME NEW n \in 1..(m+1)
      PROVE  g[n] = IF n = 1 THEN seqs[n] ELSE g[n-1] \o seqs[n]
  <2>1. CASE n = m + 1
    <3>1. n # 1 => n - 1 \in 1..(m+1) /\ n - 1 # m + 1 /\ m # 0 /\ n - 1 = m
      BY <2>1
    <3>2. n # 1 => g[n-1] = f[m]
      BY <3>1
    <3> QED BY <2>1, <3>1, <3>2
  <2>2. CASE n # m + 1
    <3>1. n \in 1..m /\ g[n] = f[n]
      BY <2>2
    <3>2. n # 1 => n - 1 \in 1..(m+1) /\ n - 1 # m + 1 /\ g[n-1] = f[n-1]
      BY <2>2
    <3>3. f[n] = IF n = 1 THEN seqs[n] ELSE f[n-1] \o seqs[n]
      BY <3>1 DEF IsFlatten
    <3> QED BY <3>1, <3>2, <3>3
  <2> QED BY <2>1, <2>2
<1>2. g = [n \in 1..(m+1) |-> IF n = 1 THEN seqs[n] ELSE g[n-1] \o seqs[n]]
  BY <1>1
<1> QED BY <1>2 DEF IsFlatten

\* FlattenSeq's recursion has a solution, for any number of sequences.
LEMMA FlattenExists ==
  ASSUME NEW seqs, NEW m \in Nat
  PROVE  \E f : IsFlatten(f, seqs, m)
<1> DEFINE S == {n \in Nat : \E f : IsFlatten(f, seqs, n)}
<1>1. 0 \in S
  <2> DEFINE f == [n \in 1..0 |-> seqs[n]]
  <2>1. IsFlatten(f, seqs, 0)
    BY DEF IsFlatten
  <2> QED BY <2>1
<1>2. ASSUME NEW n \in Nat, n \in S PROVE n + 1 \in S
  BY <1>2, FlattenContinues
<1> HIDE DEF S
<1>3. m \in S
  BY <1>1, <1>2, Induction
<1> QED BY <1>3 DEF S

\* And only one.
LEMMA FlattenUnique ==
  ASSUME NEW seqs, NEW m \in Nat, NEW k \in Nat, m <= k,
         NEW f, IsFlatten(f, seqs, m), NEW g, IsFlatten(g, seqs, k)
  PROVE  \A n \in 1..m : f[n] = g[n]
<1> DEFINE S == {n \in Nat : n \in 1..m => f[n] = g[n]}
<1>1. 0 \in S
  OBVIOUS
<1>2. ASSUME NEW n \in Nat, n \in S PROVE n + 1 \in S
  <2> SUFFICES ASSUME n + 1 \in 1..m PROVE f[n+1] = g[n+1]
    OBVIOUS
  <2>1. n + 1 \in 1..k /\ (n + 1) - 1 = n /\ (n # 0 => f[n] = g[n])
    BY <1>2
  <2>2. f[n+1] = IF n + 1 = 1 THEN seqs[n+1] ELSE f[(n+1)-1] \o seqs[n+1]
    BY DEF IsFlatten
  <2>3. g[n+1] = IF n + 1 = 1 THEN seqs[n+1] ELSE g[(n+1)-1] \o seqs[n+1]
    BY <2>1 DEF IsFlatten
  <2> QED BY <2>1, <2>2, <2>3
<1> HIDE DEF S
<1>3. \A n \in Nat : n \in S
  BY <1>1, <1>2, Induction
<1> QED BY <1>3 DEF S

\* FlattenSeq of a sequence that is not empty is the last value of its recursion.
LEMMA FlattenIs ==
  ASSUME NEW A, NEW seqs \in Seq(A), seqs # <<>>, NEW f, IsFlatten(f, seqs, Len(seqs))
  PROVE  FlattenSeq(seqs) = f[Len(seqs)]
<1> DEFINE flatten == CHOOSE g : g =
      [n \in 1..Len(seqs) |-> IF n = 1 THEN seqs[n] ELSE g[n-1] \o seqs[n]]
<1>1. Len(seqs) \in Nat /\ Len(seqs) # 0 /\ Len(seqs) \in 1..Len(seqs)
  OBVIOUS
<1>2. FlattenSeq(seqs) = flatten[Len(seqs)]
  BY <1>1, Zenon DEF FlattenSeq
<1>3. IsFlatten(flatten, seqs, Len(seqs))
  <2>1. \E g : g = [n \in 1..Len(seqs) |-> IF n = 1 THEN seqs[n] ELSE g[n-1] \o seqs[n]]
    BY <1>1, FlattenExists, Zenon DEF IsFlatten
  <2> QED BY <2>1, Zenon DEF IsFlatten
<1> HIDE DEF flatten
<1> QED BY <1>1, <1>2, <1>3, FlattenUnique

\* FlattenSeq of nothing.
LEMMA FlattenEmpty == FlattenSeq(<<>>) = <<>>
BY DEF FlattenSeq

\* FlattenSeq of one sequence more.
LEMMA FlattenAppend ==
  ASSUME NEW A, NEW seqs \in Seq(Seq(A)), NEW s \in Seq(A)
  PROVE  FlattenSeq(Append(seqs, s)) = FlattenSeq(seqs) \o s
<1> DEFINE more == Append(seqs, s)
           n == Len(seqs)
<1>1. /\ more \in Seq(Seq(A)) /\ more # <<>>
      /\ n \in Nat /\ n + 1 \in Nat /\ n <= n + 1 /\ Len(more) = n + 1
      /\ more[n+1] = s /\ \A k \in 1..n : more[k] = seqs[k]
  <2>1. more \in Seq(Seq(A)) /\ Len(more) = n + 1
    OBVIOUS
  <2>2. n \in Nat /\ n + 1 \in Nat /\ n <= n + 1
    OBVIOUS
  <2>3. more[n+1] = s /\ \A k \in 1..n : more[k] = seqs[k]
    OBVIOUS
  <2>4. more # <<>>
    BY <2>1, <2>2
  <2> QED BY <2>1, <2>2, <2>3, <2>4
<1> HIDE DEF more, n
<1>2. PICK g : IsFlatten(g, more, n + 1)
  BY <1>1, FlattenExists
<1>3. FlattenSeq(more) = g[n+1]
  BY <1>1, <1>2, FlattenIs
<1>4. g[n+1] = IF n + 1 = 1 THEN s ELSE g[n] \o s
  <2>1. n + 1 \in 1..(n+1) /\ (n + 1) - 1 = n
    BY <1>1
  <2> QED BY <1>1, <1>2, <2>1 DEF IsFlatten
<1>5. CASE seqs = <<>>
  <2>1. n + 1 = 1 /\ <<>> \o s = s
    BY <1>5 DEF n
  <2> QED BY <1>3, <1>4, <1>5, <2>1, FlattenEmpty DEF more
<1>6. CASE seqs # <<>>
  <2>1. PICK f : IsFlatten(f, seqs, n)
    BY <1>1, FlattenExists
  <2>2. FlattenSeq(seqs) = f[n]
    BY <1>6, <2>1, FlattenIs DEF n
  <2>5. n \in 1..n /\ n + 1 # 1
    BY <1>6 DEF n
  <2>3. IsFlatten(f, more, n)
    BY <1>1, <2>1 DEF IsFlatten
  <2>4. \A k \in 1..n : f[k] = g[k]
    BY <1>1, <1>2, <2>3, FlattenUnique
  <2> QED BY <1>3, <1>4, <2>2, <2>4, <2>5 DEF more
<1> QED BY <1>5, <1>6

\* FlattenSeq of sequences over a set is one of them.
LEMMA FlattenType ==
  ASSUME NEW A, NEW seqs \in Seq(Seq(A))
  PROVE  FlattenSeq(seqs) \in Seq(A)
<1> DEFINE S == {t \in Seq(Seq(A)) : FlattenSeq(t) \in Seq(A)}
<1>1. <<>> \in S
  <2>1. <<>> \in Seq(Seq(A)) /\ <<>> \in Seq(A)
    OBVIOUS
  <2> QED BY <2>1, FlattenEmpty
<1>2. ASSUME NEW t \in Seq(Seq(A)), NEW s \in Seq(A), t \in S PROVE Append(t, s) \in S
  <2>1. FlattenSeq(t) \in Seq(A) /\ Append(t, s) \in Seq(Seq(A))
    BY <1>2
  <2>2. FlattenSeq(Append(t, s)) = FlattenSeq(t) \o s
    BY FlattenAppend
  <2>3. FlattenSeq(t) \o s \in Seq(A)
    BY <2>1
  <2> QED BY <2>1, <2>2, <2>3
<1> HIDE DEF S
<1>3. seqs \in S
  BY <1>1, <1>2, SeqInduction
<1> QED BY <1>3 DEF S

\* The first m sequences, concatenated, are the first part of all of them.
LEMMA FlattenPrefix ==
  ASSUME NEW A, NEW seqs \in Seq(Seq(A)), NEW m \in 0..Len(seqs)
  PROVE  /\ Len(FlattenSeq(SubSeq(seqs, 1, m))) <= Len(FlattenSeq(seqs))
         /\ \A j \in 1..Len(FlattenSeq(SubSeq(seqs, 1, m))) :
              FlattenSeq(SubSeq(seqs, 1, m))[j] = FlattenSeq(seqs)[j]
<1> DEFINE all == FlattenSeq(seqs)
           part(k) == FlattenSeq(SubSeq(seqs, 1, k))
           S == {d \in Nat : d <= Len(seqs) =>
                   LET k == Len(seqs) - d
                   IN  /\ Len(part(k)) <= Len(all)
                       /\ \A j \in 1..Len(part(k)) : part(k)[j] = all[j]}
<1>1. \A k \in 0..Len(seqs) : SubSeq(seqs, 1, k) \in Seq(Seq(A)) /\ part(k) \in Seq(A)
  <2>1. \A k \in 0..Len(seqs) : SubSeq(seqs, 1, k) \in Seq(Seq(A))
    OBVIOUS
  <2> QED BY <2>1, FlattenType
<1>2. \A k \in 0..Len(seqs) : k + 1 <= Len(seqs) => part(k+1) = part(k) \o seqs[k+1]
  <2> SUFFICES ASSUME NEW k \in 0..Len(seqs), k + 1 <= Len(seqs)
               PROVE  part(k+1) = part(k) \o seqs[k+1]
    OBVIOUS
  <2>1. SubSeq(seqs, 1, k + 1) = Append(SubSeq(seqs, 1, k), seqs[k+1]) /\ seqs[k+1] \in Seq(A)
    OBVIOUS
  <2> QED BY <1>1, <2>1, FlattenAppend
<1>3. part(Len(seqs)) = all /\ Len(seqs) \in 0..Len(seqs)
  <2>1. SubSeq(seqs, 1, Len(seqs)) = seqs /\ Len(seqs) \in 0..Len(seqs)
    OBVIOUS
  <2> QED BY <2>1
<1> HIDE DEF part, all
<1>4. 0 \in S
  BY <1>3
<1>5. ASSUME NEW d \in Nat, d \in S PROVE d + 1 \in S
  <2> DEFINE k == Len(seqs) - (d + 1)
  <2> SUFFICES ASSUME d + 1 <= Len(seqs)
               PROVE  /\ Len(part(k)) <= Len(all)
                      /\ \A j \in 1..Len(part(k)) : part(k)[j] = all[j]
    OBVIOUS
  <2>1. k \in 0..Len(seqs) /\ k + 1 \in 0..Len(seqs) /\ k + 1 = Len(seqs) - d /\ d <= Len(seqs)
    OBVIOUS
  <2>2. Len(part(k+1)) <= Len(all) /\ \A j \in 1..Len(part(k+1)) : part(k+1)[j] = all[j]
    BY <1>5, <2>1
  <2> HIDE DEF k
  <2>7. part(k) \in Seq(A) /\ part(k+1) = part(k) \o seqs[k+1]
    <3>1. part(k) \in Seq(A)
      BY <1>1, <2>1
    <3>2. k + 1 <= Len(seqs)
      BY <2>1
    <3> QED BY <1>2, <2>1, <3>1, <3>2
  <2>8. seqs[k+1] \in Seq(A)
    BY <2>1
  <2>3. part(k+1) = part(k) \o seqs[k+1] /\ seqs[k+1] \in Seq(A) /\ part(k) \in Seq(A)
    BY <2>7, <2>8
  <2>4. Len(part(k)) <= Len(part(k+1))
        /\ \A j \in 1..Len(part(k)) : part(k)[j] = part(k+1)[j]
    BY <2>3
  <2>5. Len(part(k)) \in Nat /\ Len(part(k+1)) \in Nat
    BY <1>1, <2>1
  <2>6. Len(all) \in Nat
    BY <1>1, <1>3
  <2> QED BY <2>2, <2>4, <2>5, <2>6
<1> HIDE DEF S
<1>6. Len(seqs) - m \in S
  <2>1. \A n \in Nat : n \in S
    BY <1>4, <1>5, Induction
  <2> QED BY <2>1
<1>7. Len(seqs) - m \in Nat /\ Len(seqs) - (Len(seqs) - m) = m /\ Len(seqs) - m <= Len(seqs)
  OBVIOUS
<1>8. Len(part(m)) <= Len(all) /\ \A j \in 1..Len(part(m)) : part(m)[j] = all[j]
  BY <1>6, <1>7 DEF S
<1> QED BY <1>8 DEF part, all

\* LiesAt: a piece of all begins behind the first at elements.
LiesAt(piece, all, at) ==
  at + Len(piece) <= Len(all) /\ \A j \in 1..Len(piece) : all[at + j] = piece[j]

\* Each of the sequences lies, in their concatenation, behind those before it.
LEMMA FlattenPiece ==
  ASSUME NEW A, NEW seqs \in Seq(Seq(A)), NEW m \in 0..Len(seqs), m < Len(seqs),
         NEW at, at = Len(FlattenSeq(SubSeq(seqs, 1, m)))
  PROVE  /\ at \in Nat
         /\ at + Len(seqs[m+1]) = Len(FlattenSeq(SubSeq(seqs, 1, m + 1)))
         /\ LiesAt(seqs[m+1], FlattenSeq(seqs), at)
<1> DEFINE all == FlattenSeq(seqs)
           before == FlattenSeq(SubSeq(seqs, 1, m))
           after == FlattenSeq(SubSeq(seqs, 1, m + 1))
           piece == seqs[m+1]
<1>1. after = before \o piece
  <2>1. SubSeq(seqs, 1, m + 1) = Append(SubSeq(seqs, 1, m), piece)
    OBVIOUS
  <2>2. SubSeq(seqs, 1, m) \in Seq(Seq(A)) /\ piece \in Seq(A)
    OBVIOUS
  <2> QED BY <2>1, <2>2, FlattenAppend
<1>2. before \in Seq(A) /\ piece \in Seq(A)
  <2>1. SubSeq(seqs, 1, m) \in Seq(Seq(A)) /\ piece \in Seq(A)
    OBVIOUS
  <2> QED BY <2>1, FlattenType
<1>3. Len(after) <= Len(all) /\ \A j \in 1..Len(after) : after[j] = all[j]
  <2>1. m + 1 \in 0..Len(seqs)
    OBVIOUS
  <2> QED BY <2>1, FlattenPrefix
<1> HIDE DEF all, before, after, piece
<1>4. at = Len(before) /\ at \in Nat /\ Len(piece) \in Nat /\ Len(after) = at + Len(piece)
  <2>1. at = Len(before)
    BY DEF before
  <2>2. Len(before) \in Nat /\ Len(piece) \in Nat
    BY <1>2
  <2>3. Len(after) = Len(before) + Len(piece)
    BY <1>1, <1>2
  <2> QED BY <2>1, <2>2, <2>3
<1>5. ASSUME NEW j \in 1..Len(piece) PROVE all[at + j] = piece[j]
  <2>1. after[at + j] = piece[j]
    BY <1>1, <1>2, <1>4
  <2>2. at + j \in 1..Len(after)
    BY <1>4
  <2> QED BY <1>3, <2>1, <2>2
<1>6. at \in Nat /\ at + Len(piece) = Len(after) /\ at + Len(piece) <= Len(all)
  BY <1>3, <1>4
<1>7. LiesAt(piece, all, at)
  BY <1>5, <1>6 DEF LiesAt
<1> QED BY <1>6, <1>7 DEF all, after, piece

-----------------------------------------------------------------------------
(* How libpq reads *)

\* IsReading: f takes the states of conninfo_parse over the first m characters.
IsReading(f, text, m) ==
  f = [n \in 0..m |-> IF n = 0 THEN NothingRead ELSE ReadNext(f[n-1], text[n])]

\* One character more: such an f can be continued.
LEMMA ReadingContinues ==
  ASSUME NEW text, NEW m \in Nat, NEW f, IsReading(f, text, m)
  PROVE  \E g : IsReading(g, text, m + 1)
<1> DEFINE g == [n \in 0..(m+1) |-> IF n = m + 1 THEN ReadNext(f[m], text[m+1]) ELSE f[n]]
<1>1. ASSUME NEW n \in 0..(m+1)
      PROVE  g[n] = IF n = 0 THEN NothingRead ELSE ReadNext(g[n-1], text[n])
  <2>1. CASE n = m + 1
    <3>1. n # 0 /\ n - 1 \in 0..(m+1) /\ n - 1 # m + 1 /\ n - 1 = m
      BY <2>1
    <3>2. g[n-1] = f[m]
      BY <3>1
    <3> QED BY <2>1, <3>1, <3>2
  <2>2. CASE n # m + 1
    <3>1. n \in 0..m /\ g[n] = f[n]
      BY <2>2
    <3>2. n # 0 => n - 1 \in 0..(m+1) /\ n - 1 # m + 1 /\ g[n-1] = f[n-1]
      BY <2>2
    <3>3. f[n] = IF n = 0 THEN NothingRead ELSE ReadNext(f[n-1], text[n])
      BY <3>1 DEF IsReading
    <3> QED BY <3>1, <3>2, <3>3
  <2> QED BY <2>1, <2>2
<1>2. g = [n \in 0..(m+1) |-> IF n = 0 THEN NothingRead ELSE ReadNext(g[n-1], text[n])]
  BY <1>1
<1> QED BY <1>2 DEF IsReading

\* conninfo_parse's recursion has a solution, for any number of characters.
LEMMA ReadingExists ==
  ASSUME NEW text, NEW m \in Nat
  PROVE  \E f : IsReading(f, text, m)
<1> DEFINE S == {n \in Nat : \E f : IsReading(f, text, n)}
<1>1. 0 \in S
  <2> DEFINE f == [n \in 0..0 |-> NothingRead]
  <2>1. IsReading(f, text, 0)
    BY DEF IsReading
  <2> QED BY <2>1
<1>2. ASSUME NEW n \in Nat, n \in S PROVE n + 1 \in S
  BY <1>2, ReadingContinues
<1> HIDE DEF S
<1>3. m \in S
  BY <1>1, <1>2, Induction
<1> QED BY <1>3 DEF S

\* And only one.
LEMMA ReadingUnique ==
  ASSUME NEW text, NEW m \in Nat, NEW k \in Nat, m <= k,
         NEW f, IsReading(f, text, m), NEW g, IsReading(g, text, k)
  PROVE  \A n \in 0..m : f[n] = g[n]
<1> DEFINE S == {n \in Nat : n \in 0..m => f[n] = g[n]}
<1>1. 0 \in S
  BY DEF IsReading
<1>2. ASSUME NEW n \in Nat, n \in S PROVE n + 1 \in S
  <2> SUFFICES ASSUME n + 1 \in 0..m PROVE f[n+1] = g[n+1]
    OBVIOUS
  <2>1. n + 1 \in 0..k /\ (n + 1) - 1 = n /\ n + 1 # 0 /\ f[n] = g[n]
    BY <1>2
  <2>2. f[n+1] = ReadNext(f[(n+1)-1], text[n+1])
    BY <2>1 DEF IsReading
  <2>3. g[n+1] = ReadNext(g[(n+1)-1], text[n+1])
    BY <2>1 DEF IsReading
  <2> QED BY <2>1, <2>2, <2>3
<1> HIDE DEF S
<1>3. \A n \in Nat : n \in S
  BY <1>1, <1>2, Induction
<1> QED BY <1>3 DEF S

\* conninfo_parse is the last state of its recursion.
LEMMA ReadingIs ==
  ASSUME NEW A, NEW text \in Seq(A), NEW f, IsReading(f, text, Len(text))
  PROVE  conninfo_parse(text) = f[Len(text)]
<1> DEFINE state == CHOOSE g : g =
      [n \in 0..Len(text) |-> IF n = 0 THEN NothingRead ELSE ReadNext(g[n-1], text[n])]
<1>1. Len(text) \in Nat /\ Len(text) <= Len(text) /\ Len(text) \in 0..Len(text)
  OBVIOUS
<1>2. conninfo_parse(text) = state[Len(text)]
  BY Zenon DEF conninfo_parse
<1>3. IsReading(state, text, Len(text))
  <2>1. \E g : g = [n \in 0..Len(text) |->
                     IF n = 0 THEN NothingRead ELSE ReadNext(g[n-1], text[n])]
    BY <1>1, ReadingExists, Zenon DEF IsReading
  <2> QED BY <2>1, Zenon DEF IsReading
<1> HIDE DEF state
<1>4. \A n \in 0..Len(text) : f[n] = state[n]
  BY <1>1, <1>3, ReadingUnique
<1> QED BY <1>1, <1>2, <1>4

\* Before the first character nothing is read.
LEMMA ReadNothing == conninfo_parse(<<>>) = NothingRead
<1>1. PICK f : IsReading(f, <<>>, 0)
  BY ReadingExists
<1>2. <<>> \in Seq({}) /\ Len(<<>>) = 0
  OBVIOUS
<1>3. conninfo_parse(<<>>) = f[0]
  BY <1>1, <1>2, ReadingIs
<1> QED BY <1>1, <1>3 DEF IsReading

\* What libpq makes of one character more.
LEMMA ReadAppend ==
  ASSUME NEW A, NEW text \in Seq(A), NEW c \in A
  PROVE  conninfo_parse(Append(text, c)) = ReadNext(conninfo_parse(text), c)
<1> DEFINE more == Append(text, c)
           n == Len(text)
<1>1. more \in Seq(A) /\ Len(more) = n + 1 /\ more[n+1] = c
      /\ \A k \in 1..n : more[k] = text[k]
  OBVIOUS
<1>2. n \in Nat /\ n + 1 \in Nat /\ n <= n + 1 /\ n \in 0..n
      /\ n + 1 \in 0..(n+1) /\ n + 1 # 0 /\ (n + 1) - 1 = n
  OBVIOUS
<1>3. text \in Seq(A) /\ Len(text) = n
  OBVIOUS
<1> HIDE DEF more, n
<1>4. PICK g : IsReading(g, more, n + 1)
  BY <1>2, ReadingExists
<1>5. PICK f : IsReading(f, text, n)
  BY <1>2, ReadingExists
<1>6. conninfo_parse(more) = g[n+1]
  BY <1>1, <1>4, ReadingIs
<1>7. conninfo_parse(text) = f[n]
  BY <1>3, <1>5, ReadingIs
<1>8. g[n+1] = ReadNext(g[n], c)
  <2>1. g[n+1] = ReadNext(g[(n+1)-1], more[n+1])
    BY <1>2, <1>4 DEF IsReading
  <2> QED BY <1>1, <1>2, <2>1
<1>9. IsReading(f, more, n)
  <2>1. \A k \in 0..n : (IF k = 0 THEN NothingRead ELSE ReadNext(f[k-1], text[k]))
                       = (IF k = 0 THEN NothingRead ELSE ReadNext(f[k-1], more[k]))
    <3>1. \A k \in 0..n : k # 0 => k \in 1..n
      BY <1>2
    <3> QED BY <1>1, <3>1
  <2> QED BY <1>5, <2>1 DEF IsReading
<1>10. \A k \in 0..n : f[k] = g[k]
  BY <1>2, <1>4, <1>9, ReadingUnique
<1>11. f[n] = g[n]
  BY <1>2, <1>10
<1> QED BY <1>6, <1>7, <1>8, <1>11 DEF more

-----------------------------------------------------------------------------
(* Quoting *)

\* What a connection string consists of.
ConninfoChars == Chars \cup Keys \cup {"\\", "'"}

\* ReplaceStringInPlace takes the characters one after the other.
LEMMA ReplaceAppend ==
  ASSUME NEW A, NEW subject \in Seq(A), NEW c \in A, NEW search, NEW replace \in Seq(A)
  PROVE  /\ ReplaceStringInPlace(subject, search, replace) \in Seq(A)
         /\ c = search =>
              ReplaceStringInPlace(Append(subject, c), search, replace)
                = ReplaceStringInPlace(subject, search, replace) \o replace
         /\ c # search =>
              ReplaceStringInPlace(Append(subject, c), search, replace)
                = Append(ReplaceStringInPlace(subject, search, replace), c)
<1> DEFINE of(t) == [k \in DOMAIN t |-> IF t[k] = search THEN replace ELSE <<t[k]>>]
           new == IF c = search THEN replace ELSE <<c>>
<1>1. of(subject) \in Seq(Seq(A)) /\ new \in Seq(A)
  <2>1. \A x \in A : <<x>> \in Seq(A)
    OBVIOUS
  <2>2. DOMAIN subject = 1..Len(subject) /\ \A k \in 1..Len(subject) : subject[k] \in A
    OBVIOUS
  <2>3. \A k \in 1..Len(subject) : of(subject)[k] \in Seq(A)
    BY <2>1, <2>2
  <2>4. of(subject) \in [1..Len(subject) -> Seq(A)]
    BY <2>2, <2>3
  <2>5. Len(subject) \in Nat
    OBVIOUS
  <2> HIDE DEF of
  <2> QED BY <2>1, <2>4, <2>5
<1>2. of(Append(subject, c)) = Append(of(subject), new)
  <2>1. DOMAIN of(Append(subject, c)) = 1..(Len(subject) + 1)
    OBVIOUS
  <2>2. DOMAIN Append(of(subject), new) = 1..(Len(subject) + 1)
    OBVIOUS
  <2>3. ASSUME NEW k \in 1..(Len(subject) + 1)
        PROVE  of(Append(subject, c))[k] = Append(of(subject), new)[k]
    OBVIOUS
  <2> QED BY <2>1, <2>2, <2>3
<1>3. /\ ReplaceStringInPlace(subject, search, replace) = FlattenSeq(of(subject))
      /\ ReplaceStringInPlace(Append(subject, c), search, replace)
           = FlattenSeq(of(Append(subject, c)))
  BY DEF ReplaceStringInPlace
<1> HIDE DEF of, new
<1>4. FlattenSeq(of(subject)) \in Seq(A)
  BY <1>1, FlattenType
<1>5. FlattenSeq(Append(of(subject), new)) = FlattenSeq(of(subject)) \o new
  BY <1>1, FlattenAppend
<1>6. FlattenSeq(of(subject)) \o <<c>> = Append(FlattenSeq(of(subject)), c)
  BY <1>4
<1> QED BY <1>2, <1>3, <1>4, <1>5, <1>6 DEF new

\* Nothing to replace.
LEMMA ReplaceNothing ==
  ASSUME NEW search, NEW replace
  PROVE  ReplaceStringInPlace(<<>>, search, replace) = <<>>
<1>1. [k \in DOMAIN <<>> |-> IF <<>>[k] = search THEN replace ELSE <<(<<>>[k])>>] = <<>>
  OBVIOUS
<1> QED BY <1>1, FlattenEmpty DEF ReplaceStringInPlace

\* A quoted value is made of its characters, with a backslash before some.
LEMMA QuotedAppend ==
  ASSUME NEW value \in Seq(ConninfoChars), NEW c \in ConninfoChars
  PROVE  /\ Quoted(value) \in Seq(ConninfoChars)
         /\ c \in {"\\", "'"} => Quoted(Append(value, c)) = Append(Append(Quoted(value), "\\"), c)
         /\ c \notin {"\\", "'"} => Quoted(Append(value, c)) = Append(Quoted(value), c)
<1> DEFINE A == ConninfoChars
           slashes == <<"\\", "\\">>
           quote == <<"\\", "'">>
           first(v) == ReplaceStringInPlace(v, "\\", slashes)
           second(v) == ReplaceStringInPlace(v, "'", quote)
<1>1. "\\" \in A /\ slashes \in Seq(A) /\ quote \in Seq(A)
  BY DEF ConninfoChars
<1>2. \A v \in Seq(A) : v \o slashes = Append(Append(v, "\\"), "\\")
                       /\ v \o quote = Append(Append(v, "\\"), "'")
  BY <1>1
<1>3. \A v : Quoted(v) = second(first(v))
  BY DEF Quoted
<1> HIDE DEF A, slashes, quote
<1>4. ASSUME NEW v \in Seq(A), NEW d \in A
      PROVE  /\ first(v) \in Seq(A)
             /\ d = "\\" => first(Append(v, d)) = first(v) \o slashes
             /\ d # "\\" => first(Append(v, d)) = Append(first(v), d)
  BY <1>1, ReplaceAppend
<1>5. ASSUME NEW v \in Seq(A), NEW d \in A
      PROVE  /\ second(v) \in Seq(A)
             /\ d = "'" => second(Append(v, d)) = second(v) \o quote
             /\ d # "'" => second(Append(v, d)) = Append(second(v), d)
  BY <1>1, ReplaceAppend
<1> HIDE DEF first, second
<1>6. value \in Seq(A) /\ c \in A
  BY DEF A
<1>7. first(value) \in Seq(A) /\ Quoted(value) \in Seq(A)
  BY <1>3, <1>4, <1>5, <1>6
<1>8. CASE c = "\\"
  <2> DEFINE t == Append(first(value), "\\")
  <2>1. first(Append(value, c)) = Append(t, "\\")
    BY <1>2, <1>4, <1>6, <1>7, <1>8
  <2>2. t \in Seq(A)
    BY <1>1, <1>7
  <2>3. second(t) = Append(second(first(value)), "\\")
    BY <1>1, <1>5, <1>7
  <2> HIDE DEF t
  <2>4. second(Append(t, "\\")) = Append(second(t), "\\")
    BY <1>1, <1>5, <2>2
  <2> QED BY <1>3, <1>7, <1>8, <2>1, <2>3, <2>4 DEF A
<1>9. CASE c # "\\"
  <2>1. first(Append(value, c)) = Append(first(value), c)
    BY <1>4, <1>6, <1>9
  <2>2. /\ c = "'" => second(Append(first(value), c)) = second(first(value)) \o quote
        /\ c # "'" => second(Append(first(value), c)) = Append(second(first(value)), c)
    BY <1>5, <1>6, <1>7
  <2>3. second(first(value)) \o quote = Append(Append(second(first(value)), "\\"), "'")
    BY <1>2, <1>3, <1>7
  <2> QED BY <1>3, <1>7, <1>9, <2>1, <2>2, <2>3 DEF A
<1> QED BY <1>8, <1>9

\* A quoted value is a text of a connection string.
LEMMA QuotedType ==
  ASSUME NEW value \in Seq(Chars)
  PROVE  Quoted(value) \in Seq(ConninfoChars)
<1>1. value \in Seq(ConninfoChars) /\ "'" \in ConninfoChars
  BY DEF ConninfoChars
<1> QED BY <1>1, QuotedAppend

-----------------------------------------------------------------------------
(* What libpq reads from a quoted value *)

\* The states conninfo_parse is in between and inside values.
State(mode, k, read) == [mode |-> mode, key |-> k, read |-> read]

\* What libpq has read when it is in a state.
Readings == [Keys -> Seq(Chars) \cup {Absent}]

\* What one character does inside a value.
LEMMA ReadInValue ==
  ASSUME NEW k \in Keys, NEW read \in Readings, NEW c
  PROVE  /\ c \notin {"\\", "'"} =>
              ReadNext(State("value", k, read), c)
                = State("value", k, [read EXCEPT ![k] = Append(@, c)])
         /\ ReadNext(State("value", k, read), "\\") = State("escaped", k, read)
         /\ ReadNext(State("escaped", k, read), c)
              = State("value", k, [read EXCEPT ![k] = Append(@, c)])
         /\ ReadNext(State("value", k, read), "'") = State("name", k, read)
<1>1. /\ State("value", k, read).mode = "value" /\ State("escaped", k, read).mode = "escaped"
      /\ State("value", k, read).key = k /\ State("escaped", k, read).key = k
      /\ State("value", k, read).read = read /\ State("escaped", k, read).read = read
  BY DEF State
<1>2. c \notin {"\\", "'"} =>
        ReadNext(State("value", k, read), c)
          = State("value", k, [read EXCEPT ![k] = Append(@, c)])
  BY <1>1 DEF ReadNext, State
<1>3. ReadNext(State("value", k, read), "\\") = State("escaped", k, read)
  BY <1>1 DEF ReadNext, State
<1>4. ReadNext(State("escaped", k, read), c)
        = State("value", k, [read EXCEPT ![k] = Append(@, c)])
  BY <1>1 DEF ReadNext, State
<1>5. ReadNext(State("value", k, read), "'") = State("name", k, read)
  BY <1>1 DEF ReadNext, State
<1> QED BY <1>2, <1>3, <1>4, <1>5

\* An option's name begins its value.
LEMMA ReadKey ==
  ASSUME NEW l, NEW k \in Keys, NEW read \in Readings
  PROVE  ReadNext(State("name", l, read), k) = State("open", k, [read EXCEPT ![k] = <<>>])
BY DEF ReadNext, State

\* And a quote opens it.
LEMMA ReadQuote ==
  ASSUME NEW k \in Keys, NEW read \in Readings
  PROVE  ReadNext(State("open", k, read), "'") = State("value", k, read)
BY DEF ReadNext, State

\* Inside a value libpq reads from a quoted text that text.
LEMMA ReadValue ==
  ASSUME NEW text \in Seq(ConninfoChars), NEW k \in Keys, NEW read \in Readings,
         read[k] = <<>>, conninfo_parse(text) = State("value", k, read),
         NEW value \in Seq(Chars)
  PROVE  /\ Quoted(value) \in Seq(ConninfoChars)
         /\ conninfo_parse(text \o Quoted(value)) = State("value", k, [read EXCEPT ![k] = value])
<1> DEFINE S == {v \in Seq(Chars) :
      /\ Quoted(v) \in Seq(ConninfoChars)
      /\ conninfo_parse(text \o Quoted(v)) = State("value", k, [read EXCEPT ![k] = v])}
<1>1. <<>> \in S
  <2>1. Quoted(<<>>) = <<>>
    BY ReplaceNothing DEF Quoted
  <2>2. /\ text \o <<>> = text
        /\ <<>> \in Seq(ConninfoChars) /\ <<>> \in Seq(Chars)
    OBVIOUS
  <2>3. [read EXCEPT ![k] = <<>>] = read
    BY DEF Readings
  <2> QED BY <2>1, <2>2, <2>3
<1>2. ASSUME NEW v \in Seq(Chars), NEW c \in Chars, v \in S PROVE Append(v, c) \in S
  <2> DEFINE t == text \o Quoted(v)
             so == [read EXCEPT ![k] = v]
             then == [read EXCEPT ![k] = Append(v, c)]
  <2>1. /\ v \in Seq(ConninfoChars) /\ c \in ConninfoChars /\ Append(v, c) \in Seq(ConninfoChars)
        /\ "\\" \in ConninfoChars /\ "'" \in ConninfoChars
    BY DEF ConninfoChars
  <2>2. Quoted(v) \in Seq(ConninfoChars) /\ Quoted(Append(v, c)) \in Seq(ConninfoChars)
    BY <2>1, QuotedAppend
  <2>3. t \in Seq(ConninfoChars) /\ conninfo_parse(t) = State("value", k, so)
    BY <1>2, <2>2
  <2>4. so \in Readings /\ [so EXCEPT ![k] = Append(@, c)] = then
    BY DEF Readings
  <2> HIDE DEF so, then
  <2>7. SUFFICES conninfo_parse(text \o Quoted(Append(v, c))) = State("value", k, then)
    <3>1. Append(v, c) \in Seq(Chars)
      OBVIOUS
    <3> QED BY <2>2, <3>1 DEF then
  <2>5. CASE c \in {"\\", "'"}
    <3> DEFINE u == Append(t, "\\")
    <3>1. text \o Quoted(Append(v, c)) = Append(u, c) /\ u \in Seq(ConninfoChars)
      <4>1. Quoted(Append(v, c)) = Append(Append(Quoted(v), "\\"), c)
        BY <2>1, <2>5, QuotedAppend
      <4>2. text \o Append(Append(Quoted(v), "\\"), c) = Append(Append(t, "\\"), c)
        BY <2>1, <2>2
      <4>3. u \in Seq(ConninfoChars)
        BY <2>1, <2>3
      <4> QED BY <4>1, <4>2, <4>3
    <3>2. conninfo_parse(u) = State("escaped", k, so)
      <4>1. conninfo_parse(u) = ReadNext(conninfo_parse(t), "\\")
        BY <2>1, <2>3, ReadAppend
      <4> QED BY <2>3, <2>4, <4>1, ReadInValue
    <3> HIDE DEF u
    <3>3. conninfo_parse(Append(u, c)) = State("value", k, then)
      <4>1. conninfo_parse(Append(u, c)) = ReadNext(conninfo_parse(u), c)
        BY <2>1, <3>1, ReadAppend
      <4>2. ReadNext(State("escaped", k, so), c) = State("value", k, [so EXCEPT ![k] = Append(@, c)])
        BY <2>4, ReadInValue
      <4> QED BY <2>4, <3>2, <4>1, <4>2
    <3> QED BY <3>1, <3>3
  <2>6. CASE c \notin {"\\", "'"}
    <3>1. text \o Quoted(Append(v, c)) = Append(t, c)
      <4>1. Quoted(Append(v, c)) = Append(Quoted(v), c)
        BY <2>1, <2>6, QuotedAppend
      <4>2. text \o Append(Quoted(v), c) = Append(t, c)
        BY <2>1, <2>2
      <4> QED BY <4>1, <4>2
    <3>2. conninfo_parse(Append(t, c)) = ReadNext(conninfo_parse(t), c)
      BY <2>1, <2>3, ReadAppend
    <3>3. ReadNext(State("value", k, so), c) = State("value", k, [so EXCEPT ![k] = Append(@, c)])
      BY <2>4, <2>6, ReadInValue
    <3> QED BY <2>3, <2>4, <3>1, <3>2, <3>3
  <2> QED BY <2>5, <2>6
<1> HIDE DEF S
<1>3. value \in S
  BY <1>1, <1>2, SeqInduction
<1> QED BY <1>3 DEF S

\* An option of a connection string.
OptionText(k, value) == <<k, "'">> \o Quoted(value) \o <<"'">>

\* Between options, that is what libpq has read.
HasRead(text, read) == \E l : conninfo_parse(text) = State("name", l, read)

\* Between options libpq reads from the next one its value.
LEMMA ReadOption ==
  ASSUME NEW text \in Seq(ConninfoChars), NEW k \in Keys, NEW read \in Readings,
         HasRead(text, read), NEW value \in Seq(Chars),
         NEW after, after = [read EXCEPT ![k] = value]
  PROVE  HasRead(text \o OptionText(k, value), after)
<1>0. PICK l : conninfo_parse(text) = State("name", l, read)
  BY DEF HasRead
<1> DEFINE opened == Append(text, k)
           inside == Append(opened, "'")
           empty == [read EXCEPT ![k] = <<>>]
           full == inside \o Quoted(value)
<1>1. k \in ConninfoChars /\ "'" \in ConninfoChars
  BY DEF ConninfoChars
<1>2. opened \in Seq(ConninfoChars) /\ inside \in Seq(ConninfoChars)
  BY <1>1
<1>3. empty \in Readings /\ empty[k] = <<>> /\ [empty EXCEPT ![k] = value] = [read EXCEPT ![k] = value]
  <2>1. <<>> \in Seq(Chars)
    OBVIOUS
  <2>2. empty \in Readings /\ empty[k] = <<>>
    BY <2>1 DEF Readings
  <2>3. [empty EXCEPT ![k] = value] = [read EXCEPT ![k] = value]
    BY DEF Readings
  <2> QED BY <2>2, <2>3
<1>4. conninfo_parse(opened) = State("open", k, empty)
  <2>1. conninfo_parse(opened) = ReadNext(conninfo_parse(text), k)
    BY <1>1, ReadAppend
  <2>2. ReadNext(State("name", l, read), k) = State("open", k, empty)
    BY ReadKey
  <2> HIDE DEF opened, empty
  <2> QED BY <1>0, <2>1, <2>2
<1>5. conninfo_parse(inside) = State("value", k, empty)
  <2>1. conninfo_parse(inside) = ReadNext(conninfo_parse(opened), "'")
    BY <1>1, <1>2, ReadAppend
  <2> QED BY <1>3, <1>4, <2>1, ReadQuote
<1> HIDE DEF empty
<1>6. /\ Quoted(value) \in Seq(ConninfoChars) /\ full \in Seq(ConninfoChars)
      /\ conninfo_parse(full) = State("value", k, [read EXCEPT ![k] = value])
  <2> HIDE DEF inside
  <2>1. /\ Quoted(value) \in Seq(ConninfoChars)
        /\ conninfo_parse(full) = State("value", k, [empty EXCEPT ![k] = value])
    BY <1>2, <1>3, <1>5, ReadValue
  <2> QED BY <1>2, <1>3, <2>1
<1>7. conninfo_parse(Append(full, "'")) = State("name", k, [read EXCEPT ![k] = value])
  <2>1. conninfo_parse(Append(full, "'")) = ReadNext(conninfo_parse(full), "'")
    BY <1>1, <1>6, ReadAppend
  <2>2. [read EXCEPT ![k] = value] \in Readings
    BY DEF Readings
  <2> QED BY <1>6, <2>1, <2>2, ReadInValue
<1>8. text \o OptionText(k, value) = Append(full, "'")
  <2> HIDE DEF full
  <2>1. full = Append(Append(text, k), "'") \o Quoted(value)
    BY DEF full
  <2> DEFINE q == Quoted(value)
  <2>2. q \in Seq(ConninfoChars)
    BY <1>6
  <2> HIDE DEF q
  <2>3. text \o (<<k, "'">> \o q \o <<"'">>) = Append(Append(Append(text, k), "'") \o q, "'")
    BY <1>1, <2>2
  <2> QED BY <2>1, <2>3 DEF q, OptionText
<1> QED BY <1>7, <1>8 DEF HasRead

\* The connection string, for some values of the options.
OptionTexts(value) ==
  [n \in DOMAIN Options |-> OptionText(Options[n], value[Options[n]])]

\* The values of the first m options, for libpq.
ReadSoFar(value, m) ==
  [k \in Keys |-> IF \E n \in 1..m : Options[n] = k THEN value[k] ELSE Absent]

\* Libpq reads the options one after the other, whatever their values are.
THEOREM ReadOptions ==
  ASSUME NEW value \in [Keys -> Seq(Chars)]
  PROVE  LET end == conninfo_parse(FlattenSeq(OptionTexts(value)))
         IN  end.mode = "name" /\ end.read = value
<1> DEFINE texts == OptionTexts(value)
           part(m) == FlattenSeq(SubSeq(texts, 1, m))
           S == {m \in Nat : m <= Len(Options) =>
                   HasRead(part(m), ReadSoFar(value, m))}
<1>1. /\ Len(Options) \in Nat /\ DOMAIN Options = 1..Len(Options)
      /\ \A n \in 1..Len(Options) : Options[n] \in Keys
      /\ \A k \in Keys : \E n \in 1..Len(Options) : Options[n] = k
  <2>1. Options \in Seq(Keys)
    BY DataSourceAssumption
  <2>2. Len(Options) \in Nat /\ DOMAIN Options = 1..Len(Options)
    BY <2>1
  <2> QED BY <2>2 DEF Keys, ToSet
<1>2. /\ texts \in Seq(Seq(ConninfoChars)) /\ Len(texts) = Len(Options)
      /\ \A n \in 1..Len(Options) : texts[n] = OptionText(Options[n], value[Options[n]])
  <2>1. \A k \in Keys : OptionText(k, value[k]) \in Seq(ConninfoChars)
    <3> SUFFICES ASSUME NEW k \in Keys PROVE OptionText(k, value[k]) \in Seq(ConninfoChars)
      OBVIOUS
    <3>1. Quoted(value[k]) \in Seq(ConninfoChars)
      BY QuotedType
    <3>2. <<k, "'">> \in Seq(ConninfoChars) /\ <<"'">> \in Seq(ConninfoChars)
      BY DEF ConninfoChars
    <3> QED BY <3>1, <3>2 DEF OptionText
  <2>2. texts \in [1..Len(Options) -> Seq(ConninfoChars)]
    BY <1>1, <2>1 DEF OptionTexts
  <2>3. \A n \in 1..Len(Options) : texts[n] = OptionText(Options[n], value[Options[n]])
    BY <1>1 DEF OptionTexts
  <2> HIDE DEF texts
  <2> QED BY <1>1, <2>2, <2>3
<1> HIDE DEF texts
<1>3. \A m \in 0..Len(Options) :
        ReadSoFar(value, m) \in Readings /\ part(m) \in Seq(ConninfoChars)
  <2>1. \A m \in 0..Len(Options) : ReadSoFar(value, m) \in Readings
    BY DEF ReadSoFar, Readings
  <2>2. \A m \in 0..Len(Options) : SubSeq(texts, 1, m) \in Seq(Seq(ConninfoChars))
    BY <1>1, <1>2
  <2> QED BY <2>1, <2>2, FlattenType
<1>4. 0 \in S
  <2>1. part(0) = <<>>
    <3>1. SubSeq(texts, 1, 0) = <<>>
      BY <1>2
    <3> QED BY <3>1, FlattenEmpty, Zenon
  <2>2. conninfo_parse(<<>>) = State("name", Absent, ReadSoFar(value, 0))
    BY ReadNothing DEF NothingRead, State, ReadSoFar
  <2>3. HasRead(<<>>, ReadSoFar(value, 0))
    BY <2>2 DEF HasRead
  <2> HIDE DEF part
  <2> QED BY <2>1, <2>3
<1>5. ASSUME NEW m \in Nat, m \in S PROVE m + 1 \in S
  <2> DEFINE k == Options[m+1]
  <2> SUFFICES ASSUME m + 1 <= Len(Options)
               PROVE  HasRead(part(m+1), ReadSoFar(value, m + 1))
    OBVIOUS
  <2>1. /\ m \in 0..Len(Options) /\ m <= Len(Options) /\ m + 1 \in 1..Len(Options)
        /\ k \in Keys /\ value[k] \in Seq(Chars) /\ texts[m+1] = OptionText(k, value[k])
    BY <1>1, <1>2
  <2>2. HasRead(part(m), ReadSoFar(value, m))
    BY <1>5, <2>1
  <2>3. part(m) \in Seq(ConninfoChars) /\ ReadSoFar(value, m) \in Readings
    BY <1>3, <2>1
  <2>4. part(m+1) = part(m) \o texts[m+1]
    <3>1. SubSeq(texts, 1, m) \in Seq(Seq(ConninfoChars)) /\ texts[m+1] \in Seq(ConninfoChars)
      BY <1>2, <2>1
    <3>2. SubSeq(texts, 1, m + 1) = Append(SubSeq(texts, 1, m), texts[m+1])
      BY <1>2, <2>1
    <3> QED BY <3>1, <3>2, FlattenAppend
  <2> HIDE DEF part, k
  <2>5. [ReadSoFar(value, m) EXCEPT ![k] = value[k]] = ReadSoFar(value, m + 1)
    <3>1. \A j \in Keys : (\E n \in 1..(m+1) : Options[n] = j)
                         <=> j = k \/ \E n \in 1..m : Options[n] = j
      BY <2>1 DEF k
    <3> QED BY <2>1, <3>1 DEF ReadSoFar
  <2> DEFINE text == part(m)
             read == ReadSoFar(value, m)
             after == ReadSoFar(value, m + 1)
             v == value[k]
  <2>6. /\ text \in Seq(ConninfoChars) /\ k \in Keys /\ read \in Readings
        /\ HasRead(text, read) /\ v \in Seq(Chars) /\ after = [read EXCEPT ![k] = v]
    BY <2>1, <2>2, <2>3, <2>5
  <2> HIDE DEF text, read, after, v
  <2>7. HasRead(text \o OptionText(k, v), after)
    BY <2>6, ReadOption
  <2> QED BY <2>1, <2>4, <2>7 DEF text, after, v
<1>6. Len(Options) \in S
  <2> HIDE DEF S
  <2> QED BY <1>1, <1>4, <1>5, Induction
<1>7. part(Len(Options)) = FlattenSeq(texts)
  <2>1. SubSeq(texts, 1, Len(Options)) = texts
    BY <1>1, <1>2
  <2> QED BY <2>1
<1>8. ReadSoFar(value, Len(Options)) = value
  BY <1>1 DEF ReadSoFar
<1>9. HasRead(FlattenSeq(texts), value)
  BY <1>1, <1>6, <1>7, <1>8
<1> QED BY <1>9 DEF texts, HasRead, State

-----------------------------------------------------------------------------
(* The parser's invariant *)

\* A pair as the data source has it.
PairText(ps, n) ==
  ps[n].name \o <<"=">> \o ps[n].value
    \o (IF n < Len(ps) THEN ps[n].separator ELSE <<>>)

PairTexts(ps) == [n \in DOMAIN ps |-> PairText(ps, n)]

\* The length of the first m pairs.
Start(ps, m) == Len(FlattenSeq(SubSeq(PairTexts(ps), 1, m)))

\* Those of the first m pairs that give an option a value, or the last of them.
Given(ps, k, m) == {n \in 1..m : ps[n].name = OptionName[k]}

LastGiven(ps, k, m) ==
  IF Given(ps, k, m) = {} THEN Absent ELSE ps[Max(Given(ps, k, m))].value

Known(ps, m) == {n \in 1..m : ps[n].name \notin OtherNames}

\* Parsed: what the first m pairs say has been taken from them.
Parsed(m) ==
  /\ optval = [k \in Keys |-> LastGiven(pairs, k, m)]
  /\ n_matches = Cardinality(Known(pairs, m))

Sourced == pairs \in Seq(Pair) /\ data_source = Text(pairs)

\* Parsing: the loop is at the beginning of a pair, and has taken those before.
Parsing ==
  \E m \in 0..Len(pairs) : i = Start(pairs, m) + 1 /\ optstart = i /\ Parsed(m)

IInv ==
  /\ Sourced
  /\ pc \in {"parse", "assemble", "done"}
  /\ pc = "parse" => Parsing
  /\ pc # "parse" => Parsed(Len(pairs))
  /\ pc = "done" => conninfo = FlattenSeq(OptionTexts([k \in Keys |-> ValueOf(k)]))

-----------------------------------------------------------------------------
(* Where the pairs lie in the data source *)

\* The parts of a pair, character by character.
LEMMA PartsOfPair ==
  ASSUME NEW p \in Pair
  PROVE  /\ p.name \in Seq(Chars) /\ p.value \in Seq(Chars) /\ p.separator \in Seq(Chars)
         /\ "=" \in Chars /\ <<"=">> \in Seq(Chars) /\ <<>> \in Seq(Chars)
         /\ \A j \in 1..Len(p.name) : p.name[j] # "="
         /\ Len(p.name) > 0 => p.name[1] # Space
         /\ \A j \in 1..Len(p.value) : p.value[j] \notin {Space, Semicolon}
         /\ Len(p.separator) \in 1..2 /\ p.separator[1] \in {Space, Semicolon}
         /\ Len(p.separator) = 2 => p.separator[2] = Space
<1>1. p.name \in Names /\ p.value \in Values /\ p.separator \in Separators
  BY DEF Pair
<1>2. /\ p.name \in Seq(Chars \ {"="})
      /\ p.name # <<>> => Head(p.name) # Space
  BY <1>1, DataSourceAssumption
<1>3. p.value \in Seq(Chars \ {Space, Semicolon})
  BY <1>1, DataSourceAssumption
<1>4. "=" \in Chars /\ Semicolon \in Chars /\ Space \in Chars
  BY DataSourceAssumption
<1>5. <<"=">> \in Seq(Chars) /\ <<>> \in Seq(Chars)
  BY <1>4
<1>6. p.name \in Seq(Chars) /\ \A j \in 1..Len(p.name) : p.name[j] # "="
  BY <1>2
<1>7. Len(p.name) > 0 => p.name[1] # Space
  BY <1>2
<1>8. p.value \in Seq(Chars) /\ \A j \in 1..Len(p.value) : p.value[j] \notin {Space, Semicolon}
  BY <1>3
<1>9. /\ p.separator \in Seq(Chars)
      /\ Len(p.separator) \in 1..2 /\ p.separator[1] \in {Space, Semicolon}
      /\ Len(p.separator) = 2 => p.separator[2] = Space
  <2> DEFINE sep == p.separator
  <2>1. sep = <<Semicolon>> \/ sep = <<Semicolon, Space>> \/ sep = <<Space>>
    BY <1>1 DEF Separators
  <2> HIDE DEF sep
  <2>2. /\ sep \in Seq(Chars) /\ Len(sep) \in 1..2 /\ sep[1] \in {Space, Semicolon}
        /\ Len(sep) = 2 => sep[2] = Space
    <3>1. CASE sep = <<Semicolon>>
      BY <1>4, <3>1
    <3>2. CASE sep = <<Semicolon, Space>>
      BY <1>4, <3>2
    <3>3. CASE sep = <<Space>>
      BY <1>4, <3>3
    <3> QED BY <2>1, <3>1, <3>2, <3>3
  <2> QED BY <2>2 DEF sep
<1> QED BY <1>4, <1>5, <1>6, <1>7, <1>8, <1>9

\* A data source is the texts of its pairs, one after the other.
LEMMA PairTextsType ==
  ASSUME NEW ps \in Seq(Pair)
  PROVE  /\ PairTexts(ps) \in Seq(Seq(Chars)) /\ Len(PairTexts(ps)) = Len(ps)
         /\ \A n \in 1..Len(ps) : PairTexts(ps)[n] = PairText(ps, n)
         /\ Text(ps) = FlattenSeq(PairTexts(ps)) /\ Text(ps) \in Seq(Chars)
<1>1. \A n \in DOMAIN ps : PairText(ps, n) \in Seq(Chars)
  <2> SUFFICES ASSUME NEW n \in DOMAIN ps PROVE PairText(ps, n) \in Seq(Chars)
    OBVIOUS
  <2> DEFINE name == ps[n].name
             value == ps[n].value
             separator == IF n < Len(ps) THEN ps[n].separator ELSE <<>>
  <2>1. ps[n] \in Pair
    OBVIOUS
  <2>2. name \in Seq(Chars) /\ value \in Seq(Chars) /\ separator \in Seq(Chars)
        /\ <<"=">> \in Seq(Chars)
    BY <2>1, PartsOfPair
  <2>3. PairText(ps, n) = name \o <<"=">> \o value \o separator
    BY DEF PairText
  <2> HIDE DEF name, value, separator
  <2> QED BY <2>2, <2>3
<1>2. Len(ps) \in Nat /\ DOMAIN ps = 1..Len(ps)
  OBVIOUS
<1>3. PairTexts(ps) \in [1..Len(ps) -> Seq(Chars)]
  BY <1>1, <1>2 DEF PairTexts
<1>4. PairTexts(ps) \in Seq(Seq(Chars)) /\ Len(PairTexts(ps)) = Len(ps)
  BY <1>2, <1>3
<1>5. \A n \in 1..Len(ps) : PairTexts(ps)[n] = PairText(ps, n)
  BY <1>2 DEF PairTexts
<1>6. Text(ps) = FlattenSeq(PairTexts(ps))
  BY DEF Text, PairTexts, PairText
<1>7. Text(ps) \in Seq(Chars)
  BY <1>4, <1>6, FlattenType
<1> QED BY <1>4, <1>5, <1>6, <1>7

\* Where the parts of a concatenation lie.
LEMMA FourParts ==
  ASSUME NEW A, NEW a \in Seq(A), NEW b \in A, NEW c \in Seq(A), NEW d \in Seq(A),
         NEW all, all = a \o <<b>> \o c \o d
  PROVE  /\ Len(a) \in Nat /\ Len(c) \in Nat /\ Len(d) \in Nat
         /\ Len(all) = Len(a) + 1 + Len(c) + Len(d)
         /\ \A j \in 1..Len(a) : all[j] = a[j]
         /\ all[Len(a) + 1] = b
         /\ \A j \in 1..Len(c) : all[Len(a) + 1 + j] = c[j]
         /\ \A j \in 1..Len(d) : all[Len(a) + 1 + Len(c) + j] = d[j]
<1> DEFINE ab == a \o <<b>>
           abc == ab \o c
<1>1. all = abc \o d
  OBVIOUS
<1>2. /\ ab \in Seq(A) /\ Len(ab) = Len(a) + 1 /\ ab[Len(a) + 1] = b
      /\ \A j \in 1..Len(a) : ab[j] = a[j]
  OBVIOUS
<1> HIDE DEF ab
<1>3. /\ abc \in Seq(A) /\ Len(c) \in Nat /\ Len(abc) = Len(ab) + Len(c)
      /\ \A j \in 1..Len(ab) : abc[j] = ab[j]
      /\ \A j \in 1..Len(c) : abc[Len(ab) + j] = c[j]
  <2>1. ab \in Seq(A) /\ c \in Seq(A)
    BY <1>2
  <2>2. abc \in Seq(A) /\ Len(c) \in Nat /\ Len(abc) = Len(ab) + Len(c)
    BY ONLY <2>1
  <2>3. \A j \in 1..Len(ab) : abc[j] = ab[j]
    BY ONLY <2>1
  <2>4. \A j \in 1..Len(c) : abc[Len(ab) + j] = c[j]
    BY ONLY <2>1
  <2> QED BY ONLY <2>2, <2>3, <2>4
<1> HIDE DEF abc
<1>4. /\ Len(d) \in Nat /\ Len(all) = Len(abc) + Len(d)
      /\ \A j \in 1..Len(abc) : all[j] = abc[j]
      /\ \A j \in 1..Len(d) : all[Len(abc) + j] = d[j]
  <2>1. abc \in Seq(A) /\ d \in Seq(A)
    BY <1>3
  <2>2. Len(d) \in Nat /\ Len(all) = Len(abc) + Len(d)
    BY ONLY <1>1, <2>1
  <2>3. \A j \in 1..Len(abc) : all[j] = abc[j]
    BY ONLY <1>1, <2>1
  <2>4. \A j \in 1..Len(d) : all[Len(abc) + j] = d[j]
    BY ONLY <1>1, <2>1
  <2> QED BY ONLY <2>2, <2>3, <2>4
<1>5. Len(a) \in Nat /\ Len(ab) = Len(a) + 1 /\ Len(abc) = Len(a) + 1 + Len(c)
  BY <1>2, <1>3
<1>6. \A j \in 1..Len(a) : all[j] = a[j]
  <2>1. \A j \in 1..Len(a) : j \in 1..Len(ab) /\ j \in 1..Len(abc)
    BY ONLY <1>3, <1>5
  <2> QED BY <1>2, <1>3, <1>4, <2>1
<1>7. all[Len(a) + 1] = b
  <2>1. Len(a) + 1 \in 1..Len(ab) /\ Len(a) + 1 \in 1..Len(abc)
    BY ONLY <1>3, <1>5
  <2> QED BY <1>2, <1>3, <1>4, <2>1
<1>8. ASSUME NEW j \in 1..Len(c) PROVE all[Len(a) + 1 + j] = c[j]
  <2>1. Len(ab) + j \in 1..Len(abc) /\ Len(ab) + j = Len(a) + 1 + j
    BY <1>3, <1>5
  <2>2. abc[Len(ab) + j] = c[j]
    BY <1>3
  <2> QED BY <1>4, <2>1, <2>2
<1>9. \A j \in 1..Len(d) : all[Len(a) + 1 + Len(c) + j] = d[j]
  BY <1>4, <1>5
<1>10. Len(all) = Len(a) + 1 + Len(c) + Len(d)
  BY ONLY <1>3, <1>4, <1>5
<1> QED BY <1>3, <1>4, <1>5, <1>6, <1>7, <1>8, <1>9, <1>10 DEF abc, ab

\* LaidOut: the pair after the first m has its name behind place at, its value
\* from valstart to delim, and then its separator and the next pair, if any.
LaidOut(ps, m, at, valstart, delim) ==
  /\ at \in Nat /\ delim \in Nat /\ delim - 1 <= Len(Text(ps))
  /\ \A j \in 1..Len(ps[m+1].name) : Text(ps)[at + j] = ps[m+1].name[j]
  /\ Text(ps)[valstart - 1] = "="
  /\ \A j \in 1..Len(ps[m+1].value) : Text(ps)[valstart - 1 + j] = ps[m+1].value[j]
  /\ m + 1 = Len(ps) => Len(Text(ps)) = delim - 1 /\ Start(ps, m + 1) = delim - 1
  /\ m + 1 < Len(ps) =>
       /\ Start(ps, m + 1) = delim - 1 + Len(ps[m+1].separator)
       /\ Start(ps, m + 1) < Len(Text(ps))
       /\ Text(ps)[delim] \in {Space, Semicolon}
       /\ Len(ps[m+1].separator) = 2 => Text(ps)[delim + 1] = Space
       /\ Text(ps)[Start(ps, m + 1) + 1] # Space

\* Where the parts of a pair lie in the data source, and what is behind them.
LEMMA Layout ==
  ASSUME NEW ps \in Seq(Pair), NEW m \in 0..Len(ps), m < Len(ps),
         NEW at, at = Start(ps, m),
         NEW valstart, valstart = at + Len(ps[m+1].name) + 2,
         NEW delim, delim = valstart + Len(ps[m+1].value)
  PROVE  LaidOut(ps, m, at, valstart, delim)
<1> DEFINE text == Text(ps)
           p == ps[m+1]
           piece == PairTexts(ps)[m+1]
<1>1. /\ PairTexts(ps) \in Seq(Seq(Chars)) /\ Len(PairTexts(ps)) = Len(ps) /\ Len(ps) \in Nat
      /\ \A n \in 1..Len(ps) : PairTexts(ps)[n] = PairText(ps, n)
      /\ text = FlattenSeq(PairTexts(ps)) /\ text \in Seq(Chars)
  BY PairTextsType
<1>2. /\ m + 1 \in 1..Len(ps) /\ m \in 0..Len(PairTexts(ps)) /\ m < Len(PairTexts(ps))
      /\ p \in Pair
  BY <1>1
<1>3. /\ at \in Nat /\ at + Len(piece) = Start(ps, m + 1) /\ LiesAt(piece, text, at)
  <2> HIDE DEF text
  <2> USE DEF Start
  <2>1. at = Len(FlattenSeq(SubSeq(PairTexts(ps), 1, m)))
    OBVIOUS
  <2> DEFINE seqs == PairTexts(ps)
  <2>3. seqs \in Seq(Seq(Chars)) /\ m \in 0..Len(seqs) /\ m < Len(seqs)
        /\ at = Len(FlattenSeq(SubSeq(seqs, 1, m)))
    BY <1>1, <1>2, <2>1
  <2> HIDE DEF seqs
  <2>4. /\ at \in Nat
        /\ at + Len(seqs[m+1]) = Len(FlattenSeq(SubSeq(seqs, 1, m + 1)))
        /\ LiesAt(seqs[m+1], FlattenSeq(seqs), at)
    BY ONLY <2>3, FlattenPiece
  <2>2. /\ at \in Nat
        /\ at + Len(PairTexts(ps)[m+1]) = Len(FlattenSeq(SubSeq(PairTexts(ps), 1, m + 1)))
        /\ LiesAt(PairTexts(ps)[m+1], FlattenSeq(PairTexts(ps)), at)
    BY <2>4 DEF seqs
  <2> QED BY <1>1, <2>2
<1> DEFINE name == p.name
           value == p.value
           separator == IF m + 1 < Len(ps) THEN p.separator ELSE <<>>
<1>4. /\ name \in Seq(Chars) /\ value \in Seq(Chars) /\ separator \in Seq(Chars)
      /\ <<"=">> \in Seq(Chars)
  BY <1>2, PartsOfPair
<1>5. piece = name \o <<"=">> \o value \o separator
  BY <1>1, <1>2 DEF PairText
<1>6. /\ m + 1 = Len(ps) => separator = <<>>
      /\ m + 1 < Len(ps) => separator = p.separator
  BY <1>1
<1> HIDE DEF name, value, separator, text, piece
<1> HIDE DEF p
<1>7. /\ Len(name) \in Nat /\ Len(value) \in Nat /\ Len(separator) \in Nat
      /\ Len(piece) = Len(name) + 1 + Len(value) + Len(separator)
      /\ \A j \in 1..Len(name) : piece[j] = name[j]
      /\ piece[Len(name) + 1] = "="
      /\ \A j \in 1..Len(value) : piece[Len(name) + 1 + j] = value[j]
      /\ \A j \in 1..Len(separator) : piece[Len(name) + 1 + Len(value) + j] = separator[j]
  <2>1. "=" \in Chars
    BY <1>2, PartsOfPair
  <2> QED BY ONLY <1>4, <1>5, <2>1, FourParts
<1> DEFINE ln == Len(name)
           lv == Len(value)
           ls == Len(separator)
           end == Start(ps, m + 1)
<1>8. /\ valstart = at + ln + 2 /\ delim = at + ln + 2 + lv
      /\ ln \in Nat /\ lv \in Nat /\ ls \in Nat /\ at \in Nat /\ Len(text) \in Nat
      /\ Len(piece) = ln + 1 + lv + ls /\ at + ln + 1 + lv + ls <= Len(text)
      /\ end = at + ln + 1 + lv + ls
  <2>1. ln \in Nat /\ lv \in Nat /\ ls \in Nat /\ at \in Nat /\ Len(text) \in Nat
    BY <1>1, <1>3, <1>7
  <2>2. valstart = at + ln + 2 /\ delim = valstart + lv
    BY DEF name, value, p
  <2>3. Len(piece) = ln + 1 + lv + ls /\ at + Len(piece) <= Len(text) /\ at + Len(piece) = end
    BY <1>3, <1>7 DEF LiesAt
  <2> HIDE DEF ln, lv, ls, end
  <2> QED BY ONLY <2>1, <2>2, <2>3
<1>9. /\ \A j \in 1..ln : piece[j] = name[j]
      /\ piece[ln + 1] = "="
      /\ \A j \in 1..lv : piece[ln + 1 + j] = value[j]
      /\ \A j \in 1..ls : piece[ln + 1 + lv + j] = separator[j]
  BY <1>7
<1>10. \A j \in 1..(ln + 1 + lv + ls) : text[at + j] = piece[j]
  BY <1>3, <1>8 DEF LiesAt
<1> HIDE DEF ln, lv, ls, end
<1>11. at \in Nat /\ delim \in Nat /\ delim - 1 <= Len(text)
  BY ONLY <1>8
<1>12. \A j \in 1..ln : text[at + j] = name[j]
  <2>1. \A j \in 1..ln : j \in 1..(ln + 1 + lv + ls)
    BY ONLY <1>8
  <2> QED BY <1>9, <1>10, <2>1
<1>13. text[valstart - 1] = "="
  <2>1. ln + 1 \in 1..(ln + 1 + lv + ls) /\ at + (ln + 1) = valstart - 1
    BY ONLY <1>8
  <2>2. text[at + (ln + 1)] = piece[ln + 1]
    BY <1>10, <2>1
  <2> QED BY <1>9, <2>1, <2>2
<1>14. ASSUME NEW j \in 1..lv PROVE text[valstart - 1 + j] = value[j]
  <2>1. ln + 1 + j \in 1..(ln + 1 + lv + ls) /\ at + (ln + 1 + j) = valstart - 1 + j
    <3>1. j \in 1..lv
      OBVIOUS
    <3> QED BY ONLY <1>8, <3>1
  <2>2. text[at + (ln + 1 + j)] = piece[ln + 1 + j]
    BY <1>10, <2>1
  <2> QED BY <1>9, <2>1, <2>2
<1>15. ASSUME NEW j \in 1..ls PROVE text[delim - 1 + j] = separator[j]
  <2>1. ln + 1 + lv + j \in 1..(ln + 1 + lv + ls) /\ at + (ln + 1 + lv + j) = delim - 1 + j
    <3>1. j \in 1..ls
      OBVIOUS
    <3> QED BY ONLY <1>8, <3>1
  <2>2. text[at + (ln + 1 + lv + j)] = piece[ln + 1 + lv + j]
    BY <1>10, <2>1
  <2> QED BY <1>9, <2>1, <2>2
<1>16. end = delim - 1 + ls
  BY ONLY <1>8
<1>17. ASSUME m + 1 = Len(ps) PROVE Len(text) = delim - 1 /\ end = delim - 1
  <2>1. end = delim - 1
    BY <1>6, <1>8, <1>16, <1>17 DEF ls
  <2>2. Len(text) = end
    <3>1. SubSeq(PairTexts(ps), 1, Len(ps)) = PairTexts(ps)
      BY <1>1
    <3> QED BY <1>1, <1>17, <3>1 DEF Start, end
  <2> QED BY <2>1, <2>2
<1>18. ASSUME m + 1 < Len(ps)
       PROVE  /\ end = delim - 1 + Len(p.separator)
              /\ end < Len(text)
              /\ text[delim] \in {Space, Semicolon}
              /\ Len(p.separator) = 2 => text[delim + 1] = Space
              /\ text[end + 1] # Space
  <2>1. /\ separator = p.separator /\ ls = Len(p.separator) /\ ls \in 1..2
        /\ separator[1] \in {Space, Semicolon}
        /\ ls = 2 => separator[2] = Space
    BY <1>2, <1>6, <1>18, PartsOfPair DEF ls
  <2>2. text[delim] \in {Space, Semicolon}
    <3>1. 1 \in 1..ls /\ delim - 1 + 1 = delim
      BY ONLY <1>11, <2>1
    <3> QED BY <1>15, <2>1, <3>1
  <2>3. ls = 2 => text[delim + 1] = Space
    <3>1. ls = 2 => 2 \in 1..ls /\ delim - 1 + 2 = delim + 1
      BY ONLY <1>11, <2>1
    <3> QED BY <1>15, <2>1, <3>1
  <2> DEFINE q == ps[m+2]
             after == PairTexts(ps)[m+2]
  <2>4. end < Len(text) /\ text[end + 1] # Space
    <3>1. /\ m + 1 \in 0..Len(PairTexts(ps)) /\ m + 1 < Len(PairTexts(ps))
          /\ end = Len(FlattenSeq(SubSeq(PairTexts(ps), 1, m + 1)))
          /\ (m + 1) + 1 = m + 2 /\ m + 2 \in 1..Len(ps)
      BY <1>1, <1>18 DEF end, Start
    <3>2. LiesAt(after, text, end)
      <4> DEFINE seqs == PairTexts(ps)
                 k == m + 1
      <4>1. /\ seqs \in Seq(Seq(Chars)) /\ k \in 0..Len(seqs) /\ k < Len(seqs)
            /\ end = Len(FlattenSeq(SubSeq(seqs, 1, k)))
        BY <1>1, <3>1
      <4> HIDE DEF seqs, k, end
      <4>2. LiesAt(seqs[k+1], FlattenSeq(seqs), end)
        BY ONLY <4>1, FlattenPiece
      <4> QED BY <1>1, <3>1, <4>2 DEF seqs, k
    <3>3. q \in Pair /\ after = PairText(ps, m + 2)
      BY <1>1, <3>1
    <3>4. after[1] # Space /\ Len(after) \in Nat /\ Len(after) > 0
      <4> DEFINE a == q.name
                 c == q.value
                 d == IF m + 2 < Len(ps) THEN q.separator ELSE <<>>
      <4>1. /\ a \in Seq(Chars) /\ c \in Seq(Chars) /\ d \in Seq(Chars)
            /\ "=" \in Chars
        BY <3>3, PartsOfPair
      <4>7. Len(a) > 0 => a[1] # Space
        BY <3>3, PartsOfPair
      <4>2. after = a \o <<"=">> \o c \o d
        BY <3>3 DEF PairText
      <4> HIDE DEF a, c, d, after
      <4>3. /\ Len(a) \in Nat /\ Len(c) \in Nat /\ Len(d) \in Nat
            /\ Len(after) = Len(a) + 1 + Len(c) + Len(d)
            /\ \A j \in 1..Len(a) : after[j] = a[j]
            /\ after[Len(a) + 1] = "="
        BY ONLY <4>1, <4>2, FourParts
      <4>4. Len(after) \in Nat /\ Len(after) > 0
        BY ONLY <4>3
      <4>5. CASE Len(a) > 0
        <5>1. 1 \in 1..Len(a)
          BY ONLY <4>3, <4>5
        <5> QED BY <4>3, <4>4, <4>5, <4>7, <5>1
      <4>6. CASE Len(a) = 0
        <5>1. after[1] = "="
          BY ONLY <4>3, <4>6
        <5>2. "=" # Space
          BY Zenon DEF Space
        <5> QED BY <4>4, <5>1, <5>2
      <4>8. Len(a) > 0 \/ Len(a) = 0
        BY ONLY <4>3
      <4> QED BY <4>5, <4>6, <4>8
    <3> HIDE DEF after
    <3>5. text[end + 1] = after[1] /\ end + Len(after) <= Len(text)
      <4>1. 1 \in 1..Len(after)
        BY ONLY <3>4
      <4> QED BY <3>2, <4>1 DEF LiesAt
    <3> QED BY <1>8, <3>4, <3>5
  <2> QED BY <1>16, <2>1, <2>2, <2>3, <2>4
<1> QED BY <1>11, <1>12, <1>13, <1>14, <1>17, <1>18
    DEF LaidOut, ln, lv, end, name, value, text, p

-----------------------------------------------------------------------------
(* What the parser finds *)

\* The first of some characters is where one of them is and none before it.
LEMMA FirstFromFound ==
  ASSUME NEW from \in Nat, NEW chars, NEW k \in Nat, Len(data_source) \in Nat,
         k > 0, from <= k, k <= Len(data_source), data_source[k] \in chars,
         \A j \in from..(k-1) : data_source[j] \notin chars
  PROVE  FirstFrom(from, chars) = k
<1> DEFINE I == {j \in from..Len(data_source) : data_source[j] \in chars}
<1>1. k \in I /\ \A j \in I : k <= j
  OBVIOUS
<1>2. \A j \in I : j \in Nat
  OBVIOUS
<1> HIDE DEF I
<1>3. Min(I) = k
  <2>1. \A x \in I : (\A y \in I : x <= y) => x = k
    BY <1>1, <1>2
  <2> QED BY <1>1, <2>1 DEF Min
<1>4. I # {}
  BY <1>1
<1> QED BY <1>3, <1>4 DEF FirstFrom, SelectInSubSeq, I

\* Where there is none of them, it is the end.
LEMMA FirstFromNone ==
  ASSUME NEW from \in Nat, NEW chars, Len(data_source) \in Nat,
         \A j \in from..Len(data_source) : data_source[j] \notin chars
  PROVE  FirstFrom(from, chars) = Len(data_source) + 1
<1> DEFINE I == {j \in from..Len(data_source) : data_source[j] \in chars}
<1>1. I = {}
  OBVIOUS
<1> QED BY <1>1 DEF FirstFrom, SelectInSubSeq

\* Whether an "=" is left.
LEMMA EqualsLeft ==
  ASSUME NEW s \in Seq(Chars), NEW from \in Nat, from > 0
  PROVE  Contains(SubSeq(s, from, Len(s)), "=")
           <=> \E j \in from..Len(s) : s[j] = "="
<1> DEFINE rest == SubSeq(s, from, Len(s))
<1>1. Len(s) \in Nat
  OBVIOUS
<1>2. \A j \in 1..Len(rest) : from + j - 1 \in from..Len(s) /\ rest[j] = s[from + j - 1]
  OBVIOUS
<1>3. \A j \in from..Len(s) : j - from + 1 \in 1..Len(rest) /\ rest[j - from + 1] = s[j]
  OBVIOUS
<1> HIDE DEF rest
<1>4. Contains(rest, "=") <=> \E j \in from..Len(s) : s[j] = "="
  BY <1>2, <1>3 DEF Contains
<1> QED BY <1>4 DEF rest

\* A sequence that lies in another one, cut out of it.
LEMMA CutOut ==
  ASSUME NEW A, NEW s \in Seq(A), NEW t \in Seq(A), NEW at \in Nat,
         at + Len(t) <= Len(s), \A j \in 1..Len(t) : s[at + j] = t[j]
  PROVE  SubSeq(s, at + 1, at + Len(t)) = t
<1> DEFINE cut == SubSeq(s, at + 1, at + Len(t))
<1>1. cut \in Seq(A) /\ Len(cut) = Len(t) /\ Len(t) \in Nat
  OBVIOUS
<1>2. \A j \in 1..Len(t) : cut[j] = s[at + j]
  OBVIOUS
<1> HIDE DEF cut
<1>3. \A j \in 1..Len(t) : cut[j] = t[j]
  BY <1>2
<1>4. cut = t
  BY ONLY <1>1, <1>3, t \in Seq(A)
<1> QED BY <1>4 DEF cut

\* What TakeOption finds from the place it is at.
ValstartFound == FirstFrom(i, {"="}) + 1
DelimFound == FirstFrom(ValstartFound, {Space, Semicolon})
NameFound == SubSeq(data_source, optstart, ValstartFound - 2)
ValueFound == SubSeq(data_source, ValstartFound, DelimFound - 1)
NextFound == FirstFrom(DelimFound + 1, ToSet(data_source) \ {Space})

\* At the beginning of a pair, TakeOption finds its name and its value and goes on
\* to the beginning of the next.
LEMMA PairFound ==
  ASSUME Sourced, NEW m \in 0..Len(pairs), m < Len(pairs),
         i = Start(pairs, m) + 1, optstart = i
  PROVE  /\ NameFound = pairs[m+1].name
         /\ ValueFound = pairs[m+1].value
         /\ NextFound = Start(pairs, m + 1) + 1
         /\ Contains(SubSeq(data_source, i, Len(data_source)), "=")
<1> DEFINE name == pairs[m+1].name
           value == pairs[m+1].value
           sep == pairs[m+1].separator
           at == Start(pairs, m)
           ln == Len(name)
           lv == Len(value)
           ls == Len(sep)
           valstart == at + ln + 2
           delim == valstart + lv
           end == Start(pairs, m + 1)
           len == Len(data_source)
<1>1. pairs \in Seq(Pair) /\ data_source = Text(pairs) /\ data_source \in Seq(Chars)
  BY PairTextsType DEF Sourced
<1>2. /\ at \in Nat /\ delim \in Nat /\ delim - 1 <= len
      /\ \A j \in 1..ln : data_source[at + j] = name[j]
      /\ data_source[valstart - 1] = "="
      /\ \A j \in 1..lv : data_source[valstart - 1 + j] = value[j]
      /\ m + 1 = Len(pairs) => len = delim - 1 /\ end = delim - 1
      /\ m + 1 < Len(pairs) =>
           /\ end = delim - 1 + ls
           /\ end < len
           /\ data_source[delim] \in {Space, Semicolon}
           /\ ls = 2 => data_source[delim + 1] = Space
           /\ data_source[end + 1] # Space
  <2>1. /\ pairs \in Seq(Pair) /\ data_source = Text(pairs)
        /\ m \in 0..Len(pairs) /\ m < Len(pairs) /\ at = Start(pairs, m)
        /\ valstart = at + Len(pairs[m+1].name) + 2
        /\ delim = valstart + Len(pairs[m+1].value)
    BY <1>1
  <2> HIDE DEF at, valstart, delim
  <2> DEFINE ps == pairs
             a == at
             v == valstart
             d == delim
  <2>2. /\ ps \in Seq(Pair) /\ m \in 0..Len(ps) /\ m < Len(ps) /\ a = Start(ps, m)
        /\ v = a + Len(ps[m+1].name) + 2 /\ d = v + Len(ps[m+1].value)
    BY <2>1
  <2> HIDE DEF ps, a, v, d
  <2>3. LaidOut(ps, m, a, v, d)
    BY ONLY <2>2, Layout
  <2> QED BY <1>1, <2>3 DEF LaidOut, ps, a, v, d, name, value, sep, ln, lv, ls, end, len
<1>3. pairs[m+1] \in Pair /\ (m + 1 = Len(pairs) \/ m + 1 < Len(pairs))
  BY <1>1
<1>4. /\ name \in Seq(Chars) /\ value \in Seq(Chars)
      /\ \A j \in 1..ln : name[j] # "="
      /\ \A j \in 1..lv : value[j] \notin {Space, Semicolon}
      /\ ls \in 1..2
  BY <1>3, PartsOfPair
<1>5. ln \in Nat /\ lv \in Nat /\ len \in Nat
  BY <1>1, <1>4
<1>6. valstart = at + ln + 2 /\ delim = valstart + lv /\ i = at + 1 /\ optstart = at + 1
  OBVIOUS
<1> HIDE DEF name, value, sep, at, ln, lv, ls, valstart, delim, end, len
<1>7. FirstFrom(i, {"="}) = valstart - 1
  <2>1. /\ i \in Nat /\ valstart - 1 \in Nat /\ valstart - 1 > 0 /\ i <= valstart - 1
        /\ valstart - 1 <= len
    BY ONLY <1>2, <1>5, <1>6
  <2>2. ASSUME NEW j \in i..((valstart - 1) - 1) PROVE data_source[j] # "="
    <3>1. j - at \in 1..ln /\ at + (j - at) = j
      <4>1. j \in i..((valstart - 1) - 1)
        OBVIOUS
      <4> QED BY ONLY <1>2, <1>5, <1>6, <4>1
    <3>2. data_source[at + (j - at)] = name[j - at]
      BY <1>2, <3>1
    <3> QED BY <1>4, <3>1, <3>2
  <2>3. data_source[valstart - 1] \in {"="}
    BY <1>2
  <2>4. \A j \in i..((valstart - 1) - 1) : data_source[j] \notin {"="}
    BY <2>2
  <2> DEFINE from == i
             k == valstart - 1
             chars == {"="}
  <2>5. /\ from \in Nat /\ k \in Nat /\ Len(data_source) \in Nat
        /\ k > 0 /\ from <= k /\ k <= Len(data_source) /\ data_source[k] \in chars
        /\ \A j \in from..(k-1) : data_source[j] \notin chars
    BY <1>5, <2>1, <2>3, <2>4 DEF len
  <2> HIDE DEF from, k, chars
  <2>6. FirstFrom(from, chars) = k
    BY ONLY <2>5, FirstFromFound
  <2> QED BY <2>6 DEF from, k, chars
<1>8. ValstartFound = valstart /\ valstart \in Nat
  BY <1>2, <1>5, <1>6, <1>7 DEF ValstartFound
<1>9. NameFound = name
  <2>1. at + 1 = optstart /\ at + ln = valstart - 2 /\ at + ln <= len
    BY ONLY <1>2, <1>5, <1>6
  <2>2. SubSeq(data_source, at + 1, at + ln) = name
    BY <1>1, <1>2, <1>4, <2>1, CutOut DEF ln, len
  <2> QED BY <1>8, <2>1, <2>2 DEF NameFound
<1>10. ASSUME NEW j \in valstart..(delim - 1) PROVE data_source[j] \notin {Space, Semicolon}
  <2>1. j - valstart + 1 \in 1..lv /\ valstart - 1 + (j - valstart + 1) = j
    <3>1. j \in valstart..(delim - 1)
      OBVIOUS
    <3> QED BY ONLY <1>2, <1>5, <1>6, <1>8, <3>1
  <2> DEFINE k == j - valstart + 1
  <2>2. k \in 1..lv /\ valstart - 1 + k = j
    BY <2>1
  <2> HIDE DEF k
  <2>3. data_source[valstart - 1 + k] = value[k]
    BY <1>2, <2>2
  <2> QED BY <1>4, <2>2, <2>3
<1>11. DelimFound = delim
  <2> DEFINE from == valstart
             chars == {Space, Semicolon}
  <2>1. from \in Nat /\ Len(data_source) \in Nat
    BY <1>5, <1>8 DEF len
  <2>2. CASE m + 1 = Len(pairs)
    <3>1. len = delim - 1
      BY <1>2, <2>2
    <3>2. \A j \in from..Len(data_source) : data_source[j] \notin chars
      BY <1>10, <3>1 DEF len
    <3> HIDE DEF from, chars
    <3>3. FirstFrom(from, chars) = Len(data_source) + 1
      BY ONLY <2>1, <3>2, FirstFromNone
    <3>4. len + 1 = delim
      BY ONLY <1>2, <3>1
    <3> QED BY <1>8, <3>3, <3>4 DEF DelimFound, from, chars, len
  <2>3. CASE m + 1 < Len(pairs)
    <3>1. end = delim - 1 + ls /\ end < len /\ data_source[delim] \in chars
      BY <1>2, <2>3
    <3>2. delim \in Nat /\ delim > 0 /\ from <= delim /\ delim <= len
      BY ONLY <1>2, <1>4, <1>5, <1>6, <3>1 DEF from
    <3>3. \A j \in from..(delim - 1) : data_source[j] \notin chars
      BY <1>10
    <3>4. delim <= Len(data_source)
      BY <3>2 DEF len
    <3> HIDE DEF from, chars
    <3>5. FirstFrom(from, chars) = delim
      BY ONLY <2>1, <3>1, <3>2, <3>3, <3>4, FirstFromFound
    <3> QED BY <1>8, <3>5 DEF DelimFound, from, chars
  <2> QED BY <1>3, <2>2, <2>3
<1>12. ValueFound = value
  <2> DEFINE before == valstart - 1
  <2>1. /\ before \in Nat /\ before + 1 = valstart /\ before + lv = delim - 1
        /\ before + lv <= len
    BY ONLY <1>2, <1>5, <1>6
  <2>2. \A j \in 1..lv : data_source[before + j] = value[j]
    BY <1>2
  <2> HIDE DEF before
  <2>3. SubSeq(data_source, before + 1, before + lv) = value
    BY <1>1, <1>4, <2>1, <2>2, CutOut DEF lv, len
  <2> QED BY <1>8, <1>11, <2>1, <2>3 DEF ValueFound
<1>13. NextFound = end + 1
  <2> DEFINE from == delim + 1
             chars == ToSet(data_source) \ {Space}
  <2>1. from \in Nat /\ Len(data_source) \in Nat
    BY <1>2, <1>5 DEF len
  <2>2. CASE m + 1 = Len(pairs)
    <3>1. len = delim - 1 /\ end = delim - 1
      BY <1>2, <2>2
    <3>2. \A j \in from..len : FALSE
      BY ONLY <1>2, <3>1 DEF from
    <3>3. \A j \in from..Len(data_source) : data_source[j] \notin chars
      BY <3>2 DEF len
    <3> HIDE DEF from, chars
    <3>4. FirstFrom(from, chars) = Len(data_source) + 1
      BY ONLY <2>1, <3>3, FirstFromNone
    <3> QED BY <1>11, <3>1, <3>4 DEF NextFound, from, chars, len
  <2>3. CASE m + 1 < Len(pairs)
    <3> DEFINE k == end + 1
    <3>1. /\ end = delim - 1 + ls /\ end < len /\ data_source[k] # Space
          /\ ls = 2 => data_source[delim + 1] = Space
      BY <1>2, <2>3
    <3>2. /\ k \in Nat /\ k > 0 /\ from <= k /\ k <= len
          /\ k \in 1..len
          /\ \A j \in from..(k - 1) : j = delim + 1 /\ ls = 2
      BY ONLY <1>2, <1>4, <1>5, <3>1 DEF from, k
    <3>3. data_source[k] \in chars
      <4>1. k \in DOMAIN data_source
        BY <1>1, <3>2 DEF len
      <4> QED BY <3>1, <4>1 DEF ToSet
    <3>4. \A j \in from..(k - 1) : data_source[j] \notin chars
      BY <3>1, <3>2
    <3>5. k <= Len(data_source)
      BY <3>2 DEF len
    <3> HIDE DEF from, chars, k
    <3>6. FirstFrom(from, chars) = k
      BY ONLY <2>1, <3>2, <3>3, <3>4, <3>5, FirstFromFound
    <3> QED BY <1>11, <3>6 DEF NextFound, from, chars, k
  <2> QED BY <1>3, <2>2, <2>3
<1>14. Contains(SubSeq(data_source, i, Len(data_source)), "=")
  <2>1. i \in Nat /\ i > 0 /\ valstart - 1 \in i..len
    BY ONLY <1>2, <1>5, <1>6
  <2> QED BY <1>1, <1>2, <2>1, EqualsLeft DEF len
<1> QED BY <1>9, <1>12, <1>13, <1>14 DEF name, value, end

-----------------------------------------------------------------------------
(* What the first pairs give *)

\* The largest of a bounded set of numbers is one of them.
LEMMA LargestIn ==
  ASSUME NEW m \in Nat, NEW S, S \subseteq 1..m, S # {}
  PROVE  Max(S) \in S
<1> DEFINE Bounds == {n \in Nat : \A y \in S : y <= n}
<1>1. m \in Bounds
  OBVIOUS
<1>2. Bounds \subseteq Nat /\ Bounds # {}
  BY <1>1
<1>3. PICK n \in Bounds : \A b \in Bounds : n <= b
  <2> HIDE DEF Bounds
  <2> QED BY <1>2, Least
<1>4. n \in S
  <2> SUFFICES ASSUME n \notin S PROVE FALSE
    OBVIOUS
  <2>1. PICK y \in S : TRUE
    OBVIOUS
  <2>2. n \in Nat /\ y \in Nat /\ y > 0 /\ y <= n
    BY <2>1
  <2>3. \A x \in S : x \in Nat /\ x <= n /\ x # n
    OBVIOUS
  <2>4. n - 1 \in Nat /\ \A x \in S : x <= n - 1
    BY <2>2, <2>3
  <2>5. n - 1 \in Bounds
    BY <2>4
  <2>6. ~(n <= n - 1)
    BY ONLY <2>2
  <2> QED BY <1>3, <2>5, <2>6
<1>5. \E x \in S : \A y \in S : x >= y
  BY <1>4
<1> QED BY <1>5 DEF Max

\* One that no other exceeds is the largest.
LEMMA LargestIs ==
  ASSUME NEW S, S \subseteq Nat, NEW x \in S, \A y \in S : y <= x
  PROVE  Max(S) = x
<1>1. \A z \in S : (\A y \in S : z >= y) => z = x
  OBVIOUS
<1>2. \E z \in S : \A y \in S : z >= y
  OBVIOUS
<1>3. Max(S) \in S /\ \A y \in S : Max(S) >= y
  BY ONLY <1>2 DEF Max
<1> QED BY <1>1, <1>3

\* The last value given by one pair more.
LEMMA GivenNext ==
  ASSUME NEW ps, NEW k \in Keys, NEW m \in Nat
  PROVE  LastGiven(ps, k, m + 1) = IF ps[m+1].name = OptionName[k] THEN ps[m+1].value
                                                                  ELSE LastGiven(ps, k, m)
<1>1. CASE ps[m+1].name = OptionName[k]
  <2> DEFINE S == Given(ps, k, m + 1)
  <2>1. /\ S \subseteq Nat /\ m + 1 \in S
        /\ \A y \in S : y <= m + 1
    BY <1>1 DEF Given
  <2> HIDE DEF S
  <2>2. Max(S) = m + 1 /\ S # {}
    BY <2>1, LargestIs
  <2> QED BY <1>1, <2>2 DEF LastGiven, S
<1>2. CASE ps[m+1].name # OptionName[k]
  <2>1. \A n \in 1..(m+1) : n \in 1..m \/ n = m + 1
    OBVIOUS
  <2>2. \A n \in 1..m : n \in 1..(m+1)
    OBVIOUS
  <2>3. Given(ps, k, m + 1) = Given(ps, k, m)
    BY <1>2, <2>1, <2>2 DEF Given
  <2> QED BY <1>2, <2>3 DEF LastGiven
<1> QED BY <1>1, <1>2

\* The number of known names in one pair more.
LEMMA KnownNext ==
  ASSUME NEW ps, NEW m \in Nat
  PROVE  Cardinality(Known(ps, m + 1)) = IF ps[m+1].name \in OtherNames
                                           THEN Cardinality(Known(ps, m))
                                           ELSE Cardinality(Known(ps, m)) + 1
<1>1. \A n \in 1..(m+1) : n \in 1..m \/ n = m + 1
  OBVIOUS
<1>2. m + 1 \in 1..(m+1) /\ \A n \in 1..m : n \in 1..(m+1) /\ n # m + 1
  OBVIOUS
<1>3. IsFiniteSet(Known(ps, m)) /\ m + 1 \notin Known(ps, m)
  <2>1. IsFiniteSet(1..m)
    BY FS_Interval
  <2>2. Known(ps, m) \in SUBSET (1..m)
    BY DEF Known
  <2> QED BY <1>2, <2>1, <2>2, FS_Subset
<1>4. CASE ps[m+1].name \in OtherNames
  <2>1. Known(ps, m + 1) = Known(ps, m)
    BY <1>1, <1>2, <1>4 DEF Known
  <2> QED BY <1>4, <2>1
<1>5. CASE ps[m+1].name \notin OtherNames
  <2>1. Known(ps, m + 1) = Known(ps, m) \cup {m + 1}
    BY <1>1, <1>2, <1>5 DEF Known
  <2> QED BY <1>3, <1>5, <2>1, FS_AddElement
<1> QED BY <1>4, <1>5

\* What the pairs give an option is a text.
LEMMA GivenType ==
  ASSUME NEW ps \in Seq(Pair), NEW k \in Keys, NEW m \in 0..Len(ps)
  PROVE  LastGiven(ps, k, m) \in Seq(Chars) \cup {Absent}
<1>1. CASE Given(ps, k, m) = {}
  BY <1>1 DEF LastGiven
<1>2. CASE Given(ps, k, m) # {}
  <2>1. m \in Nat /\ Given(ps, k, m) \subseteq 1..m
    BY DEF Given
  <2>2. Max(Given(ps, k, m)) \in 1..m
    BY <1>2, <2>1, LargestIn
  <2>3. ps[Max(Given(ps, k, m))] \in Pair
    BY <2>2
  <2>4. ps[Max(Given(ps, k, m))].value \in Seq(Chars)
    BY <2>3, PartsOfPair
  <2> QED BY <1>2, <2>4 DEF LastGiven
<1> QED BY <1>1, <1>2

\* A name is that of one option, or of none.
LEMMA NameOfOption ==
  ASSUME NEW name \in Names
  PROVE  /\ name \in OtherNames <=> \A k \in Keys : ~Matches(k, name)
         /\ \A k, l \in Keys : Matches(k, name) /\ Matches(l, name) => k = l
  BY DataSourceAssumption DEF Names, Matches

-----------------------------------------------------------------------------
(* The invariant *)

\* At the beginning nothing is parsed.
LEMMA InitInv == Init => IInv
<1> SUFFICES ASSUME Init PROVE IInv
  OBVIOUS
<1>1. Sourced
  <2>1. PICK n \in 0..MaxPairs : pairs \in [1..n -> Pair]
    BY DEF Init, BoundedSeq, SeqOf
  <2>2. pairs \in Seq(Pair)
    BY <2>1, DataSourceAssumption
  <2> QED BY <2>2 DEF Init, Sourced
<1>2. \A k \in Keys : LastGiven(pairs, k, 0) = Absent
  BY DEF LastGiven, Given
<1>3. Cardinality(Known(pairs, 0)) = 0
  <2>1. Known(pairs, 0) = {}
    BY DEF Known
  <2> QED BY <2>1, FS_EmptySet
<1>4. Parsed(0)
  BY <1>2, <1>3 DEF Init, Parsed
<1>5. Start(pairs, 0) = 0
  <2>1. PairTexts(pairs) \in Seq(Seq(Chars))
    BY <1>1, PairTextsType DEF Sourced
  <2>2. SubSeq(PairTexts(pairs), 1, 0) = <<>>
    BY <2>1
  <2>3. FlattenSeq(SubSeq(PairTexts(pairs), 1, 0)) = <<>>
    BY <2>2, FlattenEmpty, Zenon
  <2>4. Len(<<>>) = 0
    OBVIOUS
  <2> QED BY <2>3, <2>4, Zenon DEF Start
<1>6. 0 \in 0..Len(pairs)
  BY <1>1 DEF Sourced
<1>7. Parsing
  BY <1>4, <1>5, <1>6 DEF Init, Parsing
<1> QED BY <1>1, <1>7 DEF Init, IInv

\* Behind the last pair there is no "=".
LEMMA AllTaken ==
  ASSUME NEW ps \in Seq(Pair)
  PROVE  ~Contains(SubSeq(Text(ps), Start(ps, Len(ps)) + 1, Len(Text(ps))), "=")
<1>1. /\ Text(ps) \in Seq(Chars) /\ PairTexts(ps) \in Seq(Seq(Chars))
      /\ Len(PairTexts(ps)) = Len(ps) /\ Text(ps) = FlattenSeq(PairTexts(ps))
  BY PairTextsType
<1>2. SubSeq(PairTexts(ps), 1, Len(ps)) = PairTexts(ps)
  BY <1>1
<1>3. Start(ps, Len(ps)) = Len(Text(ps)) /\ Len(Text(ps)) \in Nat
  <2>1. Len(Text(ps)) \in Nat
    BY <1>1
  <2>2. Start(ps, Len(ps)) = Len(Text(ps))
    BY <1>1, <1>2, Zenon DEF Start
  <2> QED BY <2>1, <2>2
<1> DEFINE from == Start(ps, Len(ps)) + 1
<1>4. from \in Nat /\ from > 0 /\ \A j \in from..Len(Text(ps)) : FALSE
  BY <1>3
<1> HIDE DEF from
<1> DEFINE s == Text(ps)
<1>5. s \in Seq(Chars) /\ from \in Nat /\ from > 0 /\ \A j \in from..Len(s) : FALSE
  BY <1>1, <1>4
<1> HIDE DEF s
<1>6. ~Contains(SubSeq(s, from, Len(s)), "=")
  <2>1. Contains(SubSeq(s, from, Len(s)), "=") <=> \E j \in from..Len(s) : s[j] = "="
    BY ONLY <1>5, EqualsLeft
  <2> QED BY <1>5, <2>1
<1> QED BY <1>6 DEF from, s

\* One turn of the loop takes the next pair.
LEMMA TakeOptionInv == IInv /\ TakeOption => IInv'
<1> SUFFICES ASSUME IInv, TakeOption PROVE IInv'
  OBVIOUS
<1>1. Sourced /\ pc = "parse" /\ pairs \in Seq(Pair) /\ data_source \in Seq(Chars)
  BY PairTextsType DEF IInv, Sourced, TakeOption
<1>2. PICK m \in 0..Len(pairs) : i = Start(pairs, m) + 1 /\ optstart = i /\ Parsed(m)
  BY <1>1 DEF IInv, Parsing
<1>3. /\ Contains(SubSeq(data_source, i, Len(data_source)), "=")
      /\ \/ \E k \in Keys :
              /\ Matches(k, NameFound)
              /\ optval' = [optval EXCEPT ![k] = ValueFound]
              /\ n_matches' = n_matches + 1
         \/ /\ \A k \in Keys : ~Matches(k, NameFound)
            /\ UNCHANGED <<optval, n_matches>>
      /\ i' = NextFound /\ optstart' = NextFound
      /\ UNCHANGED <<pairs, data_source, pc, conninfo>>
  BY DEF TakeOption, NameFound, ValueFound, NextFound, DelimFound, ValstartFound
<1>4. m < Len(pairs) /\ m \in Nat /\ m + 1 \in 0..Len(pairs)
  <2>1. Len(pairs) \in Nat
    BY <1>1
  <2>2. m # Len(pairs)
    <3>1. ~Contains(SubSeq(data_source, Start(pairs, Len(pairs)) + 1, Len(data_source)), "=")
      BY <1>1, AllTaken DEF Sourced
    <3> QED BY <1>2, <1>3, <3>1, Zenon
  <2> QED BY <2>1, <2>2
<1>5. /\ NameFound = pairs[m+1].name /\ ValueFound = pairs[m+1].value
      /\ NextFound = Start(pairs, m + 1) + 1
  BY <1>1, <1>2, <1>4, PairFound
<1> DEFINE name == pairs[m+1].name
           value == pairs[m+1].value
<1>6. name \in Names
  <2>1. pairs[m+1] \in Pair
    BY <1>1, <1>4
  <2> QED BY <2>1 DEF Pair
<1>7. /\ optval = [k \in Keys |-> LastGiven(pairs, k, m)]
      /\ n_matches = Cardinality(Known(pairs, m))
  BY <1>2 DEF Parsed
<1>8. \A k \in Keys : LastGiven(pairs, k, m + 1) = IF Matches(k, name) THEN value
                                                     ELSE LastGiven(pairs, k, m)
  BY <1>4, GivenNext DEF Matches
<1>9. Cardinality(Known(pairs, m + 1)) = IF name \in OtherNames
                                           THEN Cardinality(Known(pairs, m))
                                           ELSE Cardinality(Known(pairs, m)) + 1
  BY <1>4, KnownNext
<1> HIDE DEF name, value
<1>10. /\ optval' = [k \in Keys |-> LastGiven(pairs, k, m + 1)]
       /\ n_matches' = Cardinality(Known(pairs, m + 1))
  <2>1. CASE \A k \in Keys : ~Matches(k, name)
    <3>1. name \in OtherNames
      BY <1>6, <2>1, NameOfOption
    <3>2. UNCHANGED <<optval, n_matches>>
      BY <1>3, <1>5, <2>1 DEF name
    <3> QED BY <1>7, <1>8, <1>9, <2>1, <3>1, <3>2
  <2>2. CASE \E k \in Keys : Matches(k, name)
    <3>1. PICK k \in Keys : /\ Matches(k, name)
                            /\ optval' = [optval EXCEPT ![k] = value]
                            /\ n_matches' = n_matches + 1
      BY <1>3, <1>5, <2>2 DEF name, value
    <3>2. name \notin OtherNames /\ \A l \in Keys : Matches(l, name) <=> l = k
      BY <1>6, <3>1, NameOfOption
    <3>3. optval' = [l \in Keys |-> IF l = k THEN value ELSE LastGiven(pairs, l, m)]
      BY <1>7, <3>1
    <3>4. \A l \in Keys : LastGiven(pairs, l, m + 1)
                            = IF l = k THEN value ELSE LastGiven(pairs, l, m)
      BY <1>8, <3>2
    <3>5. n_matches' = Cardinality(Known(pairs, m + 1))
      BY <1>7, <1>9, <3>1, <3>2
    <3> QED BY <3>3, <3>4, <3>5
  <2> QED BY <2>1, <2>2
<1>11. Parsed(m + 1)'
  BY <1>3, <1>10 DEF Parsed
<1>12. Parsing'
  BY <1>3, <1>4, <1>5, <1>11 DEF Parsing
<1>13. Sourced'
  BY <1>1, <1>3 DEF Sourced
<1> QED BY <1>1, <1>3, <1>12, <1>13 DEF IInv

\* Where no "=" is left, every pair has been taken.
LEMMA EndOfSourceInv == IInv /\ EndOfSource => IInv'
<1> SUFFICES ASSUME IInv, EndOfSource PROVE IInv'
  OBVIOUS
<1>1. /\ Sourced /\ pc = "parse" /\ pc' = "assemble" /\ pairs \in Seq(Pair)
      /\ UNCHANGED <<pairs, data_source, optval, n_matches>>
      /\ ~Contains(SubSeq(data_source, i, Len(data_source)), "=")
  BY DEF IInv, Sourced, EndOfSource
<1>2. PICK m \in 0..Len(pairs) : i = Start(pairs, m) + 1 /\ optstart = i /\ Parsed(m)
  BY <1>1 DEF IInv, Parsing
<1>3. m = Len(pairs)
  <2>1. ~(m < Len(pairs))
    BY <1>1, <1>2, PairFound
  <2>2. Len(pairs) \in Nat
    BY <1>1
  <2> QED BY <2>1, <2>2
<1>4. Parsed(Len(pairs))'
  BY <1>1, <1>2, <1>3 DEF Parsed
<1> QED BY <1>1, <1>4 DEF IInv, Sourced

\* The connection string is made of the texts of the options.
LEMMA AssembleInv == IInv /\ Assemble => IInv'
<1> SUFFICES ASSUME IInv, Assemble PROVE IInv'
  OBVIOUS
<1> DEFINE value == [k \in Keys |-> ValueOf(k)]
<1>1. \A n \in DOMAIN Options : Options[n] \in Keys
  BY DataSourceAssumption
<1>2. OptionTexts(value)
        = [n \in DOMAIN Options |-> <<Options[n], "'">> \o Quoted(ValueOf(Options[n])) \o <<"'">>]
  BY <1>1 DEF OptionTexts, OptionText
<1>3. conninfo' = FlattenSeq(OptionTexts(value)) /\ pc = "assemble" /\ pc' = "done"
  BY <1>2 DEF Assemble
<1>4. value' = value
  BY DEF Assemble, ValueOf
<1>5. Parsed(Len(pairs))'
  BY <1>3 DEF IInv, Assemble, Parsed
<1> QED BY <1>3, <1>4, <1>5 DEF IInv, Assemble, Sourced

\* Every step keeps the invariant, one that changes nothing included.
LEMMA StepInv == IInv /\ [Next]_vars => IInv'
<1> SUFFICES ASSUME IInv, [Next]_vars PROVE IInv'
  OBVIOUS
<1>1. CASE TakeOption
  BY <1>1, TakeOptionInv
<1>2. CASE EndOfSource
  BY <1>2, EndOfSourceInv
<1>3. CASE Assemble
  BY <1>3, AssembleInv
<1>4. CASE UNCHANGED vars
  BY <1>4 DEF IInv, Sourced, Parsing, Parsed, ValueOf, vars
<1> QED BY <1>1, <1>2, <1>3, <1>4 DEF Next

\* What an option's value is in the end is a text.
LEMMA ValueType ==
  ASSUME Sourced, Parsed(Len(pairs)), NEW k \in Keys
  PROVE  ValueOf(k) \in Seq(Chars)
<1>1. pairs \in Seq(Pair) /\ Len(pairs) \in 0..Len(pairs)
  BY DEF Sourced
<1>2. optval[k] \in Seq(Chars) \cup {Absent}
  BY <1>1, GivenType DEF Parsed
<1> QED BY <1>2, DataSourceAssumption DEF ValueOf

\* The loop is over when the pairs have all been taken: what it leaves is what
\* they say.
LEMMA InvParses == IInv => ParsesDocumentedForm
<1> SUFFICES ASSUME IInv, pc # "parse" PROVE ParsesDocumentedForm
  BY DEF ParsesDocumentedForm
<1>1. Parsed(Len(pairs)) /\ DOMAIN pairs = 1..Len(pairs)
  BY DEF IInv, Sourced
<1>2. \A k \in Keys : {n \in DOMAIN pairs : pairs[n].name = OptionName[k]}
                        = Given(pairs, k, Len(pairs))
  BY <1>1 DEF Given
<1>3. {n \in DOMAIN pairs : pairs[n].name \notin OtherNames} = Known(pairs, Len(pairs))
  BY <1>1 DEF Known
<1> QED BY <1>1, <1>2, <1>3 DEF ParsesDocumentedForm, Parsed, LastGiven

\* Whatever the values are, libpq reads them back.
LEMMA InvReadsBack == IInv => ConninfoReadsBack
<1> SUFFICES ASSUME IInv, pc = "done" PROVE ConninfoReadsBack
  BY DEF ConninfoReadsBack
<1> DEFINE value == [k \in Keys |-> ValueOf(k)]
<1>1. Sourced /\ Parsed(Len(pairs)) /\ conninfo = FlattenSeq(OptionTexts(value))
  BY DEF IInv
<1>2. value \in [Keys -> Seq(Chars)]
  BY <1>1, ValueType
<1> HIDE DEF value
<1>3. /\ conninfo_parse(conninfo).mode = "name"
      /\ conninfo_parse(conninfo).read = value
  BY <1>1, <1>2, ReadOptions, Zenon
<1> QED BY <1>3 DEF ConninfoReadsBack, value

-----------------------------------------------------------------------------
(* The theorems *)

\* The invariant holds: the loop of php_pdo_parse_data_source is always at the
\* beginning of a pair, and has taken those before it.
THEOREM PairByPair == Spec => []IInv
<1>1. Init => IInv
  BY InitInv
<1>2. IInv /\ [Next]_vars => IInv'
  BY StepInv
<1> QED BY <1>1, <1>2, PTL DEF Spec

\* php_pdo_parse_data_source gives every option the last value given under its
\* name, and none that of another name, however many options, names, values and
\* pairs there are and in whatever order they come.
THEOREM DocumentedFormParsed == Spec => []ParsesDocumentedForm
BY PairByPair, InvParses, PTL

\* libpq reads from the connection string of create the very values that went into
\* it, whatever characters they have.
THEOREM ConninfoReadBack == Spec => []ConninfoReadsBack
BY PairByPair, InvReadsBack, PTL

=============================================================================
