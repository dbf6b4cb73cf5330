----------------------------- MODULE QueryProofs -----------------------------
(***************************************************************************)
(* What a SELECT returns, proved for any tables, rows, expressions and     *)
(* plans: it is the relational answer, and without ORDER BY it asks the    *)
(* tables for no more than LIMIT needs.                                    *)
(*                                                                         *)
(* The argument accounts for every row.  The candidates the source has     *)
(* gone through are those Pulled speaks of, and each turn of a loop adds   *)
(* one or none (ScanAdds, ProbeAdds, EmitAdds).  The rows collected so far *)
(* correspond one to one to the candidates that were gone through and pass *)
(* the filter (Accounts), and sorting them only permutes this.             *)
(***************************************************************************)
EXTENDS Query, DataFacts

------------------------------------------------------------------------------
(* The rows that can be collected, and what the source has gone through.   *)
AnswerRows == {Projected(Content(c)) : c \in Answer}
Went  == {c \in Candidates : Pulled(c)}
Found == {c \in Answer : Pulled(c)}

(* W says which candidate each row collected is made of: one to one, and   *)
(* each of the candidates in P is there.                                   *)
Accounts(W, out, P) ==
    /\ W \in [1..Len(out) -> P]
    /\ \A i, j \in 1..Len(out) : W[i] = W[j] => i = j
    /\ \A c \in P : \E i \in 1..Len(out) : W[i] = c
    /\ \A i \in 1..Len(out) : out[i] = Projected(Content(W[i]))

AccountedFor(out, P) == \E W \in [1..Len(out) -> P] : Accounts(W, out, P)

Sorted(rows) == \A i, j \in 1..Len(rows) : i < j => ~Less(rows[j], rows[i])

------------------------------------------------------------------------------
(* The inductive invariant.  The tables and the plan are as they were.     *)
Fixed == IsTables(tables) /\ IsQuery(query)

(* What HashJoin holds: the last row had a bucket and it is at hand, or it *)
(* had none, and what is at hand has been used up.                         *)
AtHit  == matches = Bucket(tables.probe[cursor]) /\ probeRow = tables.probe[cursor]
AtMiss == at = Len(matches) /\ Bucket(tables.probe[cursor]) = <<>>

(* The cursors of the source.                                              *)
SourceInv ==
    /\ phase \in {"new", "pull", "serve", "done"}
    /\ cursor \in 0..Len(tables.probe)
    /\ Len(matches) \in Nat
    /\ at \in 0..Len(matches)
    /\ (query.join = {} \/ cursor = 0) => matches = <<>>
    /\ query.join # {} /\ cursor > 0 => AtHit \/ AtMiss
    /\ phase = "new" => cursor = 0

(* The rows collected, before they are sorted and after.                   *)
Collected == IF Sorts THEN buffered ELSE results

OutputInv ==
    /\ results \in Seq(AnswerRows) /\ buffered \in Seq(AnswerRows)
    /\ phase = "new" => results = <<>> /\ buffered = <<>>
    /\ phase \in {"new", "pull"} \/ ~Sorts => AccountedFor(Collected, Found)
    /\ phase \in {"new", "pull"} /\ Sorts => results = <<>>
    /\ ~Sorts => buffered = <<>> /\ phase # "serve"
    /\ phase \in {"serve", "done"} /\ Sorts =>
         /\ AccountedFor(buffered, Answer)
         /\ Sorted(buffered)
         /\ Len(results) <= Len(buffered)
         /\ \A i \in 1..Len(results) : results[i] = buffered[i]

(* What the limit does.                                                    *)
LimitInv ==
    /\ \A n \in query.limit : Len(results) <= n
    /\ phase = "done" => LimitReached \/ (IF Sorts THEN Len(results) = Len(buffered) ELSE AtEnd)
    /\ ~Sorts /\ LimitReached =>
         IF results = <<>> THEN cursor = 0 ELSE \E c \in Found : StoppedAt(c)

QueryInv == Fixed /\ SourceInv /\ OutputInv /\ LimitInv

------------------------------------------------------------------------------
(* Finite sets.                                                            *)

(* The vectors of the tables.                                              *)
LEMMA Vectors ==
    ASSUME Fixed
    PROVE  /\ Len(tables.probe) \in Nat /\ Len(tables.build) \in Nat
           /\ \E R : tables.build \in Seq(R)
<1> QED
  BY LenProperties DEF Fixed, IsTables

(* The first n positions.                                                  *)
LEMMA Interval ==
    ASSUME NEW n \in Nat
    PROVE  IsFiniteSet(1..n) /\ Cardinality(1..n) = n
<1>1. 1 \in Int /\ n \in Int
  OBVIOUS
<1>2. /\ IsFiniteSet(1..n)
      /\ Cardinality(1..n) = IF 1 > n THEN 0 ELSE n - 1 + 1
  BY <1>1, FS_Interval
<1> QED
  BY <1>2

(* There are finitely many candidates.                                     *)
LEMMA CandidatesFinite ==
    ASSUME Fixed
    PROVE  IsFiniteSet(Candidates) /\ IsFiniteSet(Answer)
<1> DEFINE I == 1..Len(tables.probe)
           J == 1..Len(tables.build)
           f == [i \in I |-> <<i>>]
<1>1. IsFiniteSet(I) /\ IsFiniteSet(J)
  BY Vectors, Interval
<1>2. IsFiniteSet({<<i>> : i \in I})
  <2>1. f \in Surjection(I, {<<i>> : i \in I})
    BY DEF Surjection
  <2> QED
    BY <1>1, <2>1, FS_Surjection
<1>3. IsFiniteSet(Pairs)
  <2>1. IsFiniteSet(I \X J)
    BY <1>1, FS_Product
  <2>2. Pairs \subseteq I \X J
    BY DEF Pairs
  <2> QED
    BY <2>1, <2>2, FS_Subset
<1>4. IsFiniteSet(Candidates)
  <2>1. CASE query.join = {}
    BY <1>2, <2>1 DEF Candidates
  <2>2. CASE query.join # {}
    <3>1. Candidates \subseteq Pairs
      BY <2>2 DEF Candidates
    <3> QED
      BY <1>3, <3>1, FS_Subset
  <2> QED
    BY <2>1, <2>2
<1>5. Answer \subseteq Candidates
  BY DEF Answer
<1> QED
  BY <1>4, <1>5, FS_Subset

(* As many rows are collected as there are candidates they are made of.    *)
LEMMA AccountsCount ==
    ASSUME NEW S, NEW out \in Seq(S), NEW P, NEW W, Accounts(W, out, P)
    PROVE  IsFiniteSet(P) /\ Cardinality(P) = Len(out)
<1>1. Len(out) \in Nat
  BY LenProperties
<1>2. W \in Bijection(1..Len(out), P)
  BY DEF Accounts, Bijection, Injection, Surjection, IsInjective
<1>3. IsFiniteSet(1..Len(out)) /\ Cardinality(1..Len(out)) = Len(out)
  BY <1>1, Interval
<1> QED
  BY <1>2, <1>3, FS_Bijection DEF ExistsBijection

(* One more row and the candidate it is made of.                           *)
LEMMA AccountsMore ==
    ASSUME NEW S, NEW out \in Seq(S), NEW P, NEW W, NEW c, Accounts(W, out, P),
           c \notin P, Projected(Content(c)) \in S
    PROVE  AccountedFor(Append(out, Projected(Content(c))), P \cup {c})
<1> DEFINE n == Len(out)
           more == Append(out, Projected(Content(c)))
           V == [i \in 1..(n + 1) |-> IF i = n + 1 THEN c ELSE W[i]]
<1>1. n \in Nat /\ Len(more) = n + 1
  BY LenProperties, AppendProperties
<1>2. \A i \in 1..(n + 1) : i # n + 1 => i \in 1..n
  BY <1>1
<1>3. \A i \in 1..n : i \in 1..(n + 1) /\ i # n + 1
  BY <1>1
<1>4. n + 1 \in 1..(n + 1)
  BY <1>1
<1>5. \A i \in 1..n : more[i] = out[i]
  BY AppendProperties
<1>6. more[n + 1] = Projected(Content(c))
  BY AppendProperties
<1>7. \A i \in 1..n : V[i] = W[i] /\ W[i] \in P
  BY <1>3 DEF Accounts
<1>8. V[n + 1] = c
  BY <1>4
<1>9. V \in [1..(n + 1) -> P \cup {c}]
  BY <1>2, <1>7
<1> HIDE DEF V, more, n
<1>10. \A i, j \in 1..(n + 1) : V[i] = V[j] => i = j
  <2> TAKE i, j \in 1..(n + 1)
  <2>1. CASE i = n + 1 /\ j = n + 1
    BY <2>1
  <2>2. CASE i = n + 1 /\ j # n + 1
    BY <1>2, <1>7, <1>8, <2>2
  <2>3. CASE i # n + 1 /\ j = n + 1
    BY <1>2, <1>7, <1>8, <2>3
  <2>4. CASE i # n + 1 /\ j # n + 1
    BY <1>2, <1>7, <2>4 DEF Accounts, n
  <2> QED
    BY <2>1, <2>2, <2>3, <2>4
<1>11. \A d \in P \cup {c} : \E i \in 1..(n + 1) : V[i] = d
  BY <1>3, <1>4, <1>7, <1>8 DEF Accounts, n
<1>12. \A i \in 1..(n + 1) : more[i] = Projected(Content(V[i]))
  <2> TAKE i \in 1..(n + 1)
  <2>1. CASE i = n + 1
    BY <1>6, <1>8, <2>1
  <2>2. CASE i # n + 1
    BY <1>2, <1>5, <1>7, <2>2 DEF Accounts, n
  <2> QED
    BY <2>1, <2>2
<1>13. Accounts(V, more, P \cup {c}) /\ V \in [1..Len(more) -> P \cup {c}]
  BY <1>1, <1>9, <1>10, <1>11, <1>12 DEF Accounts
<1> QED
  BY <1>13 DEF AccountedFor, more

------------------------------------------------------------------------------
(* The source.                                                             *)

(* A snapshot hides no row: all are wrapped as written by transaction 1.   *)
LEMMA AllScanned ==
    ASSUME Fixed, NEW row
    PROVE  Scanned(row)
<1> QED
  BY DEF Fixed, IsQuery, Scanned, SeenUnder, IsVisible, Versioned

(* The rows of the build side that a row of the probe side joins with.     *)
Partners(i) == {j \in 1..Len(tables.build) : <<i, j>> \in Candidates}

(* With a join, a candidate is a row of the probe side and a partner.      *)
LEMMA CandidatesJoined ==
    ASSUME query.join # {}, NEW c \in Candidates
    PROVE  \E i \in 1..Len(tables.probe) : \E j \in Partners(i) : c = <<i, j>>
<1> QED
  BY DEF Candidates, Pairs, Partners

(* The hash table finds them.                                              *)
LEMMA HitsArePartners ==
    ASSUME Fixed, query.join # {}, NEW i \in 1..Len(tables.probe)
    PROVE  Hits(tables.probe[i]) = Partners(i)
<1>1. PICK keys : query.join = {keys}
  BY DEF Fixed, IsQuery
<1> DEFINE p == tables.probe[i]
<1>2. \A j \in 1..Len(tables.build) : <<i, j>> \in Candidates <=> Equijoined(i, j, keys)
  BY <1>1 DEF Candidates, Pairs
<1>3. \A j \in 1..Len(tables.build) : j \in Hits(p) <=> Equijoined(i, j, keys)
  <2> TAKE j \in 1..Len(tables.build)
  <2>1. Scanned(tables.build[j])
    BY AllScanned
  <2> QED
    BY <1>1, <2>1 DEF Hits, Equijoined
<1> QED
  BY <1>2, <1>3 DEF Hits, Partners

(* The rank of a candidate is its place among the partners of its row.     *)
LEMMA RankIs ==
    ASSUME Fixed, query.join # {}, NEW i \in 1..Len(tables.probe), NEW j \in Partners(i)
    PROVE  /\ Rank(<<i, j>>) = CountBelow(Partners(i), j) + 1
           /\ CountBelow(Partners(i), j) \in Nat
<1> DEFINE K == {k \in Partners(i) : k < j + 1}
           D == {d \in Candidates : d[1] = i /\ d[2] <= j}
           f == [k \in K |-> <<i, k>>]
           N == Len(tables.build)
<1>1. N \in Nat /\ Partners(i) \in SUBSET (1..N)
  BY Vectors DEF Partners
<1>2. j \in Nat
  BY <1>1
<1>3. \A k \in K : k \in Nat /\ <<i, k>> \in D
  BY <1>1, <1>2 DEF Partners
<1>4. \A d \in D : \E k \in K : d = <<i, k>>
  <2> TAKE d \in D
  <2>1. PICK i1 \in 1..Len(tables.probe) : \E k \in Partners(i1) : d = <<i1, k>>
    BY CandidatesJoined
  <2>2. PICK k \in Partners(i1) : d = <<i1, k>>
    BY <2>1
  <2>3. i1 = i /\ k <= j
    BY <2>2
  <2>4. k \in Nat /\ k < j + 1
    BY <1>1, <1>2, <2>2, <2>3
  <2> QED
    BY <2>2, <2>3, <2>4
<1>5. f \in Bijection(K, D)
  <2>1. f \in [K -> D]
    BY <1>3
  <2>2. \A k, m \in K : f[k] = f[m] => k = m
    OBVIOUS
  <2>3. \A d \in D : \E k \in K : f[k] = d
    BY <1>4
  <2> HIDE DEF f, K, D
  <2> QED
    BY <2>1, <2>2, <2>3 DEF Bijection, Injection, Surjection, IsInjective
<1>6. IsFiniteSet(K)
  BY <1>1, PositionsFinite
<1>7. Cardinality(D) = Cardinality(K)
  <2> HIDE DEF f, K, D
  <2> QED
    BY <1>5, <1>6, FS_Bijection DEF ExistsBijection
<1>8. Cardinality(K) = CountBelow(Partners(i), j + 1)
  BY DEF CountBelow
<1>9. /\ CountBelow(Partners(i), j) \in Nat
      /\ CountBelow(Partners(i), j + 1) = CountBelow(Partners(i), j) + 1
  BY <1>1, <1>2, PositionsFinite, BelowNext
<1>10. Rank(<<i, j>>) = Cardinality(D)
  BY DEF Rank
<1> QED
  BY <1>7, <1>8, <1>9, <1>10

(* The places of the partners of a row go from the first to the last.      *)
LEMMA PlaceOfPartner ==
    ASSUME Fixed, query.join # {}, NEW i \in 1..Len(tables.probe)
    PROVE  /\ Cardinality(Partners(i)) \in Nat
           /\ \A j \in Partners(i) :
                /\ Rank(<<i, j>>) \in 1..Cardinality(Partners(i))
                /\ NthOf(Partners(i), Rank(<<i, j>>)) = j
           /\ \A n \in 1..Cardinality(Partners(i)) :
                /\ NthOf(Partners(i), n) \in Partners(i)
                /\ Rank(<<i, NthOf(Partners(i), n)>>) = n
<1> DEFINE N == Len(tables.build)
           I == Partners(i)
<1>1. N \in Nat /\ I \in SUBSET (1..N)
  BY Vectors DEF Partners
<1>2. Cardinality(I) \in Nat
  BY <1>1, PositionsFinite
<1>3. \A j \in I : CountBelow(I, j) + 1 \in 1..Cardinality(I) /\ NthOf(I, CountBelow(I, j) + 1) = j
  <2> HIDE DEF I
  <2> QED
    BY <1>1, NthOnly
<1>4. \A n \in 1..Cardinality(I) : NthOf(I, n) \in I /\ CountBelow(I, NthOf(I, n)) = n - 1
  <2> HIDE DEF I
  <2> QED
    BY <1>1, NthThere
<1>5. \A j \in I : Rank(<<i, j>>) = CountBelow(I, j) + 1 /\ CountBelow(I, j) \in Nat
  BY RankIs
<1>6. \A n \in 1..Cardinality(I) : Rank(<<i, NthOf(I, n)>>) = n
  <2> TAKE n \in 1..Cardinality(I)
  <2>1. n \in Nat /\ (n - 1) + 1 = n
    BY <1>2
  <2> QED
    BY <1>4, <1>5, <2>1
<1> QED
  BY <1>2, <1>3, <1>4, <1>5, <1>6

(* Positions begin with 1.                                                 *)
LEMMA FirstIsPositive ==
    ASSUME Fixed, NEW c \in Candidates
    PROVE  c[1] # 0 /\ ~(c[1] < 0)
<1>1. CASE query.join = {}
  <2>1. PICK i \in 1..Len(tables.probe) : c = <<i>>
    BY <1>1 DEF Candidates
  <2>2. c[1] = i /\ i \in Nat /\ i # 0
    BY <2>1
  <2> QED
    BY <2>2
<1>2. CASE query.join # {}
  <2>1. PICK i \in 1..Len(tables.probe) : \E j \in Partners(i) : c = <<i, j>>
    BY <1>2, CandidatesJoined
  <2>2. PICK j \in Partners(i) : c = <<i, j>>
    BY <2>1
  <2>3. c[1] = i /\ i \in Nat /\ i # 0
    BY <2>2
  <2> QED
    BY <2>3
<1> QED
  BY <1>1, <1>2

(* What is found under a key.                                              *)
LEMMA Bucketed ==
    ASSUME Fixed, query.join # {}, NEW i \in 1..Len(tables.probe)
    PROVE  /\ Len(Bucket(tables.probe[i])) = Cardinality(Partners(i))
           /\ \A n \in 1..Cardinality(Partners(i)) :
                Bucket(tables.probe[i])[n] = tables.build[NthOf(Partners(i), n)]
<1>1. PICK R : tables.build \in Seq(R)
  BY Vectors
<1>2. Partners(i) \in SUBSET (1..Len(tables.build))
  BY DEF Partners
<1>3. Bucket(tables.probe[i]) = Picked(tables.build, Partners(i))
  BY HitsArePartners DEF Bucket
<1> QED
  BY <1>1, <1>2, <1>3, PickedSeq

(* Nothing of this changes while the statement runs.                       *)
Undisturbed == tables' = tables /\ query' = query

LEMMA Stay ==
    ASSUME Undisturbed
    PROVE  /\ Candidates' = Candidates /\ Answer' = Answer
           /\ \A c : Content(c)' = Content(c) /\ Rank(c)' = Rank(c)
           /\ \A row : Projected(row)' = Projected(row)
           /\ \A a, b : Less(a, b)' <=> Less(a, b)
           /\ Sorts' <=> Sorts
           /\ AnswerRows' = AnswerRows
<1> USE DEF Undisturbed
<1>1. Candidates' = Candidates
  BY DEF Candidates, Pairs, Equijoined
<1>2. \A c : Content(c)' = Content(c)
  BY DEF Content, Joined
<1>3. \A row : Passes(row)' <=> Passes(row)
  BY DEF Passes
<1>4. Answer' = Answer
  BY <1>1, <1>2, <1>3 DEF Answer
<1>5. \A c : Rank(c)' = Rank(c)
  BY <1>1 DEF Rank
<1>6. \A row : Projected(row)' = Projected(row)
  BY DEF Projected
<1>7. \A a, b : Less(a, b)' <=> Less(a, b)
  BY DEF Less
<1>8. Sorts' <=> Sorts
  BY DEF Sorts
<1>9. AnswerRows' = AnswerRows
  BY <1>2, <1>4, <1>6 DEF AnswerRows
<1> QED
  BY <1>1, <1>2, <1>4, <1>5, <1>6, <1>7, <1>8, <1>9

(* When a candidate of a scan, and of a join, has been gone through.       *)
LEMMA PulledScanned ==
    ASSUME NEW i \in Nat, cursor \in Nat
    PROVE  /\ Pulled(<<i>>) <=> i <= cursor
           /\ StoppedAt(<<i>>) <=> i = cursor
<1> QED
  BY DEF Pulled, StoppedAt

LEMMA PulledJoined ==
    ASSUME NEW i, NEW j
    PROVE  /\ Pulled(<<i, j>>) <=> (i < cursor \/ (i = cursor /\ Rank(<<i, j>>) <= at))
           /\ StoppedAt(<<i, j>>) <=> (i = cursor /\ Rank(<<i, j>>) = at)
<1>1. PICK c : c = <<i, j>>
  OBVIOUS
<1>2. c[1] = i /\ Len(c) # 1
  BY <1>1
<1>3. Pulled(c) <=> (c[1] < cursor \/ (c[1] = cursor /\ Rank(c) <= at))
  BY <1>2 DEF Pulled
<1>4. StoppedAt(c) <=> (c[1] = cursor /\ Rank(c) = at)
  BY <1>2 DEF StoppedAt
<1> QED
  BY <1>1, <1>2, <1>3, <1>4

(* The source goes through one candidate more.                             *)
OneMoreWent(c) ==
    /\ c \in Candidates /\ c \notin Went
    /\ Went' = Went \cup {c}
    /\ StoppedAt(c)'
    /\ Deliver(Content(c))

(* SeqScan: the next row of the table.                                     *)
LEMMA ScanAdds ==
    ASSUME Fixed, SourceInv, ScanStep
    PROVE  \E c : OneMoreWent(c)
<1> DEFINE P == Len(tables.probe)
<1>0. PICK c : c = <<cursor + 1>>
  OBVIOUS
<1>1. /\ P \in Nat /\ cursor \in Nat /\ cursor + 1 \in 1..P
      /\ query.join = {} /\ cursor' = cursor + 1 /\ Undisturbed
  BY Vectors DEF SourceInv, ScanStep, CursorAfter, Undisturbed
<1>2. Candidates = {<<i>> : i \in 1..P} /\ Candidates' = Candidates
  BY <1>1, Stay DEF Candidates
<1>3. \A i \in 1..P : Pulled(<<i>>) <=> i <= cursor
  BY <1>1 DEF Pulled
<1>4. \A i \in 1..P : Pulled(<<i>>)' <=> i <= cursor + 1
  BY <1>1 DEF Pulled
<1>5. \A i \in 1..P : <<i>> \in Went <=> i <= cursor
  BY <1>2, <1>3 DEF Went
<1>6. \A i \in 1..P : <<i>> \in Went' <=> i <= cursor + 1
  BY <1>2, <1>4 DEF Went
<1>7. \A i \in 1..P : <<i>> = c <=> i = cursor + 1
  BY <1>0
<1>8. \A i \in 1..P : <<i>> \in Went' <=> <<i>> \in Went \cup {c}
  <2> TAKE i \in 1..P
  <2>1. i <= cursor + 1 <=> i <= cursor \/ i = cursor + 1
    BY <1>1
  <2> QED
    BY <1>5, <1>6, <1>7, <2>1
<1>9. Went' = Went \cup {c}
  BY <1>0, <1>1, <1>2, <1>8 DEF Went
<1>10. c \in Candidates /\ c \notin Went
  <2>1. ~(cursor + 1 <= cursor)
    BY <1>1
  <2> QED
    BY <1>0, <1>1, <1>2, <1>5, <2>1
<1>11. StoppedAt(c)'
  BY <1>0, <1>1 DEF StoppedAt
<1>12. Deliver(Content(c))
  <2>1. Scanned(tables.probe[cursor + 1])
    BY AllScanned
  <2>2. Content(c) = tables.probe[cursor + 1]
    BY <1>0 DEF Content
  <2> QED
    BY <2>1, <2>2 DEF ScanStep
<1> QED
  BY <1>9, <1>10, <1>11, <1>12 DEF OneMoreWent

(* The matches at hand are the partners of the row the cursor is behind,   *)
(* or that row has none and there is nothing left of them.                 *)
LEMMA MatchesAtHand ==
    ASSUME Fixed, SourceInv, query.join # {}
    PROVE  /\ cursor > 0 =>
                /\ cursor \in 1..Len(tables.probe)
                /\ \/ /\ Len(matches) = Cardinality(Partners(cursor))
                      /\ \A n \in 1..Len(matches) :
                           matches[n] = tables.build[NthOf(Partners(cursor), n)]
                      /\ probeRow = tables.probe[cursor]
                   \/ at = Len(matches) /\ Cardinality(Partners(cursor)) = 0
           /\ cursor = 0 => Len(matches) = 0 /\ at = 0
<1>1. Len(tables.probe) \in Nat
  BY Vectors
<1>2. ASSUME cursor > 0
      PROVE  /\ cursor \in 1..Len(tables.probe)
             /\ \/ /\ Len(matches) = Cardinality(Partners(cursor))
                   /\ \A n \in 1..Len(matches) :
                        matches[n] = tables.build[NthOf(Partners(cursor), n)]
                   /\ probeRow = tables.probe[cursor]
                \/ at = Len(matches) /\ Cardinality(Partners(cursor)) = 0
  <2>1. cursor \in 1..Len(tables.probe)
    BY <1>1, <1>2 DEF SourceInv
  <2>2. /\ Len(Bucket(tables.probe[cursor])) = Cardinality(Partners(cursor))
        /\ \A n \in 1..Cardinality(Partners(cursor)) :
             Bucket(tables.probe[cursor])[n] = tables.build[NthOf(Partners(cursor), n)]
    BY <2>1, Bucketed
  <2>3. CASE AtHit
    BY <2>1, <2>2, <2>3 DEF AtHit
  <2>4. CASE AtMiss
    <3>1. Len(<<>>) = 0
      OBVIOUS
    <3> QED
      BY <2>1, <2>2, <2>4, <3>1 DEF AtMiss
  <2> QED
    BY <1>2, <2>3, <2>4 DEF SourceInv
<1>3. ASSUME cursor = 0
      PROVE  Len(matches) = 0 /\ at = 0
  <2>1. matches = <<>>
    BY <1>3 DEF SourceInv
  <2>2. Len(matches) = 0
    BY <2>1
  <2> QED
    BY <2>2 DEF SourceInv
<1> QED
  BY <1>2, <1>3

(* HashJoin goes on to the next row of the probe side: all the partners of *)
(* the one before have been gone through, and none of the new one.         *)
LEMMA ProbeAdds ==
    ASSUME Fixed, SourceInv, ProbeStep
    PROVE  Went' = Went
<1>0. /\ cursor \in Nat /\ cursor' = cursor + 1 /\ Undisturbed
      /\ query.join # {} /\ at = Len(matches)
      /\ cursor + 1 \in 1..Len(tables.probe)
  BY Vectors DEF SourceInv, ProbeStep, Undisturbed
<1>1. Candidates' = Candidates /\ \A c : Rank(c)' = Rank(c)
  BY <1>0, Stay
<1>3. at' = 0 \/ Cardinality(Partners(cursor + 1)) = 0
  <2>1. Len(Bucket(tables.probe[cursor + 1])) = Cardinality(Partners(cursor + 1))
    BY <1>0, Bucketed
  <2>2. Len(<<>>) = 0
    OBVIOUS
  <2>3. at' = 0 \/ Bucket(tables.probe[cursor + 1]) = <<>>
    BY AllScanned DEF ProbeStep, Probed
  <2> QED
    BY <2>1, <2>2, <2>3
<1>2. ASSUME NEW c \in Candidates
      PROVE  Pulled(c)' <=> Pulled(c)
  <2>1. PICK i \in 1..Len(tables.probe) : \E j \in Partners(i) : c = <<i, j>>
    BY <1>0, CandidatesJoined
  <2>2. PICK j \in Partners(i) : c = <<i, j>>
    BY <2>1
  <2>3. /\ Rank(c) \in 1..Cardinality(Partners(i))
        /\ Cardinality(Partners(i)) \in Nat
    BY <1>0, <2>2, PlaceOfPartner
  <2>4. i \in Nat /\ i > 0
    BY Vectors
  <2>5. c[1] = i /\ Len(c) # 1
    BY <2>2
  <2>6. Pulled(c)' <=> i < cursor + 1
    <3>1. i = cursor + 1 => ~(Rank(c) <= at')
      BY <1>3, <2>3
    <3>2. Pulled(c)' <=> (i < cursor' \/ (i = cursor' /\ Rank(c) <= at'))
      BY <1>1, <2>5 DEF Pulled
    <3> QED
      BY <1>0, <3>1, <3>2
  <2>7. Pulled(c) <=> (i < cursor \/ (i = cursor /\ Rank(c) <= at))
    BY <2>5 DEF Pulled
  <2>8. i = cursor => Rank(c) <= at
    <3> SUFFICES ASSUME i = cursor PROVE Rank(c) <= at
      OBVIOUS
    <3>1. Len(matches) = Cardinality(Partners(cursor)) \/ Cardinality(Partners(cursor)) = 0
      BY <1>0, <2>4, MatchesAtHand
    <3> QED
      BY <1>0, <2>3, <3>1
  <2>9. i < cursor + 1 <=> i < cursor \/ i = cursor
    BY <1>0, <2>4
  <2> QED
    BY <2>6, <2>7, <2>8, <2>9
<1> QED
  BY <1>1, <1>2 DEF Went

(* HashJoin returns the row joined with its next partner.                  *)
LEMMA EmitAdds ==
    ASSUME Fixed, SourceInv, EmitStep
    PROVE  \E c : OneMoreWent(c)
<1>0. /\ cursor' = cursor /\ at' = at + 1 /\ Undisturbed /\ at < Len(matches)
      /\ at \in Nat /\ Len(matches) \in Nat /\ cursor \in Nat
  BY Vectors DEF SourceInv, EmitStep, Undisturbed
<1>1. query.join # {} /\ cursor > 0
  <2>1. matches # <<>>
    <3> SUFFICES ASSUME matches = <<>> PROVE FALSE
      OBVIOUS
    <3>1. Len(matches) = 0
      OBVIOUS
    <3> QED
      BY <1>0, <3>1
  <2>2. query.join # {} /\ cursor # 0
    BY <2>1 DEF SourceInv
  <2> QED
    BY <1>0, <2>2
<1>2. /\ cursor \in 1..Len(tables.probe)
      /\ Len(matches) = Cardinality(Partners(cursor))
      /\ \A n \in 1..Len(matches) :
           matches[n] = tables.build[NthOf(Partners(cursor), n)]
      /\ probeRow = tables.probe[cursor]
  <2>1. at # Len(matches)
    BY <1>0
  <2> QED
    BY <1>1, <2>1, MatchesAtHand
<1>3. at + 1 \in 1..Len(matches)
  BY <1>0
<1>4. PICK k : k = NthOf(Partners(cursor), at + 1)
  OBVIOUS
<1>5. PICK c : c = <<cursor, k>>
  OBVIOUS
<1>6. k \in Partners(cursor) /\ Rank(c) = at + 1
  BY <1>1, <1>2, <1>3, <1>4, <1>5, PlaceOfPartner
<1>7. c \in Candidates
  BY <1>5, <1>6 DEF Partners
<1>8. Candidates' = Candidates /\ \A d : Rank(d)' = Rank(d)
  BY <1>0, Stay
<1>9. c[1] = cursor /\ Len(c) # 1 /\ c[2] = k
  BY <1>5
<1>10. c \notin Went
  <2>1. ~(cursor < cursor) /\ ~(at + 1 <= at)
    BY <1>0
  <2> QED
    BY <1>6, <1>9, <2>1 DEF Went, Pulled
<1>11. ASSUME NEW d \in Candidates
       PROVE  Pulled(d)' <=> Pulled(d) \/ d = c
  <2>1. PICK i \in 1..Len(tables.probe) : \E j \in Partners(i) : d = <<i, j>>
    BY <1>1, CandidatesJoined
  <2>2. PICK j \in Partners(i) : d = <<i, j>>
    BY <2>1
  <2>3. /\ Rank(d) \in 1..Cardinality(Partners(i))
        /\ Cardinality(Partners(i)) \in Nat
        /\ NthOf(Partners(i), Rank(d)) = j
    BY <1>1, <2>2, PlaceOfPartner
  <2>4. d[1] = i /\ Len(d) # 1
    BY <2>2
  <2>5. Pulled(d)' <=> (i < cursor \/ (i = cursor /\ Rank(d) <= at + 1))
    BY <1>0, <1>8, <2>4 DEF Pulled
  <2>6. Pulled(d) <=> (i < cursor \/ (i = cursor /\ Rank(d) <= at))
    BY <2>4 DEF Pulled
  <2>7. Rank(d) <= at + 1 <=> Rank(d) <= at \/ Rank(d) = at + 1
    BY <1>0, <2>3
  <2>8. i = cursor /\ Rank(d) = at + 1 <=> d = c
    BY <1>4, <1>5, <1>6, <2>2, <2>3
  <2> QED
    BY <2>5, <2>6, <2>7, <2>8
<1>12. Went' = Went \cup {c}
  BY <1>7, <1>8, <1>11 DEF Went
<1>13. StoppedAt(c)'
  BY <1>0, <1>6, <1>8, <1>9 DEF StoppedAt
<1>14. Content(c) = Joined(tables.probe[cursor], matches[at + 1])
  BY <1>2, <1>3, <1>4, <1>9 DEF Content
<1>15. Deliver(Content(c))
  BY <1>2, <1>14 DEF EmitStep
<1> QED
  BY <1>7, <1>10, <1>12, <1>13, <1>15 DEF OneMoreWent

(* When there is no row left, all candidates have been gone through.       *)
LEMMA AllWent ==
    ASSUME Fixed, SourceInv, AtEnd
    PROVE  Went = Candidates
<1> DEFINE P == Len(tables.probe)
<1>1. P \in Nat /\ cursor = P /\ at = Len(matches)
  BY Vectors DEF AtEnd
<1>2. CASE query.join = {}
  <2>1. Candidates = {<<i>> : i \in 1..P}
    BY <1>2 DEF Candidates
  <2>2. \A i \in 1..P : i < cursor \/ i = cursor
    BY <1>1
  <2>3. \A i \in 1..P : Pulled(<<i>>)
    BY <2>2 DEF Pulled
  <2> QED
    BY <2>1, <2>3 DEF Went
<1>3. CASE query.join # {}
  <2>1. ASSUME NEW c \in Candidates PROVE Pulled(c)
    <3>1. PICK i \in 1..Len(tables.probe) : \E j \in Partners(i) : c = <<i, j>>
      BY <1>3, CandidatesJoined
    <3>2. PICK j \in Partners(i) : c = <<i, j>>
      BY <3>1
    <3>3. /\ Rank(c) \in 1..Cardinality(Partners(i))
          /\ Cardinality(Partners(i)) \in Nat
      BY <1>3, <3>2, PlaceOfPartner
    <3>4. i < cursor \/ (i = cursor /\ cursor > 0)
      BY <1>1
    <3>5. c[1] = i
      BY <3>2
    <3>6. i = cursor /\ cursor > 0 => Rank(c) <= at
      <4> SUFFICES ASSUME i = cursor, cursor > 0 PROVE Rank(c) <= at
        OBVIOUS
      <4>1. Len(matches) = Cardinality(Partners(cursor)) \/ Cardinality(Partners(cursor)) = 0
        BY <1>3, MatchesAtHand
      <4> QED
        BY <1>1, <3>3, <4>1
    <3> QED
      BY <3>4, <3>5, <3>6 DEF Pulled
  <2> QED
    BY <2>1 DEF Went
<1> QED
  BY <1>2, <1>3

------------------------------------------------------------------------------
(* The steps keep the invariant.                                           *)

LEMMA InitInv == Init => QueryInv
<1> SUFFICES ASSUME Init PROVE QueryInv
  OBVIOUS
<1>1. Fixed
  BY TablesAssumption, QueryAssumption DEF Init, Fixed
<1>2. Len(tables.probe) \in Nat
  BY <1>1, Vectors
<1>3. SourceInv
  BY <1>2 DEF Init, SourceInv
<1>5. Found = {}
  <2>1. cursor = 0
    BY DEF Init
  <2> QED
    BY <1>1, <2>1, FirstIsPositive DEF Found, Pulled, Answer
<1>6. Len(<<>>) = 0 /\ 1..0 = {}
  OBVIOUS
<1>7. results = <<>> /\ buffered = <<>> /\ Collected = <<>>
  BY DEF Init, Collected
<1>8. AccountedFor(Collected, Found)
  <2> DEFINE W == [i \in 1..Len(Collected) |-> i]
  <2>1. 1..Len(Collected) = {}
    BY <1>6, <1>7
  <2>2. W \in [1..Len(Collected) -> Found]
    BY <2>1
  <2>3. Accounts(W, Collected, Found)
    BY <1>5, <2>1, <2>2 DEF Accounts
  <2> QED
    BY <2>2, <2>3 DEF AccountedFor
<1>9. OutputInv
  <2>1. phase = "new"
    BY DEF Init
  <2>2. results \in Seq(AnswerRows) /\ buffered \in Seq(AnswerRows)
    BY <1>7
  <2> QED
    BY <1>7, <1>8, <2>1, <2>2 DEF OutputInv
<1>10. LimitInv
  <2>1. \A n \in query.limit : n \in Nat
    BY <1>1 DEF Fixed, IsQuery
  <2>2. phase = "new" /\ cursor = 0
    BY DEF Init
  <2>3. \A n \in query.limit : Len(results) <= n
    BY <1>6, <1>7, <2>1
  <2> QED
    BY <1>7, <2>2, <2>3 DEF LimitInv
<1> QED
  BY <1>1, <1>3, <1>9, <1>10 DEF QueryInv

(* The tables and the plan are never written.                              *)
LEMMA FixedKept ==
    ASSUME Fixed, [Next]_vars
    PROVE  Fixed' /\ Undisturbed
<1>1. Undisturbed
  BY DEF Next, vars, Undisturbed, Open, ScanStep, ProbeStep, EmitStep, SortRows, ServeStep,
         Close, Returned
<1> QED
  BY <1>1 DEF Fixed, Undisturbed

LEMMA SourceKept ==
    ASSUME Fixed, SourceInv, [Next]_vars
    PROVE  SourceInv'
<1> DEFINE P == Len(tables.probe)
<1>0. /\ P \in Nat /\ Len(matches) \in Nat /\ cursor \in 0..P /\ at \in 0..Len(matches)
      /\ phase \in {"new", "pull", "serve", "done"}
      /\ Undisturbed
  BY Vectors, FixedKept DEF SourceInv
<1>1. \A row : Bucket(row)' = Bucket(row)
  BY <1>0 DEF Bucket, Hits, Scanned, Undisturbed
<1>2. CASE Open
  <2>1. Len(<<>>) = 0
    OBVIOUS
  <2> QED
    BY <1>0, <1>2, <2>1 DEF Open, SourceInv, Undisturbed
<1>3. CASE ScanStep
  <2>1. cursor + 1 \in 0..P
    BY <1>0, <1>3 DEF ScanStep
  <2> QED
    BY <1>0, <1>3, <2>1 DEF ScanStep, CursorAfter, Pulling, SourceInv, Undisturbed
<1>4. CASE ProbeStep
  <2>1. cursor + 1 \in 1..P /\ cursor + 1 > 0 /\ cursor + 1 # 0 /\ cursor + 1 \in 0..P
    BY <1>0, <1>4 DEF ProbeStep
  <2>2. /\ phase' = "pull" /\ cursor' = cursor + 1 /\ query.join # {}
        /\ tables' = tables /\ query' = query /\ at = Len(matches)
        /\ Probed(tables.probe[cursor + 1])
    BY <1>4 DEF ProbeStep, Pulling
  <2>3. Bucket(tables.probe[cursor])' = Bucket(tables.probe[cursor + 1])
    BY <1>1, <2>2
  <2>4. CASE Bucket(tables.probe[cursor + 1]) # <<>>
    <3>1. /\ probeRow' = tables.probe[cursor + 1] /\ at' = 0
          /\ matches' = Bucket(tables.probe[cursor + 1])
      BY <2>2, <2>4, AllScanned DEF Probed
    <3>2. Len(matches') \in Nat
      BY <2>1, <2>2, <3>1, Bucketed, PlaceOfPartner
    <3>3. AtHit'
      BY <2>2, <2>3, <3>1 DEF AtHit
    <3>4. at' \in 0..Len(matches')
      BY <3>1, <3>2
    <3> QED
      BY <2>1, <2>2, <3>2, <3>3, <3>4 DEF SourceInv
  <2>5. CASE Bucket(tables.probe[cursor + 1]) = <<>>
    <3>1. matches' = matches /\ at' = at
      BY <2>2, <2>5 DEF Probed
    <3>2. AtMiss'
      BY <2>2, <2>3, <2>5, <3>1 DEF AtMiss
    <3> QED
      BY <1>0, <2>1, <2>2, <3>1, <3>2 DEF SourceInv
  <2> QED
    BY <2>4, <2>5
<1>5. CASE EmitStep
  <2>1. at + 1 \in 0..Len(matches)
    BY <1>0, <1>5 DEF EmitStep
  <2>2. /\ phase' = phase /\ phase = "pull" /\ cursor' = cursor /\ at' = at + 1 /\ matches' = matches
        /\ tables' = tables /\ query' = query /\ probeRow' = probeRow
        /\ at # Len(matches)
    BY <1>0, <1>5 DEF EmitStep, Pulling
  <2>3. Bucket(tables.probe[cursor])' = Bucket(tables.probe[cursor])
    BY <1>1, <2>2
  <2>4. query.join # {} /\ cursor > 0 => AtHit'
    BY <2>2, <2>3 DEF SourceInv, AtHit, AtMiss
  <2> QED
    BY <1>0, <2>1, <2>2, <2>4 DEF SourceInv
<1>6. CASE SortRows \/ ServeStep \/ Close \/ Returned \/ UNCHANGED vars
  <2>1. /\ cursor' = cursor /\ at' = at /\ matches' = matches /\ probeRow' = probeRow
        /\ tables' = tables /\ query' = query
        /\ phase' \in {"serve", "done"} \/ phase' = phase
    BY <1>6 DEF SortRows, ServeStep, Close, Returned, vars
  <2>2. Bucket(tables.probe[cursor])' = Bucket(tables.probe[cursor])
    BY <1>1, <2>1
  <2>3. AtHit \/ AtMiss => AtHit' \/ AtMiss'
    BY <2>1, <2>2 DEF AtHit, AtMiss
  <2> QED
    BY <1>0, <2>1, <2>2, <2>3 DEF SourceInv
<1> QED
  BY <1>2, <1>3, <1>4, <1>5, <1>6 DEF Next

(* The rows are put into another order: each is still accounted for.       *)
LEMMA AccountsSorted ==
    ASSUME NEW S, NEW out \in Seq(S), NEW P, AccountedFor(out, P), NEW rows \in Orders(out)
    PROVE  /\ rows \in Seq(S) /\ Len(rows) = Len(out)
           /\ AccountedFor(rows, P)
           /\ Sorted(rows)
<1> DEFINE n == Len(out)
<1>1. n \in Nat /\ \A i \in 1..n : out[i] \in S
  BY LenProperties, ElementOfSeq
<1>2. PICK p \in [1..n -> 1..n] :
        /\ rows = [i \in 1..n |-> out[p[i]]]
        /\ \A i, j \in 1..n : p[i] = p[j] => i = j
        /\ \A i, j \in 1..n : i < j => ~Less(out[p[j]], out[p[i]])
  BY DEF Orders
<1>3. PICK W \in [1..n -> P] : Accounts(W, out, P)
  BY DEF AccountedFor
<1>4. \A k \in 1..n : \E i \in 1..n : p[i] = k
  <2>1. p \in Injection(1..n, 1..n)
    BY <1>2 DEF Injection, IsInjective
  <2>2. IsFiniteSet(1..n)
    BY <1>1, Interval
  <2>3. p \in Surjection(1..n, 1..n)
    BY <2>1, <2>2, FS_Injection
  <2> QED
    BY <2>3 DEF Surjection
<1>5. rows \in Seq(S) /\ Len(rows) = n
  <2>1. rows \in [1..n -> S]
    BY <1>1, <1>2
  <2> QED
    BY <1>1, <2>1
<1> DEFINE V == [i \in 1..n |-> W[p[i]]]
<1>6. V \in [1..n -> P]
  BY <1>2
<1>7. \A i, j \in 1..n : V[i] = V[j] => i = j
  BY <1>2, <1>3 DEF Accounts
<1>8. \A c \in P : \E i \in 1..n : V[i] = c
  <2> TAKE c \in P
  <2>1. PICK k \in 1..n : W[k] = c
    BY <1>3 DEF Accounts
  <2>2. PICK i \in 1..n : p[i] = k
    BY <1>4
  <2> QED
    BY <2>1, <2>2
<1>9. \A i \in 1..n : rows[i] = Projected(Content(V[i]))
  BY <1>2, <1>3 DEF Accounts
<1>10. AccountedFor(rows, P)
  <2> HIDE DEF V, n
  <2>1. V \in [1..Len(rows) -> P]
    BY <1>5, <1>6
  <2>2. Accounts(V, rows, P)
    BY <1>5, <1>6, <1>7, <1>8, <1>9 DEF Accounts
  <2> QED
    BY <2>1, <2>2 DEF AccountedFor
<1>11. Sorted(rows)
  BY <1>2, <1>5 DEF Sorted
<1> QED
  BY <1>5, <1>10, <1>11

(* What is accounted for stays so while the tables and the plan stay.      *)
LEMMA AccountsStay ==
    ASSUME Undisturbed, NEW out, NEW P
    PROVE  /\ AccountedFor(out, P)' <=> AccountedFor(out, P)
           /\ Sorted(out)' <=> Sorted(out)
<1>1. \A c : Projected(Content(c))' = Projected(Content(c))
  <2>1. \A c : Content(c)' = Content(c)
    BY Stay
  <2>2. \A row : Projected(row)' = Projected(row)
    BY Stay
  <2> QED
    BY <2>1, <2>2
<1>2. \A a, b : Less(a, b)' <=> Less(a, b)
  BY Stay
<1> QED
  BY <1>1, <1>2 DEF AccountedFor, Accounts, Sorted

(* A row that comes from the source is dropped, or collected with the      *)
(* candidate it is made of.                                                *)
LEMMA DeliverKeeps ==
    ASSUME Fixed, OutputInv, Undisturbed, phase = "pull", phase' = "pull",
           NEW c, OneMoreWent(c)
    PROVE  OutputInv'
<1>0. /\ Candidates' = Candidates /\ Answer' = Answer /\ AnswerRows' = AnswerRows
      /\ Sorts' <=> Sorts
  BY Stay
<1>1. c \in Answer <=> Passes(Content(c))
  BY DEF OneMoreWent, Answer
<1>2. \A d \in Answer : d \in Found' <=> d \in Found \/ d = c
  <2>1. \A d \in Answer : d \in Candidates
    BY DEF Answer
  <2>2. \A d \in Candidates : d \in Went' <=> d \in Went \/ d = c
    BY DEF OneMoreWent
  <2>3. \A d \in Answer : d \in Found <=> d \in Went
    BY <2>1 DEF Found, Went
  <2>4. \A d \in Answer : d \in Found' <=> d \in Went'
    BY <1>0, <2>1 DEF Found, Went
  <2> QED
    BY <2>1, <2>2, <2>3, <2>4
<1>3. Found \subseteq Answer /\ Found' \subseteq Answer
  BY <1>0 DEF Found
<1>4. c \notin Found
  BY DEF OneMoreWent, Found, Went, Answer
<1>5. Deliver(Content(c))
  BY DEF OneMoreWent
<1>6. Collected \in Seq(AnswerRows) /\ AccountedFor(Collected, Found)
  BY DEF OutputInv, Collected
<1>7. /\ results \in Seq(AnswerRows) /\ buffered \in Seq(AnswerRows)
      /\ Sorts => results = <<>>
      /\ ~Sorts => buffered = <<>>
  BY DEF OutputInv
<1>8. CASE ~Passes(Content(c))
  <2>1. results' = results /\ buffered' = buffered /\ Collected' = Collected
    BY <1>0, <1>5, <1>8 DEF Deliver, Collected
  <2>2. Found' = Found
    BY <1>1, <1>2, <1>3, <1>8
  <2>3. AccountedFor(Collected, Found)'
    <3>1. PICK out, P : out = Collected /\ P = Found
      OBVIOUS
    <3>2. AccountedFor(out, P)'
      BY <1>6, <3>1, AccountsStay
    <3> QED
      BY <2>1, <2>2, <3>1, <3>2
  <2> QED
    BY <1>0, <1>7, <2>1, <2>3 DEF OutputInv
<1>9. CASE Passes(Content(c))
  <2>0. PICK row : row = Projected(Content(c))
    OBVIOUS
  <2>1. row \in AnswerRows
    BY <1>1, <1>9, <2>0 DEF AnswerRows
  <2>2. Found' = Found \cup {c}
    BY <1>1, <1>2, <1>3, <1>9
  <2>3. /\ Collected' = Append(Collected, row)
        /\ Sorts => results' = results /\ buffered' = Append(buffered, row)
        /\ ~Sorts => buffered' = buffered /\ results' = Append(results, row)
    BY <1>0, <1>5, <1>9, <2>0 DEF Deliver, Collected
  <2>4. AccountedFor(Append(Collected, row), Found \cup {c})
    <3>0. PICK out \in Seq(AnswerRows) : out = Collected
      BY <1>6
    <3>1. PICK P : P = Found
      OBVIOUS
    <3>2. PICK W : Accounts(W, out, P)
      BY <1>6, <3>0, <3>1 DEF AccountedFor
    <3> QED
      BY <1>4, <2>0, <2>1, <3>0, <3>1, <3>2, AccountsMore
  <2>5. AccountedFor(Collected, Found)'
    <3>1. PICK out, P : out = Append(Collected, row) /\ P = Found \cup {c}
      OBVIOUS
    <3>2. AccountedFor(out, P)'
      BY <2>4, <3>1, AccountsStay
    <3> QED
      BY <2>2, <2>3, <3>1, <3>2
  <2>6. results' \in Seq(AnswerRows) /\ buffered' \in Seq(AnswerRows)
    <3>1. \A s \in Seq(AnswerRows) : Append(s, row) \in Seq(AnswerRows)
      BY <2>1, AppendProperties
    <3> QED
      BY <1>0, <1>7, <2>3, <3>1
  <2> QED
    BY <1>0, <1>7, <2>3, <2>5, <2>6 DEF OutputInv
<1> QED
  BY <1>8, <1>9

LEMMA OutputKept ==
    ASSUME Fixed, SourceInv, OutputInv, [Next]_vars
    PROVE  OutputInv'
<1>0. /\ Undisturbed /\ Answer' = Answer /\ Candidates' = Candidates
      /\ AnswerRows' = AnswerRows /\ (Sorts' <=> Sorts)
  BY FixedKept, Stay
<1>1. /\ results \in Seq(AnswerRows) /\ buffered \in Seq(AnswerRows)
      /\ phase \in {"new", "pull"} \/ ~Sorts => AccountedFor(Collected, Found)
      /\ phase \in {"new", "pull"} /\ Sorts => results = <<>>
      /\ ~Sorts => buffered = <<>> /\ phase # "serve"
  BY DEF OutputInv
<1>2. Found \subseteq Answer
  BY DEF Found
<1>3. ASSUME Found' = Found, results' = results, buffered' = buffered,
             phase \in {"new", "pull"} \/ ~Sorts
      PROVE  AccountedFor(Collected, Found)'
  <2>1. Collected' = Collected
    BY <1>0, <1>3 DEF Collected
  <2>2. PICK out, P : out = Collected /\ P = Found
    OBVIOUS
  <2>3. AccountedFor(out, P)'
    BY <1>0, <1>1, <1>3, <2>2, AccountsStay
  <2> QED
    BY <1>3, <2>1, <2>2, <2>3
<1>4. CASE Open
  <2>1. cursor = 0 /\ cursor' = 0 /\ results' = results /\ buffered' = buffered
    BY <1>4 DEF Open, SourceInv, OutputInv
  <2>2. \A c \in Answer : c \notin Found /\ c \notin Found'
    <3>1. \A c \in Answer : c \in Candidates
      BY DEF Answer
    <3>2. \A c \in Candidates : c[1] # 0 /\ ~(c[1] < 0)
      BY FirstIsPositive
    <3> QED
      BY <2>1, <3>1, <3>2 DEF Found, Pulled
  <2>3. Found' = Found
    BY <1>0, <2>2 DEF Found
  <2>4. AccountedFor(Collected, Found)'
    BY <1>3, <1>4, <2>1, <2>3 DEF Open
  <2> QED
    BY <1>0, <1>1, <1>4, <2>1, <2>4 DEF Open, OutputInv
<1>5. CASE ScanStep
  <2>1. PICK c : OneMoreWent(c)
    BY <1>5, ScanAdds
  <2>2. phase = "pull" /\ phase' = "pull"
    BY <1>5 DEF ScanStep, Pulling
  <2> QED
    BY <1>0, <2>1, <2>2, DeliverKeeps
<1>6. CASE EmitStep
  <2>1. PICK c : OneMoreWent(c)
    BY <1>6, EmitAdds
  <2>2. phase = "pull" /\ phase' = "pull"
    BY <1>6 DEF EmitStep, Pulling
  <2> QED
    BY <1>0, <2>1, <2>2, DeliverKeeps
<1>7. CASE ProbeStep
  <2>1. Went' = Went
    BY <1>7, ProbeAdds
  <2>2. Found = Answer \cap Went
    BY DEF Found, Went, Answer
  <2>3. Found' = (Answer \cap Went)'
    BY DEF Found, Went, Answer
  <2>4. Found' = Found
    BY <1>0, <2>1, <2>2, <2>3
  <2>5. phase = "pull" /\ phase' = "pull" /\ results' = results /\ buffered' = buffered
    BY <1>7 DEF ProbeStep, Pulling
  <2>6. AccountedFor(Collected, Found)'
    BY <1>3, <2>4, <2>5
  <2> QED
    BY <1>0, <1>1, <2>5, <2>6 DEF OutputInv
<1>8. CASE SortRows
  <2>0. /\ Sorts /\ phase = "pull" /\ phase' = "serve" /\ results' = results
        /\ AtEnd /\ buffered' \in Orders(buffered)
    BY <1>8 DEF SortRows, Pulling
  <2>1. Found = Answer
    <3>1. Went = Candidates
      BY <2>0, AllWent
    <3> QED
      BY <3>1 DEF Found, Went, Answer
  <2>2. PICK out \in Seq(AnswerRows) : out = buffered
    BY <1>1
  <2>3. PICK P : P = Answer
    OBVIOUS
  <2>4. AccountedFor(out, P)
    BY <1>1, <2>0, <2>1, <2>2, <2>3 DEF Collected
  <2>5. PICK rows \in Orders(out) : rows = buffered'
    BY <2>0, <2>2
  <2>6. rows \in Seq(AnswerRows) /\ AccountedFor(rows, P) /\ Sorted(rows)
    BY <2>4, AccountsSorted
  <2>7. AccountedFor(rows, P)' /\ Sorted(rows)'
    BY <1>0, <2>6, AccountsStay
  <2>8. AccountedFor(buffered, Answer)' /\ Sorted(buffered)'
    BY <1>0, <2>3, <2>5, <2>7
  <2>9. results' = <<>> /\ results' \in Seq(AnswerRows)
    BY <1>1, <2>0
  <2>10. Len(results') = 0 /\ Len(results') <= Len(buffered') /\ 1..0 = {}
    <3>1. Len(rows) \in Nat
      BY <2>6, LenProperties
    <3>2. Len(<<>>) = 0
      OBVIOUS
    <3> QED
      BY <2>5, <2>9, <3>1, <3>2
  <2>11. \A i \in 1..Len(results') : results'[i] = buffered'[i]
    BY <2>10
  <2> QED
    BY <1>0, <2>0, <2>5, <2>6, <2>8, <2>9, <2>10, <2>11 DEF OutputInv
<1>9. CASE ServeStep
  <2> DEFINE n == Len(results)
             row == buffered[n + 1]
  <2>0. /\ phase = "serve" /\ phase' = "serve" /\ buffered' = buffered
        /\ n < Len(buffered) /\ results' = Append(results, row)
    BY <1>9 DEF ServeStep
  <2>1. /\ Sorts /\ AccountedFor(buffered, Answer) /\ Sorted(buffered)
        /\ \A i \in 1..n : results[i] = buffered[i]
    BY <2>0 DEF OutputInv
  <2>2. n \in Nat /\ Len(buffered) \in Nat
    BY <1>1, LenProperties
  <2>3. n + 1 \in 1..Len(buffered)
    BY <2>0, <2>2
  <2>4. row \in AnswerRows
    BY <1>1, <2>3, ElementOfSeq
  <2> HIDE DEF row
  <2>5. /\ results' \in Seq(AnswerRows) /\ Len(results') = n + 1
        /\ \A i \in 1..n : results'[i] = results[i]
        /\ results'[n + 1] = row
    BY <1>1, <2>0, <2>4, AppendProperties
  <2>6. \A i \in 1..(n + 1) : results'[i] = buffered[i]
    <3>1. \A i \in 1..(n + 1) : i = n + 1 \/ i \in 1..n
      BY <2>2
    <3> QED
      BY <2>1, <2>5, <3>1 DEF row
  <2>7. AccountedFor(buffered, Answer)' /\ Sorted(buffered)'
    <3>1. PICK out, P : out = buffered /\ P = Answer
      OBVIOUS
    <3>2. AccountedFor(out, P)' /\ Sorted(out)'
      BY <1>0, <2>1, <3>1, AccountsStay
    <3> QED
      BY <1>0, <2>0, <3>1, <3>2
  <2>8. Len(results') <= Len(buffered')
    BY <2>0, <2>2, <2>5
  <2> HIDE DEF n
  <2> QED
    BY <1>0, <1>1, <2>0, <2>1, <2>5, <2>6, <2>7, <2>8 DEF OutputInv
<1>10. CASE Close \/ Returned \/ UNCHANGED vars
  <2>0. /\ results' = results /\ buffered' = buffered /\ cursor' = cursor /\ at' = at
        /\ \/ phase' = phase
           \/ phase' = "done" /\ phase = "pull" /\ ~Sorts
           \/ phase' = "done" /\ phase = "serve"
    BY <1>10 DEF Close, Returned, vars
  <2>1. Found' = Found
    <3>1. \A c : Rank(c)' = Rank(c)
      BY <1>0, Stay
    <3>2. \A c : Pulled(c)' <=> Pulled(c)
      BY <2>0, <3>1 DEF Pulled
    <3> QED
      BY <1>0, <3>2 DEF Found
  <2>2. phase \in {"new", "pull"} \/ ~Sorts => AccountedFor(Collected, Found)'
    BY <1>3, <2>0, <2>1
  <2>3. phase \in {"serve", "done"} /\ Sorts => AccountedFor(buffered, Answer)' /\ Sorted(buffered)'
    <3> SUFFICES ASSUME phase \in {"serve", "done"}, Sorts
                 PROVE  AccountedFor(buffered, Answer)' /\ Sorted(buffered)'
      OBVIOUS
    <3>1. PICK out, P : out = buffered /\ P = Answer
      OBVIOUS
    <3>2. AccountedFor(out, P)' /\ Sorted(out)'
      BY <1>0, <3>1, AccountsStay DEF OutputInv
    <3> QED
      BY <1>0, <2>0, <3>1, <3>2
  <2>4. phase \in {"new", "pull", "serve", "done"}
    BY DEF SourceInv
  <2> QED
    BY <1>0, <1>1, <2>0, <2>2, <2>3, <2>4 DEF OutputInv
<1> QED
  BY <1>4, <1>5, <1>6, <1>7, <1>8, <1>9, <1>10 DEF Next

(* A row delivered below the limit does not pass it, and when it reaches   *)
(* the limit the source has just gone through the candidate it is made of. *)
LEMMA LimitDelivered ==
    ASSUME Fixed, OutputInv, LimitInv, Undisturbed, Pulling, phase' = phase,
           NEW c, OneMoreWent(c)
    PROVE  LimitInv'
<1>0. /\ Answer' = Answer /\ Candidates' = Candidates /\ (Sorts' <=> Sorts)
      /\ phase = "pull" /\ phase' = "pull" /\ query' = query
  BY Stay DEF Pulling, Undisturbed
<1>1. \A n \in query.limit : n \in Nat /\ Len(results) <= n
  BY DEF LimitInv, Fixed, IsQuery
<1>2. results \in Seq(AnswerRows) /\ Len(results) \in Nat
  BY LenProperties DEF OutputInv
<1>3. Deliver(Content(c)) /\ Went' = Went \cup {c} /\ StoppedAt(c)' /\ c \in Candidates
  BY DEF OneMoreWent
<1>4. CASE results' = results
  <2>1. ~Sorts => ~LimitReached'
    BY <1>0, <1>4 DEF Pulling, LimitReached
  <2> QED
    BY <1>0, <1>1, <1>4, <2>1 DEF LimitInv
<1>5. CASE results' # results
  <2>1. /\ ~Sorts /\ Passes(Content(c))
        /\ results' = Append(results, Projected(Content(c)))
    BY <1>3, <1>5 DEF Deliver
  <2>2. PICK row : row = Projected(Content(c))
    OBVIOUS
  <2>3. c \in Answer
    BY <1>3, <2>1 DEF Answer
  <2>4. row \in AnswerRows
    BY <2>2, <2>3 DEF AnswerRows
  <2>5. Len(results') = Len(results) + 1
    BY <1>2, <2>1, <2>2, <2>4, AppendProperties
  <2>6. \A n \in query.limit : Len(results') <= n
    <3> TAKE n \in query.limit
    <3>1. ~(Len(results) >= n)
      BY <2>1 DEF Pulling, LimitReached
    <3> QED
      BY <1>1, <1>2, <2>5, <3>1
  <2>7. results' # <<>>
    <3> SUFFICES ASSUME results' = <<>> PROVE FALSE
      OBVIOUS
    <3>1. Len(results') = 0
      OBVIOUS
    <3> QED
      BY <1>2, <2>5, <3>1
  <2>8. c \in Found'
    <3>1. c \in Went'
      BY <1>3
    <3> QED
      BY <1>0, <2>3, <3>1 DEF Found, Went
  <2> QED
    BY <1>0, <1>3, <2>6, <2>7, <2>8 DEF LimitInv
<1> QED
  BY <1>4, <1>5

LEMMA LimitKept ==
    ASSUME Fixed, SourceInv, OutputInv, LimitInv, [Next]_vars
    PROVE  LimitInv'
<1>0. /\ Undisturbed /\ Answer' = Answer /\ Candidates' = Candidates
      /\ (Sorts' <=> Sorts) /\ query' = query /\ tables' = tables
  BY FixedKept, Stay DEF Undisturbed
<1>1. \A n \in query.limit : n \in Nat /\ Len(results) <= n
  BY DEF LimitInv, Fixed, IsQuery
<1>2. results \in Seq(AnswerRows) /\ Len(results) \in Nat
  BY LenProperties DEF OutputInv
<1>3. CASE Open
  BY <1>0, <1>1, <1>3 DEF Open, OutputInv, LimitInv
<1>4. CASE ScanStep
  <2>1. PICK c : OneMoreWent(c)
    BY <1>4, ScanAdds
  <2> QED
    BY <1>0, <1>4, <2>1, LimitDelivered DEF ScanStep
<1>5. CASE EmitStep
  <2>1. PICK c : OneMoreWent(c)
    BY <1>5, EmitAdds
  <2> QED
    BY <1>0, <1>5, <2>1, LimitDelivered DEF EmitStep
<1>6. CASE ProbeStep
  <2>1. results' = results /\ phase' = "pull"
    BY <1>6 DEF ProbeStep, Pulling
  <2>2. ~Sorts => ~LimitReached'
    BY <1>0, <1>6, <2>1 DEF ProbeStep, Pulling, LimitReached
  <2> QED
    BY <1>0, <1>1, <2>1, <2>2 DEF LimitInv
<1>7. CASE SortRows
  BY <1>0, <1>1, <1>7 DEF SortRows, LimitInv
<1>8. CASE ServeStep
  <2>1. Sorts
    BY <1>8 DEF ServeStep, OutputInv
  <2>2. phase' = "serve" /\ Len(results') = Len(results) + 1
    <3>1. Len(results) < Len(buffered) /\ buffered \in Seq(AnswerRows) /\ Len(buffered) \in Nat
      BY <1>8, LenProperties DEF ServeStep, OutputInv
    <3>2. Len(results) + 1 \in 1..Len(buffered)
      BY <1>2, <3>1
    <3>3. PICK row \in AnswerRows : row = buffered[Len(results) + 1]
      BY <3>1, <3>2, ElementOfSeq
    <3>4. results' = Append(results, row) /\ phase' = "serve"
      BY <1>8, <3>3 DEF ServeStep
    <3> QED
      BY <1>2, <3>4, AppendProperties
  <2>3. \A n \in query.limit : Len(results') <= n
    <3> TAKE n \in query.limit
    <3>1. ~(Len(results) >= n)
      BY <1>8 DEF ServeStep, LimitReached
    <3> QED
      BY <1>1, <1>2, <2>2, <3>1
  <2> QED
    BY <1>0, <2>1, <2>2, <2>3 DEF LimitInv
<1>9. CASE Close \/ Returned \/ UNCHANGED vars
  <2>0. /\ results' = results /\ buffered' = buffered /\ cursor' = cursor /\ at' = at
        /\ matches' = matches
    BY <1>9 DEF Close, Returned, vars
  <2>1. \A c : Rank(c)' = Rank(c)
    BY <1>0, Stay
  <2>2. Found' = Found /\ \A c : StoppedAt(c)' <=> StoppedAt(c)
    <3>1. \A c : Pulled(c)' <=> Pulled(c)
      BY <2>0, <2>1 DEF Pulled
    <3>2. Found' = Found
      BY <1>0, <3>1 DEF Found
    <3> QED
      BY <2>0, <2>1, <3>2 DEF StoppedAt
  <2>3. (LimitReached' <=> LimitReached) /\ (AtEnd' <=> AtEnd)
    BY <1>0, <2>0 DEF LimitReached, AtEnd
  <2>4. phase' = "done" =>
          LimitReached \/ (IF Sorts THEN Len(results) = Len(buffered) ELSE AtEnd)
    <3>1. CASE Close
      BY <3>1 DEF Close, OutputInv
    <3>2. CASE Returned \/ UNCHANGED vars
      BY <3>2 DEF Returned, vars, LimitInv
    <3> QED
      BY <1>9, <3>1, <3>2
  <2>5. phase' = "done" =>
          LimitReached' \/ (IF Sorts' THEN Len(results') = Len(buffered') ELSE AtEnd')
    BY <1>0, <2>0, <2>3, <2>4
  <2>6. ~Sorts' /\ LimitReached' =>
          IF results' = <<>> THEN cursor' = 0 ELSE \E c \in Found' : StoppedAt(c)'
    BY <1>0, <2>0, <2>2, <2>3 DEF LimitInv
  <2> QED
    BY <1>0, <1>1, <2>0, <2>5, <2>6 DEF LimitInv
<1> QED
  BY <1>3, <1>4, <1>5, <1>6, <1>7, <1>8, <1>9 DEF Next

(* The invariant holds for any tables and any plan.                        *)
LEMMA InvHolds == Spec => []QueryInv
<1>1. QueryInv /\ [Next]_vars => QueryInv'
  BY FixedKept, SourceKept, OutputKept, LimitKept DEF QueryInv
<1> QED
  BY <1>1, InitInv, PTL DEF Spec

------------------------------------------------------------------------------
(* What follows when execute has returned.                                 *)

(* How many candidates a row can come from, and does: with a part W of the *)
(* account for the results only, and a row among those from k on.          *)
LEMMA GivenAsked ==
    ASSUME NEW n \in Nat, NEW W, NEW row, Len(results) = n, IsFiniteSet(Answer),
           \A i \in 1..n : W[i] \in Answer /\ results[i] = Projected(Content(W[i])),
           \A i, j \in 1..n : W[i] = W[j] => i = j
    PROVE  /\ Given(row) <= Asked(row)
           /\ Given(row) < Asked(row) =>
                \E c \in Answer : Projected(Content(c)) = row /\ \A i \in 1..n : W[i] # c
<1> DEFINE I == {i \in 1..n : results[i] = row}
           C == {c \in Answer : Projected(Content(c)) = row}
           f == [i \in I |-> W[i]]
<1>1. f \in Injection(I, C)
  <2>1. f \in [I -> C]
    OBVIOUS
  <2>2. \A i, j \in I : f[i] = f[j] => i = j
    OBVIOUS
  <2> HIDE DEF f, I, C
  <2> QED
    BY <2>1, <2>2 DEF Injection, IsInjective
<1>2. IsFiniteSet(C) /\ Cardinality(C) \in Nat
  <2>1. C \subseteq Answer
    OBVIOUS
  <2> HIDE DEF C
  <2> QED
    BY <2>1, FS_Subset, FS_CardinalityType
<1>3. /\ IsFiniteSet(I) /\ Cardinality(I) <= Cardinality(C)
      /\ Cardinality(I) = Cardinality(C) <=> f \in Surjection(I, C)
  <2> HIDE DEF f, I, C
  <2> QED
    BY <1>1, <1>2, FS_Injection
<1>4. Cardinality(I) \in Nat
  <2> HIDE DEF I
  <2> QED
    BY <1>3, FS_CardinalityType
<1>5. Given(row) = Cardinality(I) /\ Asked(row) = Cardinality(C)
  BY DEF Given, Asked
<1>6. ASSUME Cardinality(I) < Cardinality(C)
      PROVE  \E c \in C : \A i \in I : W[i] # c
  <2>1. f \notin Surjection(I, C)
    <3> HIDE DEF f, I, C
    <3> QED
      BY <1>2, <1>3, <1>4, <1>6
  <2>2. f \in [I -> C]
    OBVIOUS
  <2>3. \E c \in C : \A i \in I : f[i] # c
    <3> HIDE DEF f, I, C
    <3> QED
      BY <2>1, <2>2 DEF Surjection
  <2> QED
    BY <2>3
<1>7. \A c \in C : \A i \in 1..n : W[i] = c => i \in I
  OBVIOUS
<1> QED
  BY <1>3, <1>5, <1>6, <1>7

(* The account for the results, sorted or not.                             *)
LEMMA ResultsAccounted ==
    ASSUME QueryInv, phase = "done"
    PROVE  /\ Len(results) \in Nat
           /\ IsFiniteSet(Answer) /\ Cardinality(Answer) \in Nat
           /\ Len(results) <= Cardinality(Answer)
           /\ LimitReached \/ Len(results) = Cardinality(Answer)
           /\ Sorts => \E W \in [1..Len(buffered) -> Answer] : Accounts(W, buffered, Answer)
           /\ ~Sorts => \E W \in [1..Len(results) -> Found] : Accounts(W, results, Found)
<1>1. /\ results \in Seq(AnswerRows) /\ buffered \in Seq(AnswerRows)
      /\ Sorts => AccountedFor(buffered, Answer) /\ Len(results) <= Len(buffered)
      /\ ~Sorts => AccountedFor(results, Found)
      /\ LimitReached \/ (IF Sorts THEN Len(results) = Len(buffered) ELSE AtEnd)
  BY DEF QueryInv, OutputInv, LimitInv, Collected
<1>2. Len(results) \in Nat
  BY <1>1, LenProperties
<1>3. IsFiniteSet(Answer) /\ Cardinality(Answer) \in Nat
  BY CandidatesFinite, FS_CardinalityType DEF QueryInv
<1>4. CASE Sorts
  <2>1. PICK W \in [1..Len(buffered) -> Answer] : Accounts(W, buffered, Answer)
    BY <1>1, <1>4 DEF AccountedFor
  <2>2. Cardinality(Answer) = Len(buffered)
    BY <1>1, <2>1, AccountsCount
  <2> QED
    BY <1>1, <1>2, <1>3, <1>4, <2>1, <2>2
<1>5. CASE ~Sorts
  <2>1. PICK W \in [1..Len(results) -> Found] : Accounts(W, results, Found)
    BY <1>1, <1>5 DEF AccountedFor
  <2>2. Cardinality(Found) = Len(results)
    BY <1>1, <2>1, AccountsCount
  <2>3. Cardinality(Found) <= Cardinality(Answer)
    <3>1. Found \subseteq Answer
      BY DEF Found
    <3> QED
      BY <1>3, <3>1, FS_Subset
  <2>4. AtEnd => Found = Answer
    <3>1. AtEnd => Went = Candidates
      BY AllWent DEF QueryInv
    <3> QED
      BY <3>1 DEF Found, Went, Answer
  <2> QED
    BY <1>1, <1>2, <1>3, <1>5, <2>1, <2>2, <2>3, <2>4
<1> QED
  BY <1>4, <1>5

(* As many rows as the answer has, or the limit allows.                    *)
LEMMA CutAtLimit ==
    ASSUME QueryInv, phase = "done"
    PROVE  Len(results) = Min({Cardinality(Answer)} \cup query.limit)
<1> DEFINE n == Len(results)
           S == {Cardinality(Answer)} \cup query.limit
<1>1. /\ n \in Nat /\ Cardinality(Answer) \in Nat /\ n <= Cardinality(Answer)
      /\ LimitReached \/ n = Cardinality(Answer)
  BY ResultsAccounted
<1>2. \A m \in query.limit : m \in Nat /\ n <= m
  BY DEF QueryInv, Fixed, IsQuery, LimitInv
<1>3. n \in S
  <2>1. LimitReached => \E m \in query.limit : n >= m
    BY DEF LimitReached
  <2>2. \A m \in query.limit : n >= m => n = m
    BY <1>1, <1>2
  <2> QED
    BY <1>1, <2>1, <2>2
<1>4. \A m \in S : m \in Nat /\ n <= m
  BY <1>1, <1>2
<1> HIDE DEF n, S
<1>5. \A m \in S : (\A k \in S : m <= k) => m = n
  BY <1>1, <1>3, <1>4
<1>6. Min(S) = n
  BY <1>3, <1>4, <1>5 DEF Min
<1> QED
  BY <1>6 DEF n, S

(* When execute has returned, the rows are the relational answer.          *)
LEMMA AnswerFollows == QueryInv => AnswerRelational
<1> SUFFICES ASSUME QueryInv, phase = "done"
             PROVE  /\ ToSet(results) \subseteq AnswerRows
                    /\ \A row \in AnswerRows : Given(row) <= Asked(row)
                    /\ Len(results) = Min({Cardinality(Answer)} \cup query.limit)
                    /\ \A i, j \in 1..Len(results) : i < j => ~Less(results[j], results[i])
                    /\ \A row \in AnswerRows : Given(row) < Asked(row) =>
                         \A i \in 1..Len(results) : ~Less(row, results[i])
  BY DEF AnswerRelational, AnswerRows
<1> DEFINE n == Len(results)
<1>1. n \in Nat /\ IsFiniteSet(Answer)
  BY ResultsAccounted
<1>2. results \in Seq(AnswerRows)
  BY DEF QueryInv, OutputInv
<1>3. ToSet(results) \subseteq AnswerRows
  <2>1. \A i \in 1..n : results[i] \in AnswerRows
    BY <1>2, ElementOfSeq
  <2>2. DOMAIN results = 1..n
    BY <1>2, LenProperties
  <2> QED
    BY <2>1, <2>2 DEF ToSet
<1>4. n = Min({Cardinality(Answer)} \cup query.limit)
  BY CutAtLimit
<1>5. CASE ~Sorts
  <2>1. PICK W \in [1..n -> Found] : Accounts(W, results, Found)
    BY <1>5, ResultsAccounted
  <2>2. /\ \A i \in 1..n : W[i] \in Answer /\ results[i] = Projected(Content(W[i]))
        /\ \A i, j \in 1..n : W[i] = W[j] => i = j
    BY <2>1 DEF Accounts, Found
  <2>3. \A row : Given(row) <= Asked(row)
    BY <1>1, <2>2, GivenAsked
  <2>4. \A a, b : ~Less(a, b)
    <3>1. Len(query.orderBy) = 0 /\ 1..0 = {}
      BY <1>5 DEF Sorts
    <3> QED
      BY <3>1 DEF Less
  <2> QED
    BY <1>3, <1>4, <2>3, <2>4
<1>6. CASE Sorts
  <2>1. PICK W \in [1..Len(buffered) -> Answer] : Accounts(W, buffered, Answer)
    BY <1>6, ResultsAccounted
  <2>2. /\ n <= Len(buffered) /\ Len(buffered) \in Nat
        /\ \A i \in 1..n : results[i] = buffered[i]
        /\ \A i, j \in 1..Len(buffered) : i < j => ~Less(buffered[j], buffered[i])
    BY <1>6, LenProperties DEF QueryInv, OutputInv, Sorted
  <2>3. \A i \in 1..n : i \in 1..Len(buffered)
    BY <1>1, <2>2
  <2>4. /\ \A i \in 1..n : W[i] \in Answer /\ results[i] = Projected(Content(W[i]))
        /\ \A i, j \in 1..n : W[i] = W[j] => i = j
    BY <2>1, <2>2, <2>3 DEF Accounts
  <2>5. \A row : /\ Given(row) <= Asked(row)
                 /\ Given(row) < Asked(row) =>
                      \E c \in Answer : Projected(Content(c)) = row /\ \A i \in 1..n : W[i] # c
    BY <1>1, <2>4, GivenAsked
  <2>6. \A i, j \in 1..n : i < j => ~Less(results[j], results[i])
    BY <2>2, <2>3
  <2>7. ASSUME NEW row \in AnswerRows, Given(row) < Asked(row), NEW i \in 1..n
        PROVE  ~Less(row, results[i])
    <3>1. PICK c \in Answer : Projected(Content(c)) = row /\ \A j \in 1..n : W[j] # c
      BY <2>5, <2>7
    <3>2. PICK k \in 1..Len(buffered) : W[k] = c
      BY <2>1 DEF Accounts
    <3>3. buffered[k] = row
      BY <2>1, <3>1, <3>2 DEF Accounts
    <3>4. i < k
      <4>1. k \notin 1..n
        BY <3>1, <3>2
      <4> QED
        BY <1>1, <2>2, <4>1
    <3>5. ~Less(buffered[k], buffered[i])
      BY <2>2, <2>3, <3>4
    <3> QED
      BY <2>2, <3>3, <3>5
  <2> QED
    BY <1>3, <1>4, <2>5, <2>6, <2>7
<1> QED
  BY <1>5, <1>6

(* A SELECT returns the relational answer (the pipeline of                 *)
(* optimizer.cpp:19-48 pulled by executor.cpp:172-185): with every         *)
(* multiplicity, in the order asked for and cut at the limit, whatever the *)
(* tables, the clauses and the order std::sort leaves equal rows in.       *)
THEOREM AnswersAreRelational == Spec => []AnswerRelational
<1> QED
  BY InvHolds, AnswerFollows, PTL

(* Without ORDER BY the tables are read no further than the row that       *)
(* reaches the limit, and not at all for LIMIT 0 (limit.h:16-22, which     *)
(* does not ask its child again, and README.md:192).                       *)
THEOREM LimitStopsTheScan == Spec => []ScansJustEnough
<1>1. QueryInv => ScansJustEnough
  <2> SUFFICES ASSUME QueryInv, phase = "done", ~Sorts, NEW n \in query.limit
               PROVE  /\ Cardinality(Found) <= n
                      /\ Cardinality(Found) = n =>
                           IF n = 0 THEN cursor = 0 ELSE \E c \in Found : StoppedAt(c)
    BY DEF ScansJustEnough, Found
  <2>1. PICK W \in [1..Len(results) -> Found] : Accounts(W, results, Found)
    BY ResultsAccounted
  <2>2. results \in Seq(AnswerRows)
    BY DEF QueryInv, OutputInv
  <2>3. Cardinality(Found) = Len(results) /\ Len(results) \in Nat
    BY <2>1, <2>2, AccountsCount, LenProperties
  <2>4. n \in Nat /\ Len(results) <= n
    BY DEF QueryInv, Fixed, IsQuery, LimitInv
  <2>5. ASSUME Len(results) = n
        PROVE  IF n = 0 THEN cursor = 0 ELSE \E c \in Found : StoppedAt(c)
    <3>1. Len(results) >= n
      BY <2>4, <2>5
    <3>2. LimitReached
      BY <3>1 DEF LimitReached
    <3>3. IF results = <<>> THEN cursor = 0 ELSE \E c \in Found : StoppedAt(c)
      BY <3>2 DEF QueryInv, LimitInv
    <3>4. results = <<>> <=> n = 0
      BY <2>2, <2>5, EmptySeq
    <3> QED
      BY <3>3, <3>4
  <2> QED
    BY <2>3, <2>4, <2>5
<1> QED
  BY <1>1, InvHolds, PTL
==============================================================================
