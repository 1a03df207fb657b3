------------------------- MODULE CertificateDataProofs -------------------------
(***************************************************************************)
(* Proofs about CertificateData, for all documents and whatever is added   *)
(* to them.                                                                *)
(***************************************************************************)
EXTENDS CertificateData, FoldLemmas

-----------------------------------------------------------------------------
(* The table *)

Row(doc, extra, processed) ==
    [doc |-> doc, certificate |-> Certificate(doc, extra),
     id |-> GenerateCertificateId(Certificate(doc, extra)),
     meta |-> ExtractMetadata(Certificate(doc, extra)), processed |-> processed]

\* What a row can be: a document with what its submitter added, which the hash
\* got through, with the id and the metadata made of it.
StoredRows ==
    {Row(at[1], at[2], at[3]) :
       at \in {a \in Documents \X Extras \X BOOLEAN : Hashable(Certificate(a[1], a[2]))}}

IInv == rows \in Seq(StoredRows)

\* A document that hashes makes a row of the table.
LEMMA RowIsStored ==
    ASSUME NEW doc \in Documents, NEW extra \in Extras, NEW p \in BOOLEAN,
           Hashable(Certificate(doc, extra))
    PROVE  Row(doc, extra, p) \in StoredRows
<1> DEFINE at == <<doc, extra, p>>
<1>1. at \in Documents \X Extras \X BOOLEAN /\ at[1] = doc /\ at[2] = extra /\ at[3] = p
    OBVIOUS
<1> HIDE DEF at
<1> QED
    BY <1>1 DEF StoredRows

\* And a row of the table is made of such a document.
LEMMA StoredIsRow ==
    ASSUME NEW r \in StoredRows
    PROVE  \E doc \in Documents, extra \in Extras, p \in BOOLEAN :
              r = Row(doc, extra, p) /\ Hashable(Certificate(doc, extra))
<1>1. PICK a \in Documents \X Extras \X BOOLEAN :
         r = Row(a[1], a[2], a[3]) /\ Hashable(Certificate(a[1], a[2]))
    BY DEF StoredRows
<1>2. a[1] \in Documents /\ a[2] \in Extras /\ a[3] \in BOOLEAN
    BY <1>1
<1> QED
    BY <1>1, <1>2

\* A table keeps its type when a row is put behind it or in place of one.
LEMMA AppendTyped ==
    ASSUME NEW S, NEW s \in Seq(S), NEW e \in S
    PROVE  Append(s, e) \in Seq(S)
OBVIOUS

\* A sequence stays one over S when an element of S is put into it.
LEMMA ReplaceTyped ==
    ASSUME NEW S, NEW s \in Seq(S), NEW e \in S, NEW i \in DOMAIN s
    PROVE  [s EXCEPT ![i] = e] \in Seq(S)
OBVIOUS

\* A row whose flag is set is the row with the other flag.
LEMMA ProcessedAfter ==
    ASSUME NEW d, NEW c, NEW id, NEW m, NEW p, NEW q
    PROVE  [[doc |-> d, certificate |-> c, id |-> id, meta |-> m, processed |-> p]
              EXCEPT !.processed = q]
             = [doc |-> d, certificate |-> c, id |-> id, meta |-> m, processed |-> q]
<1> DEFINE Like == [doc : {d}, certificate : {c}, id : {id}, meta : {m}, processed : {q}]
<1>1. [[doc |-> d, certificate |-> c, id |-> id, meta |-> m, processed |-> p]
         EXCEPT !.processed = q] \in Like
    OBVIOUS
<1>2. ASSUME NEW r \in Like
      PROVE  r = [doc |-> d, certificate |-> c, id |-> id, meta |-> m, processed |-> q]
    OBVIOUS
<1> QED
    BY ONLY <1>1, <1>2

\* Every step keeps the table made of documents: Submit appends such a row, and
\* the scheduler changes a flag only.
LEMMA StepIInv == IInv /\ [Next]_vars => IInv'
<1> SUFFICES ASSUME IInv, [Next]_vars PROVE IInv'
    OBVIOUS
<1>1. ASSUME NEW doc \in Documents, NEW extra \in Extras, Submit(doc, extra)
      PROVE  IInv'
    <2>1. rows' = Append(rows, Row(doc, extra, FALSE)) /\ Hashable(Certificate(doc, extra))
        BY <1>1 DEF Submit, Row
    <2>2. Row(doc, extra, FALSE) \in StoredRows
        BY <2>1, RowIsStored
    <2> QED
        BY <2>1, <2>2, AppendTyped DEF IInv
<1>2. ASSUME NEW i \in DOMAIN rows, MarkProcessed(i)
      PROVE  IInv'
    <2>1. PICK doc \in Documents, extra \in Extras, p \in BOOLEAN :
             rows[i] = Row(doc, extra, p) /\ Hashable(Certificate(doc, extra))
        BY StoredIsRow DEF IInv
    <2>2. [rows[i] EXCEPT !.processed = TRUE] = Row(doc, extra, TRUE)
        <3> DEFINE c == Certificate(doc, extra)
                   id == GenerateCertificateId(c)
                   m == ExtractMetadata(c)
                   Of(q) == [doc |-> doc, certificate |-> c, id |-> id, meta |-> m,
                             processed |-> q]
                   yes == TRUE
        <3>1. rows[i] = Of(p) /\ Row(doc, extra, yes) = Of(yes)
            BY <2>1 DEF Row
        <3> HIDE DEF c, id, m, yes
        <3>2. [Of(p) EXCEPT !.processed = yes] = Of(yes)
            BY ProcessedAfter
        <3> HIDE DEF Of
        <3>3. [rows[i] EXCEPT !.processed = yes] = Row(doc, extra, yes)
            BY ONLY <3>1, <3>2
        <3> QED
            BY ONLY <3>3 DEF yes
    <2>3. [rows[i] EXCEPT !.processed = TRUE] \in StoredRows
        BY <2>1, <2>2, RowIsStored
    <2>4. rows' = [rows EXCEPT ![i] = [rows[i] EXCEPT !.processed = TRUE]]
        BY <1>2 DEF MarkProcessed
    <2> QED
        BY <2>3, <2>4, ReplaceTyped DEF IInv
<1>3. CASE UNCHANGED rows
    BY <1>3 DEF IInv
<1> QED
    BY <1>1, <1>2, <1>3 DEF Next, SubmitPanics, Boot, vars

\* Every reachable table is made of documents (StoreCertificate writes what
\* the handler hashed and extracted, and nothing else writes the blob).
LEMMA InvariantHolds == Spec => []IInv
<1>1. Init => IInv
    BY DEF Init, IInv
<1> QED
    BY <1>1, StepIInv, PTL DEF Spec

-----------------------------------------------------------------------------
(* Numbers *)

\* A multiple of u is so many times u, and leaves nothing.
LEMMA MultipleDivides ==
    ASSUME NEW u \in Nat \ {0}, NEW k \in Nat
    PROVE  /\ u * k \in Nat
           /\ (u * k) % u = 0 /\ (u * k) \div u = k
<1> DEFINE n == u * k
           q == n \div u
           r == n % u
<1>1. n \in Nat
    OBVIOUS
<1>2. q \in Int /\ r \in 0..(u - 1) /\ n = u * q + r
    BY <1>1
<1>3. u * (k - q) = r
    BY <1>2
<1>4. ~(k - q >= 1)
    <2>1. ASSUME k - q >= 1 PROVE u * (k - q) >= u
        BY <1>2, <2>1
    <2> QED
        BY <1>2, <1>3, <2>1
<1>5. ~(k - q <= -1)
    <2>1. ASSUME k - q <= -1 PROVE u * (k - q) <= -u
        BY <1>2, <2>1
    <2> QED
        BY <1>2, <1>3, <2>1
<1>6. k = q
    BY <1>2, <1>4, <1>5
<1>7. r = 0
    BY <1>3, <1>6
<1> QED
    BY <1>1, <1>6, <1>7

\* Every number up to Exact is a float64.
LEMMA SmallIsExact ==
    ASSUME NEW n \in Nat, n <= Exact
    PROVE  Float64(n) = n
<1>1. 1 \in Spacings /\ n % 1 = 0 /\ n \div 1 = n
    BY NumberAssumption
<1> QED
    BY <1>1 DEF Float64, IsFloat64

\* A number of 32 bits survives both conversions.
LEMMA WordSurvives ==
    ASSUME NEW n \in 0..(Word32 - 1)
    PROVE  Unsigned(Word32, Float64(n)) = n
<1>1. n \in Nat /\ n <= Exact /\ n < Word32
    BY NumberAssumption
<1> QED
    BY <1>1, SmallIsExact DEF Unsigned

\* What a number was rounded to is a float64, which is not rounded again.
LEMMA RoundedOnce ==
    ASSUME NEW n, InRange(n)
    PROVE  Float64(n) \in Nat /\ Float64(Float64(n)) = Float64(n)
<1>1. CASE IsFloat64(n)
    BY <1>1 DEF Float64, InRange
<1>2. CASE ~IsFloat64(n)
    <2> DEFINE u == CHOOSE v \in Spacings : Around(n, v)
               k == n \div u
               raised == 2 * (n % u) > u \/ (2 * (n % u) = u /\ k % 2 = 1)
               m == IF raised THEN k + 1 ELSE k
    <2>1. u \in Spacings /\ Around(n, u)
        BY <1>2 DEF InRange
    <2>2. Float64(n) = u * m
        BY <1>2 DEF Float64, Nearest
    <2> HIDE DEF u
    <2>3. u \in Nat \ {0} /\ Exact \in Nat
        BY <2>1, NumberAssumption
    <2>4. k \in Nat /\ k <= Exact - 1
        BY <2>1, <2>3 DEF Around
    <2> HIDE DEF k, raised
    <2>5. m \in Nat /\ m <= Exact
        BY <2>3, <2>4
    <2> HIDE DEF m
    <2>6. u * m \in Nat /\ (u * m) % u = 0 /\ (u * m) \div u = m
        BY <2>3, <2>5, MultipleDivides
    <2>7. IsFloat64(u * m)
        BY <2>1, <2>5, <2>6 DEF IsFloat64
    <2> QED
        BY <2>2, <2>6, <2>7 DEF Float64
<1> QED
    BY <1>1, <1>2

-----------------------------------------------------------------------------
(* Digits and the number they spell *)

\* The largest of 1..n, and what is left without it.
LEMMA MaxOfInterval ==
    ASSUME NEW n \in Nat, n > 0
    PROVE  Max(1..n) = n /\ (1..n) \ {n} = 1..(n - 1)
<1>1. n \in 1..n /\ \A y \in 1..n : n >= y
    OBVIOUS
<1>2. \A x \in 1..n : (\A y \in 1..n : x >= y) => x = n
    BY <1>1
<1>3. (1..n) \ {n} = 1..(n - 1)
    OBVIOUS
<1> QED
    BY ONLY <1>1, <1>2, <1>3 DEF Max

\* The number that digits spell, digit by digit.
LEMMA SpellsEquations ==
    ASSUME NEW s \in Seq(Int), NEW base \in Nat
    PROVE  \E g \in [0..Len(s) -> Int] :
              /\ g[0] = 0
              /\ \A i \in 1..Len(s) : g[i] = base * g[i - 1] + s[i]
              /\ Spells(base, s) = g[Len(s)]
<1> DEFINE n == Len(s)
           D == 1..n
           step == [x \in D |-> [v \in Int |-> base * v + s[x]]]
           pick == [t \in SUBSET D |-> Max(t)]
           Body(f) == [t \in SUBSET D |->
                         IF t = {} THEN 0 ELSE base * f[t \ {Max(t)}] + s[Max(t)]]
           h == CHOOSE f : f = Body(f)
           g == [i \in 0..n |-> h[1..i]]
<1>1. n \in Nat /\ IsFiniteSet(D) /\ \A i \in D : s[i] \in Int
    <2>1. n \in Nat /\ \A i \in D : s[i] \in Int
        BY ONLY s \in Seq(Int)
    <2>2. 1 \in Int /\ n \in Int
        BY ONLY <2>1
    <2>3. IsFiniteSet(D)
        BY ONLY <2>2, FS_Interval
    <2> QED
        BY ONLY <2>1, <2>3
<1>2. /\ \A t \in SUBSET D : t # {} => pick[t] \in t
      /\ \A t \in SUBSET D : pick[t] = Max(t)
      /\ \A x \in D : step[x] \in [Int -> Int]
      /\ \A x \in D, v \in Int : step[x][v] = base * v + s[x]
    <2>1. \A t \in SUBSET D : t # {} => Max(t) \in t
        BY ONLY <1>1, MaxIsMember
    <2> QED
        BY <1>1, <2>1
<1>3. \E f : f = Body(f)
    <2> HIDE DEF step, pick, D
    <2>1. PICK f : Folds(f, D, 0, step, pick)
        BY ONLY <1>1, <1>2, FoldExists
    <2>2. f \in [SUBSET D -> Int]
        BY ONLY <1>1, <1>2, <2>1, 0 \in Int, FoldTyped
    <2>3. ASSUME NEW t \in SUBSET D, t # {}
          PROVE  f[t] = base * f[t \ {Max(t)}] + s[Max(t)]
        <3>1. f[t] = step[pick[t]][f[t \ {pick[t]}]]
            BY <2>1, <2>3 DEF Folds
        <3>2. pick[t] = Max(t) /\ Max(t) \in D /\ f[t \ {Max(t)}] \in Int
            BY <1>2, <2>2, <2>3
        <3> QED
            BY ONLY <1>2, <3>1, <3>2
    <2>4. f = [t \in SUBSET D |-> f[t]] /\ f[{}] = 0
        BY <2>1, <2>2 DEF Folds
    <2>5. f = Body(f)
        BY ONLY <2>3, <2>4
    <2> HIDE DEF Body
    <2> QED
        BY <2>5
<1>4. h = Body(h)
    <2> HIDE DEF Body
    <2> QED
        BY <1>3
<1>5. Spells(base, s) = h[D]
    <2>1. DOMAIN s = D
        OBVIOUS
    <2> QED
        BY ONLY <2>1 DEF Spells, FoldLeft, MapThenFoldSet, D, Body, h
<1> HIDE DEF h
<1>6. h[{}] = 0 /\ \A t \in SUBSET D : t # {} => h[t] = base * h[t \ {Max(t)}] + s[Max(t)]
    BY <1>4
<1>7. g[0] = 0
    <2>1. 1..0 = {}
        OBVIOUS
    <2> QED
        BY <1>1, <1>6, <2>1
<1>8. ASSUME NEW i \in D PROVE g[i] = base * g[i - 1] + s[i]
    <2>1. 1..i \in SUBSET D /\ 1..i # {} /\ i \in Nat /\ i > 0
            /\ i \in 0..n /\ i - 1 \in 0..n
        <3>1. n \in Nat /\ i \in 1..n
            BY <1>1
        <3> HIDE DEF n, g
        <3>2. 1..i \subseteq 1..n /\ i \in 1..i
            BY ONLY <3>1
        <3>3. i \in Nat /\ i > 0 /\ i \in 0..n /\ i - 1 \in 0..n
            BY ONLY <3>1
        <3> QED
            BY ONLY <3>2, <3>3
    <2>2. Max(1..i) = i /\ (1..i) \ {i} = 1..(i - 1)
        BY ONLY <2>1, MaxOfInterval
    <2>3. h[1..i] = base * h[1..(i - 1)] + s[i]
        BY ONLY <1>6, <2>1, <2>2
    <2> QED
        BY ONLY <2>1, <2>3 DEF g
<1>9. g \in [0..n -> Int]
    <2> DEFINE Q == {i \in Nat : i <= n => g[i] \in Int}
    <2>1. 0 \in Q
        BY <1>7
    <2>2. ASSUME NEW i \in Nat, i \in Q PROVE i + 1 \in Q
        <3>1. CASE i + 1 <= n
            <4>1. i + 1 \in D /\ (i + 1) - 1 = i /\ g[i] \in Int /\ s[i + 1] \in Int
                BY <1>1, <2>2, <3>1
            <4>2. g[i + 1] = base * g[i] + s[i + 1]
                BY ONLY <1>8, <4>1
            <4> HIDE DEF g
            <4>3. g[i + 1] \in Int
                BY ONLY <4>1, <4>2, base \in Nat
            <4> QED
                BY <4>3
        <3>2. CASE ~(i + 1 <= n)
            BY <3>2
        <3> QED
            BY <3>1, <3>2
    <2>3. \A i \in Nat : i \in Q
        <3> HIDE DEF Q
        <3> QED
            BY ONLY <2>1, <2>2, NaturalInduction
    <2>4. \A i \in 0..n : g[i] \in Int
        <3>1. \A i \in 0..n : i \in Nat /\ i <= n
            BY ONLY <1>1
        <3> HIDE DEF g
        <3> QED
            BY <2>3, <3>1
    <2> QED
        BY ONLY <2>4 DEF g
<1>10. n \in 0..n /\ g[n] = h[D]
    BY <1>1
<1> HIDE DEF g
<1> QED
    BY <1>5, <1>7, <1>8, <1>9, <1>10

\* The number that four bytes spell.
LEMMA SpellsFour ==
    ASSUME NEW s \in Seq(Int), Len(s) = 4
    PROVE  Spells(256, s) = 256 * (256 * (256 * s[1] + s[2]) + s[3]) + s[4]
<1>1. PICK g \in [0..4 -> Int] :
         /\ g[0] = 0
         /\ \A i \in 1..4 : g[i] = 256 * g[i - 1] + s[i]
         /\ Spells(256, s) = g[4]
    <2>1. PICK g \in [0..Len(s) -> Int] :
             /\ g[0] = 0
             /\ \A i \in 1..Len(s) : g[i] = 256 * g[i - 1] + s[i]
             /\ Spells(256, s) = g[Len(s)]
        <3>1. 256 \in Nat
            OBVIOUS
        <3> QED
            BY <3>1, SpellsEquations, Zenon
    <2> QED
        BY <2>1, Zenon
<1>2. s[1] \in Int /\ s[2] \in Int /\ s[3] \in Int /\ s[4] \in Int
    <2>1. \A i \in 1..Len(s) : s[i] \in Int
        BY ONLY s \in Seq(Int)
    <2> QED
        BY ONLY <2>1, Len(s) = 4
<1>3. g[1] = s[1] /\ g[2] = 256 * g[1] + s[2] /\ g[3] = 256 * g[2] + s[3]
        /\ g[4] = 256 * g[3] + s[4]
    BY <1>1, <1>2
<1> QED
    BY ONLY <1>1, <1>2, <1>3

\* Leading zeros spell nothing.
LEMMA SpellsZeros ==
    ASSUME NEW s \in Seq(Int), NEW base \in Nat, NEW n \in Nat, Len(s) = n + 1,
           \A i \in 1..n : s[i] = 0
    PROVE  Spells(base, s) = s[n + 1]
<1>1. PICK g \in [0..(n + 1) -> Int] :
         /\ g[0] = 0
         /\ \A i \in 1..(n + 1) : g[i] = base * g[i - 1] + s[i]
         /\ Spells(base, s) = g[n + 1]
    <2>1. PICK g \in [0..Len(s) -> Int] :
             /\ g[0] = 0
             /\ \A i \in 1..Len(s) : g[i] = base * g[i - 1] + s[i]
             /\ Spells(base, s) = g[Len(s)]
        BY SpellsEquations, Zenon
    <2> QED
        BY <2>1, Zenon
<1> DEFINE Q == {i \in Nat : i <= n => g[i] = 0}
<1>2. 0 \in Q
    BY <1>1
<1>3. ASSUME NEW i \in Nat, i \in Q PROVE i + 1 \in Q
    <2>1. CASE i + 1 <= n
        <3>1. i + 1 \in 1..(n + 1) /\ (i + 1) - 1 = i /\ i + 1 \in 1..n
            BY <2>1
        <3>2. g[i + 1] = base * g[i] + s[i + 1]
            BY ONLY <1>1, <3>1
        <3>3. g[i] = 0 /\ s[i + 1] = 0
            BY <1>3, <2>1, <3>1
        <3>4. g[i + 1] = 0
            BY ONLY <3>2, <3>3, base \in Nat
        <3> QED
            BY <3>4
    <2>2. CASE ~(i + 1 <= n)
        BY <2>2
    <2> QED
        BY <2>1, <2>2
<1>4. n \in Q
    <2> HIDE DEF Q
    <2> QED
        BY ONLY <1>2, <1>3, NaturalInduction, n \in Nat
<1>5. g[n] = 0 /\ n + 1 \in 1..(n + 1) /\ (n + 1) - 1 = n /\ s[n + 1] \in Int
    BY <1>4
<1>6. g[n + 1] = base * g[n] + s[n + 1]
    BY ONLY <1>1, <1>5
<1> QED
    BY ONLY <1>1, <1>5, <1>6, base \in Nat

-----------------------------------------------------------------------------
(* The global index *)

\* Four bytes from the low end are the number of 32 bits they are made of.
LEMMA FourBytes ==
    ASSUME NEW n \in Nat, n \div 65536 < 65536
    PROVE  256 * (256 * (256 * LittleEndian(n)[4] + LittleEndian(n)[3])
                    + LittleEndian(n)[2]) + LittleEndian(n)[1] = n
<1> DEFINE a == n \div 256
           b == n \div 65536
           c == n \div 16777216
<1>1. /\ a \in Nat /\ b \in Nat /\ c \in Nat
      /\ b = a \div 256 /\ c = b \div 256
    OBVIOUS
<1>2. c < 256
    BY <1>1
<1>3. ASSUME NEW m \in Nat
      PROVE  m = 256 * (m \div 256) + (m % 256) /\ m % 256 \in Int
    OBVIOUS
<1>4. n = 256 * a + (n % 256) /\ a = 256 * b + (a % 256) /\ b = 256 * c + (b % 256)
    <2>1. n = 256 * a + (n % 256)
        BY <1>3
    <2> HIDE DEF a, b, c
    <2> QED
        BY ONLY <1>1, <1>3, <2>1
<1>5. n % 256 \in Int /\ a % 256 \in Int /\ b % 256 \in Int /\ c % 256 = c
    <2> HIDE DEF a, b, c
    <2> QED
        BY ONLY <1>1, <1>2, <1>3, n \in Nat
<1> HIDE DEF a, b, c
<1>6. 256 * (256 * (256 * (c % 256) + (b % 256)) + (a % 256)) + (n % 256) = n
    BY ONLY <1>1, <1>4, <1>5, n \in Nat
<1>7. /\ LittleEndian(n)[1] = n % 256 /\ LittleEndian(n)[2] = a % 256
      /\ LittleEndian(n)[3] = b % 256 /\ LittleEndian(n)[4] = c % 256
    BY DEF LittleEndian, a, b, c
<1> QED
    BY ONLY <1>6, <1>7

IndexBytes(leaf, rollup, flag) ==
    Reverse(LittleEndian(leaf) \o LittleEndian(rollup) \o << flag >> \o [i \in 1..23 |-> 0])

\* The bytes of a global index, by their places.
IndexPlaces(bytes, leaf, rollup, flag) ==
    /\ bytes \in Seq(Int) /\ Len(bytes) = 32
    /\ \A i \in 1..4 : /\ bytes[33 - i] = LittleEndian(leaf)[i]
                       /\ bytes[29 - i] = LittleEndian(rollup)[i]
    /\ bytes[24] = flag /\ \A i \in 1..23 : bytes[i] = 0

\* Where GlobalIndexToBytes puts the bytes of each field.
LEMMA GlobalIndexPlaces ==
    ASSUME NEW leaf \in Nat, NEW rollup \in Nat, NEW flag \in Int
    PROVE  IndexPlaces(IndexBytes(leaf, rollup, flag), leaf, rollup, flag)
<1> DEFINE zeros == [i \in 1..23 |-> 0]
           one == << flag >>
           low == LittleEndian(leaf)
           high == LittleEndian(rollup)
           four == low \o high
           flagged == four \o one
           whole == flagged \o zeros
           bytes == IndexBytes(leaf, rollup, flag)
<1>1. \A n \in Nat : LittleEndian(n) \in Seq(Int) /\ Len(LittleEndian(n)) = 4
    BY DEF LittleEndian
<1>2. /\ zeros \in Seq(Int) /\ Len(zeros) = 23 /\ \A i \in 1..23 : zeros[i] = 0
      /\ one \in Seq(Int) /\ Len(one) = 1 /\ one[1] = flag
      /\ low \in Seq(Int) /\ Len(low) = 4 /\ high \in Seq(Int) /\ Len(high) = 4
    BY <1>1
<1>3. bytes = Reverse(whole)
    BY DEF IndexBytes
<1>4. whole = flagged \o zeros /\ flagged = four \o one /\ four = low \o high
    OBVIOUS
<1>5. low = LittleEndian(leaf) /\ high = LittleEndian(rollup)
    OBVIOUS
<1> HIDE DEF zeros, one, low, high, four, flagged, whole, bytes
<1>6. /\ four \in Seq(Int) /\ Len(four) = 8
      /\ \A i \in 1..4 : four[i] = low[i] /\ four[i + 4] = high[i]
    <2>0. low \in Seq(Int) /\ high \in Seq(Int) /\ four = low \o high
        BY ONLY <1>2, <1>4
    <2>1. /\ four \in Seq(Int) /\ Len(four) = Len(low) + Len(high)
          /\ \A i \in 1..Len(low) : four[i] = low[i]
          /\ \A i \in 1..Len(high) : four[i + Len(low)] = high[i]
        BY ONLY <2>0, ConcatPlaces
    <2> QED
        BY ONLY <1>2, <2>1
<1>7. /\ flagged \in Seq(Int) /\ Len(flagged) = 9
      /\ \A i \in 1..8 : flagged[i] = four[i]
      /\ flagged[9] = flag
    <2>0. four \in Seq(Int) /\ one \in Seq(Int) /\ flagged = four \o one
        BY ONLY <1>2, <1>4, <1>6
    <2>1. /\ flagged \in Seq(Int) /\ Len(flagged) = Len(four) + Len(one)
          /\ \A i \in 1..Len(four) : flagged[i] = four[i]
          /\ \A i \in 1..Len(one) : flagged[i + Len(four)] = one[i]
        BY ONLY <2>0, ConcatPlaces
    <2> QED
        BY ONLY <1>2, <1>6, <2>1
<1>8. /\ whole \in Seq(Int) /\ Len(whole) = 32
      /\ \A i \in 1..9 : whole[i] = flagged[i]
      /\ \A i \in 1..23 : whole[i + 9] = zeros[i]
    <2>0. flagged \in Seq(Int) /\ zeros \in Seq(Int) /\ whole = flagged \o zeros
        BY ONLY <1>2, <1>4, <1>7
    <2>1. /\ whole \in Seq(Int) /\ Len(whole) = Len(flagged) + Len(zeros)
          /\ \A i \in 1..Len(flagged) : whole[i] = flagged[i]
          /\ \A i \in 1..Len(zeros) : whole[i + Len(flagged)] = zeros[i]
        BY ONLY <2>0, ConcatPlaces
    <2> QED
        BY ONLY <1>2, <1>7, <2>1
<1>9. bytes \in Seq(Int) /\ Len(bytes) = 32 /\ \A i \in 1..32 : bytes[i] = whole[33 - i]
    <2>0. whole \in Seq(Int) /\ bytes = Reverse(whole)
        BY ONLY <1>3, <1>8
    <2>1. /\ bytes \in Seq(Int) /\ Len(bytes) = Len(whole)
          /\ \A i \in 1..Len(whole) : bytes[i] = whole[(Len(whole) - i) + 1]
        BY ONLY <2>0, ReversePlaces
    <2>2. \A i \in 1..32 : (32 - i) + 1 = 33 - i
        OBVIOUS
    <2> QED
        BY ONLY <1>8, <2>1, <2>2
<1>10. \A i \in 1..23 : bytes[i] = 0
    <2>1. ASSUME NEW i \in 1..23 PROVE bytes[i] = 0
        <3>1. i \in 1..32 /\ 33 - i = (24 - i) + 9 /\ 24 - i \in 1..23
            OBVIOUS
        <3>2. bytes[i] = whole[(24 - i) + 9]
            BY ONLY <1>9, <3>1
        <3>3. whole[(24 - i) + 9] = zeros[24 - i] /\ zeros[24 - i] = 0
            BY <1>2, <1>8, <3>1, Zenon
        <3> QED
            BY ONLY <3>2, <3>3
    <2> QED
        BY <2>1
<1>11. /\ bytes[24] = flag
       /\ \A i \in 1..4 : bytes[33 - i] = low[i] /\ bytes[29 - i] = high[i]
    <2>1. ASSUME NEW i \in 1..4 PROVE bytes[33 - i] = low[i] /\ bytes[29 - i] = high[i]
        <3>1. /\ 33 - i \in 1..32 /\ 33 - (33 - i) = i /\ i \in 1..9 /\ i \in 1..8
              /\ 29 - i \in 1..32 /\ 33 - (29 - i) = i + 4 /\ i + 4 \in 1..9 /\ i + 4 \in 1..8
            OBVIOUS
        <3>2. bytes[33 - i] = whole[i] /\ bytes[29 - i] = whole[i + 4]
            BY ONLY <1>9, <3>1
        <3> QED
            BY ONLY <1>6, <1>7, <1>8, <3>1, <3>2, i \in 1..4
    <2>2. bytes[24] = flag
        BY ONLY <1>7, <1>8, <1>9
    <2> QED
        BY <2>1, <2>2
<1> QED
    BY ONLY <1>5, <1>9, <1>10, <1>11 DEF IndexPlaces, bytes

\* A run of the bytes is a number on its own.
IndexReads(bytes, leaf, rollup, flag) ==
    /\ Len(bytes) = 32
    /\ Spells(256, SubSeq(bytes, 29, 32)) = leaf
    /\ Spells(256, SubSeq(bytes, 25, 28)) = rollup
    /\ Spells(256, SubSeq(bytes, 1, 24)) = flag

\* The three fields are read back from their places in the 32 bytes.
LEMMA GlobalIndexSpells ==
    ASSUME NEW leaf \in Nat, leaf \div 65536 < 65536,
           NEW rollup \in Nat, rollup \div 65536 < 65536, NEW flag \in Int
    PROVE  IndexReads(IndexBytes(leaf, rollup, flag), leaf, rollup, flag)
<1> DEFINE bytes == IndexBytes(leaf, rollup, flag)
<1> HIDE DEF bytes
<1>1. /\ bytes \in Seq(Int) /\ Len(bytes) = 32
      /\ \A i \in 1..4 : /\ bytes[33 - i] = LittleEndian(leaf)[i]
                         /\ bytes[29 - i] = LittleEndian(rollup)[i]
      /\ bytes[24] = flag /\ \A i \in 1..23 : bytes[i] = 0
    <2>1. IndexPlaces(bytes, leaf, rollup, flag)
        BY GlobalIndexPlaces DEF bytes
    <2> QED
        BY <2>1 DEF IndexPlaces
<1>2. ASSUME NEW a \in {25, 29}
      PROVE  Spells(256, SubSeq(bytes, a, a + 3))
               = 256 * (256 * (256 * bytes[a] + bytes[a + 1]) + bytes[a + 2]) + bytes[a + 3]
    <2> DEFINE w == SubSeq(bytes, a, a + 3)
    <2>1. a \in 1..Len(bytes) /\ a + 3 \in a..Len(bytes) /\ ((a + 3) - a) + 1 = 4
            /\ bytes \in Seq(Int) /\ w = SubSeq(bytes, a, a + 3)
            /\ (a + 1) - 1 = a /\ (a + 2) - 1 = a + 1
            /\ (a + 3) - 1 = a + 2 /\ (a + 4) - 1 = a + 3
        <3>1. bytes \in Seq(Int) /\ Len(bytes) = 32
            BY <1>1
        <3>2. a \in 1..32 /\ a + 3 \in a..32 /\ ((a + 3) - a) + 1 = 4
                /\ (a + 1) - 1 = a /\ (a + 2) - 1 = a + 1
                /\ (a + 3) - 1 = a + 2 /\ (a + 4) - 1 = a + 3
            OBVIOUS
        <3> QED
            BY <3>1, <3>2
    <2> HIDE DEF w
    <2>2. w \in Seq(Int) /\ Len(w) = ((a + 3) - a) + 1
            /\ \A i \in 1..(((a + 3) - a) + 1) : w[i] = bytes[(a + i) - 1]
        BY ONLY <2>1
    <2>3. w \in Seq(Int) /\ Len(w) = 4 /\ \A i \in 1..4 : w[i] = bytes[(a + i) - 1]
        BY ONLY <2>1, <2>2
    <2>4. w[1] = bytes[a] /\ w[2] = bytes[a + 1] /\ w[3] = bytes[a + 2]
            /\ w[4] = bytes[a + 3]
        BY ONLY <2>1, <2>3
    <2>5. Spells(256, w) = 256 * (256 * (256 * w[1] + w[2]) + w[3]) + w[4]
        BY ONLY <2>3, SpellsFour
    <2> QED
        BY ONLY <2>4, <2>5 DEF w
<1>3. Spells(256, SubSeq(bytes, 1, 24)) = bytes[24]
    <2> DEFINE w == SubSeq(bytes, 1, 24)
    <2>1. 1 \in 1..Len(bytes) /\ 24 \in 1..Len(bytes) /\ bytes \in Seq(Int)
            /\ w = SubSeq(bytes, 1, 24)
        BY ONLY <1>1
    <2> HIDE DEF w
    <2>2. w \in Seq(Int) /\ Len(w) = (24 - 1) + 1
            /\ \A i \in 1..((24 - 1) + 1) : w[i] = bytes[(1 + i) - 1]
        <3> DEFINE a == 1
                   b == 24
        <3>1. a \in 1..Len(bytes) /\ b \in a..Len(bytes) /\ w = SubSeq(bytes, a, b)
                /\ bytes \in Seq(Int)
            BY <1>1, <2>1
        <3> HIDE DEF a, b
        <3>2. w \in Seq(Int) /\ Len(w) = (b - a) + 1
                /\ \A i \in 1..((b - a) + 1) : w[i] = bytes[(a + i) - 1]
            BY ONLY <3>1, CutPlaces
        <3> QED
            BY ONLY <3>2 DEF a, b
    <2>3. w \in Seq(Int) /\ Len(w) = 24 /\ \A i \in 1..24 : w[i] = bytes[i]
        <3>1. \A i \in 1..24 : (1 + i) - 1 = i
            OBVIOUS
        <3> QED
            BY ONLY <2>2, <3>1
    <2>4. Len(w) = 23 + 1 /\ \A i \in 1..23 : w[i] = 0
        BY ONLY <1>1, <2>3
    <2>5. 256 \in Nat /\ 23 \in Nat /\ w \in Seq(Int)
        BY ONLY <2>3
    <2>6. Spells(256, w) = w[23 + 1]
        BY ONLY <2>4, <2>5, SpellsZeros
    <2>7. w[23 + 1] = bytes[24]
        BY ONLY <2>3
    <2> QED
        BY ONLY <2>6, <2>7 DEF w
<1>4. Spells(256, SubSeq(bytes, 29, 32)) = leaf
    <2>1. Spells(256, SubSeq(bytes, 29, 29 + 3))
            = 256 * (256 * (256 * bytes[29] + bytes[29 + 1]) + bytes[29 + 2]) + bytes[29 + 3]
        BY <1>2
    <2>2. /\ 29 + 1 = 30 /\ 29 + 2 = 31 /\ 29 + 3 = 32
        OBVIOUS
    <2>3. Spells(256, SubSeq(bytes, 29, 32))
            = 256 * (256 * (256 * bytes[29] + bytes[30]) + bytes[31]) + bytes[32]
        BY ONLY <2>1, <2>2
    <2>4. 256 * (256 * (256 * LittleEndian(leaf)[4] + LittleEndian(leaf)[3])
                   + LittleEndian(leaf)[2]) + LittleEndian(leaf)[1] = leaf
        BY FourBytes
    <2>5. /\ 1 \in 1..4 /\ 2 \in 1..4 /\ 3 \in 1..4 /\ 4 \in 1..4
          /\ 33 - 1 = 32 /\ 33 - 2 = 31 /\ 33 - 3 = 30 /\ 33 - 4 = 29
        OBVIOUS
    <2>6. /\ bytes[29] = LittleEndian(leaf)[4] /\ bytes[30] = LittleEndian(leaf)[3]
          /\ bytes[31] = LittleEndian(leaf)[2] /\ bytes[32] = LittleEndian(leaf)[1]
        BY ONLY <1>1, <2>5
    <2> QED
        BY ONLY <2>3, <2>4, <2>6
<1>5. Spells(256, SubSeq(bytes, 25, 28)) = rollup
    <2>1. Spells(256, SubSeq(bytes, 25, 25 + 3))
            = 256 * (256 * (256 * bytes[25] + bytes[25 + 1]) + bytes[25 + 2]) + bytes[25 + 3]
        BY <1>2
    <2>2. /\ 25 + 1 = 26 /\ 25 + 2 = 27 /\ 25 + 3 = 28
        OBVIOUS
    <2>3. Spells(256, SubSeq(bytes, 25, 28))
            = 256 * (256 * (256 * bytes[25] + bytes[26]) + bytes[27]) + bytes[28]
        BY ONLY <2>1, <2>2
    <2>4. 256 * (256 * (256 * LittleEndian(rollup)[4] + LittleEndian(rollup)[3])
                   + LittleEndian(rollup)[2]) + LittleEndian(rollup)[1] = rollup
        BY FourBytes
    <2>5. /\ 1 \in 1..4 /\ 2 \in 1..4 /\ 3 \in 1..4 /\ 4 \in 1..4
          /\ 29 - 1 = 28 /\ 29 - 2 = 27 /\ 29 - 3 = 26 /\ 29 - 4 = 25
        OBVIOUS
    <2>6. /\ bytes[25] = LittleEndian(rollup)[4] /\ bytes[26] = LittleEndian(rollup)[3]
          /\ bytes[27] = LittleEndian(rollup)[2] /\ bytes[28] = LittleEndian(rollup)[1]
        BY ONLY <1>1, <2>5
    <2> QED
        BY ONLY <2>3, <2>4, <2>6
<1> QED
    BY <1>1, <1>3, <1>4, <1>5 DEF IndexReads, bytes

\* The global indexes of a document that the hash got through, for all documents.
LEMMA ImportedIndex ==
    ASSUME NEW doc \in Documents, NEW extra \in Extras, Hashable(Certificate(doc, extra)),
           NEW k \in DOMAIN Certificate(doc, extra).imported
    PROVE  LET element == Objects(doc, "imported_bridge_exits")[k][2]
               index == element["global_index"][2]
           IN /\ Has(element, "global_index", "object")
              /\ k \in DOMAIN Objects(doc, "imported_bridge_exits")
              /\ Has(index, "leaf_index", "number") /\ Has(index, "rollup_index", "number")
              /\ Certificate(doc, extra).imported[k].globalIndex = GlobalIndexBytes(index)
<1> DEFINE c == Certificate(doc, extra)
           element == Objects(doc, "imported_bridge_exits")[k][2]
           index == element["global_index"][2]
<1>1. c.imported = [i \in DOMAIN Objects(doc, "imported_bridge_exits") |->
                      ImportedBridgeExit(Objects(doc, "imported_bridge_exits")[i][2])]
    BY DEF Certificate, CertificateFromJSON
<1>2. k \in DOMAIN Objects(doc, "imported_bridge_exits")
        /\ c.imported[k] = ImportedBridgeExit(element)
    BY <1>1
<1>3. c.imported[k].globalIndex # Nil
    BY DEF Hashable, HashableImported
<1>4. c.imported[k].globalIndex = Object(element, "global_index", GlobalIndex)
    BY <1>2 DEF ImportedBridgeExit
<1>5. Has(element, "global_index", "object") /\ c.imported[k].globalIndex = GlobalIndex(index)
    BY <1>3, <1>4 DEF Object
<1>6. /\ Has(index, "leaf_index", "number") /\ Has(index, "rollup_index", "number")
      /\ c.imported[k].globalIndex = GlobalIndexBytes(index)
    BY <1>3, <1>5 DEF GlobalIndex
<1> QED
    BY <1>2, <1>5, <1>6

\* The 32 bytes of every stored global index are one big-endian number
\* (marshal.go:191-219), for all documents with indexes of 32 bits.
THEOREM GlobalIndexIsBigEndianHolds == Spec => []GlobalIndexIsBigEndian
<1>1. IInv => GlobalIndexIsBigEndian
    <2> SUFFICES ASSUME IInv, NEW i \in DOMAIN rows,
                        NEW k \in DOMAIN rows[i].certificate.imported
                 PROVE  LET bytes == rows[i].certificate.imported[k].globalIndex
                            m == Objects(rows[i].doc, "imported_bridge_exits")[k][2]["global_index"][2]
                        IN /\ Len(bytes) = 32
                           /\ Spells(256, SubSeq(bytes, 29, 32)) = m["leaf_index"][2]
                           /\ Spells(256, SubSeq(bytes, 25, 28)) = m["rollup_index"][2]
                           /\ Spells(256, SubSeq(bytes, 1, 24))
                                = IF m["mainnet_flag"][2] THEN 1 ELSE 0
        BY DEF GlobalIndexIsBigEndian
    <2>1. PICK doc \in Documents, extra \in Extras, p \in BOOLEAN :
             rows[i] = Row(doc, extra, p) /\ Hashable(Certificate(doc, extra))
        BY StoredIsRow DEF IInv
    <2>2. rows[i].doc = doc /\ rows[i].certificate = Certificate(doc, extra)
        BY <2>1 DEF Row
    <2> DEFINE element == Objects(doc, "imported_bridge_exits")[k][2]
               index == element["global_index"][2]
               leaf == index["leaf_index"][2]
               rollup == index["rollup_index"][2]
               flag == IF index["mainnet_flag"][2] THEN 1 ELSE 0
               bytes == rows[i].certificate.imported[k].globalIndex
    <2>3. /\ Has(element, "global_index", "object")
          /\ k \in DOMAIN Objects(doc, "imported_bridge_exits")
          /\ Has(index, "leaf_index", "number") /\ Has(index, "rollup_index", "number")
          /\ bytes = GlobalIndexBytes(index)
        BY <2>1, <2>2, ImportedIndex
    <2>4. Index32(index)
        BY <2>3, DocumentAssumption
    <2>5. /\ leaf \in 0..(Word32 - 1) /\ rollup \in 0..(Word32 - 1)
          /\ Said(index, "leaf_index") = leaf /\ Said(index, "rollup_index") = rollup
        BY <2>3, <2>4 DEF Index32, Said
    <2>6. bytes = IndexBytes(leaf, rollup, flag)
        <3>1. /\ Number(index, "leaf_index", Word32) = leaf
              /\ Number(index, "rollup_index", Word32) = rollup
            BY <2>5, WordSurvives DEF Number
        <3> QED
            BY <2>3, <3>1 DEF GlobalIndexBytes, IndexParts, IndexBytes
    <2>7. flag \in Int
        OBVIOUS
    <2> HIDE DEF leaf, rollup, flag, bytes
    <2>8. /\ leaf \in Nat /\ leaf \div 65536 < 65536
          /\ rollup \in Nat /\ rollup \div 65536 < 65536
        BY ONLY <2>5, NumberAssumption
    <2>9. IndexReads(bytes, leaf, rollup, flag)
        BY ONLY <2>6, <2>7, <2>8, GlobalIndexSpells
    <2> QED
        BY <2>2, <2>9 DEF IndexReads, leaf, rollup, flag, bytes
<1> QED
    BY <1>1, InvariantHolds, PTL

-----------------------------------------------------------------------------
(* The page agrees with the gauges *)

\* A key is in the text when it is written, with the value it is written with.
LEMMA WrittenKeys ==
    ASSUME NEW fields, NEW k \in DOMAIN fields
    PROVE  /\ k \in DOMAIN Written(fields) <=> fields[k] # None
           /\ fields[k] # None => Written(fields)[k] = fields[k]
BY DEF Written

\* A field with a value of a kind is read back with the kind and the value.
LEMMA WrittenHas ==
    ASSUME NEW fields, NEW k \in DOMAIN fields, NEW kind, NEW v, fields[k] = <<kind, v>>
    PROVE  Has(Written(fields), k, kind) /\ Written(fields)[k][2] = v
<1>1. <<kind, v>> # None
    BY DEF None
<1> QED
    BY <1>1, WrittenKeys DEF Has

\* A field that is left out is not read, whatever kind is asked for.
LEMMA WrittenHasNot ==
    ASSUME NEW fields, NEW k \in DOMAIN fields, NEW kind, fields[k] = None
    PROVE  ~Has(Written(fields), k, kind)
    BY WrittenKeys DEF Has

\* What metadata text says of the certificate's numbers.
LEMMA MetadataNumbers ==
    ASSUME NEW c
    PROVE  LET meta == ExtractMetadata(c)
           IN /\ Has(meta, "network_id", "number") /\ meta["network_id"][2] = c.network
              /\ Has(meta, "height", "number") /\ meta["height"][2] = c.height
              /\ Has(meta, "bridge_exits_count", "number")
              /\ meta["bridge_exits_count"][2] = Len(c.exits)
              /\ Has(meta, "imported_bridge_exits_count", "number")
              /\ meta["imported_bridge_exits_count"][2] = Len(c.imported)
<1> DEFINE fields == MetadataFields(c)
<1>1. /\ "network_id" \in DOMAIN fields /\ fields["network_id"] = <<"number", c.network>>
      /\ "height" \in DOMAIN fields /\ fields["height"] = <<"number", c.height>>
      /\ "bridge_exits_count" \in DOMAIN fields
      /\ fields["bridge_exits_count"] = <<"number", Len(c.exits)>>
      /\ "imported_bridge_exits_count" \in DOMAIN fields
      /\ fields["imported_bridge_exits_count"] = <<"number", Len(c.imported)>>
    BY DEF MetadataFields, NetworkMeta
<1> HIDE DEF fields
<1>2. ExtractMetadata(c) = Written(fields)
    BY DEF ExtractMetadata, fields
<1> QED
    BY <1>1, <1>2, WrittenHas

\* The places of the exits that reach the text, and the exit at each.
Places(c, list) ==
    IF list = "bridge_exits" THEN DOMAIN c.exits
    ELSE {i \in DOMAIN c.imported : c.imported[i].exit # Nil}
ExitOf(c, list, i) == IF list = "bridge_exits" THEN c.exits[i] ELSE c.imported[i].exit
IndexOf(c, list, i) == IF list = "bridge_exits" THEN Nil ELSE c.imported[i].globalIndex

\* The list of exits in the metadata has an object at each place the document fills.
LEMMA MetadataLists ==
    ASSUME NEW c, NEW list \in Lists
    PROVE  LET elements == Elements(ExtractMetadata(c), list)
           IN /\ DOMAIN elements = Places(c, list)
              /\ \A i \in Places(c, list) :
                   elements[i] = <<"object", ExitMeta(ExitOf(c, list, i), IndexOf(c, list, i))>>
<1> DEFINE fields == MetadataFields(c)
           of == [i \in Places(c, list) |->
                    <<"object", ExitMeta(ExitOf(c, list, i), IndexOf(c, list, i))>>]
           empty == IF list = "bridge_exits" THEN c.exits = << >> ELSE c.imported = << >>
<1>1. list = "bridge_exits" \/ list = "imported_bridge_exits"
    BY DEF Lists
<1>2. /\ list \in DOMAIN fields
      /\ fields[list] = IF empty THEN None ELSE <<"array", of>>
    <2>1. CASE list = "bridge_exits"
        <3>1. "bridge_exits" \in DOMAIN fields
                /\ fields["bridge_exits"]
                     = IF c.exits = << >> THEN None
                       ELSE <<"array", [i \in DOMAIN c.exits |-> <<"object", ExitMeta(c.exits[i], Nil)>>]>>
            BY DEF MetadataFields
        <3>2. of = [i \in DOMAIN c.exits |-> <<"object", ExitMeta(c.exits[i], Nil)>>]
            BY <2>1 DEF Places, ExitOf, IndexOf
        <3> HIDE DEF fields, of
        <3> QED
            BY <2>1, <3>1, <3>2
    <2>2. CASE list = "imported_bridge_exits"
        <3> DEFINE whole == {i \in DOMAIN c.imported : c.imported[i].exit # Nil}
        <3>1. "imported_bridge_exits" \in DOMAIN fields
                /\ fields["imported_bridge_exits"]
                     = IF c.imported = << >> THEN None
                       ELSE <<"array", [i \in whole |-> <<"object", ImportedMeta(c.imported[i])>>]>>
            BY DEF MetadataFields
        <3>2. of = [i \in whole |-> <<"object", ImportedMeta(c.imported[i])>>]
            BY <2>2 DEF Places, ExitOf, IndexOf, ImportedMeta
        <3> HIDE DEF fields, of
        <3> QED
            BY <2>2, <3>1, <3>2
    <2> QED
        BY <1>1, <2>1, <2>2
<1>3. ExtractMetadata(c) = Written(fields)
    BY DEF ExtractMetadata, fields
<1>4. /\ DOMAIN of = Places(c, list)
      /\ \A i \in Places(c, list) :
           of[i] = <<"object", ExitMeta(ExitOf(c, list, i), IndexOf(c, list, i))>>
    OBVIOUS
<1>5. CASE ~empty
    <2> HIDE DEF fields, of, empty
    <2>1. Elements(ExtractMetadata(c), list) = of
        BY <1>2, <1>3, <1>5, WrittenHas DEF Elements
    <2> QED
        BY <1>4, <2>1
<1>6. CASE empty
    <2>1. Elements(ExtractMetadata(c), list) = << >>
        <3> HIDE DEF fields, of, empty
        <3> QED
            BY <1>2, <1>3, <1>6, WrittenHasNot DEF Elements
    <2>2. Places(c, list) = {}
        BY <1>6 DEF Places
    <2> QED
        BY <2>1, <2>2
<1> QED
    BY <1>5, <1>6

\* Of an exit's part of the text: its amount and its token, when it has them.
LEMMA ExitKeys ==
    ASSUME NEW e, NEW index
    PROVE  LET m == ExitMeta(e, index)
           IN /\ Has(m, "amount", "text") <=> e.amount \notin {Nil, << >>}
              /\ e.amount \notin {Nil, << >>} => m["amount"][2] = BytesToUint64(e.amount)
              /\ Has(m, "token_address", "text")
                   <=> e.token # Nil /\ e.token.address \notin {Nil, << >>}
              /\ e.token # Nil /\ e.token.address \notin {Nil, << >>} =>
                   m["token_address"][2] = e.token.address
<1> DEFINE fields == [dest_network  |-> <<"number", e.destNetwork>>,
                      amount        |-> IF e.amount \in {Nil, << >>} THEN None
                                        ELSE <<"text", BytesToUint64(e.amount)>>,
                      dest_address  |-> Hex(e.destAddress),
                      token_address |-> IF e.token = Nil THEN None ELSE Hex(e.token.address),
                      global_index  |-> Hex(index)]
<1>1. ExitMeta(e, index) = Written(fields)
    BY DEF ExitMeta
<1>2. /\ "amount" \in DOMAIN fields
      /\ fields["amount"] = IF e.amount \in {Nil, << >>} THEN None
                            ELSE <<"text", BytesToUint64(e.amount)>>
      /\ "token_address" \in DOMAIN fields
      /\ fields["token_address"] = IF e.token = Nil \/ e.token.address \in {Nil, << >>}
                                   THEN None ELSE <<"text", e.token.address>>
    BY DEF Hex
<1> HIDE DEF fields
<1>3. /\ e.amount \in {Nil, << >>} => ~Has(Written(fields), "amount", "text")
      /\ e.amount \notin {Nil, << >>} =>
           /\ Has(Written(fields), "amount", "text")
           /\ Written(fields)["amount"][2] = BytesToUint64(e.amount)
    BY <1>2, WrittenHas, WrittenHasNot
<1>4. /\ e.token = Nil \/ e.token.address \in {Nil, << >>} =>
           ~Has(Written(fields), "token_address", "text")
      /\ ~(e.token = Nil \/ e.token.address \in {Nil, << >>}) =>
           /\ Has(Written(fields), "token_address", "text")
           /\ Written(fields)["token_address"][2] = e.token.address
    BY <1>2, WrittenHas, WrittenHasNot
<1> QED
    BY <1>1, <1>3, <1>4
TokenOf(e) ==
    IF e.token # Nil /\ e.token.address \notin {Nil, << >>} THEN e.token.address ELSE << >>

\* What page and gauges read of a list: the exits with an amount.
LEMMA ShownExits ==
    ASSUME NEW c, NEW list \in Lists
    PROVE  Shown(ExtractMetadata(c), list)
             = [i \in {j \in Places(c, list) :
                         ExitOf(c, list, j).amount \notin {Nil, << >>}} |->
                  [token |-> TokenOf(ExitOf(c, list, i)),
                   amount |-> BytesToUint64(ExitOf(c, list, i).amount)]]
<1> DEFINE elements == Elements(ExtractMetadata(c), list)
           e(i) == ExitOf(c, list, i)
           m(i) == ExitMeta(e(i), IndexOf(c, list, i))
           Token(x) == IF Has(x, "token_address", "text") THEN x["token_address"][2] ELSE << >>
           priced == {i \in DOMAIN elements :
                        elements[i][1] = "object" /\ Has(elements[i][2], "amount", "text")}
           withAmount == {j \in Places(c, list) : e(j).amount \notin {Nil, << >>}}
<1>1. DOMAIN elements = Places(c, list)
        /\ \A i \in Places(c, list) : elements[i][1] = "object" /\ elements[i][2] = m(i)
    BY MetadataLists
<1>2. Shown(ExtractMetadata(c), list)
        = [i \in priced |-> [token |-> Token(elements[i][2]),
                             amount |-> elements[i][2]["amount"][2]]]
    BY DEF Shown
<1>3. priced = withAmount
    <2> HIDE DEF elements
    <2> QED
        BY <1>1, ExitKeys
<1>4. ASSUME NEW i \in withAmount
      PROVE  Token(elements[i][2]) = TokenOf(e(i))
               /\ elements[i][2]["amount"][2] = BytesToUint64(e(i).amount)
    <2>1. elements[i][2] = m(i)
        BY <1>1
    <2>2. m(i)["amount"][2] = BytesToUint64(e(i).amount)
        BY ExitKeys
    <2>3. Token(m(i)) = TokenOf(e(i))
        BY ExitKeys DEF TokenOf
    <2> HIDE DEF elements, m
    <2> QED
        BY <2>1, <2>2, <2>3
<1> HIDE DEF elements, priced, withAmount, Token
<1>5. Shown(ExtractMetadata(c), list)
        = [i \in withAmount |-> [token |-> TokenOf(e(i)), amount |-> BytesToUint64(e(i).amount)]]
    BY <1>2, <1>3, <1>4
<1> QED
    BY <1>5 DEF withAmount

-----------------------------------------------------------------------------
(* The exits of a document *)

\* The certificate of a document has its exits at the same places.
LEMMA ExitsOfDocument ==
    ASSUME NEW doc \in Documents, NEW extra \in Extras, Hashable(Certificate(doc, extra)),
           NEW list \in Lists
    PROVE  LET c == Certificate(doc, extra)
           IN /\ Places(c, list) = DOMAIN Objects(doc, list)
              /\ \A i \in Places(c, list) :
                   /\ ExitOf(c, list, i) = BridgeExit(ExitAt(doc, <<list, i>>))
                   /\ HashableExit(ExitOf(c, list, i))
                   /\ DigitsOf(ExitAt(doc, <<list, i>>))
<1> DEFINE c == Certificate(doc, extra)
           exits == Objects(doc, "bridge_exits")
           imported == Objects(doc, "imported_bridge_exits")
<1>1. /\ c.exits = [i \in DOMAIN exits |-> BridgeExit(exits[i][2])]
      /\ c.imported = [i \in DOMAIN imported |-> ImportedBridgeExit(imported[i][2])]
    BY DEF Certificate, CertificateFromJSON
<1>2. /\ \A i \in DOMAIN c.exits : HashableExit(c.exits[i])
      /\ \A i \in DOMAIN c.imported : HashableImported(c.imported[i])
    BY DEF Hashable
<1>3. /\ \A i \in DOMAIN exits : DigitsOf(exits[i][2])
      /\ \A i \in DOMAIN imported :
           Has(imported[i][2], "bridge_exit", "object") =>
             DigitsOf(imported[i][2]["bridge_exit"][2])
    BY DocumentAssumption
<1> HIDE DEF c, exits, imported
<1>4. CASE list = "bridge_exits"
    <2>1. Places(c, list) = DOMAIN exits
        BY <1>1, <1>4 DEF Places
    <2>2. ASSUME NEW i \in DOMAIN exits
          PROVE  /\ ExitOf(c, list, i) = BridgeExit(exits[i][2])
                 /\ ExitAt(doc, <<list, i>>) = exits[i][2]
                 /\ HashableExit(ExitOf(c, list, i))
        BY <1>1, <1>2, <1>4 DEF ExitOf, ExitAt, exits
    <2> QED
        BY <1>3, <1>4, <2>1, <2>2 DEF c, exits
<1>5. CASE list = "imported_bridge_exits"
    <2>1. ASSUME NEW i \in DOMAIN imported
          PROVE  /\ c.imported[i].exit = BridgeExit(imported[i][2]["bridge_exit"][2])
                 /\ c.imported[i].exit # Nil /\ HashableExit(c.imported[i].exit)
                 /\ Has(imported[i][2], "bridge_exit", "object")
        <3>1. HashableExit(c.imported[i].exit) /\ c.imported[i].exit # Nil
            BY <1>1, <1>2 DEF HashableImported, HashableExit
        <3>2. c.imported[i].exit = Object(imported[i][2], "bridge_exit", BridgeExit)
            BY <1>1 DEF ImportedBridgeExit
        <3> QED
            BY <3>1, <3>2 DEF Object
    <2>2. Places(c, list) = DOMAIN imported
        BY <1>1, <1>5, <2>1 DEF Places
    <2>3. ASSUME NEW i \in DOMAIN imported
          PROVE  /\ ExitOf(c, list, i) = c.imported[i].exit
                 /\ ExitAt(doc, <<list, i>>) = imported[i][2]["bridge_exit"][2]
        BY <1>5 DEF ExitOf, ExitAt, imported
    <2> QED
        BY <1>3, <1>5, <2>1, <2>2, <2>3 DEF c, imported
<1> QED
    BY <1>4, <1>5 DEF Lists

\* The digits of an amount, and its bytes.
LEMMA AmountOfExit ==
    ASSUME NEW m, DigitsOf(m), BridgeExit(m).amount # Nil
    PROVE  /\ m["amount"][2] \in Seq(0..15)
           /\ BridgeExit(m).amount = HexStringToBytes(m["amount"][2])
BY DEF DigitsOf, BridgeExit, Bytes

\* What a sequence of integers spells is an integer.
LEMMA SpellsTyped ==
    ASSUME NEW base \in Nat, NEW s \in Seq(Int)
    PROVE  Spells(base, s) \in Int
<1>1. PICK g \in [0..Len(s) -> Int] :
         /\ g[0] = 0
         /\ \A i \in 1..Len(s) : g[i] = base * g[i - 1] + s[i]
         /\ Spells(base, s) = g[Len(s)]
    BY SpellsEquations, Zenon
<1>2. Len(s) \in 0..Len(s)
    OBVIOUS
<1> QED
    BY <1>1, <1>2, Zenon

\* The last digits of a sequence of integers are such a sequence.
LEMMA LowTyped ==
    ASSUME NEW n \in Nat, NEW s \in Seq(Int)
    PROVE  Low(n, s) \in Seq(Int)
BY DEF Low

\* An even number of digits, and the bytes that pairs of them make.
Even(digits) == IF Len(digits) % 2 = 1 THEN PadDigits(digits) ELSE digits

\* The digits that HexStringToBytes cuts into pairs are even in number.
LEMMA EvenDigits ==
    ASSUME NEW d \in Seq(0..15)
    PROVE  /\ Even(d) \in Seq(0..15)
           /\ \E m \in Nat : /\ Len(Even(d)) = 2 * m /\ Len(Even(d)) \div 2 = m
                             /\ Len(d) = 2 * m \/ (Len(d) = 2 * m - 1 /\ Even(d) = PadDigits(d))
                             /\ Len(d) = 2 * m => Even(d) = d
<1>1. Len(d) \in Nat /\ (Len(d) % 2 = 0 \/ Len(d) % 2 = 1)
    OBVIOUS
<1>2. PadDigits(d) \in Seq(0..15) /\ Len(PadDigits(d)) = Len(d) + 1
    BY DEF PadDigits
<1>3. CASE Len(d) % 2 = 0
    <2> DEFINE m == Len(d) \div 2
    <2>1. m \in Nat /\ Len(d) = 2 * m /\ Even(d) = d
        BY <1>1, <1>3 DEF Even
    <2> QED
        BY <2>1
<1>4. CASE Len(d) % 2 = 1
    <2> DEFINE m == (Len(d) + 1) \div 2
    <2>1. m \in Nat /\ Len(d) + 1 = 2 * m /\ Even(d) = PadDigits(d)
        BY <1>1, <1>4 DEF Even
    <2> HIDE DEF m
    <2>2. Len(Even(d)) = 2 * m /\ Len(Even(d)) \div 2 = m /\ Len(d) = 2 * m - 1
        BY ONLY <1>1, <1>2, <2>1
    <2> QED
        BY <1>2, <2>1, <2>2
<1> QED
    BY <1>1, <1>3, <1>4

Pairs(b, e, m) ==
    Len(e) = 2 * m /\ Len(b) = m /\ \A i \in 1..m : b[i] = 16 * e[2 * i - 1] + e[2 * i]

\* HexStringToBytes makes a byte of each pair of digits.
LEMMA BytesOfDigits ==
    ASSUME NEW d \in Seq(0..15)
    PROVE  /\ HexStringToBytes(d) \in Seq(Int)
           /\ \E m \in Nat : Pairs(HexStringToBytes(d), Even(d), m)
<1> DEFINE e == Even(d)
<1>1. PICK m \in Nat : Len(e) = 2 * m /\ Len(e) \div 2 = m
    BY EvenDigits
<1>2. e \in Seq(0..15)
    BY EvenDigits
<1>3. HexStringToBytes(d) = [i \in 1..(Len(e) \div 2) |-> 16 * e[2 * i - 1] + e[2 * i]]
    BY DEF HexStringToBytes, Even
<1> HIDE DEF e
<1>4. \A i \in 1..m : e[2 * i - 1] \in Int /\ e[2 * i] \in Int
    <2>1. \A j \in 1..Len(e) : e[j] \in Int
        BY ONLY <1>2
    <2>2. \A i \in 1..m : 2 * i - 1 \in 1..Len(e) /\ 2 * i \in 1..Len(e)
        BY ONLY <1>1
    <2> QED
        BY ONLY <2>1, <2>2
<1> DEFINE b == HexStringToBytes(d)
<1> HIDE DEF b
<1>5. b = [i \in 1..m |-> 16 * e[2 * i - 1] + e[2 * i]]
    BY <1>1, <1>3 DEF b
<1>6. b \in [1..m -> Int]
    BY <1>4, <1>5
<1>7. b \in Seq(Int) /\ Len(b) = m
    BY ONLY <1>6, m \in Nat
<1>8. \A i \in 1..m : b[i] = 16 * e[2 * i - 1] + e[2 * i]
    BY <1>5
<1> QED
    BY <1>1, <1>7, <1>8 DEF Pairs, b, e

-----------------------------------------------------------------------------
(* Totals *)

\* What is shown is priced: finitely many exits, each with a number.
Priced(shown) ==
    IsFiniteSet(DOMAIN shown) /\ \A i \in DOMAIN shown : shown[i].amount \in Int

\* The total of finitely many priced exits is an integer.
LEMMA TotalTyped ==
    ASSUME NEW shown, Priced(shown)
    PROVE  Total(shown) \in Int
<1> DEFINE f == [i \in DOMAIN shown |-> shown[i].amount]
<1>1. f \in [DOMAIN shown -> Int]
    BY DEF Priced
<1> HIDE DEF f
<1>2. SumFunction(f) \in Int
    BY <1>1, SumType DEF Priced
<1> QED
    BY <1>2 DEF Total, f

\* The totals by token add up to the total.
LEMMA TokensAddUp ==
    ASSUME NEW shown, Priced(shown)
    PROVE  SumFunction(TotalsByToken(shown)) = Total(shown)
<1> DEFINE S == DOMAIN shown
           f == [i \in S |-> shown[i].amount]
           key == [i \in S |-> shown[i].token]
           K == {key[i] : i \in S}
           g == TotalsByToken(shown)
<1>1. IsFiniteSet(S) /\ f \in [S -> Int]
    BY DEF Priced
<1>2. IsFiniteSet(K)
    <2>1. key \in [S -> K] /\ \A t \in K : \E i \in S : key[i] = t
        OBVIOUS
    <2> HIDE DEF key, S, K
    <2> QED
        BY <1>1, <2>1, FS_Surjection DEF ExistsSurjection, Surjection
<1>3. DOMAIN g = K /\ g = [t \in K |-> Total(Restrict(shown, {i \in S : key[i] = t}))]
    <2>1. K = {shown[i].token : i \in S}
        OBVIOUS
    <2>2. \A t : {i \in S : key[i] = t} = {i \in DOMAIN shown : shown[i].token = t}
        OBVIOUS
    <2> HIDE DEF K, key
    <2> QED
        BY <2>1, <2>2 DEF TotalsByToken
<1>4. ASSUME NEW t \in K
      PROVE  g[t] = SumFunctionOnSet(f, {i \in S : key[i] = t}) /\ g[t] \in Int
    <2> DEFINE D == {i \in S : key[i] = t}
               part == [i \in D |-> shown[i].amount]
    <2>1. D \in SUBSET S /\ part \in [D -> Int] /\ \A i \in D : part[i] = f[i]
        BY <1>1
    <2>2. g[t] = Total(Restrict(shown, D))
        BY <1>3
    <2>3. Total(Restrict(shown, D)) = SumFunction(part)
        <3>1. DOMAIN Restrict(shown, D) = D
                /\ \A i \in D : Restrict(shown, D)[i] = shown[i]
            BY DEF Restrict
        <3>2. [i \in DOMAIN Restrict(shown, D) |-> Restrict(shown, D)[i].amount] = part
            BY <3>1
        <3> QED
            BY ONLY <3>2 DEF Total
    <2> HIDE DEF D, part, S, f, g
    <2>4. SumFunction(part) = SumFunctionOnSet(f, D)
        BY ONLY <1>1, <2>1, SumRestricted
    <2>5. SumFunctionOnSet(f, D) \in Int
        BY ONLY <1>1, <2>1, SumEquations
    <2> QED
        BY <2>2, <2>3, <2>4, <2>5 DEF D
<1>5. g \in [K -> Int]
    <2> HIDE DEF g, K
    <2> QED
        BY <1>3, <1>4
<1>6. SumFunction(g) = SumFunction(f)
    <2> HIDE DEF f, g, key, S
    <2> QED
        BY <1>1, <1>2, <1>4, <1>5, SumPartition
<1> QED
    BY <1>6 DEF Total

\* The places of both lists, and what is shown there.
LEMMA BothPlaces ==
    ASSUME NEW meta
    PROVE  LET D == UNION {{list} \X DOMAIN Shown(meta, list) : list \in Lists}
           IN /\ DOMAIN BothShown(meta) = D
              /\ D = ({"bridge_exits"} \X DOMAIN Shown(meta, "bridge_exits"))
                       \cup ({"imported_bridge_exits"}
                              \X DOMAIN Shown(meta, "imported_bridge_exits"))
              /\ \A at \in D : /\ at[1] \in Lists /\ at[2] \in DOMAIN Shown(meta, at[1])
                               /\ at = <<at[1], at[2]>>
                               /\ BothShown(meta)[at] = Shown(meta, at[1])[at[2]]
<1> DEFINE D == UNION {{list} \X DOMAIN Shown(meta, list) : list \in Lists}
<1>1. DOMAIN BothShown(meta) = D
        /\ \A at \in D : BothShown(meta)[at] = Shown(meta, at[1])[at[2]]
    BY DEF BothShown
<1>2. D = ({"bridge_exits"} \X DOMAIN Shown(meta, "bridge_exits"))
            \cup ({"imported_bridge_exits"} \X DOMAIN Shown(meta, "imported_bridge_exits"))
    BY DEF Lists
<1>3. \A at \in D : at[1] \in Lists /\ at[2] \in DOMAIN Shown(meta, at[1])
                      /\ at = <<at[1], at[2]>>
    OBVIOUS
<1> QED
    BY <1>1, <1>2, <1>3

\* The exits of both lists are finite and priced when those of each list are.
LEMMA BothPriced ==
    ASSUME NEW meta, \A list \in Lists : Priced(Shown(meta, list))
    PROVE  Priced(BothShown(meta))
<1> DEFINE D == DOMAIN BothShown(meta)
           B == {"bridge_exits"} \X DOMAIN Shown(meta, "bridge_exits")
           I == {"imported_bridge_exits"} \X DOMAIN Shown(meta, "imported_bridge_exits")
<1>1. IsFiniteSet(DOMAIN Shown(meta, "bridge_exits"))
        /\ IsFiniteSet(DOMAIN Shown(meta, "imported_bridge_exits"))
    BY DEF Lists, Priced
<1>2. IsFiniteSet(B) /\ IsFiniteSet(I)
    <2>1. IsFiniteSet({"bridge_exits"}) /\ IsFiniteSet({"imported_bridge_exits"})
        BY FS_Singleton
    <2> QED
        BY <1>1, <2>1, FS_Product
<1>3. IsFiniteSet(B \cup I)
    <2> HIDE DEF B, I
    <2> QED
        BY <1>2, FS_Union
<1>4. D = B \cup I
    BY BothPlaces
<1>5. ASSUME NEW at \in D PROVE BothShown(meta)[at].amount \in Int
    <2>1. at[1] \in Lists /\ at[2] \in DOMAIN Shown(meta, at[1])
            /\ BothShown(meta)[at] = Shown(meta, at[1])[at[2]]
        BY BothPlaces
    <2>2. Priced(Shown(meta, at[1]))
        BY <2>1
    <2> QED
        BY <2>1, <2>2 DEF Priced
<1> QED
    BY <1>3, <1>4, <1>5 DEF Priced

\* The total of a list of exits is the sum over its places among both.
LEMMA ListTotal ==
    ASSUME NEW meta, \A list \in Lists : Priced(Shown(meta, list)), NEW list \in Lists,
           NEW f, f = [at \in DOMAIN BothShown(meta) |-> BothShown(meta)[at].amount]
    PROVE  SumFunctionOnSet(f, {list} \X DOMAIN Shown(meta, list)) = Total(Shown(meta, list))
<1> DEFINE S == DOMAIN BothShown(meta)
           R == DOMAIN Shown(meta, list)
           P == {list} \X R
           g == [i \in R |-> Shown(meta, list)[i].amount]
           part == [at \in P |-> f[at]]
           h == [at \in P |-> at[2]]
<1>1. IsFiniteSet(S) /\ f \in [S -> Int] /\ IsFiniteSet(R) /\ g \in [R -> Int]
    BY BothPriced DEF Priced
<1>2. P \in SUBSET S
    <2>1. S = ({"bridge_exits"} \X DOMAIN Shown(meta, "bridge_exits"))
                \cup ({"imported_bridge_exits"} \X DOMAIN Shown(meta, "imported_bridge_exits"))
        BY BothPlaces
    <2>2. CASE list = "bridge_exits"
        BY <2>1, <2>2
    <2>3. CASE list = "imported_bridge_exits"
        BY <2>1, <2>3
    <2> QED
        BY <2>2, <2>3 DEF Lists
<1>3. \A at \in P : f[at] = g[at[2]] /\ at[2] \in R /\ at = <<list, at[2]>>
    <2>1. \A at \in P : at \in S /\ at[1] = list /\ at[2] \in R /\ at = <<list, at[2]>>
        BY <1>2
    <2>2. \A at \in S : BothShown(meta)[at] = Shown(meta, at[1])[at[2]]
        BY BothPlaces
    <2> QED
        BY <2>1, <2>2
<1>4. part \in [P -> Int] /\ \A at \in P : part[at] = f[at]
    <2> HIDE DEF P, S
    <2> QED
        BY <1>1, <1>2
<1>5. SumFunction(part) = SumFunctionOnSet(f, P)
    <2> HIDE DEF part, P, S
    <2> QED
        BY ONLY <1>1, <1>2, <1>4, SumRestricted
<1>6. /\ h \in [P -> R] /\ R = {h[at] : at \in P}
      /\ \A x, y \in P : h[x] = h[y] => x = y
      /\ \A at \in P : part[at] = g[h[at]]
    <2>1. \A at \in P : h[at] = at[2] /\ at[2] \in R /\ at = <<list, at[2]>>
        BY <1>3
    <2>2. \A i \in R : <<list, i>> \in P /\ h[<<list, i>>] = i
        OBVIOUS
    <2>3. h = [at \in P |-> h[at]]
        OBVIOUS
    <2> HIDE DEF h, P, R
    <2>4. h \in [P -> R]
        BY ONLY <2>1, <2>3
    <2>5. \A x, y \in P : h[x] = h[y] => x = y
        BY <2>1
    <2>6. R = {h[at] : at \in P}
        BY <2>1, <2>2
    <2>7. ASSUME NEW at \in P PROVE part[at] = g[h[at]]
        BY <1>3, <1>4, <2>1
    <2> QED
        BY <2>4, <2>5, <2>6, <2>7
<1>7. IsFiniteSet(P)
    <2> HIDE DEF P, S
    <2> QED
        BY <1>1, <1>2, FS_Subset
<1>8. SumFunction(part) = SumFunction(g)
    <2> HIDE DEF part, P, S, R, g, h
    <2> QED
        BY ONLY <1>1, <1>4, <1>6, <1>7, SumRenamed
<1> QED
    BY <1>5, <1>8 DEF Total

\* The total of what both lists show is that of the one and of the other.
LEMMA BothAddUp ==
    ASSUME NEW meta, \A list \in Lists : Priced(Shown(meta, list))
    PROVE  Total(BothShown(meta)) = Total(Shown(meta, "bridge_exits"))
                                      + Total(Shown(meta, "imported_bridge_exits"))
<1> DEFINE S == DOMAIN BothShown(meta)
           f == [at \in S |-> BothShown(meta)[at].amount]
           B == {"bridge_exits"} \X DOMAIN Shown(meta, "bridge_exits")
           I == {"imported_bridge_exits"} \X DOMAIN Shown(meta, "imported_bridge_exits")
<1>1. IsFiniteSet(S) /\ f \in [S -> Int]
    BY BothPriced DEF Priced
<1>2. S = B \cup I /\ B \cap I = {}
    BY BothPlaces
<1>3. SumFunctionOnSet(f, B) = Total(Shown(meta, "bridge_exits"))
        /\ SumFunctionOnSet(f, I) = Total(Shown(meta, "imported_bridge_exits"))
    BY ListTotal DEF Lists
<1>4. DOMAIN f = S /\ Total(BothShown(meta)) = SumFunctionOnSet(f, S)
    BY DEF Total, SumFunction
<1> HIDE DEF f, S, B, I
<1>5. B \in SUBSET S /\ I \in SUBSET S
    BY <1>2
<1>6. SumFunctionOnSet(f, B \cup I) = SumFunctionOnSet(f, B) + SumFunctionOnSet(f, I)
    BY ONLY <1>1, <1>2, <1>5, SumUnion
<1> QED
    BY <1>2, <1>3, <1>4, <1>6

-----------------------------------------------------------------------------
(* Page and gauges *)

\* Every exit that is shown has a number for its amount.
LEMMA ShownPriced ==
    ASSUME NEW doc \in Documents, NEW extra \in Extras, Hashable(Certificate(doc, extra)),
           NEW list \in Lists
    PROVE  Priced(Shown(ExtractMetadata(Certificate(doc, extra)), list))
<1> DEFINE c == Certificate(doc, extra)
           places == {j \in Places(c, list) : ExitOf(c, list, j).amount \notin {Nil, << >>}}
           shown == Shown(ExtractMetadata(c), list)
<1>1. DOMAIN shown = places
        /\ \A i \in places : shown[i].amount = BytesToUint64(ExitOf(c, list, i).amount)
    <2> HIDE DEF c
    <2>1. shown = [i \in places |-> [token |-> TokenOf(ExitOf(c, list, i)),
                                    amount |-> BytesToUint64(ExitOf(c, list, i).amount)]]
        BY ShownExits, Zenon
    <2> HIDE DEF shown, places
    <2> QED
        BY <2>1
<1>2. Places(c, list) = DOMAIN Objects(doc, list)
        /\ \A i \in Places(c, list) :
             /\ ExitOf(c, list, i) = BridgeExit(ExitAt(doc, <<list, i>>))
             /\ HashableExit(ExitOf(c, list, i))
             /\ DigitsOf(ExitAt(doc, <<list, i>>))
    BY ExitsOfDocument
<1> HIDE DEF c, shown
<1>3. IsFiniteSet(places)
    <2>1. Len(Objects(doc, list)) \in Nat
            /\ DOMAIN Objects(doc, list) = 1..Len(Objects(doc, list))
        BY DocumentAssumption
    <2>2. IsFiniteSet(1..Len(Objects(doc, list)))
        BY <2>1, FS_Interval
    <2>3. places \in SUBSET (1..Len(Objects(doc, list)))
        BY <1>2, <2>1
    <2> HIDE DEF places
    <2> QED
        BY <2>2, <2>3, FS_Subset
<1>4. ASSUME NEW i \in places
      PROVE  BytesToUint64(ExitOf(c, list, i).amount) \in Int
    <2> DEFINE m == ExitAt(doc, <<list, i>>)
               bytes == HexStringToBytes(m["amount"][2])
    <2>1. ExitOf(c, list, i) = BridgeExit(m) /\ DigitsOf(m) /\ BridgeExit(m).amount # Nil
        BY <1>2
    <2> HIDE DEF m
    <2>2. m["amount"][2] \in Seq(0..15) /\ BridgeExit(m).amount = bytes
        BY <2>1, AmountOfExit
    <2>3. bytes \in Seq(Int)
        BY <2>2, BytesOfDigits
    <2>4. Spells(256, Low(8, bytes)) \in Int
        BY <2>3, LowTyped, SpellsTyped
    <2> QED
        BY <2>1, <2>2, <2>4 DEF BytesToUint64
<1> QED
    BY <1>1, <1>3, <1>4 DEF Priced, c, shown

\* What page and gauges read in a row.
LEMMA RowIsRead ==
    ASSUME IInv, NEW i \in DOMAIN rows
    PROVE  /\ Has(rows[i].meta, "network_id", "number")
           /\ Number(rows[i].meta, "network_id", Word32) = rows[i].certificate.network
           /\ View(rows[i]).networkID = rows[i].certificate.network
           /\ rows[i].certificate.network \in Nat
           /\ \A list \in Lists : Priced(Shown(rows[i].meta, list))
           /\ SumFunction(View(rows[i]).tokens)
                = Total(Shown(rows[i].meta, "bridge_exits"))
                    + Total(Shown(rows[i].meta, "imported_bridge_exits"))
           /\ Total(Shown(rows[i].meta, "bridge_exits")) \in Int
           /\ Total(Shown(rows[i].meta, "imported_bridge_exits")) \in Int
<1>1. PICK doc \in Documents, extra \in Extras, p \in BOOLEAN :
         rows[i] = Row(doc, extra, p) /\ Hashable(Certificate(doc, extra))
    BY StoredIsRow DEF IInv
<1> DEFINE c == Certificate(doc, extra)
           meta == ExtractMetadata(c)
<1>2. rows[i].certificate = c /\ rows[i].meta = meta
    BY <1>1 DEF Row
<1>3. c.network \in 0..(Word32 - 1)
    <2>1. c.network = Number(doc, "network_id", Word32)
        BY DEF Certificate, CertificateFromJSON
    <2> QED
        BY <2>1, DocumentAssumption
<1>4. \A list \in Lists : Priced(Shown(meta, list))
    BY <1>1, ShownPriced
<1> HIDE DEF c
<1>5. Has(meta, "network_id", "number") /\ meta["network_id"][2] = c.network
    BY MetadataNumbers
<1> HIDE DEF meta
<1>6. /\ Number(meta, "network_id", Word32) = c.network
      /\ View(rows[i]).networkID = c.network /\ View(rows[i]).tokens = TokenTotals(meta)
    BY <1>2, <1>3, <1>5, WordSurvives DEF View, Number, Said
<1>7. SumFunction(TokenTotals(meta)) = Total(BothShown(meta))
    BY <1>4, BothPriced, TokensAddUp DEF TokenTotals
<1>8. Total(BothShown(meta)) = Total(Shown(meta, "bridge_exits"))
                                 + Total(Shown(meta, "imported_bridge_exits"))
    BY <1>4, BothAddUp
<1>9. Total(Shown(meta, "bridge_exits")) \in Int
        /\ Total(Shown(meta, "imported_bridge_exits")) \in Int
    BY <1>4, TotalTyped DEF Lists
<1> QED
    BY <1>2, <1>3, <1>4, <1>5, <1>6, <1>7, <1>8, <1>9

\* Page and gauges agree, and the updater never panics (api.go:345-356,
\* updater.go:85-111), for all documents, rows and what submitters add.
THEOREM PageAgreesWithGaugesHolds == Spec => []PageAgreesWithGauges
<1>1. IInv => PageAgreesWithGauges
    <2> SUFFICES ASSUME IInv PROVE PageAgreesWithGauges
        OBVIOUS
    <2> DEFINE net(i) == rows[i].certificate.network
               exits(i) == Total(Shown(rows[i].meta, "bridge_exits"))
               imported(i) == Total(Shown(rows[i].meta, "imported_bridge_exits"))
               unprocessed == {i \in DOMAIN rows : ~rows[i].processed}
               Of(n) == {i \in DOMAIN rows : ~rows[i].processed /\ net(i) = n}
               page == ChainTotals(rows)
               gauges == NetworkTotals(rows)
    <2>1. IsFiniteSet(DOMAIN rows)
        <3>1. DOMAIN rows = 1..Len(rows) /\ Len(rows) \in Int /\ 1 \in Int
            BY DEF IInv
        <3> QED
            BY <3>1, FS_Interval
    <2>2. ASSUME NEW i \in DOMAIN rows
          PROVE  /\ Number(rows[i].meta, "network_id", Word32) = net(i)
                 /\ View(rows[i]).networkID = net(i)
                 /\ net(i) \in Nat /\ SumFunction(View(rows[i]).tokens) = exits(i) + imported(i)
                 /\ exits(i) \in Int /\ imported(i) \in Int
                 /\ Has(rows[i].meta, "network_id", "number")
        BY RowIsRead
    <2>3. ~GaugesPanic(rows)
        BY <2>2 DEF GaugesPanic
    <2>4. DOMAIN gauges = {net(i) : i \in unprocessed}
            /\ \A n \in DOMAIN gauges : gauges[n] = SumFunction([i \in Of(n) |-> exits(i)])
        <3> DEFINE read(i) == Number(rows[i].meta, "network_id", Word32)
                   At(n) == {i \in unprocessed : read(i) = n}
        <3>1. gauges = [n \in {read(i) : i \in unprocessed} |->
                          SumFunction([i \in At(n) |-> exits(i)])]
            BY DEF NetworkTotals
        <3>2. \A n : At(n) = Of(n)
            BY <2>2
        <3>3. {read(i) : i \in unprocessed} = {net(i) : i \in unprocessed}
            BY <2>2
        <3> HIDE DEF At, read, Of, exits, net, gauges, unprocessed
        <3> QED
            BY <3>1, <3>2, <3>3
    <2>5. DOMAIN page = {n \in {net(i) : i \in unprocessed} : n > 0}
            /\ \A n \in DOMAIN page :
                 page[n].total = SumFunction([i \in Of(n) |-> exits(i) + imported(i)])
        <3> DEFINE pending == {i \in DOMAIN rows :
                                 ~rows[i].processed /\ View(rows[i]).networkID > 0}
                   At(n) == {i \in pending : View(rows[i]).networkID = n}
        <3>1. page = [n \in {View(rows[i]).networkID : i \in pending} |->
                        [count |-> Cardinality(At(n)),
                         total |-> SumFunction([i \in At(n) |->
                                                  SumFunction(View(rows[i]).tokens)])]]
            BY DEF ChainTotals
        <3>2. {View(rows[i]).networkID : i \in pending}
                = {n \in {net(i) : i \in unprocessed} : n > 0}
            BY <2>2
        <3>3. ASSUME NEW n, n \in Nat, n > 0
              PROVE  [i \in At(n) |-> SumFunction(View(rows[i]).tokens)]
                       = [i \in Of(n) |-> exits(i) + imported(i)]
            <4>1. At(n) = Of(n)
                BY <2>2, <3>3
            <4>2. \A i \in Of(n) : SumFunction(View(rows[i]).tokens) = exits(i) + imported(i)
                BY <2>2
            <4> HIDE DEF At, Of, exits, imported
            <4> QED
                BY <4>1, <4>2
        <3>4. \A n \in {net(i) : i \in unprocessed} : n \in Nat
            BY <2>2
        <3> HIDE DEF At, Of, exits, imported, net, unprocessed, page, pending
        <3> QED
            BY <3>1, <3>2, <3>3, <3>4
    <2>6. ASSUME NEW n
          PROVE  SumFunction([i \in Of(n) |-> exits(i) + imported(i)])
                   = SumFunction([i \in Of(n) |-> exits(i)])
                       + SumFunction([i \in Of(n) |-> imported(i)])
        <3> DEFINE f == [i \in Of(n) |-> exits(i)]
                   g == [i \in Of(n) |-> imported(i)]
        <3>1. IsFiniteSet(Of(n))
            BY <2>1, FS_Subset
        <3>2. f \in [Of(n) -> Int] /\ g \in [Of(n) -> Int]
            BY <2>2
        <3>3. [i \in Of(n) |-> exits(i) + imported(i)] = [i \in Of(n) |-> f[i] + g[i]]
            OBVIOUS
        <3> HIDE DEF f, g, Of
        <3>4. SumFunction([i \in Of(n) |-> f[i] + g[i]]) = SumFunction(f) + SumFunction(g)
            BY <3>1, <3>2, SumAdd
        <3> QED
            BY <3>3, <3>4 DEF f, g
    <2>7. DOMAIN page = DOMAIN gauges \ {0}
        <3>1. \A n \in {net(i) : i \in unprocessed} : n \in Nat
            BY <2>2
        <3> HIDE DEF page, gauges, unprocessed, net
        <3> QED
            BY <2>4, <2>5, <3>1
    <2>8. ASSUME NEW n \in DOMAIN page
          PROVE  page[n].total = gauges[n] + SumFunction([i \in Of(n) |-> imported(i)])
        <3> HIDE DEF page, gauges, unprocessed, net, Of, exits, imported
        <3> QED
            BY <2>4, <2>5, <2>6, <2>7
    <2> QED
        BY <2>3, <2>7, <2>8 DEF PageAgreesWithGauges
<1> QED
    BY <1>1, InvariantHolds, PTL

-----------------------------------------------------------------------------
(* Sixteen digits and eight bytes *)

\* Bytes made of pairs of digits spell what the digits spell.
LEMMA SpellsPairs ==
    ASSUME NEW n \in Nat, NEW s \in Seq(Int), NEW b \in Seq(Int), Pairs(b, s, n)
    PROVE  Spells(256, b) = Spells(16, s)
<1>0. /\ Len(s) = 2 * n /\ Len(b) = n
      /\ \A i \in 1..n : b[i] = 16 * s[2 * i - 1] + s[2 * i]
    BY DEF Pairs
<1>1. PICK g \in [0..Len(b) -> Int] :
         /\ g[0] = 0
         /\ \A i \in 1..Len(b) : g[i] = 256 * g[i - 1] + b[i]
         /\ Spells(256, b) = g[Len(b)]
    <2>1. 256 \in Nat
        OBVIOUS
    <2> QED
        BY <2>1, SpellsEquations, Zenon
<1>2. PICK h \in [0..Len(s) -> Int] :
         /\ h[0] = 0
         /\ \A i \in 1..Len(s) : h[i] = 16 * h[i - 1] + s[i]
         /\ Spells(16, s) = h[Len(s)]
    <2>1. 16 \in Nat
        OBVIOUS
    <2> QED
        BY <2>1, SpellsEquations, Zenon
<1> DEFINE Q == {k \in Nat : k <= n => g[k] = h[2 * k]}
<1>3. 0 \in Q
    BY <1>1, <1>2
<1>4. ASSUME NEW k \in Nat, k \in Q PROVE k + 1 \in Q
    <2>1. CASE k + 1 <= n
        <3>1. /\ k + 1 \in 1..Len(b) /\ (k + 1) - 1 = k /\ k + 1 \in 1..n
              /\ 2 * k + 1 \in 1..Len(s) /\ (2 * k + 1) - 1 = 2 * k
              /\ 2 * k + 2 \in 1..Len(s) /\ (2 * k + 2) - 1 = 2 * k + 1
              /\ 2 * (k + 1) = 2 * k + 2 /\ 2 * (k + 1) - 1 = 2 * k + 1
              /\ k \in 0..Len(b) /\ 2 * k \in 0..Len(s) /\ k <= n
            BY <1>0, <2>1
        <3>2. g[k + 1] = 256 * g[k] + b[k + 1]
            BY ONLY <1>1, <3>1
        <3>3. h[2 * k + 1] = 16 * h[2 * k] + s[2 * k + 1]
                /\ h[2 * k + 2] = 16 * h[2 * k + 1] + s[2 * k + 2]
            BY ONLY <1>2, <3>1
        <3>4. b[k + 1] = 16 * s[2 * k + 1] + s[2 * k + 2]
            BY <1>0, <3>1
        <3>5. g[k] = h[2 * k]
            BY <1>4, <3>1
        <3>6. h[2 * k] \in Int /\ s[2 * k + 1] \in Int /\ s[2 * k + 2] \in Int
            <4>1. \A i \in 1..Len(s) : s[i] \in Int
                BY ONLY s \in Seq(Int)
            <4> QED
                BY ONLY <4>1, <3>1, h \in [0..Len(s) -> Int]
        <3>7. g[k + 1] = h[2 * k + 2]
            <4> DEFINE x == h[2 * k]
                       y == s[2 * k + 1]
                       z == s[2 * k + 2]
            <4>1. x \in Int /\ y \in Int /\ z \in Int
                BY <3>6
            <4>2. g[k + 1] = 256 * x + (16 * y + z)
                BY ONLY <3>2, <3>4, <3>5
            <4>3. h[2 * k + 2] = 16 * (16 * x + y) + z
                BY ONLY <3>3
            <4> HIDE DEF x, y, z
            <4>4. 256 * x + (16 * y + z) = 16 * (16 * x + y) + z
                BY ONLY <4>1
            <4> QED
                BY ONLY <4>2, <4>3, <4>4
        <3> QED
            BY <3>1, <3>7
    <2>2. CASE ~(k + 1 <= n)
        BY <2>2
    <2> QED
        BY <2>1, <2>2
<1>5. n \in Q
    <2> HIDE DEF Q
    <2> QED
        BY ONLY <1>3, <1>4, NaturalInduction, n \in Nat
<1>6. g[n] = h[2 * n]
    BY <1>5
<1> QED
    BY <1>0, <1>1, <1>2, <1>6

\* Where the digits are after a leading zero (PadDigits).
LEMMA PaddedPlaces ==
    ASSUME NEW d \in Seq(Int)
    PROVE  /\ Len(d) \in Nat /\ PadDigits(d) \in Seq(Int)
           /\ Len(PadDigits(d)) = Len(d) + 1 /\ PadDigits(d)[1] = 0
           /\ \A i \in 1..Len(d) : PadDigits(d)[i + 1] = d[i] /\ d[i] \in Int
<1> DEFINE zero == << 0 >>
           p == PadDigits(d)
<1>1. zero \in Seq(Int) /\ Len(zero) = 1 /\ zero[1] = 0
    OBVIOUS
<1>2. Len(d) \in Nat /\ \A i \in 1..Len(d) : d[i] \in Int
    OBVIOUS
<1>3. p = zero \o d
    BY DEF PadDigits
<1> HIDE DEF zero, p
<1>4. zero \in Seq(Int) /\ d \in Seq(Int) /\ p = zero \o d
    BY <1>1, <1>3
<1>5. /\ p \in Seq(Int) /\ Len(p) = Len(zero) + Len(d)
      /\ \A i \in 1..Len(zero) : p[i] = zero[i]
      /\ \A i \in 1..Len(d) : p[i + Len(zero)] = d[i]
    BY ONLY <1>4, ConcatPlaces
<1>6. /\ p \in Seq(Int) /\ Len(p) = Len(d) + 1 /\ p[1] = 0
      /\ \A i \in 1..Len(d) : p[i + 1] = d[i]
    BY ONLY <1>1, <1>2, <1>5
<1> QED
    BY <1>2, <1>6 DEF p

\* A leading zero spells nothing.
LEMMA SpellsPadded ==
    ASSUME NEW d \in Seq(Int), NEW base \in Nat
    PROVE  Spells(base, PadDigits(d)) = Spells(base, d)
<1> DEFINE p == PadDigits(d)
           n == Len(d)
<1>1. /\ n \in Nat /\ p \in Seq(Int) /\ Len(p) = n + 1 /\ p[1] = 0
      /\ \A i \in 1..n : p[i + 1] = d[i] /\ d[i] \in Int
    BY PaddedPlaces
<1> HIDE DEF p
<1>2. PICK g \in [0..Len(p) -> Int] :
         /\ g[0] = 0
         /\ \A i \in 1..Len(p) : g[i] = base * g[i - 1] + p[i]
         /\ Spells(base, p) = g[Len(p)]
    BY <1>1, SpellsEquations, Zenon
<1>3. PICK h \in [0..Len(d) -> Int] :
         /\ h[0] = 0
         /\ \A i \in 1..Len(d) : h[i] = base * h[i - 1] + d[i]
         /\ Spells(base, d) = h[Len(d)]
    BY SpellsEquations, Zenon
<1> DEFINE Q == {k \in Nat : k <= n => g[k + 1] = h[k]}
<1>4. 0 \in Q
    <2>1. 1 \in 1..Len(p) /\ 1 - 1 = 0
        BY <1>1
    <2>2. g[1] = base * 0 + 0
        BY ONLY <1>1, <1>2, <2>1
    <2>3. base * 0 + 0 = 0 /\ 0 + 1 = 1
        OBVIOUS
    <2> QED
        BY <1>3, <2>2, <2>3
<1>5. ASSUME NEW k \in Nat, k \in Q PROVE k + 1 \in Q
    <2>1. CASE k + 1 <= n
        <3>1. /\ k + 1 \in 1..n /\ (k + 1) - 1 = k /\ k <= n
              /\ (k + 1) + 1 \in 1..Len(p) /\ ((k + 1) + 1) - 1 = k + 1
            BY <1>1, <2>1
        <3>2. g[(k + 1) + 1] = base * g[k + 1] + p[(k + 1) + 1]
            BY ONLY <1>2, <3>1
        <3>3. h[k + 1] = base * h[k] + d[k + 1]
            BY ONLY <1>3, <3>1
        <3>4. p[(k + 1) + 1] = d[k + 1]
            BY <1>1, <3>1
        <3>5. g[k + 1] = h[k]
            BY <1>5, <3>1
        <3>6. g[(k + 1) + 1] = h[k + 1]
            BY ONLY <3>2, <3>3, <3>4, <3>5
        <3> QED
            BY <3>6
    <2>2. CASE ~(k + 1 <= n)
        BY <2>2
    <2> QED
        BY <2>1, <2>2
<1>6. n \in Q
    <2>1. n \in Nat
        BY <1>1
    <2> HIDE DEF Q, n
    <2> QED
        BY ONLY <1>4, <1>5, <2>1, NaturalInduction
<1>7. g[n + 1] = h[n]
    BY <1>1, <1>6
<1>8. Spells(base, p) = Spells(base, d)
    BY <1>1, <1>2, <1>3, <1>7
<1> QED
    BY <1>8 DEF p

\* Where the low digits are.
LowLength(n, s) == IF Len(s) > n THEN n ELSE Len(s)

LowAt(n, s) ==
    /\ LowLength(n, s) \in Nat /\ LowLength(n, s) <= Len(s)
    /\ Low(n, s) \in Seq(Int) /\ Len(Low(n, s)) = LowLength(n, s)
    /\ \A i \in 1..LowLength(n, s) : Low(n, s)[i] = s[(Len(s) - LowLength(n, s)) + i]

\* What the low digits of any sequence are.
LEMMA LowPlaces ==
    ASSUME NEW n \in Nat, n > 0, NEW s \in Seq(Int)
    PROVE  LowAt(n, s)
<1> DEFINE l == Len(s)
           k == LowLength(n, s)
           w == Low(n, s)
           a == IF l > n THEN l - n + 1 ELSE 1
<1>1. l \in Nat
    OBVIOUS
<1>2. w = SubSeq(s, a, l)
    BY DEF Low
<1>3. k = (IF l > n THEN n ELSE l)
    BY DEF LowLength
<1> HIDE DEF l, k, w
<1>4. k \in Nat /\ k <= l /\ (l - a) + 1 = k /\ a >= 1 /\ a \in Nat
        /\ \A i \in 1..k : (a + i) - 1 = (l - k) + i
    BY ONLY <1>1, <1>3, n \in Nat, n > 0
<1> HIDE DEF a
<1>5. w \in Seq(Int) /\ Len(w) = (l - a) + 1 /\ \A i \in 1..((l - a) + 1) : w[i] = s[(a + i) - 1]
    BY <1>1, <1>2, <1>4 DEF l
<1> QED
    BY <1>4, <1>5 DEF LowAt, l, k, w

\* Eight bytes of an even number of digits are sixteen of the digits.
LEMMA LowPairs ==
    ASSUME NEW m \in Nat, NEW e \in Seq(Int), NEW b \in Seq(Int), Pairs(b, e, m)
    PROVE  Spells(256, Low(8, b)) = Spells(16, Low(16, e))
<1> DEFINE k == LowLength(8, b)
           v == Low(8, b)
           l == LowLength(16, e)
           w == Low(16, e)
<1>0. /\ Len(e) = 2 * m /\ Len(b) = m
      /\ \A i \in 1..m : b[i] = 16 * e[2 * i - 1] + e[2 * i]
    BY DEF Pairs
<1>1. /\ k \in Nat /\ k <= Len(b) /\ v \in Seq(Int) /\ Len(v) = k
      /\ \A i \in 1..k : v[i] = b[(Len(b) - k) + i]
    <2>1. LowAt(8, b)
        BY LowPlaces
    <2> QED
        BY <2>1 DEF LowAt
<1>2. /\ l \in Nat /\ l <= Len(e) /\ w \in Seq(Int) /\ Len(w) = l
      /\ \A i \in 1..l : w[i] = e[(Len(e) - l) + i]
    <2>1. LowAt(16, e)
        BY LowPlaces
    <2> QED
        BY <2>1 DEF LowAt
<1>3. l = 2 * k
    BY <1>0 DEF LowLength
<1> HIDE DEF k, l, v, w
<1>4. ASSUME NEW i \in 1..k
      PROVE  v[i] = 16 * w[2 * i - 1] + w[2 * i]
    <2> DEFINE j == (m - k) + i
    <2>1. /\ j \in 1..m /\ (Len(b) - k) + i = j
          /\ 2 * i - 1 \in 1..l /\ (Len(e) - l) + (2 * i - 1) = 2 * j - 1
          /\ 2 * i \in 1..l /\ (Len(e) - l) + 2 * i = 2 * j
        <3>1. k \in Nat /\ k <= m /\ i \in Nat /\ 1 <= i /\ i <= k
            BY <1>0, <1>1
        <3> QED
            BY ONLY <1>0, <1>3, <3>1, m \in Nat
    <2>2. b[j] = 16 * e[2 * j - 1] + e[2 * j]
        BY <1>0, <2>1
    <2> HIDE DEF j
    <2>3. v[i] = b[j] /\ w[2 * i - 1] = e[2 * j - 1] /\ w[2 * i] = e[2 * j]
        BY <1>1, <1>2, <2>1
    <2> QED
        BY <2>2, <2>3
<1>5. Spells(256, v) = Spells(16, w)
    <2>1. Pairs(v, w, k)
        BY <1>1, <1>2, <1>3, <1>4 DEF Pairs
    <2> QED
        BY <1>1, <1>2, <2>1, SpellsPairs
<1> QED
    BY <1>5 DEF v, w

\* Two sequences with the same elements at the same places are equal.
LEMMA SameSequence ==
    ASSUME NEW v \in Seq(Int), NEW w \in Seq(Int), Len(v) = Len(w),
           \A i \in 1..Len(v) : v[i] = w[i]
    PROVE  v = w
OBVIOUS

\* A leading zero does not change the low digits' number.
LEMMA LowPadded ==
    ASSUME NEW d \in Seq(Int), NEW m \in Nat, Len(d) = 2 * m - 1
    PROVE  Spells(16, Low(16, PadDigits(d))) = Spells(16, Low(16, d))
<1> DEFINE p == PadDigits(d)
           k == LowLength(16, p)
           v == Low(16, p)
           l == LowLength(16, d)
           w == Low(16, d)
<1>1. /\ Len(d) \in Nat /\ p \in Seq(Int) /\ Len(p) = Len(d) + 1
      /\ \A i \in 1..Len(d) : p[i + 1] = d[i]
    BY PaddedPlaces
<1> HIDE DEF p
<1>2. /\ k \in Nat /\ k <= Len(p) /\ v \in Seq(Int) /\ Len(v) = k
      /\ \A i \in 1..k : v[i] = p[(Len(p) - k) + i]
    <2>1. LowAt(16, p)
        BY <1>1, LowPlaces
    <2> QED
        BY <2>1 DEF LowAt
<1>3. /\ l \in Nat /\ l <= Len(d) /\ w \in Seq(Int) /\ Len(w) = l
      /\ \A i \in 1..l : w[i] = d[(Len(d) - l) + i]
    <2>1. LowAt(16, d)
        BY LowPlaces
    <2> QED
        BY <2>1 DEF LowAt
<1>4. CASE Len(d) > 16
    <2>1. k = 16 /\ l = 16
        BY <1>1, <1>4 DEF LowLength
    <2> HIDE DEF k, l, v, w
    <2>2. ASSUME NEW i \in 1..16 PROVE v[i] = w[i]
        <3>1. /\ (Len(d) - 16) + i \in 1..Len(d)
              /\ ((Len(d) - 16) + i) + 1 = (Len(p) - 16) + i
            <4> DEFINE n == Len(d)
                       q == Len(p)
            <4>1. n \in Nat /\ q = n + 1 /\ n > 16
                BY <1>1, <1>4
            <4> HIDE DEF n, q
            <4>2. (n - 16) + i \in 1..n /\ ((n - 16) + i) + 1 = (q - 16) + i
                BY ONLY <4>1, i \in 1..16
            <4> QED
                BY <4>2 DEF n, q
        <3>2. p[(Len(p) - 16) + i] = d[(Len(d) - 16) + i]
            BY <1>1, <3>1
        <3> QED
            BY <1>2, <1>3, <2>1, <3>2
    <2>3. v = w
        <3>1. Len(v) = Len(w)
            BY <1>2, <1>3, <2>1
        <3>2. \A i \in 1..Len(v) : v[i] = w[i]
            BY <1>2, <2>1, <2>2
        <3> QED
            BY ONLY <1>2, <1>3, <3>1, <3>2, SameSequence
    <2> QED
        BY <2>3 DEF v, w, p
<1>5. CASE ~(Len(d) > 16)
    <2>1. k = Len(p) /\ l = Len(d)
        <3>1. Len(p) <= 16
            BY ONLY <1>1, <1>5, Len(d) = 2 * m - 1, m \in Nat
        <3> QED
            BY <1>1, <1>5, <3>1 DEF LowLength
    <2> HIDE DEF k, l, v, w
    <2>2. ASSUME NEW i \in 1..Len(p) PROVE v[i] = p[i]
        <3>1. (Len(p) - Len(p)) + i = i
            BY <1>1
        <3> QED
            BY <1>2, <2>1, <3>1
    <2>3. ASSUME NEW i \in 1..Len(d) PROVE w[i] = d[i]
        <3>1. (Len(d) - Len(d)) + i = i
            BY <1>1
        <3> QED
            BY <1>3, <2>1, <3>1
    <2>4. v = p /\ w = d
        <3>1. Len(v) = Len(p) /\ Len(w) = Len(d)
            BY <1>2, <1>3, <2>1
        <3>2. /\ \A i \in 1..Len(v) : v[i] = p[i]
              /\ \A i \in 1..Len(w) : w[i] = d[i]
            BY <2>2, <2>3, <3>1
        <3> QED
            BY ONLY <1>1, <1>2, <1>3, <3>1, <3>2, SameSequence, d \in Seq(Int)
    <2>5. Spells(16, PadDigits(d)) = Spells(16, d)
        BY SpellsPadded
    <2> QED
        BY <2>4, <2>5 DEF v, w, p
<1> QED
    BY <1>4, <1>5

\* The number that is read of an amount's bytes is that of its low sixteen digits.
LEMMA AmountIsSpelled ==
    ASSUME NEW d \in Seq(0..15)
    PROVE  BytesToUint64(HexStringToBytes(d)) = Spells(16, Low(16, d))
<1> DEFINE e == Even(d)
           b == HexStringToBytes(d)
<1>1. PICK m \in Nat : Pairs(b, e, m)
    BY BytesOfDigits
<1>2. b \in Seq(Int) /\ e \in Seq(0..15)
    BY BytesOfDigits, EvenDigits
<1>3. \A s \in Seq(0..15) : s \in Seq(Int)
    OBVIOUS
<1>4. PICK n \in Nat : /\ Len(d) = 2 * n \/ (Len(d) = 2 * n - 1 /\ e = PadDigits(d))
                       /\ Len(d) = 2 * n => e = d
    BY EvenDigits
<1> HIDE DEF e, b
<1>5. Spells(256, Low(8, b)) = Spells(16, Low(16, e))
    BY <1>1, <1>2, <1>3, LowPairs
<1>6. Spells(16, Low(16, e)) = Spells(16, Low(16, d))
    BY <1>3, <1>4, LowPadded
<1> QED
    BY <1>5, <1>6 DEF BytesToUint64, b

-----------------------------------------------------------------------------
(* The page shows the document *)

DocAddress(doc, at) ==
    HexStringToBytes(ExitAt(doc, at)["token_info"][2]["origin_token_address"][2])
DocAmount(doc, at) == Spells(16, Low(16, ExitAt(doc, at)["amount"][2]))

\* Bytes are empty when there are no digits.
LEMMA NoBytes ==
    ASSUME NEW d \in Seq(0..15)
    PROVE  HexStringToBytes(d) = << >> <=> d = << >>
<1> DEFINE b == HexStringToBytes(d)
           e == Even(d)
<1>1. b \in Seq(Int)
    BY BytesOfDigits
<1>2. PICK m \in Nat : Pairs(b, e, m)
    BY BytesOfDigits
<1>3. PICK n \in Nat : /\ Len(e) = 2 * n
                       /\ Len(d) = 2 * n \/ Len(d) = 2 * n - 1
    BY EvenDigits
<1>4. Len(d) \in Nat /\ Len(b) = m /\ Len(e) = 2 * m
    BY <1>2 DEF Pairs
<1> HIDE DEF b, e
<1>5. Len(b) = 0 <=> Len(d) = 0
    BY ONLY <1>3, <1>4, m \in Nat, n \in Nat
<1>6. \A s \in Seq(Int) : Len(s) = 0 <=> s = << >>
    OBVIOUS
<1>7. d \in Seq(Int)
    OBVIOUS
<1> QED
    BY <1>1, <1>5, <1>6, <1>7 DEF b

\* What an exit in a document becomes: its token and amount as the page reads them.
LEMMA ExitIsRead ==
    ASSUME NEW m, DigitsOf(m), HashableExit(BridgeExit(m))
    PROVE  LET e == BridgeExit(m)
               digits == m["amount"][2]
           IN /\ e.amount \notin {Nil, << >>} <=> digits # << >>
              /\ BytesToUint64(e.amount) = Spells(16, Low(16, digits))
              /\ TokenOf(e)
                   = HexStringToBytes(m["token_info"][2]["origin_token_address"][2])
<1> DEFINE e == BridgeExit(m)
<1>1. e.amount # Nil /\ e.token # Nil /\ e.token.address # Nil
    BY DEF HashableExit
<1>2. m["amount"][2] \in Seq(0..15) /\ e.amount = HexStringToBytes(m["amount"][2])
    BY <1>1, AmountOfExit
<1>3. e.amount \notin {Nil, << >>} <=> m["amount"][2] # << >>
    BY <1>1, <1>2, NoBytes
<1>4. BytesToUint64(e.amount) = Spells(16, Low(16, m["amount"][2]))
    BY <1>2, AmountIsSpelled
<1>5. e.token = Object(m, "token_info", TokenInfo)
    BY DEF BridgeExit
<1>6. e.token = TokenInfo(m["token_info"][2])
    BY <1>1, <1>5 DEF Object
<1>7. e.token.address = Bytes(m["token_info"][2], "origin_token_address")
    BY <1>6 DEF TokenInfo
<1>8. e.token.address = HexStringToBytes(m["token_info"][2]["origin_token_address"][2])
    BY <1>1, <1>7 DEF Bytes
<1>9. TokenOf(e) = e.token.address
    BY <1>1 DEF TokenOf
<1> QED
    BY <1>3, <1>4, <1>8, <1>9

\* What the page reads at each place is what the document says there.
LEMMA ShownIsDocument ==
    ASSUME NEW doc \in Documents, NEW extra \in Extras, Hashable(Certificate(doc, extra)),
           NEW shown, shown = BothShown(ExtractMetadata(Certificate(doc, extra)))
    PROVE  /\ DOMAIN shown = Exits(doc)
           /\ \A at \in Exits(doc) : /\ shown[at].token = DocAddress(doc, at)
                                     /\ shown[at].amount = DocAmount(doc, at)
<1> DEFINE c == Certificate(doc, extra)
           meta == ExtractMetadata(c)
           at0(list, i) == ExitAt(doc, <<list, i>>)
<1>1. ASSUME NEW list \in Lists
      PROVE  /\ Places(c, list) = DOMAIN Objects(doc, list)
             /\ \A i \in Places(c, list) :
                  LET e == ExitOf(c, list, i)
                  IN /\ e.amount \notin {Nil, << >>} <=> at0(list, i)["amount"][2] # << >>
                     /\ BytesToUint64(e.amount) = DocAmount(doc, <<list, i>>)
                     /\ TokenOf(e) = DocAddress(doc, <<list, i>>)
    <2>1. /\ Places(c, list) = DOMAIN Objects(doc, list)
          /\ \A i \in Places(c, list) :
               /\ ExitOf(c, list, i) = BridgeExit(at0(list, i))
               /\ HashableExit(ExitOf(c, list, i))
               /\ DigitsOf(at0(list, i))
        BY ExitsOfDocument
    <2> HIDE DEF c
    <2>2. ASSUME NEW i \in Places(c, list)
          PROVE  LET e == ExitOf(c, list, i)
                 IN /\ e.amount \notin {Nil, << >>} <=> at0(list, i)["amount"][2] # << >>
                    /\ BytesToUint64(e.amount) = DocAmount(doc, <<list, i>>)
                    /\ TokenOf(e) = DocAddress(doc, <<list, i>>)
        BY <2>1, ExitIsRead DEF DocAmount, DocAddress
    <2> QED
        BY <2>1, <2>2
<1>2. ASSUME NEW list \in Lists
      PROVE  /\ DOMAIN Shown(meta, list)
                  = {i \in DOMAIN Objects(doc, list) : at0(list, i)["amount"][2] # << >>}
             /\ \A i \in DOMAIN Shown(meta, list) :
                  /\ Shown(meta, list)[i].token = DocAddress(doc, <<list, i>>)
                  /\ Shown(meta, list)[i].amount = DocAmount(doc, <<list, i>>)
    <2> DEFINE places == {j \in Places(c, list) : ExitOf(c, list, j).amount \notin {Nil, << >>}}
               read == Shown(meta, list)
    <2> HIDE DEF c
    <2>1. read = [i \in places |-> [token |-> TokenOf(ExitOf(c, list, i)),
                                    amount |-> BytesToUint64(ExitOf(c, list, i).amount)]]
        BY ShownExits, Zenon
    <2>2. places = {i \in DOMAIN Objects(doc, list) : at0(list, i)["amount"][2] # << >>}
        BY <1>1
    <2>3. \A i \in places : /\ TokenOf(ExitOf(c, list, i)) = DocAddress(doc, <<list, i>>)
                            /\ BytesToUint64(ExitOf(c, list, i).amount)
                                 = DocAmount(doc, <<list, i>>)
        BY <1>1
    <2>4. DOMAIN read = places
            /\ \A i \in places : /\ read[i].token = DocAddress(doc, <<list, i>>)
                                 /\ read[i].amount = DocAmount(doc, <<list, i>>)
        <3> HIDE DEF read, places
        <3> QED
            BY <2>1, <2>3
    <2> QED
        BY <2>2, <2>4
<1> HIDE DEF meta
<1>3. /\ DOMAIN shown = UNION {{list} \X DOMAIN Shown(meta, list) : list \in Lists}
      /\ \A at \in DOMAIN shown :
           /\ at[1] \in Lists /\ at[2] \in DOMAIN Shown(meta, at[1]) /\ at = <<at[1], at[2]>>
           /\ shown[at] = Shown(meta, at[1])[at[2]]
    BY BothPlaces DEF meta
<1>4. DOMAIN shown = Exits(doc)
    <2>1. ASSUME NEW at \in DOMAIN shown PROVE at \in Exits(doc)
        <3>1. /\ at[1] \in Lists /\ at[2] \in DOMAIN Shown(meta, at[1])
              /\ at = <<at[1], at[2]>>
            BY <1>3
        <3>2. /\ at[2] \in DOMAIN Objects(doc, at[1])
              /\ at0(at[1], at[2])["amount"][2] # << >>
            BY <1>2, <3>1
        <3>3. at \in {at[1]} \X DOMAIN Objects(doc, at[1])
            BY <3>1, <3>2
        <3> QED
            BY <3>1, <3>2, <3>3 DEF Exits
    <2>2. ASSUME NEW at \in Exits(doc) PROVE at \in DOMAIN shown
        <3>1. PICK list \in Lists : at \in {list} \X DOMAIN Objects(doc, list)
            BY DEF Exits
        <3>2. /\ at[1] = list /\ at[2] \in DOMAIN Objects(doc, list)
              /\ at = <<list, at[2]>> /\ ExitAt(doc, at)["amount"][2] # << >>
            BY <3>1 DEF Exits
        <3>3. at[2] \in DOMAIN Shown(meta, list)
            BY <1>2, <3>2
        <3>4. at \in {list} \X DOMAIN Shown(meta, list)
            BY <3>2, <3>3
        <3> QED
            BY <1>3, <3>4
    <2> QED
        BY <2>1, <2>2
<1>5. ASSUME NEW at \in DOMAIN shown
      PROVE  shown[at].token = DocAddress(doc, at) /\ shown[at].amount = DocAmount(doc, at)
    <2>1. /\ at[1] \in Lists /\ at[2] \in DOMAIN Shown(meta, at[1]) /\ at = <<at[1], at[2]>>
          /\ shown[at] = Shown(meta, at[1])[at[2]]
        BY <1>3
    <2>2. /\ Shown(meta, at[1])[at[2]].token = DocAddress(doc, <<at[1], at[2]>>)
          /\ Shown(meta, at[1])[at[2]].amount = DocAmount(doc, <<at[1], at[2]>>)
        BY <1>2, <2>1
    <2> QED
        BY <2>1, <2>2
<1> QED
    BY <1>4, <1>5

\* The page shows what the document says (marshal.go:36-42, 71-174, grpc.go:341-394,
\* api.go:270-332), network and height as far as the float64s they pass through hold
\* them, for all documents, with whatever their submitters add.
THEOREM PageShowsTheDocumentHolds == Spec => []PageShowsTheDocument
<1>1. ASSUME IInv, NEW i \in DOMAIN rows
      PROVE  LET doc == rows[i].doc
                 view == View(rows[i])
                 network == Said(doc, "network_id")
                 height == Said(doc, "height")
                 OfToken(t) == {at \in Exits(doc) : DocAddress(doc, at) = t}
             IN /\ network < Word32 => view.networkID = network
                /\ height <= Exact => view.height = height
                /\ Float64(height) < Word64 => view.height = Float64(height)
                /\ view.exitCount = Len(Objects(doc, "bridge_exits"))
                /\ view.importCount = Len(Objects(doc, "imported_bridge_exits"))
                /\ view.tokens = [t \in {DocAddress(doc, at) : at \in Exits(doc)} |->
                                    SumFunction([at \in OfToken(t) |-> DocAmount(doc, at)])]
    <2>1. PICK doc \in Documents, extra \in Extras, p \in BOOLEAN :
             rows[i] = Row(doc, extra, p) /\ Hashable(Certificate(doc, extra))
        BY <1>1, StoredIsRow DEF IInv
    <2> DEFINE c == Certificate(doc, extra)
               meta == ExtractMetadata(c)
               shown == BothShown(meta)
               OfToken(t) == {at \in Exits(doc) : DocAddress(doc, at) = t}
    <2>2. rows[i].doc = doc /\ rows[i].meta = meta
        BY <2>1 DEF Row
    <2>3. /\ c.network = Number(doc, "network_id", Word32)
          /\ c.height = Number(doc, "height", Word64)
          /\ DOMAIN c.exits = DOMAIN Objects(doc, "bridge_exits")
          /\ DOMAIN c.imported = DOMAIN Objects(doc, "imported_bridge_exits")
          /\ c.exits = [k \in DOMAIN c.exits |-> c.exits[k]]
          /\ c.imported = [k \in DOMAIN c.imported |-> c.imported[k]]
        BY DEF Certificate, CertificateFromJSON
    <2>4. /\ Len(c.exits) = Len(Objects(doc, "bridge_exits"))
          /\ Len(c.imported) = Len(Objects(doc, "imported_bridge_exits"))
        <3>1. \A list \in Lists : /\ Len(Objects(doc, list)) \in Nat
                                  /\ DOMAIN Objects(doc, list) = 1..Len(Objects(doc, list))
            BY DocumentAssumption
        <3>2. \A f : \A n \in Nat : f = [k \in 1..n |-> f[k]] => Len(f) = n
            OBVIOUS
        <3> HIDE DEF c
        <3> QED
            BY <2>3, <3>1, <3>2 DEF Lists
    <2>5. /\ Has(meta, "network_id", "number") /\ meta["network_id"][2] = c.network
          /\ Has(meta, "height", "number") /\ meta["height"][2] = c.height
          /\ Has(meta, "bridge_exits_count", "number")
          /\ meta["bridge_exits_count"][2] = Len(c.exits)
          /\ Has(meta, "imported_bridge_exits_count", "number")
          /\ meta["imported_bridge_exits_count"][2] = Len(c.imported)
        BY MetadataNumbers
    <2>6. /\ DOMAIN shown = Exits(doc)
          /\ \A at \in Exits(doc) : /\ shown[at].token = DocAddress(doc, at)
                                    /\ shown[at].amount = DocAmount(doc, at)
        BY <2>1, ShownIsDocument
    <2> HIDE DEF c, meta
    <2>7. /\ View(rows[i]).networkID = Unsigned(Word32, Float64(c.network))
          /\ View(rows[i]).height = Unsigned(Word64, Float64(c.height))
          /\ View(rows[i]).exitCount = Len(Objects(doc, "bridge_exits"))
          /\ View(rows[i]).importCount = Len(Objects(doc, "imported_bridge_exits"))
          /\ View(rows[i]).tokens = TotalsByToken(shown)
        BY <2>2, <2>3, <2>4, <2>5 DEF View, Number, Said, Count, TokenTotals
    <2> HIDE DEF shown
    <2>8. ASSUME NEW t
          PROVE  Total(Restrict(shown, {at \in DOMAIN shown : shown[at].token = t}))
                   = SumFunction([at \in OfToken(t) |-> DocAmount(doc, at)])
        <3> DEFINE D == {at \in DOMAIN shown : shown[at].token = t}
                   part == Restrict(shown, D)
        <3>1. D = OfToken(t)
            BY <2>6
        <3>2. DOMAIN part = D /\ \A at \in D : part[at] = shown[at]
            BY DEF Restrict
        <3>3. \A at \in D : shown[at].amount = DocAmount(doc, at)
            BY <2>6
        <3> HIDE DEF D, part, OfToken
        <3>4. [at \in DOMAIN part |-> part[at].amount]
                = [at \in OfToken(t) |-> DocAmount(doc, at)]
            BY <3>1, <3>2, <3>3
        <3>5. Total(part) = SumFunction([at \in OfToken(t) |-> DocAmount(doc, at)])
            BY ONLY <3>4 DEF Total
        <3> QED
            BY <3>5 DEF part, D
    <2>9. {shown[at].token : at \in DOMAIN shown} = {DocAddress(doc, at) : at \in Exits(doc)}
        BY <2>6
    <2>10. TotalsByToken(shown)
             = [t \in {DocAddress(doc, at) : at \in Exits(doc)} |->
                  SumFunction([at \in OfToken(t) |-> DocAmount(doc, at)])]
        <3> HIDE DEF OfToken
        <3>1. TotalsByToken(shown)
                = [t \in {shown[at].token : at \in DOMAIN shown} |->
                     Total(Restrict(shown, {at \in DOMAIN shown : shown[at].token = t}))]
            BY DEF TotalsByToken
        <3> QED
            BY <2>8, <2>9, <3>1
    <2> DEFINE network == Said(doc, "network_id")
               height == Said(doc, "height")
    <2>11. InRange(network) /\ InRange(height) /\ network \in Nat /\ height \in Nat
        BY DocumentAssumption DEF InRange
    <2>12. c.network = Unsigned(Word32, Float64(network))
             /\ c.height = Unsigned(Word64, Float64(height))
        BY <2>3 DEF Number
    <2> HIDE DEF network, height, OfToken
    <2>13. network < Word32 => View(rows[i]).networkID = network
        <3>1. network < Word32 => network \in 0..(Word32 - 1)
            BY <2>11, NumberAssumption
        <3> QED
            BY <2>7, <2>12, <3>1, WordSurvives
    <2>14. Float64(height) < Word64 => View(rows[i]).height = Float64(height)
        BY <2>7, <2>11, <2>12, RoundedOnce DEF Unsigned
    <2>15. height <= Exact => View(rows[i]).height = height
        <3>1. height <= Exact => Float64(height) = height /\ height < Word64
            BY <2>11, SmallIsExact, NumberAssumption
        <3> QED
            BY <2>14, <3>1
    <2> QED
        BY <2>2, <2>7, <2>10, <2>13, <2>14, <2>15 DEF network, height, OfToken
<1>2. IInv => PageShowsTheDocument
    BY <1>1 DEF PageShowsTheDocument, DocAddress, DocAmount
<1> QED
    BY <1>2, InvariantHolds, PTL

-----------------------------------------------------------------------------
(* One withdrawal has one id *)

\* Leading zeros of an amount, and what is left of it.
SignificantAt(b, k) ==
    /\ k \in 0..Len(b) /\ \A j \in 1..k : b[j] = 0
    /\ k < Len(b) => b[k + 1] # 0
    /\ Significant(b) \in Seq(Int) /\ Len(Significant(b)) = Len(b) - k
    /\ \A i \in 1..(Len(b) - k) : Significant(b)[i] = b[k + i]

\* Significant cuts off the zeros that an amount begins with, and no more.
LEMMA SignificantPlaces ==
    ASSUME NEW b \in Seq(Int)
    PROVE  \E k \in 0..Len(b) : SignificantAt(b, k)
<1> DEFINE n == Len(b)
           T == {j \in Nat : j > n \/ (j >= 1 /\ b[j] # 0)}
           zeros == {i \in DOMAIN b : \A j \in 1..i : b[j] = 0}
<1>1. n \in Nat /\ DOMAIN b = 1..n
    OBVIOUS
<1>2. PICK m \in T : \A t \in T : m <= t
    <2>1. T \in SUBSET Nat /\ n + 1 \in T
        BY <1>1
    <2> HIDE DEF T
    <2> QED
        BY <2>1, LeastNat
<1>3. PICK k \in 0..n : m = k + 1
    <2>1. m >= 1 /\ m <= n + 1 /\ m \in Nat
        <3>1. n + 1 \in T
            BY <1>1
        <3> QED
            BY <1>1, <1>2, <3>1
    <2>2. m - 1 \in 0..n /\ m = (m - 1) + 1
        BY <1>1, <2>1
    <2> QED
        BY <2>2
<1>4. \A j \in 1..k : b[j] = 0
    <2>1. ASSUME NEW j \in 1..k PROVE b[j] = 0
        <3>1. j \in Nat /\ ~(m <= j) /\ ~(j > n) /\ j >= 1
            BY <1>1, <1>3
        <3>2. j \notin T
            BY <1>2, <3>1
        <3> QED
            BY <3>1, <3>2
    <2> QED
        BY <2>1
<1>5. k < n => b[k + 1] # 0
    BY <1>1, <1>2, <1>3
<1>6. zeros = 1..k
    <2>1. ASSUME NEW i \in 1..k PROVE i \in zeros
        <3>1. i \in 1..n /\ \A j \in 1..i : j \in 1..k
            BY <1>1, <1>3
        <3> QED
            BY <1>1, <1>4, <3>1
    <2>2. ASSUME NEW i \in zeros PROVE i \in 1..k
        <3>1. i \in 1..n /\ \A j \in 1..i : b[j] = 0
            BY <1>1
        <3>2. CASE i > k
            <4>1. k + 1 \in 1..i /\ k < n
                BY <1>1, <1>3, <3>1, <3>2
            <4> QED
                BY <1>5, <3>1, <4>1
        <3> QED
            BY <1>1, <1>3, <3>1, <3>2
    <2> HIDE DEF zeros
    <2> QED
        BY <2>1, <2>2
<1>7. Cardinality(zeros) = k
    <2>1. 1 \in Int /\ k \in Int /\ k \in Nat
        BY <1>1, <1>3
    <2>2. Cardinality(1..k) = IF 1 > k THEN 0 ELSE k - 1 + 1
        BY ONLY <2>1, FS_Interval
    <2> HIDE DEF zeros
    <2> QED
        BY <1>6, <2>1, <2>2
<1>8. Significant(b) = SubSeq(b, k + 1, n)
    BY <1>7 DEF Significant
<1>9. /\ Significant(b) \in Seq(Int) /\ Len(Significant(b)) = n - k
      /\ \A i \in 1..(n - k) : Significant(b)[i] = b[k + i]
    <2>1. CASE k < n
        <3>1. k + 1 \in 1..Len(b) /\ n \in (k + 1)..Len(b) /\ (n - (k + 1)) + 1 = n - k
                /\ \A i \in 1..(n - k) : ((k + 1) + i) - 1 = k + i
            BY <1>1, <1>3, <2>1
        <3> DEFINE w == Significant(b)
                   a == k + 1
        <3>2. w = SubSeq(b, a, n)
            BY <1>8
        <3> HIDE DEF w, a
        <3>3. /\ w \in Seq(Int) /\ Len(w) = (n - a) + 1
              /\ \A i \in 1..((n - a) + 1) : w[i] = b[(a + i) - 1]
            BY <3>1, <3>2, CutPlaces DEF a
        <3> QED
            BY <3>1, <3>3 DEF w, a
    <2>2. CASE k = n
        <3>1. k + 1 > n /\ n - k = 0 /\ n - k \in Nat
            BY <1>1, <2>2
        <3>2. SubSeq(b, k + 1, n) = << >>
            BY <1>1, <1>3, <3>1
        <3> DEFINE w == Significant(b)
        <3>3. w = << >>
            BY <1>8, <3>2
        <3> HIDE DEF w
        <3>4. w \in Seq(Int) /\ Len(w) = 0
            BY ONLY <3>3
        <3>5. \A i \in 1..(n - k) : FALSE
            <4> HIDE DEF n
            <4> QED
                BY <3>1
        <3>6. \A i \in 1..(n - k) : w[i] = b[k + i]
            BY ONLY <3>5
        <3>7. w \in Seq(Int) /\ Len(w) = n - k
            BY ONLY <3>1, <3>4
        <3> QED
            BY ONLY <3>6, <3>7, Zenon DEF w
    <2>3. k < n \/ k = n
        <3>1. n \in Nat /\ k \in 0..n
            BY <1>1
        <3> HIDE DEF n
        <3> QED
            BY ONLY <3>1
    <2> QED
        BY ONLY <2>1, <2>2, <2>3, Zenon
<1> QED
    BY <1>3, <1>4, <1>5, <1>9 DEF SignificantAt

\* The byte at place i of 32 that the significant bytes s fill from the right.
At32(s, i) == IF (Len(s) - 32) + i >= 1 THEN s[(Len(s) - 32) + i] ELSE 0

\* What is hashed of an amount are its significant bytes, whatever form it has.
LEMMA AmountPlaces ==
    ASSUME NEW b \in Seq(Int)
    PROVE  /\ Amount32(b) \in Seq(Int) /\ Len(Amount32(b)) = 32
           /\ \A i \in 1..32 : Amount32(b)[i] = At32(Significant(b), i)
<1> DEFINE n == Len(b)
           s == Significant(b)
           w == Amount32(b)
           At(i) == IF (n - 32) + i >= 1 THEN b[(n - 32) + i] ELSE 0
<1>1. n \in Nat
    OBVIOUS
<1>2. w \in Seq(Int) /\ Len(w) = 32 /\ \A i \in 1..32 : w[i] = At(i)
    <2>1. CASE n <= 32
        <3> DEFINE zeros == [i \in 1..(32 - n) |-> 0]
        <3>1. zeros \in Seq(Int) /\ Len(zeros) = 32 - n /\ \A i \in 1..(32 - n) : zeros[i] = 0
            BY <1>1, <2>1
        <3>2. w = zeros \o b
            BY <2>1 DEF Amount32
        <3> HIDE DEF zeros, w
        <3>3. zeros \in Seq(Int) /\ b \in Seq(Int) /\ w = zeros \o b
            BY <3>1, <3>2
        <3>4. /\ w \in Seq(Int) /\ Len(w) = Len(zeros) + Len(b)
              /\ \A i \in 1..Len(zeros) : w[i] = zeros[i]
              /\ \A i \in 1..Len(b) : w[i + Len(zeros)] = b[i]
            BY ONLY <3>3, ConcatPlaces
        <3>5. Len(w) = 32
            BY <1>1, <3>1, <3>4
        <3>6. ASSUME NEW i \in 1..32 PROVE w[i] = At(i)
            <4>1. CASE i <= 32 - n
                <5>1. i \in 1..(32 - n) /\ ~((n - 32) + i >= 1)
                    BY <1>1, <4>1
                <5> QED
                    BY <3>1, <3>4, <5>1
            <4>2. CASE i > 32 - n
                <5> DEFINE j == (n - 32) + i
                <5>1. j \in 1..n /\ j + (32 - n) = i /\ j >= 1
                    BY <1>1, <2>1, <4>2
                <5> HIDE DEF j
                <5>2. w[j + (32 - n)] = b[j]
                    BY <3>1, <3>4, <5>1
                <5>3. w[i] = b[j]
                    BY <5>1, <5>2
                <5> QED
                    BY <5>1, <5>3 DEF j
            <4> QED
                BY <1>1, <4>1, <4>2
        <3> QED
            BY <3>4, <3>5, <3>6
    <2>2. CASE n > 32
        <3> DEFINE a == n - 31
        <3>1. a \in 1..Len(b) /\ n \in a..Len(b) /\ (n - a) + 1 = 32
                /\ \A i \in 1..32 : (a + i) - 1 = (n - 32) + i /\ (n - 32) + i >= 1
            BY <1>1, <2>2
        <3>2. w = SubSeq(b, a, n)
            <4>1. ~(Len(b) <= 32)
                BY <1>1, <2>2
            <4> QED
                BY ONLY <4>1, Zenon DEF Amount32, w, a, n
        <3> HIDE DEF a, w, n
        <3>3. a \in 1..Len(b) /\ n \in a..Len(b) /\ w = SubSeq(b, a, n) /\ b \in Seq(Int)
            BY <3>1, <3>2
        <3>4. /\ w \in Seq(Int) /\ Len(w) = (n - a) + 1
              /\ \A i \in 1..((n - a) + 1) : w[i] = b[(a + i) - 1]
            BY ONLY <3>3, CutPlaces
        <3> QED
            BY <3>1, <3>4
    <2> QED
        BY <1>1, <2>1, <2>2
<1>3. PICK k \in 0..n : SignificantAt(b, k)
    BY SignificantPlaces
<1>4. /\ \A j \in 1..k : b[j] = 0
      /\ s \in Seq(Int) /\ Len(s) = n - k
      /\ \A i \in 1..(n - k) : s[i] = b[k + i]
    BY <1>3 DEF SignificantAt
<1> HIDE DEF w, s
<1>5. ASSUME NEW i \in 1..32 PROVE At(i) = At32(s, i)
    <2> DEFINE j == (n - 32) + i
               l == (Len(s) - 32) + i
    <2>1. j \in Int /\ l = j - k /\ j <= n /\ k \in Nat
        BY <1>1, <1>3, <1>4
    <2>2. At(i) = (IF j >= 1 THEN b[j] ELSE 0) /\ At32(s, i) = IF l >= 1 THEN s[l] ELSE 0
        BY DEF At32
    <2> HIDE DEF j, l, At, At32
    <2>3. CASE j < 1
        <3>1. ~(j >= 1) /\ ~(l >= 1)
            BY <2>1, <2>3
        <3> QED
            BY <2>2, <3>1
    <2>4. CASE j >= 1 /\ j <= k
        <3>1. j \in 1..k /\ ~(l >= 1)
            BY <2>1, <2>4
        <3> QED
            BY <1>4, <2>2, <2>4, <3>1
    <2>5. CASE j > k
        <3>1. l \in 1..(n - k) /\ k + l = j /\ j >= 1 /\ l >= 1
            BY <1>1, <2>1, <2>5
        <3>2. s[l] = b[j]
            BY <1>4, <3>1
        <3> QED
            BY <2>2, <3>1, <3>2
    <2> QED
        BY <2>1, <2>3, <2>4, <2>5
<1> QED
    BY <1>2, <1>5 DEF w, s

\* Two amounts of one value are hashed alike.
LEMMA SameAmount ==
    ASSUME NEW a \in Seq(Int), NEW b \in Seq(Int), Significant(a) = Significant(b)
    PROVE  Amount32(a) = Amount32(b)
<1> DEFINE v == Amount32(a)
           w == Amount32(b)
<1>1. v \in Seq(Int) /\ Len(v) = 32 /\ \A i \in 1..32 : v[i] = At32(Significant(a), i)
    BY AmountPlaces
<1>2. w \in Seq(Int) /\ Len(w) = 32 /\ \A i \in 1..32 : w[i] = At32(Significant(b), i)
    BY AmountPlaces
<1> HIDE DEF v, w
<1>3. Len(v) = Len(w) /\ \A i \in 1..Len(v) : v[i] = w[i]
    BY ONLY <1>1, <1>2, Significant(a) = Significant(b)
<1>4. v = w
    BY ONLY <1>1, <1>2, <1>3, SameSequence
<1> QED
    BY <1>4 DEF v, w

\* And so are two exits that withdraw the same, with an amount each.
LEMMA SameExit ==
    ASSUME NEW e, NEW f, e.amount \in Seq(Int), f.amount \in Seq(Int),
           ExitWithdrawn(e) = ExitWithdrawn(f)
    PROVE  HashBridgeExit(e) = HashBridgeExit(f)
<1> DEFINE transfer(x) == x.leafType = "Transfer"
           hash(x) == IF x.metadata = Nil THEN EmptyMetadataHash ELSE Raw(x.metadata)
<1>1. /\ e.token = f.token /\ e.destNetwork = f.destNetwork
      /\ e.destAddress = f.destAddress /\ transfer(e) = transfer(f)
      /\ Significant(e.amount) = Significant(f.amount) /\ hash(e) = hash(f)
    BY DEF ExitWithdrawn
<1>2. Amount32(e.amount) = Amount32(f.amount)
    BY <1>1, SameAmount
<1>3. ASSUME NEW x
      PROVE  HashBridgeExit(x) =
               Keccak(Fixed(IF transfer(x) THEN 0 ELSE 1)
                   \o Fixed(x.token.network) \o Raw(x.token.address)
                   \o Fixed(x.destNetwork) \o Raw(x.destAddress)
                   \o Raw(Amount32(x.amount)) \o hash(x))
    <2>1. hash(x) = IF x.metadata # Nil THEN Raw(x.metadata) ELSE EmptyMetadataHash
        OBVIOUS
    <2> HIDE DEF hash
    <2> QED
        BY ONLY <2>1, Zenon DEF HashBridgeExit
<1> HIDE DEF hash
<1>4. (IF transfer(e) THEN 0 ELSE 1) = (IF transfer(f) THEN 0 ELSE 1)
    BY ONLY <1>1
<1> HIDE DEF transfer
<1> QED
    BY ONLY <1>1, <1>2, <1>3, <1>4, Zenon

\* What is hashed of a claim, nothing for none.
ClaimHash(c) == IF c = Nil THEN << >> ELSE HashClaim(c)

\* Claims that withdraw the same are hashed alike.
LEMMA SameClaim ==
    ASSUME NEW a, NEW b, ClaimWithdrawn(a) = ClaimWithdrawn(b)
    PROVE  ClaimHash(a) = ClaimHash(b)
<1> DEFINE W(c) == [kind |-> c.kind, proofs |-> c.proofs, mer |-> c.l1Leaf.mer,
                    rer |-> c.l1Leaf.rer, blockHash |-> c.l1Leaf.inner.blockHash,
                    timestamp |-> c.l1Leaf.inner.timestamp]
<1>1. \A c : ClaimWithdrawn(c) = IF c = Nil THEN << >> ELSE << W(c) >>
    BY DEF ClaimWithdrawn
<1>2. a = Nil <=> b = Nil
    <2> HIDE DEF W
    <2>1. << >> # << W(a) >> /\ << >> # << W(b) >>
        OBVIOUS
    <2> QED
        BY <1>1, <2>1
<1>3. CASE a # Nil
    <2>1. << W(a) >> = << W(b) >>
        BY <1>1, <1>2, <1>3
    <2>2. W(a) = W(b)
        <3> HIDE DEF W
        <3> QED
            BY <2>1
    <2>3. /\ a.kind = b.kind /\ a.proofs = b.proofs /\ a.l1Leaf.mer = b.l1Leaf.mer
          /\ a.l1Leaf.rer = b.l1Leaf.rer
          /\ a.l1Leaf.inner.blockHash = b.l1Leaf.inner.blockHash
          /\ a.l1Leaf.inner.timestamp = b.l1Leaf.inner.timestamp
        BY <2>2
    <2>4. L1LeafUnits(a.l1Leaf) = L1LeafUnits(b.l1Leaf)
        BY ONLY <2>3, Zenon DEF L1LeafUnits
    <2>5. HashClaim(a) = HashClaim(b)
        BY ONLY <2>3, <2>4, Zenon DEF HashClaim
    <2> QED
        BY <1>2, <1>3, <2>5 DEF ClaimHash
<1> QED
    BY <1>2, <1>3 DEF ClaimHash

\* What Withdrawals says of an imported exit.
ImportedWithdrawn(i) ==
    [exit |-> ExitWithdrawn(i.exit), claim |-> ClaimWithdrawn(i.claim),
     globalIndex |-> i.globalIndex]

\* Imported exits that withdraw the same are hashed alike.
LEMMA SameImported ==
    ASSUME NEW i, NEW j, i.exit.amount \in Seq(Int), j.exit.amount \in Seq(Int),
           ImportedWithdrawn(i) = ImportedWithdrawn(j)
    PROVE  HashImportedBridgeExit(i) = HashImportedBridgeExit(j)
<1>1. /\ ExitWithdrawn(i.exit) = ExitWithdrawn(j.exit)
      /\ ClaimWithdrawn(i.claim) = ClaimWithdrawn(j.claim)
      /\ i.globalIndex = j.globalIndex
    BY DEF ImportedWithdrawn
<1>2. HashBridgeExit(i.exit) = HashBridgeExit(j.exit)
    BY <1>1, SameExit
<1>3. ClaimHash(i.claim) = ClaimHash(j.claim)
    BY <1>1, SameClaim
<1>4. \A x : HashImportedBridgeExit(x)
               = Keccak(HashBridgeExit(x.exit) \o ClaimHash(x.claim)
                     \o Keccak(Raw(Reverse(SubSeq(x.globalIndex, 1, 32)))))
    BY Zenon DEF HashImportedBridgeExit, ClaimHash
<1> QED
    BY ONLY <1>1, <1>2, <1>3, <1>4, Zenon

\* Every exit of a certificate has an amount.
Amounts(c) ==
    /\ \A i \in DOMAIN c.exits : c.exits[i].amount \in Seq(Int)
    /\ \A i \in DOMAIN c.imported : c.imported[i].exit.amount \in Seq(Int)

\* Certificates that withdraw the same have the same id.
LEMMA SameWithdrawalsSameId ==
    ASSUME NEW c, NEW d, Amounts(c), Amounts(d), Withdrawals(c) = Withdrawals(d)
    PROVE  GenerateCertificateId(c) = GenerateCertificateId(d)
<1> DEFINE Exits1(x) == [i \in DOMAIN x.exits |-> ExitWithdrawn(x.exits[i])]
           Imports1(x) == [i \in DOMAIN x.imported |-> ImportedWithdrawn(x.imported[i])]
           Exits2(x) == [i \in DOMAIN x.exits |-> HashBridgeExit(x.exits[i])]
           Imports2(x) == [i \in DOMAIN x.imported |-> HashImportedBridgeExit(x.imported[i])]
<1>1. \A x : Withdrawals(x) =
               [network |-> x.network, height |-> x.height, prevRoot |-> x.prevRoot,
                newRoot |-> x.newRoot, metadata |-> x.metadata,
                exits |-> Exits1(x), imported |-> Imports1(x)]
    BY Zenon DEF Withdrawals, ImportedWithdrawn
<1>2. /\ c.network = d.network /\ c.height = d.height /\ c.prevRoot = d.prevRoot
      /\ c.newRoot = d.newRoot /\ c.metadata = d.metadata
      /\ Exits1(c) = Exits1(d) /\ Imports1(c) = Imports1(d)
    <2> HIDE DEF Exits1, Imports1
    <2> QED
        BY ONLY <1>1, Withdrawals(c) = Withdrawals(d)
<1>3. Exits2(c) = Exits2(d)
    <2>1. DOMAIN Exits1(c) = DOMAIN Exits1(d) /\ \A i \in DOMAIN Exits1(c) : Exits1(c)[i] = Exits1(d)[i]
        <3> HIDE DEF Exits1
        <3> QED
            BY <1>2
    <2>2. DOMAIN c.exits = DOMAIN d.exits
        BY <2>1
    <2>3. ASSUME NEW i \in DOMAIN c.exits
          PROVE  HashBridgeExit(c.exits[i]) = HashBridgeExit(d.exits[i])
        <3>1. ExitWithdrawn(c.exits[i]) = ExitWithdrawn(d.exits[i])
            BY <2>1, <2>2
        <3>2. c.exits[i].amount \in Seq(Int) /\ d.exits[i].amount \in Seq(Int)
            BY <2>2 DEF Amounts
        <3> QED
            BY ONLY <3>1, <3>2, SameExit
    <2> QED
        BY ONLY <2>2, <2>3
<1>4. Imports2(c) = Imports2(d)
    <2>1. DOMAIN Imports1(c) = DOMAIN Imports1(d)
            /\ \A i \in DOMAIN Imports1(c) : Imports1(c)[i] = Imports1(d)[i]
        <3> HIDE DEF Imports1
        <3> QED
            BY <1>2
    <2>2. DOMAIN c.imported = DOMAIN d.imported
        BY <2>1
    <2>3. ASSUME NEW i \in DOMAIN c.imported
          PROVE  HashImportedBridgeExit(c.imported[i]) = HashImportedBridgeExit(d.imported[i])
        <3>1. ImportedWithdrawn(c.imported[i]) = ImportedWithdrawn(d.imported[i])
            BY <2>1, <2>2
        <3>2. c.imported[i].exit.amount \in Seq(Int) /\ d.imported[i].exit.amount \in Seq(Int)
            BY <2>2 DEF Amounts
        <3> QED
            BY ONLY <3>1, <3>2, SameImported
    <2> QED
        BY ONLY <2>2, <2>3
<1>5. \A x : GenerateCertificateId(x) =
               Keccak(Fixed(x.network) \o Fixed(x.height) \o Raw(x.prevRoot) \o Raw(x.newRoot)
                   \o Keccak(FlattenSeq(Exits2(x))) \o Keccak(FlattenSeq(Imports2(x)))
                   \o Raw(x.metadata))
    BY Zenon DEF GenerateCertificateId
<1> HIDE DEF Exits1, Imports1, Exits2, Imports2
<1> QED
    BY ONLY <1>2, <1>3, <1>4, <1>5, Zenon

\* The certificate of a stored row has an amount in every exit.
LEMMA StoredAmounts ==
    ASSUME NEW doc \in Documents, NEW extra \in Extras, Hashable(Certificate(doc, extra))
    PROVE  Amounts(Certificate(doc, extra))
<1> DEFINE c == Certificate(doc, extra)
<1>1. ASSUME NEW m, DigitsOf(m), HashableExit(BridgeExit(m))
      PROVE  BridgeExit(m).amount \in Seq(Int)
    <2>1. BridgeExit(m).amount # Nil
        BY <1>1 DEF HashableExit
    <2>2. m["amount"][2] \in Seq(0..15) /\ BridgeExit(m).amount = HexStringToBytes(m["amount"][2])
        BY <1>1, <2>1, AmountOfExit
    <2> QED
        BY ONLY <2>2, BytesOfDigits
<1>2. ASSUME NEW list \in Lists, NEW i \in Places(c, list)
      PROVE  ExitOf(c, list, i).amount \in Seq(Int)
    <2>1. /\ ExitOf(c, list, i) = BridgeExit(ExitAt(doc, <<list, i>>))
          /\ HashableExit(ExitOf(c, list, i)) /\ DigitsOf(ExitAt(doc, <<list, i>>))
        BY ExitsOfDocument, Zenon
    <2> QED
        BY ONLY <1>1, <2>1
<1>3. ASSUME NEW i \in DOMAIN c.exits PROVE c.exits[i].amount \in Seq(Int)
    <2>1. i \in Places(c, "bridge_exits") /\ ExitOf(c, "bridge_exits", i) = c.exits[i]
            /\ "bridge_exits" \in Lists
        BY DEF Places, ExitOf, Lists
    <2> QED
        BY ONLY <1>2, <2>1
<1>4. ASSUME NEW i \in DOMAIN c.imported PROVE c.imported[i].exit.amount \in Seq(Int)
    <2>1. c.imported[i].exit # Nil
        BY DEF Hashable, HashableImported, HashableExit
    <2> HIDE DEF c
    <2>2. i \in Places(c, "imported_bridge_exits")
            /\ ExitOf(c, "imported_bridge_exits", i) = c.imported[i].exit
            /\ "imported_bridge_exits" \in Lists
        BY <2>1 DEF Places, ExitOf, Lists
    <2> QED
        BY ONLY <1>2, <2>2
<1> QED
    BY <1>3, <1>4 DEF Amounts

\* What one withdraws has one id.
OneIdEach ==
    \A i, j \in DOMAIN rows :
        Withdrawals(rows[i].certificate) = Withdrawals(rows[j].certificate)
          => rows[i].id = rows[j].id

\* However a submitter writes a certificate, resubmitted it has the id it had, so
\* that a lookup finds both rows (hashing.go:12-182): for all documents, of fields
\* of any width.
THEOREM WithdrawalHasOneId == Spec => []OneIdEach
<1>1. ASSUME NEW r \in StoredRows
      PROVE  Amounts(r.certificate) /\ r.id = GenerateCertificateId(r.certificate)
    <2>1. PICK doc \in Documents, extra \in Extras, p \in BOOLEAN :
             r = Row(doc, extra, p) /\ Hashable(Certificate(doc, extra))
        BY StoredIsRow
    <2>2. r.certificate = Certificate(doc, extra)
            /\ r.id = GenerateCertificateId(Certificate(doc, extra))
        BY <2>1 DEF Row
    <2> QED
        BY ONLY <2>1, <2>2, StoredAmounts
<1>2. IInv => OneIdEach
    <2> SUFFICES ASSUME IInv, NEW i \in DOMAIN rows, NEW j \in DOMAIN rows,
                        Withdrawals(rows[i].certificate) = Withdrawals(rows[j].certificate)
                 PROVE  rows[i].id = rows[j].id
        BY DEF OneIdEach
    <2>1. rows[i] \in StoredRows /\ rows[j] \in StoredRows
        BY DEF IInv
    <2> QED
        BY ONLY <1>1, <2>1, SameWithdrawalsSameId,
                Withdrawals(rows[i].certificate) = Withdrawals(rows[j].certificate)
<1> QED
    BY <1>2, InvariantHolds, PTL

-----------------------------------------------------------------------------
(* What is hashed can be taken apart *)

\* A digest and a number of fixed width are one unit each, and say what they are of.
LEMMA UnitSame ==
    ASSUME NEW a, NEW b
    PROVE  /\ Alike(Keccak(a), Keccak(b)) /\ (Keccak(a) = Keccak(b) => a = b)
           /\ Alike(Fixed(a), Fixed(b)) /\ (Fixed(a) = Fixed(b) => a = b)
           /\ Len(Keccak(a)) = 1 /\ Len(Fixed(a)) = 1
<1>1. ASSUME NEW u
      PROVE  /\ Sequence(<< u >>) /\ Len(<< u >>) = 1
             /\ \A v : << u >> = << v >> => u = v
    <2> DEFINE s == << u >>
    <2>1. s \in Seq({u}) /\ Len(s) = 1
        OBVIOUS
    <2>2. \A v : << u >> = << v >> => u = v
        OBVIOUS
    <2> HIDE DEF s
    <2>3. Sequence(s)
        BY ONLY <2>1, SequenceOver
    <2> QED
        BY <2>1, <2>2, <2>3 DEF s
<1>2. << "keccak", a >> = << "keccak", b >> => a = b
    OBVIOUS
<1>3. << a >> = << b >> => a = b
    BY <1>1
<1> QED
    BY <1>1, <1>2, <1>3, Zenon DEF Alike, Keccak, Fixed

\* Bytes are hashed byte by byte.
LEMMA RawPlaces ==
    ASSUME NEW b \in Seq(Int)
    PROVE  /\ Sequence(Raw(b)) /\ Len(Raw(b)) = Len(b) /\ Len(b) \in Nat
           /\ \A i \in 1..Len(b) : Raw(b)[i] = << b[i] >>
<1> DEFINE w == Raw(b)
           n == Len(b)
           S == {<< b[i] >> : i \in 1..n}
<1>1. n \in Nat /\ DOMAIN b = 1..n
    OBVIOUS
<1>2. w = [i \in 1..n |-> << b[i] >>]
    BY <1>1 DEF Raw
<1>3. \A i \in 1..n : w[i] = << b[i] >>
    BY <1>2
<1>4. \A i \in 1..n : w[i] \in S
    BY <1>3
<1>5. w \in Seq(S) /\ Len(w) = n
    <2>1. \A i \in 1..n : << b[i] >> \in S
        OBVIOUS
    <2> HIDE DEF S, n
    <2>2. [i \in 1..n |-> << b[i] >>] \in Seq(S)
        BY ONLY <1>1, <2>1
    <2>3. Len([i \in 1..n |-> << b[i] >>]) = n
        BY ONLY <1>1
    <2> HIDE DEF w
    <2> QED
        BY ONLY <1>2, <2>2, <2>3
<1>6. Sequence(w)
    <2> HIDE DEF S, w
    <2> QED
        BY ONLY <1>5, SequenceOver
<1> QED
    BY <1>1, <1>3, <1>5, <1>6

\* Bytes of one length make units of one length, of bytes that are the same only.
LEMMA RawSame ==
    ASSUME NEW a \in Seq(Int), NEW b \in Seq(Int)
    PROVE  /\ Len(a) = Len(b) => Alike(Raw(a), Raw(b))
           /\ Raw(a) = Raw(b) => a = b
<1>1. /\ Sequence(Raw(a)) /\ Len(Raw(a)) = Len(a) /\ Len(a) \in Nat
      /\ \A i \in 1..Len(a) : Raw(a)[i] = << a[i] >>
    BY RawPlaces
<1>2. /\ Sequence(Raw(b)) /\ Len(Raw(b)) = Len(b) /\ Len(b) \in Nat
      /\ \A i \in 1..Len(b) : Raw(b)[i] = << b[i] >>
    BY RawPlaces
<1>3. Len(a) = Len(b) => Alike(Raw(a), Raw(b))
    BY <1>1, <1>2 DEF Alike
<1>4. ASSUME Raw(a) = Raw(b) PROVE a = b
    <2>1. Len(a) = Len(b)
        BY ONLY <1>1, <1>2, <1>4
    <2>2. ASSUME NEW i \in 1..Len(a) PROVE a[i] = b[i]
        <3>1. << a[i] >> = << b[i] >>
            BY ONLY <1>1, <1>2, <1>4, <2>1, i \in 1..Len(a)
        <3>2. << a[i] >>[1] = << b[i] >>[1]
            BY ONLY <3>1
        <3> QED
            BY ONLY <3>2
    <2> QED
        BY ONLY <2>1, <2>2, SameSequence, a \in Seq(Int), b \in Seq(Int)
<1> QED
    BY <1>3, <1>4

\* A sequence of sequences of one length, a digest's or that of 32 bytes.
EachOf(s, w) ==
    /\ w \in {1, 32} /\ Sequence(s)
    /\ \A i \in 1..Len(s) : Sequence(s[i]) /\ Len(s[i]) = w

Times(w, n) == IF w = 1 THEN n ELSE 32 * n

\* g[i] joins the first i elements of s.
Joins(g, s) == g[1] = s[1] /\ \A i \in 2..Len(s) : g[i] = g[i - 1] \o s[i]

\* Of elements of one length so many are joined to the length times their number.
LEMMA JoinsGrow ==
    ASSUME NEW s, NEW w, EachOf(s, w), NEW g, Joins(g, s), NEW n \in 1..Len(s)
    PROVE  Sequence(g[n]) /\ Len(g[n]) = Times(w, n)
<1> DEFINE Q == {m \in Nat : m \in 1..Len(s) => Sequence(g[m]) /\ Len(g[m]) = Times(w, m)}
<1>1. Len(s) \in Nat /\ w \in {1, 32}
    BY SequenceOver DEF EachOf
<1>2. 0 \in Q
    BY <1>1
<1>3. ASSUME NEW m \in Nat, m \in Q PROVE m + 1 \in Q
    <2>1. CASE m + 1 \in 1..Len(s)
        <3>1. CASE m = 0
            <4>1. 1 \in 1..Len(s) /\ m + 1 = 1
                BY <2>1, <3>1
            <4>2. Sequence(g[1]) /\ Len(g[1]) = w
                BY <4>1 DEF EachOf, Joins
            <4>3. w = Times(w, 1)
                BY <1>1 DEF Times
            <4> QED
                BY <4>1, <4>2, <4>3
        <3>2. CASE m # 0
            <4>1. m \in 1..Len(s) /\ m + 1 \in 2..Len(s) /\ (m + 1) - 1 = m
                BY <1>1, <2>1, <3>2
            <4>2. Sequence(g[m]) /\ Len(g[m]) = Times(w, m)
                BY <1>3, <4>1
            <4>3. g[m + 1] = g[m] \o s[m + 1]
                BY <4>1 DEF Joins
            <4>4. Sequence(s[m + 1]) /\ Len(s[m + 1]) = w
                BY <2>1 DEF EachOf
            <4> DEFINE u == g[m]
                       v == s[m + 1]
                       x == g[m + 1]
            <4>5. Sequence(u) /\ Sequence(v) /\ x = u \o v
                BY <4>2, <4>3, <4>4
            <4> HIDE DEF u, v, x
            <4>6. Sequence(x) /\ Len(x) = Len(u) + Len(v)
                BY ONLY <4>5, JoinPlaces
            <4>7. Times(w, m) + w = Times(w, m + 1)
                BY <1>1 DEF Times
            <4> QED
                BY <4>2, <4>4, <4>6, <4>7 DEF u, v, x
        <3> QED
            BY <3>1, <3>2
    <2> QED
        BY <2>1
<1>4. n \in Q
    <2>1. n \in Nat
        BY <1>1
    <2> HIDE DEF Q
    <2> QED
        BY ONLY <2>1, <1>2, <1>3, NaturalInduction
<1> QED
    BY <1>4

\* What FlattenSeq makes of elements of one length.
LEMMA FlattenTyped ==
    ASSUME NEW s, NEW w, EachOf(s, w)
    PROVE  Sequence(FlattenSeq(s)) /\ Len(FlattenSeq(s)) = Times(w, Len(s)) /\ Len(s) \in Nat
<1>1. Len(s) \in Nat /\ w \in {1, 32} /\ Sequence(s)
    BY SequenceOver DEF EachOf
<1>2. CASE Len(s) = 0
    <2>1. FlattenSeq(s) = s
        BY ONLY <1>2, Zenon DEF FlattenSeq
    <2>2. Times(w, 0) = 0
        BY DEF Times
    <2> QED
        BY <1>1, <1>2, <2>1, <2>2
<1>3. CASE Len(s) > 0
    <2>1. PICK g : Joins(g, s) /\ FlattenSeq(s) = g[Len(s)]
        BY <1>1, <1>3, FlattenEquations DEF Joins
    <2>2. Len(s) \in 1..Len(s)
        BY <1>1, <1>3
    <2> QED
        BY <1>1, <2>1, <2>2, JoinsGrow
<1> QED
    BY <1>1, <1>2, <1>3

\* Elements of one length can be read off their concatenation.
LEMMA FlattenSame ==
    ASSUME NEW s, NEW t, NEW w, EachOf(s, w), EachOf(t, w), FlattenSeq(s) = FlattenSeq(t)
    PROVE  s = t
<1>1. /\ Len(s) \in Nat /\ Len(t) \in Nat /\ w \in {1, 32} /\ Sequence(s) /\ Sequence(t)
    BY SequenceOver DEF EachOf
<1>2. Len(s) = Len(t)
    <2>1. Times(w, Len(s)) = Times(w, Len(t))
        BY FlattenTyped
    <2> QED
        BY <1>1, <2>1 DEF Times
<1>3. CASE Len(s) = 0
    <2>1. \A i \in 1..Len(s) : s[i] = t[i]
        BY <1>3
    <2> QED
        BY ONLY <1>1, <1>2, <2>1, SequenceSame
<1>4. CASE Len(s) > 0
    <2> DEFINE n == Len(s)
    <2>1. PICK g : Joins(g, s) /\ FlattenSeq(s) = g[n]
        BY <1>1, <1>4, FlattenEquations DEF Joins
    <2>2. PICK h : Joins(h, t) /\ FlattenSeq(t) = h[n]
        <3>1. Len(t) > 0
            BY <1>2, <1>4
        <3> QED
            BY <1>1, <1>2, <3>1, FlattenEquations DEF Joins
    <2>3. \A i \in 1..n : Alike(g[i], h[i])
        BY <1>2, <2>1, <2>2, JoinsGrow DEF Alike
    <2> DEFINE Q == {m \in Nat : m \in 1..n /\ g[m] = h[m] => \A i \in 1..m : s[i] = t[i]}
    <2>4. 0 \in Q
        OBVIOUS
    <2>5. ASSUME NEW m \in Nat, m \in Q PROVE m + 1 \in Q
        <3>1. CASE m + 1 \in 1..n /\ g[m + 1] = h[m + 1]
            <4>1. CASE m = 0
                <5>1. s[1] = t[1]
                    BY <3>1, <4>1, <2>1, <2>2 DEF Joins
                <5>2. \A i \in 1..(m + 1) : i = 1
                    BY <4>1
                <5> QED
                    BY <5>1, <5>2
            <4>2. CASE m # 0
                <5>1. m \in 1..n /\ m + 1 \in 2..n /\ (m + 1) - 1 = m /\ m + 1 \in 1..n
                    BY <1>1, <3>1, <4>2
                <5>2. g[m + 1] = g[m] \o s[m + 1] /\ h[m + 1] = h[m] \o t[m + 1]
                    BY <1>2, <2>1, <2>2, <5>1 DEF Joins
                <5>3. Alike(g[m], h[m]) /\ Sequence(s[m + 1]) /\ Sequence(t[m + 1])
                    BY <1>2, <2>3, <5>1 DEF EachOf
                <5>4. g[m] \o s[m + 1] = h[m] \o t[m + 1]
                    BY <3>1, <5>2
                <5>5. g[m] = h[m] /\ s[m + 1] = t[m + 1]
                    BY ONLY <5>3, <5>4, JoinSame
                <5>6. \A i \in 1..m : s[i] = t[i]
                    BY <2>5, <5>1, <5>5
                <5>7. \A i \in 1..(m + 1) : i \in 1..m \/ i = m + 1
                    OBVIOUS
                <5> QED
                    BY <5>5, <5>6, <5>7
            <4> QED
                BY <4>1, <4>2
        <3> QED
            BY <3>1
    <2>6. n \in Q
        <3> HIDE DEF Q, n
        <3>1. n \in Nat
            BY <1>1 DEF n
        <3> QED
            BY ONLY <3>1, <2>4, <2>5, NaturalInduction
    <2>7. n \in 1..n /\ g[n] = h[n]
        <3>1. g[n] = h[n]
            BY ONLY <2>1, <2>2, FlattenSeq(s) = FlattenSeq(t)
        <3>2. n \in 1..n
            BY <1>1, <1>4
        <3> QED
            BY ONLY <3>1, <3>2
    <2>8. \A i \in 1..n : s[i] = t[i]
        BY <2>6, <2>7
    <2> QED
        BY <1>1, <1>2, <2>8, SequenceSame
<1>5. Len(s) = 0 \/ Len(s) > 0
    BY <1>1
<1> QED
    BY ONLY <1>3, <1>4, <1>5, Zenon

-----------------------------------------------------------------------------
(* Fields of fixed width *)

\* Amounts of at most 32 bytes that are hashed alike are one value.
LEMMA AmountSame ==
    ASSUME NEW a \in Seq(Int), NEW b \in Seq(Int), Len(a) <= 32, Len(b) <= 32,
           Amount32(a) = Amount32(b)
    PROVE  Significant(a) = Significant(b)
<1>1. ASSUME NEW x \in Seq(Int), Len(x) <= 32
      PROVE  /\ Significant(x) \in Seq(Int) /\ Len(Significant(x)) \in 0..32
             /\ Len(Significant(x)) > 0 => Significant(x)[1] # 0
    <2>1. PICK k \in 0..Len(x) : SignificantAt(x, k)
        BY SignificantPlaces
    <2>2. Len(x) \in Nat
        OBVIOUS
    <2>3. /\ k < Len(x) => x[k + 1] # 0
          /\ Significant(x) \in Seq(Int) /\ Len(Significant(x)) = Len(x) - k
          /\ \A i \in 1..(Len(x) - k) : Significant(x)[i] = x[k + i]
        BY <2>1 DEF SignificantAt
    <2> DEFINE y == Significant(x)
               n == Len(x)
    <2>4. n \in Nat /\ n <= 32 /\ y \in Seq(Int) /\ Len(y) = n - k
        BY <1>1, <2>2, <2>3
    <2>5. n - k > 0 => y[1] # 0
        <3>1. CASE n - k > 0
            <4>1. 1 \in 1..(n - k) /\ k < n
                BY <2>2, <3>1
            <4>2. y[1] = x[k + 1]
                BY <2>3, <4>1
            <4> QED
                BY <2>3, <4>1, <4>2
        <3> QED
            BY <3>1
    <2> HIDE DEF y, n
    <2>6. k \in 0..n
        BY DEF n
    <2>7. y \in Seq(Int) /\ Len(y) \in 0..32 /\ (Len(y) > 0 => y[1] # 0)
        BY ONLY <2>4, <2>5, <2>6
    <2> QED
        BY <2>7 DEF y
<1> DEFINE s == Significant(a)
           t == Significant(b)
<1>2. \A i \in 1..32 : At32(s, i) = At32(t, i)
    <2>1. \A i \in 1..32 : Amount32(a)[i] = At32(s, i)
        BY AmountPlaces
    <2>2. \A i \in 1..32 : Amount32(b)[i] = At32(t, i)
        BY AmountPlaces
    <2> HIDE DEF s, t
    <2> QED
        BY ONLY <2>1, <2>2, Amount32(a) = Amount32(b)
<1>3. /\ s \in Seq(Int) /\ Len(s) \in 0..32 /\ (Len(s) > 0 => s[1] # 0)
      /\ t \in Seq(Int) /\ Len(t) \in 0..32 /\ (Len(t) > 0 => t[1] # 0)
    BY <1>1
<1> HIDE DEF s, t
<1>4. ASSUME NEW u, NEW v, Len(u) \in 0..32, Len(v) \in 0..32, Len(u) > 0 => u[1] # 0,
             \A i \in 1..32 : At32(u, i) = At32(v, i)
      PROVE  Len(u) <= Len(v)
    <2>1. CASE Len(u) > Len(v)
        <3>1. ASSUME NEW l \in 0..32, NEW m \in 0..32, l > m
              PROVE  33 - l \in 1..32 /\ (l - 32) + (33 - l) = 1
                       /\ ~((m - 32) + (33 - l) >= 1) /\ l > 0
            BY <3>1
        <3> DEFINE i == 33 - Len(u)
        <3>2. i \in 1..32 /\ (Len(u) - 32) + i = 1 /\ ~((Len(v) - 32) + i >= 1) /\ Len(u) > 0
            BY ONLY <1>4, <2>1, <3>1
        <3> HIDE DEF i
        <3>3. At32(u, i) = u[1] /\ At32(v, i) = 0
            BY ONLY <3>2 DEF At32
        <3>4. At32(u, i) = At32(v, i) /\ u[1] # 0
            BY ONLY <1>4, <3>2
        <3> QED
            BY ONLY <3>3, <3>4
    <2> QED
        BY <1>4, <2>1
<1>5. Len(s) = Len(t)
    <2>1. \A i \in 1..32 : At32(t, i) = At32(s, i)
        BY <1>2
    <2>2. Len(s) <= Len(t)
        BY ONLY <1>2, <1>3, <1>4
    <2>3. Len(t) <= Len(s)
        BY ONLY <2>1, <1>3, <1>4
    <2> QED
        BY ONLY <1>3, <2>2, <2>3
<1>6. ASSUME NEW j \in 1..Len(s) PROVE s[j] = t[j]
    <2> DEFINE i == j + (32 - Len(s))
    <2>1. i \in 1..32 /\ (Len(s) - 32) + i = j /\ (Len(t) - 32) + i = j /\ j >= 1
        <3>1. ASSUME NEW l \in 0..32, NEW m \in 1..l
              PROVE  m + (32 - l) \in 1..32 /\ (l - 32) + (m + (32 - l)) = m /\ m >= 1
            OBVIOUS
        <3> QED
            BY ONLY <1>3, <1>5, <3>1, j \in 1..Len(s)
    <2> HIDE DEF i
    <2>2. At32(s, i) = s[j] /\ At32(t, i) = t[j]
        BY <2>1 DEF At32
    <2> QED
        BY <1>2, <2>1, <2>2
<1>7. s = t
    BY ONLY <1>3, <1>5, <1>6, SameSequence
<1> QED
    BY <1>7 DEF s, t

\* Bytes of one width make units of one length, of the same bytes only.
LEMMA FixedSame ==
    ASSUME NEW n \in Nat, NEW a \in FixedBytes(n), NEW b \in FixedBytes(n)
    PROVE  /\ Sequence(Raw(a)) /\ Len(Raw(a)) = n
           /\ Alike(Raw(a), Raw(b)) /\ (Raw(a) = Raw(b) => a = b)
<1>1. ASSUME NEW x \in FixedBytes(n) PROVE x \in Seq(Int) /\ Len(x) = n
    <2>1. x \in Seq(0..255) /\ Len(x) = n
        BY DEF FixedBytes
    <2>2. ASSUME NEW S, NEW T, S \subseteq T, NEW s \in Seq(S) PROVE s \in Seq(T)
        BY <2>2
    <2>3. 0..255 \subseteq Int
        OBVIOUS
    <2> QED
        BY ONLY <2>1, <2>2, <2>3
<1>2. a \in Seq(Int) /\ b \in Seq(Int) /\ Len(a) = n /\ Len(b) = n
    BY <1>1
<1>3. Sequence(Raw(a)) /\ Len(Raw(a)) = Len(a)
    BY <1>2, RawPlaces
<1>4. (Len(a) = Len(b) => Alike(Raw(a), Raw(b))) /\ (Raw(a) = Raw(b) => a = b)
    BY <1>2, RawSame
<1> QED
    BY ONLY <1>2, <1>3, <1>4

\* The amount of an exit is hashed in 32 units.
LEMMA AmountUnits ==
    ASSUME NEW a \in Seq(Int), NEW b \in Seq(Int), Len(a) <= 32, Len(b) <= 32
    PROVE  /\ Alike(Raw(Amount32(a)), Raw(Amount32(b)))
           /\ Raw(Amount32(a)) = Raw(Amount32(b)) => Significant(a) = Significant(b)
<1> DEFINE v == Amount32(a)
           w == Amount32(b)
<1>1. v \in Seq(Int) /\ Len(v) = 32 /\ w \in Seq(Int) /\ Len(w) = 32
    BY AmountPlaces
<1>2. v = w => Significant(a) = Significant(b)
    BY AmountSame
<1> HIDE DEF v, w
<1>3. (Len(v) = Len(w) => Alike(Raw(v), Raw(w))) /\ (Raw(v) = Raw(w) => v = w)
    BY <1>1, RawSame
<1>4. Alike(Raw(v), Raw(w)) /\ (Raw(v) = Raw(w) => Significant(a) = Significant(b))
    BY ONLY <1>1, <1>2, <1>3
<1> QED
    BY <1>4 DEF v, w

\* Seven parts, the first six of one length in p and q.
SevenParts(p, q) ==
    /\ \A i \in 1..6 : Alike(p[i], q[i])
    /\ Sequence(p[7]) /\ Sequence(q[7])

Joined(p) == p[1] \o p[2] \o p[3] \o p[4] \o p[5] \o p[6] \o p[7]

\* Two joins of seven parts, the first six of equal length, that are equal have
\* equal parts.
LEMMA PartsSame ==
    ASSUME NEW p, NEW q, SevenParts(p, q), Joined(p) = Joined(q)
    PROVE  \A i \in 1..7 : p[i] = q[i]
<1> DEFINE a1 == p[1]  b1 == q[1]
           a2 == p[2]  b2 == q[2]
           a3 == p[3]  b3 == q[3]
           a4 == p[4]  b4 == q[4]
           a5 == p[5]  b5 == q[5]
           a6 == p[6]  b6 == q[6]
           a7 == p[7]  b7 == q[7]
<1>1. /\ Alike(a1, b1) /\ Alike(a2, b2) /\ Alike(a3, b3) /\ Alike(a4, b4) /\ Alike(a5, b5)
      /\ Alike(a6, b6) /\ Sequence(a7) /\ Sequence(b7)
    <2>1. 1 \in 1..6 /\ 2 \in 1..6 /\ 3 \in 1..6 /\ 4 \in 1..6 /\ 5 \in 1..6 /\ 6 \in 1..6
        OBVIOUS
    <2> QED
        BY ONLY <2>1, SevenParts(p, q) DEF SevenParts
<1>2. a1 \o a2 \o a3 \o a4 \o a5 \o a6 \o a7 = b1 \o b2 \o b3 \o b4 \o b5 \o b6 \o b7
    BY DEF Joined
<1> USE <1>1, <1>2
<1> HIDE DEF a1, a2, a3, a4, a5, a6, a7, b1, b2, b3, b4, b5, b6, b7
<1> DEFINE x2 == a1 \o a2
           x3 == x2 \o a3
           x4 == x3 \o a4
           x5 == x4 \o a5
           x6 == x5 \o a6
           y2 == b1 \o b2
           y3 == y2 \o b3
           y4 == y3 \o b4
           y5 == y4 \o b5
           y6 == y5 \o b6
<1>0. ASSUME NEW a, NEW b, Alike(a, b) PROVE Sequence(a) /\ Sequence(b)
    BY <1>0 DEF Alike
<1>3. Alike(x2, y2)
    BY JoinAlike
<1>4. Alike(x3, y3)
    <2> HIDE DEF x2, y2
    <2> QED
        BY <1>3, JoinAlike
<1>5. Alike(x4, y4)
    <2> HIDE DEF x3, y3
    <2> QED
        BY <1>4, JoinAlike
<1>6. Alike(x5, y5)
    <2> HIDE DEF x4, y4
    <2> QED
        BY <1>5, JoinAlike
<1>7. Alike(x6, y6)
    <2> HIDE DEF x5, y5
    <2> QED
        BY <1>6, JoinAlike
<1>8. x6 = y6 /\ a7 = b7
    <2>1. x6 \o a7 = y6 \o b7
        OBVIOUS
    <2> HIDE DEF x6, y6
    <2> QED
        BY <1>7, <2>1, JoinSame
<1>9. x5 = y5 /\ a6 = b6
    <2> HIDE DEF x5, y5
    <2>1. x5 \o a6 = y5 \o b6 /\ Sequence(a6) /\ Sequence(b6)
        BY <1>0, <1>8
    <2> QED
        BY <1>6, <2>1, JoinSame
<1>10. x4 = y4 /\ a5 = b5
    <2> HIDE DEF x4, y4
    <2>1. x4 \o a5 = y4 \o b5 /\ Sequence(a5) /\ Sequence(b5)
        BY <1>0, <1>9
    <2> QED
        BY <1>5, <2>1, JoinSame
<1>11. x3 = y3 /\ a4 = b4
    <2> HIDE DEF x3, y3
    <2>1. x3 \o a4 = y3 \o b4 /\ Sequence(a4) /\ Sequence(b4)
        BY <1>0, <1>10
    <2> QED
        BY <1>4, <2>1, JoinSame
<1>12. x2 = y2 /\ a3 = b3
    <2> HIDE DEF x2, y2
    <2>1. x2 \o a3 = y2 \o b3 /\ Sequence(a3) /\ Sequence(b3)
        BY <1>0, <1>11
    <2> QED
        BY <1>3, <2>1, JoinSame
<1>13. a1 = b1 /\ a2 = b2
    <2>1. a1 \o a2 = b1 \o b2 /\ Sequence(a2) /\ Sequence(b2)
        BY <1>0, <1>12
    <2> QED
        BY ONLY <2>1, <1>1, JoinSame
<1> QED
    <2>1. \A i \in 1..7 : i = 1 \/ i = 2 \/ i = 3 \/ i = 4 \/ i = 5 \/ i = 6 \/ i = 7
        OBVIOUS
    <2>2. /\ p[1] = q[1] /\ p[2] = q[2] /\ p[3] = q[3] /\ p[4] = q[4] /\ p[5] = q[5]
          /\ p[6] = q[6] /\ p[7] = q[7]
        BY ONLY <1>8, <1>9, <1>10, <1>11, <1>12, <1>13
           DEF a1, a2, a3, a4, a5, a6, a7, b1, b2, b3, b4, b5, b6, b7
    <2> QED
        BY ONLY <2>1, <2>2

\* What is hashed of an exit's metadata.
MetadataUnits(e) == IF e.metadata = Nil THEN EmptyMetadataHash ELSE Raw(e.metadata)

\* An exit with fields of their widths.
TypedExit(e) ==
    /\ e.token = [network |-> e.token.network, address |-> e.token.address]
    /\ e.token.address \in FixedBytes(20) /\ e.destAddress \in FixedBytes(20)
    /\ e.amount \in Seq(Int) /\ Len(e.amount) <= 32
    /\ Sequence(MetadataUnits(e))

\* Exits with one hash withdraw the same.
\* What is hashed of an exit.
ExitParts(e) ==
    << Fixed(IF e.leafType = "Transfer" THEN 0 ELSE 1), Fixed(e.token.network),
       Raw(e.token.address), Fixed(e.destNetwork), Raw(e.destAddress),
       Raw(Amount32(e.amount)), MetadataUnits(e) >>

\* Two bridge exits with the same hash make the same withdrawal.
LEMMA ExitSame ==
    ASSUME NEW e, NEW f, TypedExit(e), TypedExit(f), HashBridgeExit(e) = HashBridgeExit(f)
    PROVE  ExitWithdrawn(e) = ExitWithdrawn(f)
<1> DEFINE flag(x) == IF x.leafType = "Transfer" THEN 0 ELSE 1
           p(x) == ExitParts(x)
<1>1. ASSUME NEW x
      PROVE  /\ p(x)[1] = Fixed(flag(x)) /\ p(x)[2] = Fixed(x.token.network)
             /\ p(x)[3] = Raw(x.token.address) /\ p(x)[4] = Fixed(x.destNetwork)
             /\ p(x)[5] = Raw(x.destAddress) /\ p(x)[6] = Raw(Amount32(x.amount))
             /\ p(x)[7] = MetadataUnits(x)
    BY DEF ExitParts
<1> HIDE DEF p
<1>2. ASSUME NEW x PROVE HashBridgeExit(x) = Keccak(Joined(p(x)))
    <2>1. MetadataUnits(x) = IF x.metadata # Nil THEN Raw(x.metadata) ELSE EmptyMetadataHash
        BY DEF MetadataUnits
    <2>2. HashBridgeExit(x) =
            Keccak(Fixed(flag(x)) \o Fixed(x.token.network) \o Raw(x.token.address)
               \o Fixed(x.destNetwork) \o Raw(x.destAddress)
               \o Raw(Amount32(x.amount)) \o MetadataUnits(x))
        BY ONLY <2>1, Zenon DEF HashBridgeExit, flag
    <2> QED
        BY ONLY <1>1, <2>2, Zenon DEF Joined
<1> HIDE DEF flag
<1>3. Joined(p(e)) = Joined(p(f))
    <2>1. Keccak(Joined(p(e))) = Keccak(Joined(p(f)))
        BY <1>2
    <2> QED
        BY ONLY <2>1, UnitSame
<1>4. /\ e.token.address \in FixedBytes(20) /\ f.token.address \in FixedBytes(20)
      /\ e.destAddress \in FixedBytes(20) /\ f.destAddress \in FixedBytes(20)
      /\ e.amount \in Seq(Int) /\ f.amount \in Seq(Int)
      /\ Len(e.amount) <= 32 /\ Len(f.amount) <= 32
      /\ Sequence(MetadataUnits(e)) /\ Sequence(MetadataUnits(f))
    BY DEF TypedExit
<1>5. 20 \in Nat
    OBVIOUS
<1>6. SevenParts(p(e), p(f))
    <2>1. /\ Alike(Fixed(flag(e)), Fixed(flag(f)))
          /\ Alike(Fixed(e.token.network), Fixed(f.token.network))
          /\ Alike(Fixed(e.destNetwork), Fixed(f.destNetwork))
        BY ONLY UnitSame
    <2>2. Alike(Raw(e.token.address), Raw(f.token.address))
            /\ Alike(Raw(e.destAddress), Raw(f.destAddress))
        BY ONLY <1>4, <1>5, FixedSame
    <2>3. Alike(Raw(Amount32(e.amount)), Raw(Amount32(f.amount)))
        BY ONLY <1>4, AmountUnits
    <2>4. \A i \in 1..6 : i = 1 \/ i = 2 \/ i = 3 \/ i = 4 \/ i = 5 \/ i = 6
        OBVIOUS
    <2>5. \A i \in 1..6 : Alike(p(e)[i], p(f)[i])
        BY ONLY <1>1, <2>1, <2>2, <2>3, <2>4
    <2>6. Sequence(p(e)[7]) /\ Sequence(p(f)[7])
        BY ONLY <1>1, <1>4
    <2> QED
        BY ONLY <2>5, <2>6 DEF SevenParts
<1>7. \A i \in 1..7 : p(e)[i] = p(f)[i]
    BY ONLY <1>3, <1>6, PartsSame
<1>8. /\ Fixed(flag(e)) = Fixed(flag(f)) /\ Fixed(e.token.network) = Fixed(f.token.network)
      /\ Raw(e.token.address) = Raw(f.token.address)
      /\ Fixed(e.destNetwork) = Fixed(f.destNetwork) /\ Raw(e.destAddress) = Raw(f.destAddress)
      /\ Raw(Amount32(e.amount)) = Raw(Amount32(f.amount))
      /\ MetadataUnits(e) = MetadataUnits(f)
    <2>1. 1 \in 1..7 /\ 2 \in 1..7 /\ 3 \in 1..7 /\ 4 \in 1..7 /\ 5 \in 1..7 /\ 6 \in 1..7
            /\ 7 \in 1..7
        OBVIOUS
    <2> QED
        BY ONLY <1>1, <1>7, <2>1
<1>9. flag(e) = flag(f) /\ e.token.network = f.token.network /\ e.destNetwork = f.destNetwork
    BY ONLY <1>8, UnitSame
<1>10. e.token.address = f.token.address /\ e.destAddress = f.destAddress
    BY ONLY <1>4, <1>5, <1>8, FixedSame
<1>11. Significant(e.amount) = Significant(f.amount)
    BY ONLY <1>4, <1>8, AmountUnits
<1>12. e.token = f.token
    BY ONLY <1>9, <1>10, TypedExit(e), TypedExit(f) DEF TypedExit
<1>13. (e.leafType = "Transfer") = (f.leafType = "Transfer")
    <2>1. ASSUME NEW a \in BOOLEAN, NEW b \in BOOLEAN,
                 (IF a THEN 0 ELSE 1) = (IF b THEN 0 ELSE 1)
          PROVE  a = b
        BY <2>1
    <2>2. (e.leafType = "Transfer") \in BOOLEAN /\ (f.leafType = "Transfer") \in BOOLEAN
        OBVIOUS
    <2> QED
        BY ONLY <1>9, <2>1, <2>2 DEF flag
<1> QED
    BY ONLY <1>8, <1>9, <1>10, <1>11, <1>12, <1>13 DEF ExitWithdrawn, MetadataUnits

\* A Merkle proof with fields of their widths.
TypedProof(p) ==
    /\ p = [root |-> p.root, siblings |-> p.siblings]
    /\ p.root \in FixedBytes(32) /\ p.siblings \in Seq(FixedBytes(32))

\* Merkle proofs with one hash are the same.
LEMMA MerkleSame ==
    ASSUME NEW p, NEW q, TypedProof(p), TypedProof(q), HashMerkleProof(p) = HashMerkleProof(q)
    PROVE  p = q
<1> DEFINE u(x) == [i \in DOMAIN x.siblings |-> Raw(x.siblings[i])]
<1>1. ASSUME NEW x, TypedProof(x)
      PROVE  /\ x.root \in FixedBytes(32)
             /\ Sequence(x.siblings) /\ Len(x.siblings) \in Nat
             /\ \A i \in 1..Len(x.siblings) : x.siblings[i] \in FixedBytes(32)
             /\ EachOf(u(x), 32) /\ Len(u(x)) = Len(x.siblings)
             /\ \A i \in 1..Len(x.siblings) : u(x)[i] = Raw(x.siblings[i])
    <2> DEFINE s == x.siblings
               n == Len(s)
    <2>1. x.root \in FixedBytes(32) /\ s \in Seq(FixedBytes(32))
        BY <1>1 DEF TypedProof
    <2>2. n \in Nat /\ DOMAIN s = 1..n /\ \A i \in 1..n : s[i] \in FixedBytes(32)
        <3> HIDE DEF s
        <3> QED
            BY ONLY <2>1 DEF n
    <2>3. Sequence(s)
        <3> HIDE DEF s
        <3> QED
            BY ONLY <2>1, SequenceOver
    <2> DEFINE f == u(x)
    <2>4. f = [i \in 1..n |-> Raw(s[i])]
        BY ONLY <2>2 DEF f, u, s
    <2> HIDE DEF f, s, n
    <2>5. f = [i \in 1..n |-> f[i]] /\ \A i \in 1..n : f[i] = Raw(s[i])
        BY ONLY <2>4
    <2>6. Sequence(f) /\ Len(f) = n
        BY ONLY <2>2, <2>5, FunctionIsSequence
    <2>7. \A i \in 1..n : Sequence(Raw(s[i])) /\ Len(Raw(s[i])) = 32
        <3>1. 32 \in Nat
            OBVIOUS
        <3> QED
            BY ONLY <2>2, <3>1, FixedSame
    <2>8. EachOf(f, 32)
        <3>1. 32 \in {1, 32}
            OBVIOUS
        <3> QED
            BY ONLY <2>5, <2>6, <2>7, <3>1 DEF EachOf
    <2> QED
        BY ONLY <2>1, <2>2, <2>3, <2>5, <2>6, <2>8 DEF f, s, n
<1>2. \A x : HashMerkleProof(x) = Keccak(Raw(x.root) \o FlattenSeq(u(x)))
    BY Zenon DEF HashMerkleProof
<1> HIDE DEF u
<1>3. Raw(p.root) \o FlattenSeq(u(p)) = Raw(q.root) \o FlattenSeq(u(q))
    <2>1. Keccak(Raw(p.root) \o FlattenSeq(u(p))) = Keccak(Raw(q.root) \o FlattenSeq(u(q)))
        BY <1>2
    <2> QED
        BY ONLY <2>1, UnitSame
<1>4. Alike(Raw(p.root), Raw(q.root)) /\ (Raw(p.root) = Raw(q.root) => p.root = q.root)
    <2>1. 32 \in Nat /\ p.root \in FixedBytes(32) /\ q.root \in FixedBytes(32)
        BY <1>1
    <2> QED
        BY ONLY <2>1, FixedSame
<1>5. EachOf(u(p), 32) /\ EachOf(u(q), 32)
    BY <1>1
<1>6. Sequence(FlattenSeq(u(p))) /\ Sequence(FlattenSeq(u(q)))
    BY ONLY <1>5, FlattenTyped
<1>7. p.root = q.root /\ FlattenSeq(u(p)) = FlattenSeq(u(q))
    BY ONLY <1>3, <1>4, <1>6, JoinSame
<1>8. u(p) = u(q)
    BY ONLY <1>5, <1>7, FlattenSame
<1>9. p.siblings = q.siblings
    <2> DEFINE s == p.siblings
               t == q.siblings
    <2>1. /\ Sequence(s) /\ Sequence(t) /\ Len(s) = Len(t)
          /\ \A i \in 1..Len(s) : s[i] \in FixedBytes(32) /\ t[i] \in FixedBytes(32)
          /\ \A i \in 1..Len(s) : Raw(s[i]) = Raw(t[i])
        BY <1>1, <1>8
    <2> HIDE DEF s, t
    <2>2. \A i \in 1..Len(s) : s[i] = t[i]
        <3>1. 32 \in Nat
            OBVIOUS
        <3> QED
            BY ONLY <2>1, <3>1, FixedSame
    <2>3. s = t
        BY ONLY <2>1, <2>2, SequenceSame
    <2> QED
        BY <2>3 DEF s, t
<1> QED
    BY ONLY <1>7, <1>9, TypedProof(p), TypedProof(q) DEF TypedProof

\* An L1 leaf with fields of their widths.
TypedLeaf(l) ==
    /\ l.mer \in FixedBytes(32) /\ l.rer \in FixedBytes(32)
    /\ l.inner.blockHash \in FixedBytes(32)

\* A leaf is hashed in 34 units, which say what it is.
LEMMA LeafSame ==
    ASSUME NEW l, NEW m, TypedLeaf(l), TypedLeaf(m)
    PROVE  /\ Alike(L1LeafUnits(l), L1LeafUnits(m)) /\ Len(L1LeafUnits(l)) = 34
           /\ L1LeafUnits(l) = L1LeafUnits(m) =>
                /\ l.mer = m.mer /\ l.rer = m.rer
                /\ l.inner.blockHash = m.inner.blockHash
                /\ l.inner.timestamp = m.inner.timestamp
<1> DEFINE ger(x) == Raw(x.mer) \o Raw(x.rer)
           a(x) == Keccak(ger(x))
           b(x) == Raw(x.inner.blockHash)
           c(x) == Fixed(x.inner.timestamp)
           w(x) == L1LeafUnits(x)
<1>1. \A x : w(x) = (a(x) \o b(x)) \o c(x)
    BY Zenon DEF L1LeafUnits
<1>2. /\ 32 \in Nat /\ l.mer \in FixedBytes(32) /\ m.mer \in FixedBytes(32)
      /\ l.rer \in FixedBytes(32) /\ m.rer \in FixedBytes(32)
      /\ l.inner.blockHash \in FixedBytes(32) /\ m.inner.blockHash \in FixedBytes(32)
    BY DEF TypedLeaf
<1>3. /\ Alike(Raw(l.mer), Raw(m.mer)) /\ (Raw(l.mer) = Raw(m.mer) => l.mer = m.mer)
      /\ Alike(Raw(l.rer), Raw(m.rer)) /\ (Raw(l.rer) = Raw(m.rer) => l.rer = m.rer)
    BY ONLY <1>2, FixedSame
<1>4. /\ Alike(b(l), b(m)) /\ Len(b(l)) = 32
      /\ b(l) = b(m) => l.inner.blockHash = m.inner.blockHash
    <2>1. 32 \in Nat /\ l.inner.blockHash \in FixedBytes(32)
            /\ m.inner.blockHash \in FixedBytes(32)
        BY <1>2
    <2>2. Alike(b(l), b(m)) /\ (b(l) = b(m) => l.inner.blockHash = m.inner.blockHash)
        BY ONLY <2>1, FixedSame
    <2>3. Len(b(l)) = 32
        BY ONLY <2>1, FixedSame
    <2> QED
        BY ONLY <2>2, <2>3
<1> HIDE DEF ger, b
<1>5. /\ Alike(a(l), a(m)) /\ Len(a(l)) = 1 /\ (a(l) = a(m) => ger(l) = ger(m))
      /\ Alike(c(l), c(m)) /\ Len(c(l)) = 1
      /\ (c(l) = c(m) => l.inner.timestamp = m.inner.timestamp)
    BY ONLY UnitSame
<1> HIDE DEF a, c, w
<1>6. ASSUME NEW s, NEW t, Alike(s, t) PROVE Sequence(s) /\ Sequence(t) /\ Len(s) = Len(t)
    BY <1>6 DEF Alike
<1>7. Alike(a(l) \o b(l), a(m) \o b(m)) /\ Len(a(l) \o b(l)) = 33
    <2>1. Alike(a(l) \o b(l), a(m) \o b(m))
        BY ONLY <1>4, <1>5, JoinAlike
    <2> DEFINE x == a(l) \o b(l)
    <2>2. x = a(l) \o b(l) /\ Sequence(a(l)) /\ Sequence(b(l))
        BY <1>4, <1>5, <1>6
    <2> HIDE DEF x
    <2>3. Len(x) = Len(a(l)) + Len(b(l))
        BY ONLY <2>2, JoinPlaces
    <2> QED
        BY <1>4, <1>5, <2>1, <2>3 DEF x
<1>8. Alike(w(l), w(m)) /\ Len(w(l)) = 34
    <2> DEFINE x == a(l) \o b(l)
               y == a(m) \o b(m)
    <2>1. Alike(x, y) /\ Len(x) = 33 /\ w(l) = x \o c(l) /\ w(m) = y \o c(m)
        BY <1>1, <1>7
    <2> HIDE DEF x, y
    <2>2. Alike(x \o c(l), y \o c(m))
        BY ONLY <1>5, <2>1, JoinAlike
    <2>3. Sequence(x) /\ Sequence(c(l)) /\ w(l) = x \o c(l)
        BY <1>5, <1>6, <2>1
    <2>4. Len(w(l)) = Len(x) + Len(c(l))
        BY ONLY <2>3, JoinPlaces
    <2> QED
        BY ONLY <1>5, <2>1, <2>2, <2>4
<1>9. ASSUME w(l) = w(m)
      PROVE  a(l) = a(m) /\ b(l) = b(m) /\ c(l) = c(m)
    <2> DEFINE x == a(l) \o b(l)
               y == a(m) \o b(m)
    <2>1. Alike(x, y) /\ x \o c(l) = y \o c(m) /\ Sequence(c(l)) /\ Sequence(c(m))
        BY <1>1, <1>5, <1>6, <1>7, <1>9
    <2> HIDE DEF x, y
    <2>2. x = y /\ c(l) = c(m)
        BY ONLY <2>1, JoinSame
    <2>3. a(l) \o b(l) = a(m) \o b(m) /\ Sequence(b(l)) /\ Sequence(b(m))
        BY <1>4, <1>6, <2>2 DEF x, y
    <2>4. a(l) = a(m) /\ b(l) = b(m)
        BY ONLY <1>5, <2>3, JoinSame
    <2> QED
        BY <2>2, <2>4
<1>10. ASSUME ger(l) = ger(m) PROVE l.mer = m.mer /\ l.rer = m.rer
    <2>1. Raw(l.mer) \o Raw(l.rer) = Raw(m.mer) \o Raw(m.rer)
        BY <1>10 DEF ger
    <2>2. Sequence(Raw(l.rer)) /\ Sequence(Raw(m.rer))
        BY <1>3, <1>6
    <2>3. Raw(l.mer) = Raw(m.mer) /\ Raw(l.rer) = Raw(m.rer)
        BY ONLY <1>3, <2>1, <2>2, JoinSame
    <2> QED
        BY <1>3, <2>3
<1> QED
    BY ONLY <1>4, <1>5, <1>8, <1>9, <1>10 DEF w

\* Digests, one for each element of s.
Digests(f, s) ==
    /\ Sequence(s) /\ f = [i \in DOMAIN s |-> f[i]]
    /\ \A i \in DOMAIN s : \E x : f[i] = Keccak(x)

\* They are a sequence of units.
LEMMA DigestsTyped ==
    ASSUME NEW f, NEW s, Digests(f, s)
    PROVE  EachOf(f, 1) /\ Len(f) = Len(s) /\ Len(s) \in Nat /\ DOMAIN s = 1..Len(s)
<1>1. Len(s) \in Nat /\ DOMAIN s = 1..Len(s)
    BY SequenceOver DEF Digests
<1>2. f = [i \in 1..Len(s) |-> f[i]]
    BY <1>1 DEF Digests
<1>3. Sequence(f) /\ Len(f) = Len(s)
    BY ONLY <1>1, <1>2, FunctionIsSequence
<1>4. \A i \in 1..Len(s) : Sequence(f[i]) /\ Len(f[i]) = 1
    <2>1. ASSUME NEW x PROVE Sequence(Keccak(x)) /\ Len(Keccak(x)) = 1
        BY ONLY UnitSame DEF Alike
    <2>2. \A i \in 1..Len(s) : \E x : f[i] = Keccak(x)
        BY <1>1 DEF Digests
    <2> QED
        BY ONLY <2>1, <2>2
<1>5. 1 \in {1, 32}
    OBVIOUS
<1> QED
    BY ONLY <1>1, <1>3, <1>4, <1>5 DEF EachOf

\* A claim with fields of their widths.
TypedClaim(c) ==
    /\ \/ c.kind = "mainnet" /\ Len(c.proofs) = 2
       \/ c.kind = "rollup" /\ Len(c.proofs) = 3
    /\ Sequence(c.proofs) /\ \A i \in 1..Len(c.proofs) : TypedProof(c.proofs[i])
    /\ TypedLeaf(c.l1Leaf)

\* Claims with one hash withdraw the same: their kinds differ in length.
LEMMA ClaimSame ==
    ASSUME NEW c, NEW d, c # Nil, d # Nil, TypedClaim(c), TypedClaim(d),
           HashClaim(c) = HashClaim(d)
    PROVE  ClaimWithdrawn(c) = ClaimWithdrawn(d)
<1> DEFINE u(x) == [i \in DOMAIN x.proofs |-> HashMerkleProof(x.proofs[i])]
           P(x) == FlattenSeq(u(x))
           L(x) == IF x.kind = "mainnet" THEN Keccak(L1LeafUnits(x.l1Leaf))
                   ELSE L1LeafUnits(x.l1Leaf)
<1>1. \A x : HashClaim(x) = Keccak(P(x) \o L(x))
    BY Zenon DEF HashClaim
<1>2. \A x : u(x) = [i \in DOMAIN x.proofs |-> u(x)[i]]
              /\ \A i \in DOMAIN x.proofs : u(x)[i] = HashMerkleProof(x.proofs[i])
    OBVIOUS
<1> HIDE DEF u
<1>3. ASSUME NEW x, TypedClaim(x)
      PROVE  /\ EachOf(u(x), 1) /\ Len(u(x)) = Len(x.proofs)
             /\ DOMAIN x.proofs = 1..Len(x.proofs)
             /\ Sequence(P(x)) /\ Len(P(x)) = Len(x.proofs)
             /\ Sequence(L(x)) /\ Len(L(x)) = IF x.kind = "mainnet" THEN 1 ELSE 34
    <2>1. Digests(u(x), x.proofs)
        <3>1. Sequence(x.proofs)
            BY <1>3 DEF TypedClaim
        <3>2. \A i \in DOMAIN x.proofs : \E y : u(x)[i] = Keccak(y)
            <4>1. \A p : \E y : HashMerkleProof(p) = Keccak(y)
                BY Zenon DEF HashMerkleProof
            <4> QED
                BY ONLY <1>2, <4>1
        <3> QED
            BY ONLY <1>2, <3>1, <3>2 DEF Digests
    <2>2. /\ EachOf(u(x), 1) /\ Len(u(x)) = Len(x.proofs)
          /\ DOMAIN x.proofs = 1..Len(x.proofs) /\ Len(x.proofs) \in Nat
        BY ONLY <2>1, DigestsTyped
    <2>3. Sequence(P(x)) /\ Len(P(x)) = Times(1, Len(u(x)))
        BY ONLY <2>2, FlattenTyped
    <2>4. Times(1, Len(u(x))) = Len(x.proofs)
        BY ONLY <2>2 DEF Times
    <2>5. TypedLeaf(x.l1Leaf)
        BY <1>3 DEF TypedClaim
    <2>6. Alike(L1LeafUnits(x.l1Leaf), L1LeafUnits(x.l1Leaf)) /\ Len(L1LeafUnits(x.l1Leaf)) = 34
        BY ONLY <2>5, LeafSame
    <2>7. /\ Alike(Keccak(L1LeafUnits(x.l1Leaf)), Keccak(L1LeafUnits(x.l1Leaf)))
          /\ Len(Keccak(L1LeafUnits(x.l1Leaf))) = 1
        BY ONLY UnitSame
    <2>8. Sequence(L(x)) /\ Len(L(x)) = IF x.kind = "mainnet" THEN 1 ELSE 34
        BY ONLY <2>6, <2>7 DEF Alike
    <2> QED
        BY ONLY <2>2, <2>3, <2>4, <2>8
<1>4. P(c) \o L(c) = P(d) \o L(d)
    <2>1. Keccak(P(c) \o L(c)) = Keccak(P(d) \o L(d))
        BY <1>1
    <2> HIDE DEF P, L
    <2> QED
        BY ONLY <2>1, UnitSame
<1> HIDE DEF P, L
<1>5. ASSUME NEW x, TypedClaim(x)
      PROVE  Len(P(x) \o L(x)) = IF x.kind = "mainnet" THEN 3 ELSE 37
    <2> DEFINE w == P(x) \o L(x)
    <2>1. w = P(x) \o L(x) /\ Sequence(P(x)) /\ Sequence(L(x))
        BY <1>3, <1>5
    <2> HIDE DEF w
    <2>2. Len(w) = Len(P(x)) + Len(L(x))
        BY ONLY <2>1, JoinPlaces
    <2>3. /\ Len(P(x)) = Len(x.proofs) /\ Len(L(x)) = IF x.kind = "mainnet" THEN 1 ELSE 34
          /\ \/ x.kind = "mainnet" /\ Len(x.proofs) = 2
             \/ x.kind = "rollup" /\ Len(x.proofs) = 3
        BY <1>3, <1>5 DEF TypedClaim
    <2>4. ASSUME NEW l, NEW m, NEW k, l = 2, m = 1, k = l + m PROVE k = 3
        BY <2>4
    <2>5. ASSUME NEW l, NEW m, NEW k, l = 3, m = 34, k = l + m PROVE k = 37
        BY <2>5
    <2>6. CASE x.kind = "mainnet"
        BY ONLY <2>2, <2>3, <2>4, <2>6 DEF w
    <2>7. CASE x.kind # "mainnet"
        BY ONLY <2>2, <2>3, <2>5, <2>7 DEF w
    <2> QED
        BY <2>6, <2>7
<1>6. c.kind = d.kind /\ Len(c.proofs) = Len(d.proofs)
    <2>1. Len(P(c) \o L(c)) = (IF c.kind = "mainnet" THEN 3 ELSE 37)
            /\ Len(P(d) \o L(d)) = (IF d.kind = "mainnet" THEN 3 ELSE 37)
        BY <1>5
    <2>2. (IF c.kind = "mainnet" THEN 3 ELSE 37) = (IF d.kind = "mainnet" THEN 3 ELSE 37)
        BY ONLY <1>4, <2>1
    <2>3. c.kind = "mainnet" <=> d.kind = "mainnet"
        BY ONLY <2>2
    <2>4. /\ \/ c.kind = "mainnet" /\ Len(c.proofs) = 2
             \/ c.kind = "rollup" /\ Len(c.proofs) = 3
          /\ \/ d.kind = "mainnet" /\ Len(d.proofs) = 2
             \/ d.kind = "rollup" /\ Len(d.proofs) = 3
        BY DEF TypedClaim
    <2> QED
        BY ONLY <2>3, <2>4
<1>7. P(c) = P(d) /\ L(c) = L(d)
    <2>1. Alike(P(c), P(d)) /\ Sequence(L(c)) /\ Sequence(L(d))
        BY <1>3, <1>6 DEF Alike
    <2> QED
        BY ONLY <1>4, <2>1, JoinSame
<1>8. c.proofs = d.proofs
    <2>1. u(c) = u(d)
        <3>1. EachOf(u(c), 1) /\ EachOf(u(d), 1)
            BY <1>3
        <3>2. FlattenSeq(u(c)) = FlattenSeq(u(d))
            BY <1>7 DEF P
        <3> QED
            BY ONLY <3>1, <3>2, FlattenSame
    <2>2. DOMAIN c.proofs = 1..Len(c.proofs) /\ DOMAIN d.proofs = 1..Len(c.proofs)
        BY <1>3, <1>6
    <2>3. \A i \in 1..Len(c.proofs) :
             /\ HashMerkleProof(c.proofs[i]) = HashMerkleProof(d.proofs[i])
             /\ TypedProof(c.proofs[i]) /\ TypedProof(d.proofs[i])
        BY <1>2, <1>6, <2>1, <2>2 DEF TypedClaim
    <2>4. \A i \in 1..Len(c.proofs) : c.proofs[i] = d.proofs[i]
        BY ONLY <2>3, MerkleSame
    <2>5. Sequence(c.proofs) /\ Sequence(d.proofs)
        BY DEF TypedClaim
    <2> QED
        BY ONLY <1>6, <2>4, <2>5, SequenceSame
<1>9. L1LeafUnits(c.l1Leaf) = L1LeafUnits(d.l1Leaf)
    <2>1. CASE c.kind = "mainnet"
        <3>1. Keccak(L1LeafUnits(c.l1Leaf)) = Keccak(L1LeafUnits(d.l1Leaf))
            BY <1>6, <1>7, <2>1 DEF L
        <3> QED
            BY ONLY <3>1, UnitSame
    <2>2. CASE c.kind # "mainnet"
        BY <1>6, <1>7, <2>2 DEF L
    <2> QED
        BY <2>1, <2>2
<1>10. /\ c.l1Leaf.mer = d.l1Leaf.mer /\ c.l1Leaf.rer = d.l1Leaf.rer
       /\ c.l1Leaf.inner.blockHash = d.l1Leaf.inner.blockHash
       /\ c.l1Leaf.inner.timestamp = d.l1Leaf.inner.timestamp
    <2>1. TypedLeaf(c.l1Leaf) /\ TypedLeaf(d.l1Leaf)
        BY DEF TypedClaim
    <2> QED
        BY ONLY <1>9, <2>1, LeafSame
<1> QED
    BY ONLY <1>6, <1>8, <1>10, c # Nil, d # Nil DEF ClaimWithdrawn

\* A claim that hashes is one unit.
LEMMA ClaimUnit ==
    ASSUME NEW c
    PROVE  Sequence(ClaimHash(c)) /\ Len(ClaimHash(c)) = IF c = Nil THEN 0 ELSE 1
<1>1. CASE c = Nil
    <2> DEFINE e == << >>
    <2>1. e \in Seq({}) /\ Len(e) = 0
        OBVIOUS
    <2>2. ClaimHash(c) = e
        BY <1>1 DEF ClaimHash
    <2> HIDE DEF e
    <2> QED
        BY ONLY <1>1, <2>1, <2>2, SequenceOver
<1>2. CASE c # Nil
    <2>1. \E x : HashClaim(c) = Keccak(x)
        BY Zenon DEF HashClaim
    <2>2. ASSUME NEW x PROVE Sequence(Keccak(x)) /\ Len(Keccak(x)) = 1
        BY ONLY UnitSame DEF Alike
    <2> QED
        BY ONLY <1>2, <2>1, <2>2 DEF ClaimHash
<1> QED
    BY <1>1, <1>2

\* An imported exit with fields of their widths.
TypedImported(i) ==
    /\ TypedExit(i.exit) /\ (i.claim # Nil => TypedClaim(i.claim))
    /\ i.globalIndex \in Seq(Int) /\ Len(i.globalIndex) = 32

\* Imported exits with one hash withdraw the same.
LEMMA ImportedSame ==
    ASSUME NEW i, NEW j, TypedImported(i), TypedImported(j),
           HashImportedBridgeExit(i) = HashImportedBridgeExit(j)
    PROVE  ImportedWithdrawn(i) = ImportedWithdrawn(j)
<1> DEFINE h(x) == HashBridgeExit(x.exit)
           c(x) == ClaimHash(x.claim)
           r(x) == Reverse(SubSeq(x.globalIndex, 1, 32))
           g(x) == Keccak(Raw(r(x)))
           w(x) == (h(x) \o c(x)) \o g(x)
<1>1. \A x : HashImportedBridgeExit(x) = Keccak(w(x))
    BY Zenon DEF HashImportedBridgeExit, ClaimHash
<1>2. \A x : \E y : h(x) = Keccak(y)
    BY Zenon DEF HashBridgeExit
<1>3. /\ Sequence(h(i)) /\ Len(h(i)) = 1 /\ Sequence(h(j)) /\ Len(h(j)) = 1
      /\ Sequence(g(i)) /\ Len(g(i)) = 1 /\ Sequence(g(j)) /\ Len(g(j)) = 1
      /\ g(i) = g(j) => Raw(r(i)) = Raw(r(j))
    <2>1. ASSUME NEW x PROVE Sequence(Keccak(x)) /\ Len(Keccak(x)) = 1
        BY ONLY UnitSame DEF Alike
    <2>2. g(i) = g(j) => Raw(r(i)) = Raw(r(j))
        BY ONLY UnitSame
    <2> HIDE DEF h, r
    <2> QED
        BY ONLY <1>2, <2>1, <2>2
<1>4. /\ Sequence(c(i)) /\ Len(c(i)) = IF i.claim = Nil THEN 0 ELSE 1
      /\ Sequence(c(j)) /\ Len(c(j)) = IF j.claim = Nil THEN 0 ELSE 1
    BY ONLY ClaimUnit
<1>5. w(i) = w(j)
    <2>1. Keccak(w(i)) = Keccak(w(j))
        BY <1>1
    <2> HIDE DEF w
    <2> QED
        BY ONLY <2>1, UnitSame
<1>6. ASSUME NEW u, NEW v, Sequence(u), Sequence(v), Len(u) = 1
      PROVE  Sequence(u \o v) /\ Len(u \o v) = 1 + Len(v)
    <2> DEFINE z == u \o v
    <2>1. z = u \o v
        OBVIOUS
    <2> HIDE DEF z
    <2>2. Sequence(z) /\ Len(z) = Len(u) + Len(v)
        BY <1>6, <2>1, JoinPlaces
    <2> QED
        BY <1>6, <2>2 DEF z
<1> HIDE DEF h, c, g
<1>7. /\ Sequence(h(i) \o c(i)) /\ Len(h(i) \o c(i)) = 1 + Len(c(i))
      /\ Sequence(h(j) \o c(j)) /\ Len(h(j) \o c(j)) = 1 + Len(c(j))
    BY ONLY <1>3, <1>4, <1>6
<1>8. Len(c(i)) = Len(c(j))
    <2> DEFINE u == h(i) \o c(i)
               v == h(j) \o c(j)
               x == w(i)
    <2>1. Sequence(u) /\ Sequence(g(i)) /\ x = u \o g(i)
        BY <1>3, <1>7
    <2>2. Sequence(v) /\ Sequence(g(j)) /\ x = v \o g(j)
        BY <1>3, <1>5, <1>7
    <2> HIDE DEF u, v, x
    <2>3. Len(x) = Len(u) + Len(g(i))
        BY ONLY <2>1, JoinPlaces
    <2>4. Len(x) = Len(v) + Len(g(j))
        BY ONLY <2>2, JoinPlaces
    <2>5. Len(u) = 1 + Len(c(i)) /\ Len(v) = 1 + Len(c(j))
        BY <1>7 DEF u, v
    <2>6. Len(c(i)) \in 0..1 /\ Len(c(j)) \in 0..1
        BY <1>4
    <2> QED
        BY ONLY <1>3, <2>3, <2>4, <2>5, <2>6
<1>9. h(i) \o c(i) = h(j) \o c(j) /\ g(i) = g(j)
    <2> DEFINE u == h(i) \o c(i)
               v == h(j) \o c(j)
    <2>1. Alike(u, v)
        BY ONLY <1>7, <1>8 DEF Alike
    <2>2. u \o g(i) = v \o g(j)
        BY <1>5
    <2> HIDE DEF u, v
    <2>3. u = v /\ g(i) = g(j)
        BY ONLY <1>3, <2>1, <2>2, JoinSame
    <2> QED
        BY <2>3 DEF u, v
<1>10. h(i) = h(j) /\ c(i) = c(j)
    <2>1. Alike(h(i), h(j))
        BY ONLY <1>3 DEF Alike
    <2> QED
        BY ONLY <1>4, <1>9, <2>1, JoinSame
<1>11. ExitWithdrawn(i.exit) = ExitWithdrawn(j.exit)
    <2>1. TypedExit(i.exit) /\ TypedExit(j.exit) /\ HashBridgeExit(i.exit) = HashBridgeExit(j.exit)
        BY <1>10 DEF TypedImported, h
    <2> QED
        BY ONLY <2>1, ExitSame
<1>12. ClaimWithdrawn(i.claim) = ClaimWithdrawn(j.claim)
    <2>1. i.claim = Nil <=> j.claim = Nil
        <3>1. (IF i.claim = Nil THEN 0 ELSE 1) = IF j.claim = Nil THEN 0 ELSE 1
            BY ONLY <1>4, <1>8
        <3> QED
            BY ONLY <3>1
    <2>2. CASE i.claim = Nil
        BY <2>1, <2>2 DEF ClaimWithdrawn
    <2>3. CASE i.claim # Nil
        <3>1. i.claim # Nil /\ j.claim # Nil /\ HashClaim(i.claim) = HashClaim(j.claim)
            BY <1>10, <2>1, <2>3 DEF c, ClaimHash
        <3>2. TypedClaim(i.claim) /\ TypedClaim(j.claim)
            BY <3>1 DEF TypedImported
        <3> QED
            BY ONLY <3>1, <3>2, ClaimSame
    <2> QED
        BY <2>2, <2>3
<1>13. i.globalIndex = j.globalIndex
    <2> DEFINE a == i.globalIndex
               b == j.globalIndex
               cut(x) == SubSeq(x, 1, 32)
               p == r(i)
               q == r(j)
    <2>1. a \in Seq(Int) /\ Len(a) = 32 /\ b \in Seq(Int) /\ Len(b) = 32
        BY DEF TypedImported
    <2>2. p = Reverse(cut(a)) /\ q = Reverse(cut(b)) /\ Raw(p) = Raw(q)
        BY <1>3, <1>9
    <2> HIDE DEF a, b, p, q
    <2>3. cut(a) = a /\ cut(b) = b
        BY ONLY <2>1
    <2>4. p = Reverse(a) /\ q = Reverse(b)
        BY <2>2, <2>3
    <2>5. p \in Seq(Int) /\ Len(p) = 32 /\ \A k \in 1..32 : p[k] = a[(32 - k) + 1]
        <3>1. a \in Seq(Int) /\ p = Reverse(a)
            BY <2>1, <2>4
        <3>2. /\ p \in Seq(Int) /\ Len(p) = Len(a)
              /\ \A k \in 1..Len(a) : p[k] = a[(Len(a) - k) + 1]
            BY ONLY <3>1, ReversePlaces
        <3> QED
            BY ONLY <2>1, <3>2
    <2>6. q \in Seq(Int) /\ Len(q) = 32 /\ \A k \in 1..32 : q[k] = b[(32 - k) + 1]
        <3>1. b \in Seq(Int) /\ q = Reverse(b)
            BY <2>1, <2>4
        <3>2. /\ q \in Seq(Int) /\ Len(q) = Len(b)
              /\ \A k \in 1..Len(b) : q[k] = b[(Len(b) - k) + 1]
            BY ONLY <3>1, ReversePlaces
        <3> QED
            BY ONLY <2>1, <3>2
    <2>7. p = q
        BY ONLY <2>2, <2>5, <2>6, RawSame
    <2>8. ASSUME NEW k \in 1..32 PROVE a[k] = b[k]
        <3>1. PICK n \in 1..32 : (32 - n) + 1 = k
            <4>1. 33 - k \in 1..32 /\ (32 - (33 - k)) + 1 = k
                OBVIOUS
            <4> QED
                BY ONLY <4>1
        <3>2. p[n] = a[(32 - n) + 1] /\ q[n] = b[(32 - n) + 1]
            BY ONLY <2>5, <2>6, n \in 1..32
        <3> QED
            BY ONLY <2>7, <3>1, <3>2
    <2>9. Len(a) = Len(b) /\ \A k \in 1..Len(a) : a[k] = b[k]
        BY ONLY <2>1, <2>8
    <2>10. a = b
        BY ONLY <2>1, <2>9, SameSequence
    <2> QED
        BY <2>10 DEF a, b
<1> QED
    BY ONLY <1>11, <1>12, <1>13 DEF ImportedWithdrawn

\* A certificate with fields of their widths.
TypedCertificate(c) ==
    /\ c.prevRoot \in FixedBytes(32) /\ c.newRoot \in FixedBytes(32)
    /\ c.metadata \in FixedBytes(32)
    /\ Sequence(c.exits) /\ \A i \in DOMAIN c.exits : TypedExit(c.exits[i])
    /\ Sequence(c.imported) /\ \A i \in DOMAIN c.imported : TypedImported(c.imported[i])

ExitDigests(c) == [i \in DOMAIN c.exits |-> HashBridgeExit(c.exits[i])]
ImportDigests(c) == [i \in DOMAIN c.imported |-> HashImportedBridgeExit(c.imported[i])]

\* What is hashed of a certificate.
CertificateParts(c) ==
    << Fixed(c.network), Fixed(c.height), Raw(c.prevRoot), Raw(c.newRoot),
       Keccak(FlattenSeq(ExitDigests(c))), Keccak(FlattenSeq(ImportDigests(c))),
       Raw(c.metadata) >>

\* Certificates with one id withdraw the same.
LEMMA CertificateSame ==
    ASSUME NEW c, NEW d, TypedCertificate(c), TypedCertificate(d),
           GenerateCertificateId(c) = GenerateCertificateId(d)
    PROVE  Withdrawals(c) = Withdrawals(d)
<1> DEFINE p(x) == CertificateParts(x)
<1>1. ASSUME NEW x
      PROVE  /\ p(x)[1] = Fixed(x.network) /\ p(x)[2] = Fixed(x.height)
             /\ p(x)[3] = Raw(x.prevRoot) /\ p(x)[4] = Raw(x.newRoot)
             /\ p(x)[5] = Keccak(FlattenSeq(ExitDigests(x)))
             /\ p(x)[6] = Keccak(FlattenSeq(ImportDigests(x))) /\ p(x)[7] = Raw(x.metadata)
    BY DEF CertificateParts
<1> HIDE DEF p
<1>2. \A x : GenerateCertificateId(x) = Keccak(Joined(p(x)))
    <2>1. \A x : GenerateCertificateId(x) =
             Keccak(Fixed(x.network) \o Fixed(x.height) \o Raw(x.prevRoot) \o Raw(x.newRoot)
                 \o Keccak(FlattenSeq(ExitDigests(x))) \o Keccak(FlattenSeq(ImportDigests(x)))
                 \o Raw(x.metadata))
        BY Zenon DEF GenerateCertificateId, ExitDigests, ImportDigests
    <2> QED
        BY ONLY <1>1, <2>1, Zenon DEF Joined
<1>3. Joined(p(c)) = Joined(p(d))
    <2>1. Keccak(Joined(p(c))) = Keccak(Joined(p(d)))
        BY <1>2
    <2> QED
        BY ONLY <2>1, UnitSame
<1>4. /\ 32 \in Nat /\ c.prevRoot \in FixedBytes(32) /\ d.prevRoot \in FixedBytes(32)
      /\ c.newRoot \in FixedBytes(32) /\ d.newRoot \in FixedBytes(32)
      /\ c.metadata \in FixedBytes(32) /\ d.metadata \in FixedBytes(32)
    BY DEF TypedCertificate
<1>5. SevenParts(p(c), p(d))
    <2>1. /\ Alike(p(c)[1], p(d)[1]) /\ Alike(p(c)[2], p(d)[2])
          /\ Alike(p(c)[5], p(d)[5]) /\ Alike(p(c)[6], p(d)[6])
        <3>1. /\ Alike(Fixed(c.network), Fixed(d.network))
              /\ Alike(Fixed(c.height), Fixed(d.height))
              /\ Alike(Keccak(FlattenSeq(ExitDigests(c))), Keccak(FlattenSeq(ExitDigests(d))))
              /\ Alike(Keccak(FlattenSeq(ImportDigests(c))), Keccak(FlattenSeq(ImportDigests(d))))
            BY ONLY UnitSame
        <3> QED
            BY ONLY <1>1, <3>1
    <2>2. Alike(Raw(c.prevRoot), Raw(d.prevRoot)) /\ Alike(Raw(c.newRoot), Raw(d.newRoot))
        BY ONLY <1>4, FixedSame
    <2>3. Sequence(Raw(c.metadata)) /\ Sequence(Raw(d.metadata))
        BY ONLY <1>4, FixedSame
    <2>4. \A i \in 1..6 : i = 1 \/ i = 2 \/ i = 3 \/ i = 4 \/ i = 5 \/ i = 6
        OBVIOUS
    <2>5. \A i \in 1..6 : Alike(p(c)[i], p(d)[i])
        BY ONLY <1>1, <2>1, <2>2, <2>4
    <2>6. Sequence(p(c)[7]) /\ Sequence(p(d)[7])
        BY ONLY <1>1, <2>3
    <2> QED
        BY ONLY <2>5, <2>6 DEF SevenParts
<1>6. \A i \in 1..7 : p(c)[i] = p(d)[i]
    BY ONLY <1>3, <1>5, PartsSame
<1>7. /\ Fixed(c.network) = Fixed(d.network) /\ Fixed(c.height) = Fixed(d.height)
      /\ Raw(c.prevRoot) = Raw(d.prevRoot) /\ Raw(c.newRoot) = Raw(d.newRoot)
      /\ Keccak(FlattenSeq(ExitDigests(c))) = Keccak(FlattenSeq(ExitDigests(d)))
      /\ Keccak(FlattenSeq(ImportDigests(c))) = Keccak(FlattenSeq(ImportDigests(d)))
      /\ Raw(c.metadata) = Raw(d.metadata)
    <2>1. 1 \in 1..7 /\ 2 \in 1..7 /\ 3 \in 1..7 /\ 4 \in 1..7 /\ 5 \in 1..7 /\ 6 \in 1..7
            /\ 7 \in 1..7
        OBVIOUS
    <2> QED
        BY ONLY <1>1, <1>6, <2>1
<1>8. /\ c.network = d.network /\ c.height = d.height
      /\ FlattenSeq(ExitDigests(c)) = FlattenSeq(ExitDigests(d))
      /\ FlattenSeq(ImportDigests(c)) = FlattenSeq(ImportDigests(d))
    BY ONLY <1>7, UnitSame
<1>9. c.prevRoot = d.prevRoot /\ c.newRoot = d.newRoot /\ c.metadata = d.metadata
    BY ONLY <1>4, <1>7, FixedSame
<1>10. ASSUME NEW x, TypedCertificate(x)
       PROVE  Digests(ExitDigests(x), x.exits) /\ Digests(ImportDigests(x), x.imported)
    <2>1. Sequence(x.exits) /\ Sequence(x.imported)
        BY <1>10 DEF TypedCertificate
    <2>2. (\A e : \E y : HashBridgeExit(e) = Keccak(y))
            /\ \A e : \E y : HashImportedBridgeExit(e) = Keccak(y)
        BY Zenon DEF HashBridgeExit, HashImportedBridgeExit
    <2> QED
        BY ONLY <2>1, <2>2 DEF Digests, ExitDigests, ImportDigests
<1>11. ExitDigests(c) = ExitDigests(d) /\ ImportDigests(c) = ImportDigests(d)
    <2>1. /\ EachOf(ExitDigests(c), 1) /\ EachOf(ExitDigests(d), 1)
          /\ EachOf(ImportDigests(c), 1) /\ EachOf(ImportDigests(d), 1)
        BY ONLY <1>10, DigestsTyped, TypedCertificate(c), TypedCertificate(d)
    <2> QED
        BY ONLY <1>8, <2>1, FlattenSame
<1>12. [i \in DOMAIN c.exits |-> ExitWithdrawn(c.exits[i])]
         = [i \in DOMAIN d.exits |-> ExitWithdrawn(d.exits[i])]
    <2>1. DOMAIN c.exits = DOMAIN d.exits
        BY <1>11 DEF ExitDigests
    <2>2. ASSUME NEW i \in DOMAIN c.exits
          PROVE  ExitWithdrawn(c.exits[i]) = ExitWithdrawn(d.exits[i])
        <3>1. HashBridgeExit(c.exits[i]) = HashBridgeExit(d.exits[i])
            BY <1>11, <2>1 DEF ExitDigests
        <3>2. TypedExit(c.exits[i]) /\ TypedExit(d.exits[i])
            BY <2>1 DEF TypedCertificate
        <3> QED
            BY ONLY <3>1, <3>2, ExitSame
    <2> QED
        BY ONLY <2>1, <2>2
<1>13. [i \in DOMAIN c.imported |-> ImportedWithdrawn(c.imported[i])]
         = [i \in DOMAIN d.imported |-> ImportedWithdrawn(d.imported[i])]
    <2>1. DOMAIN c.imported = DOMAIN d.imported
        BY <1>11 DEF ImportDigests
    <2>2. ASSUME NEW i \in DOMAIN c.imported
          PROVE  ImportedWithdrawn(c.imported[i]) = ImportedWithdrawn(d.imported[i])
        <3>1. HashImportedBridgeExit(c.imported[i]) = HashImportedBridgeExit(d.imported[i])
            BY <1>11, <2>1 DEF ImportDigests
        <3>2. TypedImported(c.imported[i]) /\ TypedImported(d.imported[i])
            BY <2>1 DEF TypedCertificate
        <3> QED
            BY ONLY <3>1, <3>2, ImportedSame
    <2> QED
        BY ONLY <2>1, <2>2
<1> QED
    BY ONLY <1>8, <1>9, <1>12, <1>13, Zenon DEF Withdrawals, ImportedWithdrawn

\* An exit that hashes, with fields of their widths.
LEMMA ExitIsTyped ==
    ASSUME NEW m, DigitsOf(m), HashableExit(BridgeExit(m)), ExitWidths(BridgeExit(m))
    PROVE  TypedExit(BridgeExit(m))
<1> DEFINE e == BridgeExit(m)
<1>1. /\ e # Nil /\ e.token # Nil /\ e.token.address # Nil /\ e.destAddress # Nil
      /\ e.amount # Nil
    BY DEF HashableExit
<1>2. e.token = Object(m, "token_info", TokenInfo)
    BY DEF BridgeExit
<1>3. Has(m, "token_info", "object")
    BY ONLY <1>1, <1>2, Zenon DEF Object
<1>4. e.token = TokenInfo(m["token_info"][2])
    BY ONLY <1>2, <1>3, Zenon DEF Object
<1>5. e.token = [network |-> e.token.network, address |-> e.token.address]
    BY ONLY <1>4 DEF TokenInfo
<1>6. /\ e.token.address \in FixedBytes(20) /\ e.destAddress \in FixedBytes(20)
      /\ (e.metadata # Nil => e.metadata \in FixedBytes(32)) /\ Len(e.amount) <= 32
    BY ONLY <1>1, ExitWidths(e), Zenon DEF ExitWidths, Wide
<1>7. e.amount \in Seq(Int)
    <2>1. m["amount"][2] \in Seq(0..15) /\ e.amount = HexStringToBytes(m["amount"][2])
        BY <1>1, AmountOfExit
    <2> QED
        BY ONLY <2>1, BytesOfDigits
<1>8. Sequence(MetadataUnits(e))
    <2>1. CASE e.metadata = Nil
        <3>1. Sequence(EmptyMetadataHash)
            BY ONLY UnitSame DEF Alike, EmptyMetadataHash
        <3> QED
            BY ONLY <2>1, <3>1 DEF MetadataUnits
    <2>2. CASE e.metadata # Nil
        <3>1. 32 \in Nat /\ e.metadata \in FixedBytes(32)
            BY <1>6, <2>2
        <3>2. Sequence(Raw(e.metadata))
            BY ONLY <3>1, FixedSame
        <3> QED
            BY ONLY <2>2, <3>2 DEF MetadataUnits
    <2> QED
        BY ONLY <2>1, <2>2
<1> QED
    BY ONLY <1>5, <1>6, <1>7, <1>8 DEF TypedExit

\* A Merkle proof that hashes, likewise.
LEMMA ProofIsTyped ==
    ASSUME NEW m, NEW key, NEW p, p = Object(m, key, MerkleProof), p # Nil, p.root # Nil,
           ProofWidths(p)
    PROVE  TypedProof(p)
<1>1. p = MerkleProof(m[key][2])
    BY Zenon DEF Object
<1>2. p = [root |-> p.root, siblings |-> p.siblings]
    BY ONLY <1>1 DEF MerkleProof
<1>3. p.root \in FixedBytes(32) /\ p.siblings \in Seq(FixedBytes(32))
    BY Zenon DEF ProofWidths, Wide
<1> QED
    BY ONLY <1>2, <1>3 DEF TypedProof

\* And a claim.
LEMMA ClaimIsTyped ==
    ASSUME NEW m, NEW key, NEW c, c = Object(m, key, Claim), c # Nil, HashableClaim(c),
           ClaimWidths(c)
    PROVE  TypedClaim(c)
<1>1. TypedLeaf(c.l1Leaf)
    <2>1. /\ c.l1Leaf # Nil /\ c.l1Leaf.mer # Nil /\ c.l1Leaf.rer # Nil
          /\ c.l1Leaf.inner # Nil /\ c.l1Leaf.inner.blockHash # Nil
        BY Zenon DEF HashableClaim
    <2>2. LeafWidths(c.l1Leaf)
        BY Zenon DEF ClaimWidths
    <2> QED
        BY ONLY <2>1, <2>2, Zenon DEF LeafWidths, Wide, TypedLeaf
<1>2. \A i \in DOMAIN c.proofs :
         c.proofs[i] # Nil /\ c.proofs[i].root # Nil /\ ProofWidths(c.proofs[i])
    BY Zenon DEF HashableClaim, ClaimWidths
<1>3. ASSUME NEW s, Sequence(s), Len(s) \in Nat, DOMAIN s = 1..Len(s), c.proofs = s,
             \/ c.kind = "mainnet" /\ Len(s) = 2
             \/ c.kind = "rollup" /\ Len(s) = 3,
             \A i \in 1..Len(s) : \E x, k : s[i] = Object(x, k, MerkleProof)
      PROVE  TypedClaim(c)
    <2>1. \A i \in 1..Len(s) : TypedProof(s[i])
        <3>1. \A i \in 1..Len(s) : s[i] # Nil /\ s[i].root # Nil /\ ProofWidths(s[i])
            BY <1>2, <1>3
        <3> QED
            BY ONLY <1>3, <3>1, ProofIsTyped
    <2> QED
        BY ONLY <1>1, <1>3, <2>1 DEF TypedClaim
<1>4. c = Claim(m[key][2])
    BY Zenon DEF Object
<1> DEFINE x == m[key][2]
<1>5. CASE Has(x, "Rollup", "object")
    <2> DEFINE y == x["Rollup"][2]
               s == << Object(y, "proof_leaf_ler", MerkleProof),
                       Object(y, "proof_ler_rer", MerkleProof),
                       Object(y, "proof_ger_l1root", MerkleProof) >>
    <2>1. c = ClaimFromRollup(y)
        BY ONLY <1>4, <1>5, Zenon DEF Claim, Object
    <2>2. c.kind = "rollup" /\ c.proofs = s
        BY ONLY <2>1 DEF ClaimFromRollup
    <2>3. Len(s) = 3 /\ s \in Seq({s[1], s[2], s[3]})
        OBVIOUS
    <2>4. \A i \in 1..3 : \E z, k : s[i] = Object(z, k, MerkleProof)
        <3>1. /\ s[1] = Object(y, "proof_leaf_ler", MerkleProof)
              /\ s[2] = Object(y, "proof_ler_rer", MerkleProof)
              /\ s[3] = Object(y, "proof_ger_l1root", MerkleProof)
            OBVIOUS
        <3> HIDE DEF s
        <3>2. \A i \in 1..3 : i = 1 \/ i = 2 \/ i = 3
            OBVIOUS
        <3> QED
            BY ONLY <3>1, <3>2, Zenon
    <2> HIDE DEF s
    <2>5. Sequence(s) /\ Len(s) \in Nat /\ DOMAIN s = 1..Len(s)
        BY ONLY <2>3, SequenceOver
    <2> QED
        BY ONLY <1>3, <2>2, <2>3, <2>4, <2>5
<1>6. CASE ~Has(x, "Rollup", "object")
    <2> DEFINE y == x["Mainnet"][2]
               s == << Object(y, "proof_leaf_mer", MerkleProof),
                       Object(y, "proof_ger_l1root", MerkleProof) >>
    <2>1. c = ClaimFromMainnet(y)
        BY ONLY <1>4, <1>6, c # Nil, Zenon DEF Claim, Object
    <2>2. c.kind = "mainnet" /\ c.proofs = s
        BY ONLY <2>1 DEF ClaimFromMainnet
    <2>3. Len(s) = 2 /\ s \in Seq({s[1], s[2]})
        OBVIOUS
    <2>4. \A i \in 1..2 : \E z, k : s[i] = Object(z, k, MerkleProof)
        <3>1. /\ s[1] = Object(y, "proof_leaf_mer", MerkleProof)
              /\ s[2] = Object(y, "proof_ger_l1root", MerkleProof)
            OBVIOUS
        <3> HIDE DEF s
        <3>2. \A i \in 1..2 : i = 1 \/ i = 2
            OBVIOUS
        <3> QED
            BY ONLY <3>1, <3>2, Zenon
    <2> HIDE DEF s
    <2>5. Sequence(s) /\ Len(s) \in Nat /\ DOMAIN s = 1..Len(s)
        BY ONLY <2>3, SequenceOver
    <2> QED
        BY ONLY <1>3, <2>2, <2>3, <2>4, <2>5
<1> QED
    BY <1>5, <1>6

\* The certificate of a stored row has fields of their widths when its document has.
LEMMA CertificateIsTyped ==
    ASSUME NEW doc \in Documents, NEW extra \in Extras, Hashable(Certificate(doc, extra)),
           FixedWidths
    PROVE  TypedCertificate(Certificate(doc, extra))
<1> DEFINE c == Certificate(doc, extra)
           b == CertificateFromJSON(doc)
           exits == Objects(doc, "bridge_exits")
           imported == Objects(doc, "imported_bridge_exits")
<1>1. /\ c.prevRoot = b.prevRoot /\ c.newRoot = b.newRoot /\ c.metadata = b.metadata
      /\ c.exits = b.exits /\ c.imported = b.imported
      /\ c.exits = [i \in DOMAIN exits |-> BridgeExit(exits[i][2])]
      /\ c.imported = [i \in DOMAIN imported |-> ImportedBridgeExit(imported[i][2])]
    BY DEF Certificate, CertificateFromJSON
<1>2. Widths(b)
    BY DEF FixedWidths
<1>3. /\ c.prevRoot # Nil /\ c.newRoot # Nil /\ c.metadata # Nil
      /\ \A i \in DOMAIN c.exits : HashableExit(c.exits[i])
      /\ \A i \in DOMAIN c.imported : HashableImported(c.imported[i])
    BY DEF Hashable
<1>4. /\ Wide(32, c.prevRoot) /\ Wide(32, c.newRoot) /\ Wide(32, c.metadata)
      /\ \A i \in DOMAIN c.exits : ExitWidths(c.exits[i])
      /\ \A i \in DOMAIN c.imported :
           ExitWidths(c.imported[i].exit) /\ ClaimWidths(c.imported[i].claim)
    <2> HIDE DEF b, c
    <2> QED
        BY ONLY <1>1, <1>2 DEF Widths
<1>5. /\ Len(exits) \in Nat /\ DOMAIN exits = 1..Len(exits)
      /\ Len(imported) \in Nat /\ DOMAIN imported = 1..Len(imported)
    <2>1. "bridge_exits" \in Lists /\ "imported_bridge_exits" \in Lists
        BY DEF Lists
    <2> QED
        BY <2>1, DocumentAssumption
<1>6. ASSUME NEW list \in Lists, NEW i \in Places(c, list)
      PROVE  /\ ExitOf(c, list, i) = BridgeExit(ExitAt(doc, <<list, i>>))
             /\ HashableExit(ExitOf(c, list, i)) /\ DigitsOf(ExitAt(doc, <<list, i>>))
    BY ExitsOfDocument, Zenon
<1>7. ASSUME NEW list \in Lists, NEW i \in Places(c, list), ExitWidths(ExitOf(c, list, i))
      PROVE  TypedExit(ExitOf(c, list, i))
    <2> HIDE DEF c
    <2>1. /\ ExitOf(c, list, i) = BridgeExit(ExitAt(doc, <<list, i>>))
          /\ HashableExit(ExitOf(c, list, i)) /\ DigitsOf(ExitAt(doc, <<list, i>>))
        BY ONLY <1>6, list \in Lists, i \in Places(c, list)
    <2> QED
        BY ONLY <1>7, <2>1, ExitIsTyped
<1>8. ASSUME NEW i \in DOMAIN c.imported
      PROVE  c.imported[i].globalIndex \in Seq(Int) /\ Len(c.imported[i].globalIndex) = 32
    <2> DEFINE element == imported[i][2]
               index == element["global_index"][2]
               leaf == index["leaf_index"][2]
               rollup == index["rollup_index"][2]
               flag == IF index["mainnet_flag"][2] THEN 1 ELSE 0
               bytes == c.imported[i].globalIndex
    <2>1. /\ Has(element, "global_index", "object") /\ i \in DOMAIN imported
          /\ Has(index, "leaf_index", "number") /\ Has(index, "rollup_index", "number")
          /\ bytes = GlobalIndexBytes(index)
        BY ImportedIndex
    <2>2. Index32(index)
        BY <2>1, DocumentAssumption
    <2>3. /\ leaf \in 0..(Word32 - 1) /\ rollup \in 0..(Word32 - 1) /\ flag \in Int
          /\ Said(index, "leaf_index") = leaf /\ Said(index, "rollup_index") = rollup
        BY <2>1, <2>2 DEF Index32, Said
    <2>4. bytes = IndexBytes(leaf, rollup, flag) /\ leaf \in Nat /\ rollup \in Nat
        <3>1. /\ Number(index, "leaf_index", Word32) = leaf
              /\ Number(index, "rollup_index", Word32) = rollup
            BY <2>3, WordSurvives DEF Number
        <3> QED
            BY <2>1, <2>3, <3>1 DEF GlobalIndexBytes, IndexParts, IndexBytes
    <2> HIDE DEF leaf, rollup, flag, bytes
    <2>5. IndexPlaces(bytes, leaf, rollup, flag)
        BY ONLY <2>3, <2>4, GlobalIndexPlaces
    <2> QED
        BY <2>5 DEF IndexPlaces, bytes
<1> HIDE DEF c, exits, imported
<1>9. /\ Sequence(c.exits) /\ Sequence(c.imported)
    <2>1. ASSUME NEW f, NEW s, Len(s) \in Nat, DOMAIN s = 1..Len(s),
                 f = [i \in DOMAIN s |-> f[i]]
          PROVE  Sequence(f)
        <3>1. Len(s) \in Nat /\ f = [i \in 1..Len(s) |-> f[i]]
            BY <2>1
        <3> QED
            BY ONLY <3>1, FunctionIsSequence
    <2>2. /\ c.exits = [i \in DOMAIN exits |-> c.exits[i]]
          /\ c.imported = [i \in DOMAIN imported |-> c.imported[i]]
        BY <1>1
    <2> QED
        BY ONLY <1>5, <2>1, <2>2
<1>10. ASSUME NEW i \in DOMAIN c.exits PROVE TypedExit(c.exits[i])
    <2>1. i \in Places(c, "bridge_exits") /\ ExitOf(c, "bridge_exits", i) = c.exits[i]
            /\ "bridge_exits" \in Lists /\ ExitWidths(c.exits[i])
        BY <1>4 DEF Places, ExitOf, Lists
    <2> QED
        BY ONLY <1>7, <2>1
<1>11. ASSUME NEW i \in DOMAIN c.imported PROVE TypedImported(c.imported[i])
    <2>1. /\ HashableExit(c.imported[i].exit)
          /\ c.imported[i].claim = Nil \/ HashableClaim(c.imported[i].claim)
          /\ ExitWidths(c.imported[i].exit) /\ ClaimWidths(c.imported[i].claim)
        BY <1>3, <1>4 DEF HashableImported
    <2>2. TypedExit(c.imported[i].exit)
        <3>1. c.imported[i].exit # Nil
            BY <2>1 DEF HashableExit
        <3>2. i \in Places(c, "imported_bridge_exits") /\ "imported_bridge_exits" \in Lists
                /\ ExitOf(c, "imported_bridge_exits", i) = c.imported[i].exit
            BY <3>1 DEF Places, ExitOf, Lists
        <3> QED
            BY ONLY <1>7, <2>1, <3>2
    <2>3. ASSUME c.imported[i].claim # Nil PROVE TypedClaim(c.imported[i].claim)
        <3>1. i \in DOMAIN imported /\ c.imported[i] = ImportedBridgeExit(imported[i][2])
            BY <1>1
        <3>2. c.imported[i].claim = Object(imported[i][2], "claim_data", Claim)
            BY ONLY <3>1 DEF ImportedBridgeExit
        <3> QED
            BY ONLY <2>1, <2>3, <3>2, ClaimIsTyped
    <2> QED
        BY ONLY <1>8, <2>2, <2>3, i \in DOMAIN c.imported DEF TypedImported
<1>12. /\ c.prevRoot \in FixedBytes(32) /\ c.newRoot \in FixedBytes(32)
       /\ c.metadata \in FixedBytes(32)
    BY ONLY <1>3, <1>4 DEF Wide
<1> QED
    BY <1>9, <1>10, <1>11, <1>12 DEF TypedCertificate, c

\* An id says what is withdrawn, and a withdrawal has one id: lookups, which go by
\* the id, never mix up certificates nor miss a resubmitted one (hashing.go:12-182,
\* sqlite.go:357), for all documents whose fields have the widths the hash takes
\* for granted.
THEOREM SameIdSameWithdrawalsHolds ==
    ASSUME FixedWidths
    PROVE  Spec => []SameIdSameWithdrawals
<1>1. ASSUME NEW r \in StoredRows
      PROVE  TypedCertificate(r.certificate) /\ r.id = GenerateCertificateId(r.certificate)
    <2>1. PICK doc \in Documents, extra \in Extras, p \in BOOLEAN :
             r = Row(doc, extra, p) /\ Hashable(Certificate(doc, extra))
        BY StoredIsRow
    <2>2. r.certificate = Certificate(doc, extra)
            /\ r.id = GenerateCertificateId(Certificate(doc, extra))
        BY <2>1 DEF Row
    <2>3. TypedCertificate(Certificate(doc, extra))
        BY <2>1, CertificateIsTyped
    <2> QED
        BY ONLY <2>2, <2>3
<1>2. IInv /\ OneIdEach => SameIdSameWithdrawals
    <2> SUFFICES ASSUME IInv, OneIdEach, NEW i \in DOMAIN rows, NEW j \in DOMAIN rows
                 PROVE  rows[i].id = rows[j].id
                          <=> Withdrawals(rows[i].certificate) = Withdrawals(rows[j].certificate)
        BY DEF SameIdSameWithdrawals
    <2>1. rows[i] \in StoredRows /\ rows[j] \in StoredRows
        BY DEF IInv
    <2>2. ASSUME rows[i].id = rows[j].id
          PROVE  Withdrawals(rows[i].certificate) = Withdrawals(rows[j].certificate)
        BY ONLY <1>1, <2>1, <2>2, CertificateSame
    <2>3. ASSUME Withdrawals(rows[i].certificate) = Withdrawals(rows[j].certificate)
          PROVE  rows[i].id = rows[j].id
        BY <2>3 DEF OneIdEach
    <2> QED
        BY <2>2, <2>3
<1> QED
    BY <1>2, InvariantHolds, WithdrawalHasOneId, PTL
=============================================================================
