------------------------- MODULE HermFormatsProofs -------------------------
(***************************************************************************)
(* What a copy-c2h function writes is in the documented places and comes   *)
(* back through its copy-h2c function, for hermitian arrays of every size. *)
(***************************************************************************)
EXTENDS HermFormats, TLAPS

TypeInv == /\ p \in Problems
           /\ hermPc \in {"c2h_head", "c2h", "h2c_head", "h2c", "done", "assertion"}
           /\ b \in 0 .. Rows(p) - 1 /\ k \in Nat
           /\ reals = [c \in Cells |-> reals[c]]
           /\ out = [e \in Elements(p) |-> out[e]]

\* Both parts of an element are in their cells.  The imaginary part of the
\* first one is zero, and the packed layout keeps the middle one in its place.
Holds(a, j) ==
    /\ reals[ReCell(a, j)] = In(a, j).re
    /\ reals[ImCell(a, j)] = Turn(In(a, j).im) \/ (p.fmt = "packed" /\ j = 0)

\* What has been written of the earlier rows and of this one.
C2HInv ==
    /\ hermPc = "c2h_head" => b = 0
    /\ hermPc = "c2h" =>
        /\ First <= k /\ k <= Limit
        /\ p.fmt = "packed" => IsEven
        /\ Centred => reals[0] = In(0, 0).re
        /\ \A a \in 0 .. b, j \in First .. Limit - 1 : a < b \/ j < k => Holds(a, j)

\* The whole array has been written.
CopiedInv ==
    hermPc \in {"h2c_head", "h2c"} =>
        /\ p.fmt = "packed" => IsEven /\ reals[1] = In(0, Half).re
        /\ Centred => /\ reals[0] = In(0, 0).re
                      /\ IsEven => reals[ReCell(0, Half)] = In(0, Half).re
        /\ \A a \in 0 .. Rows(p) - 1, j \in First .. Limit - 1 : Holds(a, j)

\* What has been read back: of the unpacked layout the elements up to this one,
\* of the others so many at either end.
H2CInv ==
    /\ hermPc = "h2c_head" => b = 0
    /\ hermPc = "h2c" /\ p.fmt = "unpacked" =>
        /\ k <= p.n
        /\ \A e \in Elements(p) : e < p.n * b + k => out[e] = p.z[e]
    /\ hermPc = "h2c" /\ p.fmt # "unpacked" =>
        /\ 1 <= k /\ k <= Limit
        /\ out[0] = p.z[0]
        /\ p.fmt = "packed" => out[Half] = p.z[Half]
        /\ \A j \in 1 .. k - 1 : out[j] = p.z[j] /\ out[p.n - j] = p.z[p.n - j]

IInv == TypeInv /\ C2HInv /\ CopiedInv /\ H2CInv /\ RoundTrip
-----------------------------------------------------------------------------
\* Products grow with their factors.
LEMMA Products ==
    ASSUME NEW x \in Nat, NEW y \in Nat, NEW z \in Nat
    PROVE  /\ x * y \in Nat
           /\ x <= y => x * z <= y * z
           /\ x < y => x * z + z <= y * z
<1>1. ASSUME NEW d \in Nat PROVE (x + d) * z = x * z + d * z /\ d * z \in Nat
  OBVIOUS
<1>2. ASSUME x <= y PROVE x * z <= y * z
  <2>1. PICK d \in Nat : y = x + d BY <1>2
  <2>2. QED BY <1>1, <2>1
<1>3. ASSUME x < y PROVE x * z + z <= y * z
  <2>1. PICK d \in Nat : y = x + (d + 1) BY <1>3
  <2>2. (x + (d + 1)) * z = x * z + (d * z + z) /\ d * z \in Nat OBVIOUS
  <2>3. QED BY <2>1, <2>2
<1>4. QED BY <1>2, <1>3

\* The sizes of a problem.
LEMMA Sizes ==
    ASSUME p \in Problems
    PROVE  /\ p.fmt \in Formats /\ p.sign \in {-1, 1}
           /\ p.n \in Nat \ {0} /\ p.rows \in Nat \ {0} /\ p.planes \in Nat \ {0}
           /\ Rows(p) \in Nat \ {0}
           /\ p.fmt # "unpacked" => Rows(p) = 1 /\ p.rows = 1 /\ p.planes = 1
           /\ Half \in Nat /\ (IsEven => 2 * Half = p.n) /\ (~IsEven => 2 * Half + 1 = p.n)
           /\ Limit \in Nat
           /\ p.fmt = "packed" => Limit = Half
           /\ Centred => Limit = IF IsEven THEN Half ELSE Half + 1
           /\ p.fmt \in {"unpacked", "unpacked_ri"} => Limit = Half + 1
<1>1. /\ p.fmt \in Formats /\ p.sign \in {-1, 1}
      /\ p.n \in Nat \ {0} /\ p.rows \in Nat \ {0} /\ p.planes \in Nat \ {0}
      /\ p.fmt # "unpacked" => Rows(p) = 1
  BY ProblemsAssumption 
<1>2. Rows(p) \in Nat /\ p.planes <= Rows(p) /\ p.rows <= Rows(p)
  <2>1. 1 * p.rows <= p.planes * p.rows /\ 1 * p.planes <= p.rows * p.planes
        /\ p.planes * p.rows \in Nat
    BY <1>1, Products
  <2>2. p.rows * p.planes = p.planes * p.rows BY <1>1
  <2>3. QED BY <1>1, <2>1, <2>2 DEF Rows
<1>3. Half \in Nat /\ (2 * Half = p.n \/ 2 * Half + 1 = p.n) BY <1>1 DEF Half
<1>4. Centred => Limit = IF IsEven THEN Half ELSE Half + 1
  BY <1>1, <1>3 DEF Limit, Half, IsEven
<1>5. QED BY <1>1, <1>2, <1>3, <1>4 DEF IsEven, Limit, Centred, Formats

\* The array that is copied, and its symmetry.
LEMMA Values ==
    ASSUME p \in Problems
    PROVE  /\ p.z \in [Elements(p) -> [re : Int, im : Int]]
           /\ \A j : j \in Nat => In(0, j) = p.z[j]
           /\ \A x \in Int : Turn(x) \in Int /\ Turn(Turn(x)) = x
           /\ \A x, y \in Int : [re |-> x, im |-> Turn(Turn(y))] = [re |-> x, im |-> y]
BY Sizes, ProblemsAssumption DEF In, Turn

\* In one dimension an element and the one at the other end are conjugates.
LEMMA Ends ==
    ASSUME p \in Problems, p.fmt # "unpacked"
    PROVE  /\ Elements(p) = 0 .. p.n - 1
           /\ p.z[0].im = 0
           /\ \A j \in 1 .. p.n - 1 : p.z[p.n - j] = Conj(p.z[j])
           /\ IsEven => p.z[Half].im = 0
<1>1. /\ p.n \in Nat \ {0} /\ p.rows = 1 /\ p.planes = 1 /\ Rows(p) = 1
      /\ Half \in Nat /\ (IsEven => 2 * Half = p.n)
  BY Sizes
<1>2. Elements(p) = 0 .. p.n - 1 BY <1>1 DEF Elements
<1>3. p.z \in [0 .. p.n - 1 -> [re : Int, im : Int]] BY <1>2, Values
<1>4. MirrorRow(p, 0) = 0 BY <1>1 DEF MirrorRow, Mirror
<1>5. \A j \in 0 .. p.n - 1 : p.z[Mirror(p.n, j)] = Conj(p.z[j])
  <2> TAKE j \in 0 .. p.n - 1
  <2>1. p.z[p.n * MirrorRow(p, 0) + Mirror(p.n, j)] = Conj(p.z[p.n * 0 + j])
    BY <1>1, ProblemsAssumption DEF Hermitian
  <2>2. Mirror(p.n, j) \in Nat BY <1>1 DEF Mirror
  <2>3. p.n * 0 + Mirror(p.n, j) = Mirror(p.n, j) /\ p.n * 0 + j = j BY <1>1, <2>2
  <2>4. QED BY <1>4, <2>1, <2>3
<1>6. \A j \in 1 .. p.n - 1 : p.z[p.n - j] = Conj(p.z[j]) BY <1>1, <1>5 DEF Mirror
<1>7. p.z[0].im = 0
  <2>1. p.z[0] = Conj(p.z[0]) BY <1>1, <1>5 DEF Mirror
  <2>2. p.z[0].im \in Int /\ p.z[0].im = -p.z[0].im BY <1>1, <1>3, <2>1 DEF Conj
  <2>3. QED BY <2>2
<1>8. ASSUME IsEven PROVE p.z[Half].im = 0
  <2>1. Half \in 1 .. p.n - 1 /\ p.n - Half = Half BY <1>1, <1>8
  <2>2. p.z[Half] = Conj(p.z[Half]) BY <1>6, <2>1
  <2>3. p.z[Half].im \in Int /\ p.z[Half].im = -p.z[Half].im
    BY <1>1, <1>3, <2>1, <2>2 DEF Conj
  <2>4. QED BY <2>3
<1>9. QED BY <1>2, <1>6, <1>7, <1>8

\* The cells of an element, in the array that the problem has.
Present(a, j) == a \in 0 .. Rows(p) - 1 /\ j \in First .. Limit - 1

LEMMA CellNumbers ==
    ASSUME p \in Problems, NEW a \in Nat, NEW j \in Nat
    PROVE  /\ p.fmt = "fftpack" => ReCell(a, j) = 2 * j - 1 /\ ImCell(a, j) = 2 * j
           /\ p.fmt = "halfcomplex" => ReCell(a, j) = j /\ ImCell(a, j) = p.n - j
           /\ p.fmt = "packed" => ReCell(a, j) = 2 * j /\ ImCell(a, j) = 2 * j + 1
           /\ p.fmt = "unpacked_ri" => ReCell(a, j) = j /\ ImCell(a, j) = Half + 1 + j
           /\ p.fmt = "unpacked" => /\ ReCell(a, j) = 2 * ((Half + 1) * a + j)
                                    /\ ImCell(a, j) = 2 * ((Half + 1) * a + j) + 1
BY DEF ReCell, ImCell

\* Which elements of a row are stored.
LEMMA Stored ==
    ASSUME p \in Problems, NEW a, NEW j, Present(a, j)
    PROVE  /\ a \in Nat /\ j \in Nat /\ a < Rows(p)
           /\ Centred => 1 <= j /\ 2 * j < p.n
           /\ p.fmt = "packed" => 2 * j + 1 < p.n
           /\ p.fmt \in {"unpacked_ri", "unpacked"} => j <= Half
<1>1. a \in Nat /\ j \in Nat /\ a < Rows(p) /\ First <= j /\ j < Limit
  BY Sizes DEF Present, First
<1>2. ASSUME Centred PROVE 1 <= j /\ 2 * j < p.n
  <2>1. First = 1 /\ Limit = IF IsEven THEN Half ELSE Half + 1 BY <1>2, Sizes DEF First
  <2>2. CASE IsEven
    <3>1. 2 * Half = p.n /\ Half \in Nat /\ Limit = Half BY <2>1, <2>2, Sizes
    <3>2. QED BY <1>1, <2>1, <3>1
  <2>3. CASE ~IsEven
    <3>1. 2 * Half + 1 = p.n /\ Half \in Nat /\ Limit = Half + 1 BY <2>1, <2>3, Sizes
    <3>2. QED BY <1>1, <2>1, <3>1
  <2>4. QED BY <2>2, <2>3
<1>3. ASSUME p.fmt = "packed" PROVE 2 * j + 1 < p.n
  <2>1. Limit = Half /\ Half \in Nat /\ (2 * Half = p.n \/ 2 * Half + 1 = p.n)
    BY <1>3, Sizes
  <2>2. QED BY <1>1, <2>1
<1>4. p.fmt \in {"unpacked_ri", "unpacked"} => j <= Half
  <2>1. p.fmt \in {"unpacked_ri", "unpacked"} => Limit = Half + 1 BY Sizes
  <2>2. QED BY <1>1, <2>1, Sizes
<1>5. QED BY <1>1, <1>2, <1>3, <1>4

\* The array that problem_alloc allocates is large enough.
LEMMA Enough ==
    ASSUME p \in Problems
    PROVE  /\ Allocated \in Nat
           /\ (p.n + 2) * Rows(p) <= Allocated
           /\ p.n + 2 <= Allocated
<1> DEFINE R == IF p.rows = 1 THEN 1 ELSE p.rows + 2
           P == IF p.planes = 1 THEN 1 ELSE p.planes + 2
<1>1. /\ p.n \in Nat \ {0} /\ p.rows \in Nat \ {0} /\ p.planes \in Nat \ {0}
      /\ Rows(p) \in Nat \ {0} /\ R \in Nat /\ P \in Nat /\ p.rows <= R /\ p.planes <= P
  BY Sizes
<1>2. Allocated = (p.n + 2) * R * P BY DEF Allocated
<1> HIDE DEF R, P
<1>3. p.planes * p.rows <= P * p.rows /\ p.rows * P <= R * P /\ R * P \in Nat
      /\ p.rows * P \in Nat
  BY <1>1, Products
<1>4. Rows(p) <= R * P BY <1>1, <1>3 DEF Rows
<1>5. Rows(p) * (p.n + 2) <= (R * P) * (p.n + 2) /\ 1 * (p.n + 2) <= Rows(p) * (p.n + 2)
      /\ (R * P) * (p.n + 2) \in Nat
  BY <1>1, <1>3, <1>4, Products
<1>6. Allocated = (R * P) * (p.n + 2) BY <1>1, <1>2
<1>7. (p.n + 2) * Rows(p) = Rows(p) * (p.n + 2) BY <1>1
<1>8. QED BY <1>1, <1>5, <1>6, <1>7

\* Each part of an element has a cell of its own, and so has the element that
\* the centred layouts store before their loop.
LEMMA CellsExist ==
    ASSUME p \in Problems, NEW a, NEW j, Present(a, j)
    PROVE  /\ a \in Nat /\ j \in Nat
           /\ ReCell(a, j) \in Cells /\ ImCell(a, j) \in Cells
           /\ ReCell(a, j) # ImCell(a, j)
           /\ Centred => ReCell(a, j) # 0 /\ ImCell(a, j) # 0
           /\ 0 \in Cells /\ 1 \in Cells
<1>1. a \in Nat /\ j \in Nat /\ a < Rows(p) /\ First <= j /\ j < Limit
  BY Sizes DEF Present, First
<1>2. 0 \in Cells /\ 1 \in Cells /\ 0 .. p.n + 1 \subseteq Cells
  BY Sizes, Enough DEF Cells
<1>3. CASE p.fmt # "unpacked"
  <2>1. CASE p.fmt = "fftpack"
    <3>1. ReCell(a, j) = 2 * j - 1 /\ ImCell(a, j) = 2 * j BY <1>1, <2>1, CellNumbers
    <3>2. 1 <= j /\ 2 * j < p.n BY <2>1, Stored DEF Centred
    <3>3. QED BY <1>1, <1>2, <2>1, <3>1, <3>2, Sizes
  <2>2. CASE p.fmt = "halfcomplex"
    <3>1. ReCell(a, j) = j /\ ImCell(a, j) = p.n - j BY <1>1, <2>2, CellNumbers
    <3>2. 1 <= j /\ 2 * j < p.n BY <2>2, Stored DEF Centred
    <3>3. QED BY <1>1, <1>2, <2>2, <3>1, <3>2, Sizes
  <2>3. CASE p.fmt = "packed"
    <3>1. ReCell(a, j) = 2 * j /\ ImCell(a, j) = 2 * j + 1 BY <1>1, <2>3, CellNumbers
    <3>2. 2 * j + 1 < p.n BY <2>3, Stored DEF Centred
    <3>3. QED BY <1>1, <1>2, <2>3, <3>1, <3>2, Sizes DEF Centred
  <2>4. CASE p.fmt = "unpacked_ri"
    <3>1. ReCell(a, j) = j /\ ImCell(a, j) = Half + 1 + j BY <1>1, <2>4, CellNumbers
    <3>2. j <= Half BY <2>4, Stored DEF Centred
    <3>3. QED BY <1>1, <1>2, <2>4, <3>1, <3>2, Sizes DEF Centred
  <2>5. QED BY <1>3, <2>1, <2>2, <2>3, <2>4, Sizes DEF Formats
<1>4. CASE p.fmt = "unpacked"
  <2> DEFINE m == (Half + 1) * a
  <2>1. m \in Nat /\ m + (Half + 1) <= (Half + 1) * Rows(p) /\ (Half + 1) * Rows(p) \in Nat
    <3>1. a * (Half + 1) + (Half + 1) <= Rows(p) * (Half + 1) BY <1>1, Sizes, Products
    <3>2. m = a * (Half + 1) /\ (Half + 1) * Rows(p) = Rows(p) * (Half + 1)
          /\ m \in Nat /\ (Half + 1) * Rows(p) \in Nat
      BY <1>1, Sizes
    <3>3. QED BY <3>1, <3>2
  <2>2. 2 * ((Half + 1) * Rows(p)) <= (p.n + 2) * Rows(p)
    <3>1. (2 * (Half + 1)) * Rows(p) <= (p.n + 2) * Rows(p) BY Sizes, Products
    <3>2. (2 * (Half + 1)) * Rows(p) = 2 * ((Half + 1) * Rows(p)) BY Sizes
    <3>3. QED BY <3>1, <3>2
  <2>3. ReCell(a, j) = 2 * (m + j) /\ ImCell(a, j) = 2 * (m + j) + 1
    BY <1>1, <1>4, CellNumbers
  <2>4. j <= Half BY <1>1, <1>4, Sizes
  <2>5. (p.n + 2) * Rows(p) \in Nat BY Sizes
  <2> HIDE DEF m
  <2>6. 2 * (m + j) + 1 < Allocated BY <1>1, <2>1, <2>2, <2>4, <2>5, Enough, Sizes
  <2>7. QED BY <1>1, <1>2, <1>4, <2>1, <2>3, <2>6, Enough DEF Cells, Centred
<1>5. QED BY <1>3, <1>4

\* Two elements have different cells.
LEMMA CellsApart ==
    ASSUME p \in Problems, NEW a, NEW j, NEW c, NEW i,
           Present(a, j), Present(c, i), a < c \/ (a = c /\ j < i)
    PROVE  /\ ReCell(a, j) \notin {ReCell(c, i), ImCell(c, i)}
           /\ ImCell(a, j) \notin {ReCell(c, i), ImCell(c, i)}
<1>1. a \in Nat /\ j \in Nat /\ c \in Nat /\ i \in Nat /\ a < Rows(p) /\ c < Rows(p)
      /\ First <= j /\ j < Limit /\ First <= i /\ i < Limit
  BY Sizes DEF Present, First
<1>2. CASE p.fmt # "unpacked"
  <2>0. j < i BY <1>1, <1>2, Sizes
  <2>1. CASE p.fmt = "fftpack"
    <3>1. ReCell(a, j) = 2 * j - 1 /\ ImCell(a, j) = 2 * j BY <1>1, <2>1, CellNumbers
    <3>2. ReCell(c, i) = 2 * i - 1 /\ ImCell(c, i) = 2 * i BY <1>1, <2>1, CellNumbers
    <3>3. 1 <= j /\ 2 * j < p.n /\ 1 <= i /\ 2 * i < p.n BY <2>1, Stored DEF Centred
    <3>4. QED BY <1>1, <2>0, <3>1, <3>2, <3>3, Sizes
  <2>2. CASE p.fmt = "halfcomplex"
    <3>1. ReCell(a, j) = j /\ ImCell(a, j) = p.n - j BY <1>1, <2>2, CellNumbers
    <3>2. ReCell(c, i) = i /\ ImCell(c, i) = p.n - i BY <1>1, <2>2, CellNumbers
    <3>3. 1 <= j /\ 2 * j < p.n /\ 1 <= i /\ 2 * i < p.n BY <2>2, Stored DEF Centred
    <3>4. QED BY <1>1, <2>0, <3>1, <3>2, <3>3, Sizes
  <2>3. CASE p.fmt = "packed"
    <3>1. ReCell(a, j) = 2 * j /\ ImCell(a, j) = 2 * j + 1 BY <1>1, <2>3, CellNumbers
    <3>2. ReCell(c, i) = 2 * i /\ ImCell(c, i) = 2 * i + 1 BY <1>1, <2>3, CellNumbers
    <3>3. 2 * j + 1 < p.n /\ 2 * i + 1 < p.n BY <2>3, Stored DEF Centred
    <3>4. QED BY <1>1, <2>0, <3>1, <3>2, <3>3, Sizes
  <2>4. CASE p.fmt = "unpacked_ri"
    <3>1. ReCell(a, j) = j /\ ImCell(a, j) = Half + 1 + j BY <1>1, <2>4, CellNumbers
    <3>2. ReCell(c, i) = i /\ ImCell(c, i) = Half + 1 + i BY <1>1, <2>4, CellNumbers
    <3>3. j <= Half /\ i <= Half BY <2>4, Stored DEF Centred
    <3>4. QED BY <1>1, <2>0, <3>1, <3>2, <3>3, Sizes
  <2>5. QED BY <1>2, <2>1, <2>2, <2>3, <2>4, Sizes DEF Formats
<1>3. CASE p.fmt = "unpacked"
  <2> DEFINE m == (Half + 1) * a
             o == (Half + 1) * c
  <2>1. m \in Nat /\ o \in Nat /\ (a < c => m + (Half + 1) <= o)
    <3>1. a < c => a * (Half + 1) + (Half + 1) <= c * (Half + 1)
      BY <1>1, Sizes, Products
    <3>2. m = a * (Half + 1) /\ o = c * (Half + 1) /\ m \in Nat /\ o \in Nat
      BY <1>1, Sizes
    <3>3. QED BY <3>1, <3>2
  <2>2. /\ ReCell(a, j) = 2 * (m + j) /\ ImCell(a, j) = 2 * (m + j) + 1
        /\ ReCell(c, i) = 2 * (o + i) /\ ImCell(c, i) = 2 * (o + i) + 1
    BY <1>1, <1>3, CellNumbers
  <2>3. j <= Half /\ Half \in Nat BY <1>1, <1>3, Sizes
  <2>4. a = c => m = o OBVIOUS
  <2> HIDE DEF m, o
  <2>5. m + j < o + i BY <1>1, <2>1, <2>3, <2>4
  <2>6. QED BY <1>1, <2>1, <2>2, <2>5
<1>4. QED BY <1>2, <1>3

\* The rows one after the other.
LEMMA RowStarts ==
    ASSUME p \in Problems, NEW a \in 0 .. Rows(p) - 1
    PROVE  /\ p.n * a \in Nat
           /\ p.n * (a + 1) = p.n * a + p.n
           /\ p.n * a + p.n <= Rows(p) * p.n
           /\ Rows(p) * p.n \in Nat
           /\ \A j \in 0 .. p.n - 1 : p.n * a + j \in Elements(p)
<1>1. a \in Nat /\ a < Rows(p) /\ Rows(p) \in Nat /\ p.n \in Nat BY Sizes
<1>2. a * p.n + p.n <= Rows(p) * p.n /\ Rows(p) * p.n \in Nat BY <1>1, Products
<1>3. p.n * a = a * p.n /\ p.n * a \in Nat /\ p.n * (a + 1) = p.n * a + p.n BY <1>1
<1>4. \A j \in 0 .. p.n - 1 : p.n * a + j \in Elements(p)
  BY <1>1, <1>2, <1>3 DEF Elements
<1>5. QED BY <1>2, <1>3, <1>4

\* The place of a row among planes of r rows.
LEMMA Division ==
    ASSUME NEW c \in Nat, NEW r \in Nat \ {0}, NEW m \in Nat, c < m * r
    PROVE  c \div r \in Nat /\ c \div r < m /\ c % r \in 0 .. r - 1
<1>1. c % r \in 0 .. r - 1 OBVIOUS
<1>2. c \div r \in Int /\ c \div r >= 0 OBVIOUS
<1>3. c \div r < m OBVIOUS
<1>4. QED BY <1>1, <1>2, <1>3

\* The mirrored row is a row.
LEMMA Mirrors ==
    ASSUME p \in Problems, NEW a \in 0 .. Rows(p) - 1
    PROVE  MirrorRow(p, a) \in 0 .. Rows(p) - 1
<1>1. /\ p.planes \in Nat \ {0} /\ p.rows \in Nat \ {0} /\ a \in Nat
      /\ a < p.planes * p.rows
  BY Sizes DEF Rows
<1>2. PICK u : u = a \div p.rows OBVIOUS
<1>3. PICK v : v = a % p.rows OBVIOUS
<1>4. MirrorRow(p, a) = Mirror(p.planes, u) * p.rows + Mirror(p.rows, v)
  BY <1>2, <1>3 DEF MirrorRow
<1>5. u \in Nat /\ u < p.planes /\ v \in Nat /\ v < p.rows
  <2>1. a \div p.rows \in Nat /\ a \div p.rows < p.planes /\ a % p.rows \in 0 .. p.rows - 1
    BY <1>1, Division
  <2>2. QED BY <1>1, <1>2, <1>3, <2>1
<1>6. Mirror(p.planes, u) \in 0 .. p.planes - 1 /\ Mirror(p.rows, v) \in 0 .. p.rows - 1
  BY <1>1, <1>5 DEF Mirror
<1>7. PICK x : x = Mirror(p.planes, u) OBVIOUS
<1>8. PICK y : y = Mirror(p.rows, v) OBVIOUS
<1>9. x * p.rows + p.rows <= p.planes * p.rows /\ x * p.rows \in Nat /\ p.planes * p.rows \in Nat
  BY <1>1, <1>6, <1>7, Products
<1>10. x * p.rows + y \in 0 .. p.planes * p.rows - 1 BY <1>1, <1>6, <1>8, <1>9
<1>11. QED BY <1>4, <1>7, <1>8, <1>10 DEF Rows

\* What the verifier may count on in several dimensions.
LEMMA Symmetry ==
    ASSUME p \in Problems, NEW a \in 0 .. Rows(p) - 1,
           NEW j \in 0 .. p.n - 1
    PROVE  /\ In(a, j) \in [re : Int, im : Int]
           /\ j # 0 => In(a, j) = Conj(In(MirrorRow(p, a), p.n - j))
<1>1. p.n \in Nat BY Sizes
<1>2. In(a, j) \in [re : Int, im : Int] BY RowStarts, Values DEF In
<1>3. ASSUME j # 0 PROVE In(a, j) = Conj(In(MirrorRow(p, a), p.n - j))
  <2>1. In(MirrorRow(p, a), p.n - j) = Conj(In(a, j))
    BY <1>1, <1>3, ProblemsAssumption DEF Hermitian, Mirror, In
  <2>2. PICK x \in Int, y \in Int : In(a, j) = [re |-> x, im |-> y] BY <1>2
  <2>3. Conj(Conj([re |-> x, im |-> y])) = [re |-> x, im |-> y] BY DEF Conj
  <2>4. QED BY <2>1, <2>2, <2>3
<1>4. QED BY <1>2, <1>3

\* What has been stored is read as the element it was.
LEMMA ReadBack ==
    ASSUME IInv, hermPc \in {"h2c_head", "h2c"}, NEW a, NEW j, Present(a, j),
           p.fmt # "packed" \/ j # 0
    PROVE  Read(a, j) = In(a, j)
<1>1. p \in Problems /\ a \in 0 .. Rows(p) - 1 /\ j \in First .. Limit - 1
  BY DEF IInv, TypeInv, Present
<1>2. Holds(a, j) BY <1>1 DEF IInv, CopiedInv
<1>3. reals[ReCell(a, j)] = In(a, j).re /\ reals[ImCell(a, j)] = Turn(In(a, j).im)
  BY <1>2 DEF Holds
<1>4. j \in 0 .. p.n - 1
  <2>1. p.fmt \in Formats /\ p.n \in Nat \ {0} /\ Half \in Nat
        /\ (2 * Half = p.n \/ 2 * Half + 1 = p.n)
    BY <1>1, Sizes
  <2>2. CASE Centred BY <1>1, <2>1, <2>2, Stored
  <2>3. CASE ~Centred
    <3>1. j \in Nat /\ (j <= Half \/ 2 * j + 1 < p.n)
      BY <1>1, <2>1, <2>3, Stored DEF Centred, Formats
    <3>2. QED BY <2>1, <3>1
  <2>4. QED BY <2>2, <2>3
<1>5. In(a, j) \in [re : Int, im : Int] BY <1>1, <1>4, Symmetry
<1>6. PICK x \in Int, y \in Int : In(a, j) = [re |-> x, im |-> y] BY <1>5
<1>7. Read(a, j) = [re |-> x, im |-> Turn(Turn(y))] BY <1>3, <1>6 DEF Read
<1>8. QED BY <1>1, <1>6, <1>7, Values

-----------------------------------------------------------------------------
\* The problem does not change, nor what depends on it alone.
LEMMA SameProblem ==
    ASSUME p' = p
    PROVE  /\ Half' = Half /\ IsEven' = IsEven /\ Centred' = Centred
           /\ First' = First /\ Limit' = Limit /\ Allocated' = Allocated /\ Cells' = Cells
           /\ \A a, j : /\ ReCell(a, j)' = ReCell(a, j) /\ ImCell(a, j)' = ImCell(a, j)
                        /\ In(a, j)' = In(a, j)
           /\ \A x : Turn(x)' = Turn(x)
<1>1. Half' = Half /\ Centred' = Centred BY DEF Half, Centred
<1>2. IsEven' = IsEven /\ First' = First /\ Limit' = Limit
  BY <1>1 DEF IsEven, First, Limit
<1>3. Allocated' = Allocated BY DEF Allocated
<1>4. Cells' = Cells BY <1>3 DEF Cells
<1>5. \A a, j : ReCell(a, j)' = ReCell(a, j) /\ ImCell(a, j)' = ImCell(a, j)
  BY <1>1 DEF ReCell, ImCell
<1>6. \A a, j : In(a, j)' = In(a, j) BY DEF In
<1>7. \A x : Turn(x)' = Turn(x) BY DEF Turn
<1>8. QED BY <1>1, <1>2, <1>3, <1>4, <1>5, <1>6, <1>7

\* Before the first step there is nothing in the arrays.
LEMMA Initially == HermInit => IInv
<1> SUFFICES ASSUME HermInit PROVE IInv
  OBVIOUS
<1>1. TypeInv BY Sizes DEF HermInit, TypeInv
<1>2. C2HInv /\ CopiedInv /\ H2CInv /\ RoundTrip
  BY DEF HermInit, C2HInv, CopiedInv, H2CInv, RoundTrip
<1>3. QED BY <1>1, <1>2 DEF IInv

\* The element before the loop.
LEMMA C2HHeadKeeps == ASSUME IInv, C2HHead PROVE IInv'
<1> USE DEF C2HHead
<1>0. p \in Problems /\ b = 0 /\ p' = p /\ b' = b /\ k' = First
  BY DEF IInv, TypeInv, C2HInv
<1>1. TypeInv'
  BY <1>0, SameProblem DEF IInv, TypeInv, First
<1>2. C2HInv'
  <2> SUFFICES ASSUME hermPc' = "c2h"
               PROVE  /\ First <= First /\ First <= Limit
                      /\ p.fmt = "packed" => IsEven
                      /\ Centred => reals'[0] = In(0, 0).re
                      /\ \A a \in 0 .. 0, j \in First .. Limit - 1 :
                                a < 0 \/ j < First => Holds(a, j)'
    BY <1>0, SameProblem DEF C2HInv
  <2>1. First <= First /\ First <= Limit BY <1>0, Sizes DEF First
  <2>2. p.fmt = "packed" => IsEven OBVIOUS
  <2>3. 0 \in Cells BY <1>0, Enough, Sizes DEF Cells
  <2>4. ASSUME Centred PROVE reals'[0] = In(0, 0).re
    BY <1>0, <2>3, <2>4 DEF IInv, TypeInv, First
  <2>5. \A a \in 0 .. 0, j \in First .. Limit - 1 : ~(a < 0 \/ j < First)
    BY Sizes DEF First
  <2>6. QED BY <2>1, <2>2, <2>4, <2>5
<1>3. CopiedInv' BY DEF CopiedInv
<1>4. H2CInv' BY DEF H2CInv
<1>5. RoundTrip' BY DEF RoundTrip
<1>6. QED BY <1>1, <1>2, <1>3, <1>4, <1>5 DEF IInv

\* An element is stored in two cells that no earlier one has.
LEMMA C2HLoopKeeps == ASSUME IInv, C2HLoop PROVE IInv'
<1> USE DEF C2HLoop
<1>0. /\ p \in Problems /\ b \in 0 .. Rows(p) - 1 /\ k \in Nat /\ First <= k /\ k < Limit
      /\ p' = p /\ b' = b /\ k' = k + 1
  BY DEF IInv, TypeInv, C2HInv
<1>1. First \in Nat /\ Limit \in Nat /\ Present(b, k) BY <1>0, Sizes DEF Present, First
<1>2. /\ reals'[ReCell(b, k)] = In(b, k).re /\ reals'[ImCell(b, k)] = Turn(In(b, k).im)
      /\ \A c \in Cells : c # ReCell(b, k) /\ c # ImCell(b, k) => reals'[c] = reals[c]
      /\ reals' = [c \in Cells |-> reals'[c]]
  <2>1. ReCell(b, k) \in Cells /\ ImCell(b, k) \in Cells /\ ReCell(b, k) # ImCell(b, k)
    BY <1>0, <1>1, CellsExist
  <2>2. reals = [c \in Cells |-> reals[c]] BY DEF IInv, TypeInv
  <2>3. PICK i : i = ReCell(b, k) OBVIOUS
  <2>4. PICK j : j = ImCell(b, k) OBVIOUS
  <2>5. PICK x : x = In(b, k).re OBVIOUS
  <2>6. PICK y : y = Turn(In(b, k).im) OBVIOUS
  <2>7. reals' = [reals EXCEPT ![i] = x, ![j] = y] BY <2>3, <2>4, <2>5, <2>6
  <2>8. i \in Cells /\ j \in Cells /\ i # j BY <2>1, <2>3, <2>4
  <2>9. /\ reals'[i] = x /\ reals'[j] = y
        /\ \A c \in Cells : c # i /\ c # j => reals'[c] = reals[c]
        /\ reals' = [c \in Cells |-> reals'[c]]
    BY <2>2, <2>7, <2>8
  <2>10. QED BY <2>3, <2>4, <2>5, <2>6, <2>9
<1>3. TypeInv' BY <1>0, <1>2, SameProblem DEF IInv, TypeInv
<1>4. C2HInv'
  <2>1. \A a, j : a = b /\ j = k => Holds(a, j)' BY <1>0, <1>2, SameProblem DEF Holds
  <2>2. ASSUME NEW a \in 0 .. b, NEW j \in First .. Limit - 1, a < b \/ j < k
        PROVE  Holds(a, j)'
    <3>1. Present(a, j) /\ (a < b \/ (a = b /\ j < k))
      BY <1>0, <1>1, <2>2, Sizes DEF Present
    <3>2. /\ ReCell(a, j) \notin {ReCell(b, k), ImCell(b, k)}
          /\ ImCell(a, j) \notin {ReCell(b, k), ImCell(b, k)}
      BY <1>0, <1>1, <3>1, CellsApart
    <3>3. Holds(a, j) BY <2>2 DEF IInv, C2HInv
    <3>4. ReCell(a, j) \in Cells /\ ImCell(a, j) \in Cells BY <1>0, <3>1, CellsExist
    <3>5. QED BY <1>0, <1>2, <3>2, <3>3, <3>4, SameProblem DEF Holds
  <2>3. ASSUME Centred PROVE reals'[0] = In(0, 0).re
    <3>1. ReCell(b, k) # 0 /\ ImCell(b, k) # 0 /\ 0 \in Cells
      BY <1>0, <1>1, <2>3, CellsExist
    <3>2. QED BY <1>2, <2>3, <3>1 DEF IInv, C2HInv
  <2>4. \A a \in 0 .. b, j \in First .. Limit - 1 : a < b \/ j < k + 1 => Holds(a, j)'
    <3> SUFFICES ASSUME NEW a \in 0 .. b, NEW j \in First .. Limit - 1, a < b \/ j < k + 1
                 PROVE  Holds(a, j)'
      OBVIOUS
    <3>1. CASE a < b \/ j < k BY <2>2, <3>1
    <3>2. CASE ~(a < b \/ j < k)
      <4>1. a = b /\ j = k BY <1>0, <1>1, <3>2
      <4>2. QED BY <2>1, <4>1
    <3>3. QED BY <3>1, <3>2
  <2>5. First <= k + 1 /\ k + 1 <= Limit BY <1>0, <1>1
  <2>6. hermPc' = "c2h" /\ (p.fmt = "packed" => IsEven) BY DEF IInv, C2HInv
  <2>7. QED BY <1>0, <2>3, <2>4, <2>5, <2>6, SameProblem DEF C2HInv
<1>5. CopiedInv' BY DEF CopiedInv
<1>6. H2CInv' BY DEF H2CInv
<1>7. RoundTrip' BY DEF RoundTrip
<1>8. QED BY <1>3, <1>4, <1>5, <1>6, <1>7 DEF IInv

\* The middle element has a cell that none of the others has.
LEMMA MiddleKeeps ==
    ASSUME p \in Problems, reals = [c \in Cells |-> reals[c]],
           p' = p, b = 0, k = Limit, C2HMiddle, p.fmt = "packed" => IsEven
    PROVE  /\ reals' = [c \in Cells |-> reals'[c]]
           /\ Centred => reals'[0] = reals[0]
           /\ Centred /\ IsEven => reals'[ReCell(0, Half)] = In(0, Half).re
           /\ p.fmt = "packed" => reals'[1] = In(0, Half).re
           /\ \A a, j : Present(a, j) /\ Holds(a, j) => Holds(a, j)'
<1> USE DEF C2HMiddle
<1>0. /\ p.n \in Nat \ {0} /\ Half \in Nat /\ 0 .. p.n + 1 \subseteq Cells
      /\ (IsEven => 2 * Half = p.n) /\ (~IsEven => 2 * Half + 1 = p.n)
  BY Sizes, Enough DEF Cells
<1>1. CASE Centred /\ IsEven
  <2>1. k = Half /\ 2 * k = p.n BY <1>0, <1>1, Sizes
  <2>2. reals' = [reals EXCEPT ![ReCell(0, Half)] = In(0, Half).re] BY <1>1, <2>1
  <2>3. ReCell(0, Half) \in 1 .. p.n + 1 /\ p.fmt # "packed"
        /\ p.fmt \in {"fftpack", "halfcomplex"}
    BY <1>0, <1>1, CellNumbers DEF Centred
  <2>4. ASSUME NEW a, NEW j, Present(a, j)
        PROVE  ReCell(a, j) # ReCell(0, Half) /\ ImCell(a, j) # ReCell(0, Half)
    <3>1. a \in Nat /\ j \in Nat /\ 2 * j < p.n BY <1>1, <2>4, Stored
    <3>2. CASE p.fmt = "fftpack"
      <4>1. ReCell(a, j) = 2 * j - 1 /\ ImCell(a, j) = 2 * j /\ ReCell(0, Half) = 2 * Half - 1
        BY <1>0, <3>1, <3>2, CellNumbers
      <4>2. QED BY <1>0, <2>1, <3>1, <4>1
    <3>3. CASE p.fmt = "halfcomplex"
      <4>1. ReCell(a, j) = j /\ ImCell(a, j) = p.n - j /\ ReCell(0, Half) = Half
        BY <1>0, <3>1, <3>3, CellNumbers
      <4>2. QED BY <1>0, <2>1, <3>1, <4>1
    <3>4. QED BY <2>3, <3>2, <3>3
  <2>5. \A c \in Cells : c # ReCell(0, Half) => reals'[c] = reals[c] BY <2>2
  <2>6. ReCell(0, Half) # 0 /\ ReCell(0, Half) \in Cells /\ 0 \in Cells BY <1>0, <2>3
  <2>7. \A a, j : Present(a, j) /\ Holds(a, j) => Holds(a, j)'
    BY <2>4, <2>5, CellsExist, SameProblem DEF Holds
  <2>8. QED BY <1>1, <2>2, <2>3, <2>5, <2>6, <2>7
<1>2. CASE p.fmt = "packed"
  <2>1. k = Half /\ 0 < Half /\ ~Centred BY <1>0, <1>2, Sizes DEF Centred
  <2>2. reals' = [reals EXCEPT ![1] = In(0, Half).re] BY <1>0, <1>2, <2>1
  <2>3. 1 \in Cells BY <1>0
  <2>4. ASSUME NEW a, NEW j, Present(a, j)
        PROVE  ReCell(a, j) # 1 /\ (j # 0 => ImCell(a, j) # 1)
    <3>1. a \in Nat /\ j \in Nat BY <2>4, Stored
    <3>2. ReCell(a, j) = 2 * j /\ ImCell(a, j) = 2 * j + 1 BY <1>2, <3>1, CellNumbers
    <3>3. QED BY <3>1, <3>2
  <2>5. \A c \in Cells : c # 1 => reals'[c] = reals[c] BY <2>2
  <2>6. \A a, j : Present(a, j) /\ Holds(a, j) => Holds(a, j)'
    BY <1>2, <2>4, <2>5, CellsExist, SameProblem DEF Holds
  <2>7. QED BY <2>1, <2>2, <2>3, <2>6
<1>3. CASE p.fmt # "packed" /\ ~(Centred /\ IsEven)
  <2>1. reals' = reals
    <3>1. CASE ~Centred BY <1>3, <3>1
    <3>2. CASE Centred /\ ~IsEven
      <4>1. 2 * Half + 1 = p.n /\ k = Half + 1 BY <1>0, <3>2, Sizes
      <4>2. 2 * k # p.n BY <1>0, <4>1
      <4>3. QED BY <1>3, <4>2
    <3>3. QED BY <1>3, <3>1, <3>2
  <2>2. \A a, j : Holds(a, j) => Holds(a, j)' BY <2>1, SameProblem DEF Holds
  <2>3. QED BY <1>3, <2>1, <2>2
<1>4. QED BY <1>1, <1>2, <1>3

\* A row has been written; it may be the last one.
LEMMA C2HTailKeeps == ASSUME IInv, C2HTail PROVE IInv'
<1> USE DEF C2HTail
<1>0. /\ p \in Problems /\ b \in 0 .. Rows(p) - 1 /\ k = Limit /\ Rows(p) \in Nat \ {0}
      /\ reals = [c \in Cells |-> reals[c]] /\ p' = p /\ out' = out /\ k' = 0
      /\ First \in Nat /\ Limit \in Nat
      /\ p.fmt = "packed" => IsEven
      /\ Centred => reals[0] = In(0, 0).re
  BY Sizes DEF IInv, TypeInv, C2HInv, First
<1>1. \A a \in 0 .. b, j \in First .. Limit - 1 : Holds(a, j)
  BY <1>0 DEF IInv, C2HInv
<1>2. CASE p.fmt = "unpacked" /\ b + 1 < Rows(p)
  <2>1. reals' = reals /\ b' = b + 1 /\ hermPc' = "c2h" /\ First = 0
    BY <1>2 DEF C2HMiddle, Centred, First
  <2>2. TypeInv' BY <1>0, <1>2, <2>1, SameProblem DEF IInv, TypeInv
  <2>3. \A a, j : Holds(a, j) => Holds(a, j)' BY <1>0, <2>1, SameProblem DEF Holds
  <2>4. \A a \in 0 .. b + 1, j \in First .. Limit - 1 : a < b + 1 \/ j < 0 => Holds(a, j)'
    BY <1>0, <1>1, <2>1, <2>3
  <2>5. C2HInv' BY <1>0, <2>1, <2>4, SameProblem DEF C2HInv
  <2>6. CopiedInv' BY <2>1 DEF CopiedInv
  <2>7. H2CInv' BY <2>1 DEF H2CInv
  <2>8. RoundTrip' BY <2>1 DEF RoundTrip
  <2>9. QED BY <2>2, <2>5, <2>6, <2>7, <2>8 DEF IInv
<1>3. CASE ~(p.fmt = "unpacked" /\ b + 1 < Rows(p))
  <2>1. b' = 0 /\ hermPc' = "h2c_head" /\ b + 1 = Rows(p) BY <1>0, <1>3, Sizes
  <2>2. /\ reals' = [c \in Cells |-> reals'[c]]
        /\ Centred => reals'[0] = reals[0]
        /\ Centred /\ IsEven => reals'[ReCell(0, Half)] = In(0, Half).re
        /\ p.fmt = "packed" => reals'[1] = In(0, Half).re
        /\ \A a, j : Present(a, j) /\ Holds(a, j) => Holds(a, j)'
    <3>1. CASE p.fmt = "unpacked"
      <4>1. reals' = reals /\ ~Centred BY <3>1 DEF C2HMiddle, Centred
      <4>2. \A a, j : Holds(a, j) => Holds(a, j)' BY <1>0, <4>1, SameProblem DEF Holds
      <4>3. QED BY <1>0, <3>1, <4>1, <4>2
    <3>2. CASE p.fmt # "unpacked"
      <4>1. b = 0 BY <1>0, <3>2, Sizes
      <4>2. QED BY <1>0, <4>1, MiddleKeeps
    <3>3. QED BY <3>1, <3>2
  <2>3. TypeInv' BY <1>0, <2>1, <2>2, SameProblem DEF IInv, TypeInv
  <2>4. C2HInv' BY <2>1 DEF C2HInv
  <2>5. \A a \in 0 .. Rows(p) - 1, j \in First .. Limit - 1 : Holds(a, j)'
    <3> TAKE a \in 0 .. Rows(p) - 1, j \in First .. Limit - 1
    <3>1. a \in 0 .. b /\ Present(a, j) BY <1>0, <2>1 DEF Present
    <3>2. QED BY <1>1, <2>2, <3>1
  <2>6. CopiedInv' BY <1>0, <2>2, <2>5, SameProblem DEF CopiedInv
  <2>7. H2CInv' BY <2>1 DEF H2CInv
  <2>8. RoundTrip' BY <2>1 DEF RoundTrip
  <2>9. QED BY <2>3, <2>4, <2>6, <2>7, <2>8 DEF IInv
<1>4. QED BY <1>2, <1>3

-----------------------------------------------------------------------------
\* Reading does not change what has been written.
LEMMA StillCopied ==
    ASSUME IInv, p' = p, reals' = reals, hermPc \in {"h2c_head", "h2c"}
    PROVE  CopiedInv'
<1>1. \A a, j : Holds(a, j) => Holds(a, j)' BY SameProblem DEF Holds
<1>2. QED BY <1>1, SameProblem DEF IInv, CopiedInv

\* A component without imaginary part.
LEMMA RealPart ==
    ASSUME NEW c \in [re : Int, im : Int], c.im = 0
    PROVE  [re |-> c.re, im |-> 0] = c
<1>1. PICK x \in Int, y \in Int : c = [re |-> x, im |-> y] OBVIOUS
<1>2. QED BY <1>1

\* The first element comes back and, from the packed layout, the middle one.
LEMMA H2CHeadKeeps == ASSUME IInv, H2CHead PROVE IInv'
<1> USE DEF H2CHead
<1>0. /\ p \in Problems /\ b = 0 /\ p' = p /\ b' = b /\ reals' = reals /\ hermPc' = "h2c"
      /\ 0 \in 0 .. Rows(p) - 1 /\ p.n \in Nat \ {0}
      /\ out = [e \in Elements(p) |-> out[e]]
  BY Sizes DEF IInv, TypeInv, H2CInv
<1>1. TypeInv' BY <1>0, SameProblem DEF IInv, TypeInv
<1>2. C2HInv' BY <1>0 DEF C2HInv
<1>3. CopiedInv' BY <1>0, StillCopied
<1>4. H2CInv'
  <2>1. CASE p.fmt = "unpacked"
    <3>1. k' = 0 BY <2>1
    <3>2. \A e \in Elements(p) : ~(e < p.n * 0 + 0) BY <1>0, Sizes DEF Elements
    <3>3. QED BY <1>0, <2>1, <3>1, <3>2 DEF H2CInv
  <2>2. CASE p.fmt # "unpacked"
    <3>0. /\ k' = 1 /\ Elements(p) = 0 .. p.n - 1 /\ p.z[0].im = 0
          /\ p.z \in [Elements(p) -> [re : Int, im : Int]] /\ In(0, 0) = p.z[0]
      BY <1>0, <2>2, Ends, Values
    <3>1. p.z[0] = [re |-> In(0, 0).re, im |-> 0] BY <1>0, <3>0, RealPart
    <3>2. CASE Centred
      <4>1. out' = [out EXCEPT ![0] = [re |-> reals[0], im |-> 0]] /\ p.fmt # "packed"
        BY <3>2 DEF Centred
      <4>2. reals[0] = In(0, 0).re BY <3>2 DEF IInv, CopiedInv
      <4>3. out'[0] = p.z[0] BY <1>0, <3>0, <3>1, <4>1, <4>2
      <4>4. 1 <= Limit BY <1>0, <3>2, Sizes DEF IsEven
      <4>5. QED BY <1>0, <2>2, <3>0, <4>1, <4>3, <4>4, SameProblem DEF H2CInv
    <3>3. CASE p.fmt = "packed"
      <4>0. /\ IsEven /\ Half \in 1 .. p.n - 1 /\ Limit = Half /\ First = 0
            /\ reals[1] = In(0, Half).re
        BY <1>0, <3>3, Sizes DEF IInv, CopiedInv, Centred, First
      <4>1. out' = [out EXCEPT ![0] = [re |-> reals[0], im |-> 0],
                               ![Half] = [re |-> reals[1], im |-> 0]]
        BY <3>3 DEF Centred
      <4>2. reals[0] = In(0, 0).re
        <5>1. Holds(0, 0) BY <1>0, <4>0 DEF IInv, CopiedInv
        <5>2. ReCell(0, 0) = 0 BY <3>3 DEF ReCell
        <5>3. QED BY <5>1, <5>2 DEF Holds
      <4>3. p.z[Half].im = 0 /\ In(0, Half) = p.z[Half]
        BY <1>0, <2>2, <4>0, Ends, Values
      <4>4. p.z[Half] = [re |-> In(0, Half).re, im |-> 0]
        <5>1. Half \in Elements(p) BY <3>0, <4>0
        <5>2. p.z[Half] \in [re : Int, im : Int] BY <3>0, <5>1
        <5>3. QED BY <4>3, <5>2, RealPart
      <4>5. out'[0] = p.z[0] /\ out'[Half] = p.z[Half]
        BY <1>0, <3>0, <3>1, <4>0, <4>1, <4>2, <4>4
      <4>6. 1 <= Limit BY <1>0, <4>0
      <4>7. \A j \in 1 .. k' - 1 : FALSE BY <3>0
      <4>8. p'.fmt # "unpacked" /\ Limit' = Limit /\ Half' = Half
        BY <1>0, <2>2, SameProblem
      <4>9. out'[0] = p'.z[0] /\ out'[Half'] = p'.z[Half'] BY <1>0, <4>5, <4>8
      <4>10. 1 <= k' /\ k' <= Limit' BY <3>0, <4>6, <4>8
      <4>11. QED BY <1>0, <4>7, <4>8, <4>9, <4>10 DEF H2CInv
    <3>4. CASE p.fmt = "unpacked_ri"
      <4>1. out' = [out EXCEPT ![0] = Read(0, 0)] BY <1>0, <3>4 DEF Centred
      <4>2. Present(0, 0) /\ 1 <= Limit
        BY <1>0, <3>4, Sizes DEF Present, First, Centred
      <4>3. Read(0, 0) = In(0, 0) BY <3>4, <4>2, ReadBack
      <4>4. out'[0] = p.z[0] BY <1>0, <3>0, <4>1, <4>3
      <4>5. QED BY <1>0, <2>2, <3>0, <3>4, <4>2, <4>4, SameProblem DEF H2CInv
    <3>5. QED BY <1>0, <2>2, <3>2, <3>3, <3>4, Sizes DEF Formats, Centred
  <2>3. QED BY <2>1, <2>2
<1>5. RoundTrip' BY <1>0 DEF RoundTrip
<1>6. QED BY <1>1, <1>2, <1>3, <1>4, <1>5 DEF IInv

\* An element comes back, and with it the one at the other end.
LEMMA H2CLoopKeeps == ASSUME IInv, H2CLoop PROVE IInv'
<1> USE DEF H2CLoop
<1>0. /\ p \in Problems /\ p' = p /\ b' = b /\ reals' = reals /\ hermPc' = "h2c" /\ k' = k + 1
      /\ Rows(p) = 1 /\ b = 0 /\ p.n \in Nat \ {0} /\ Elements(p) = 0 .. p.n - 1
      /\ k \in Nat /\ 1 <= k /\ k < Limit /\ Limit \in Nat /\ First \in Nat /\ First <= k
      /\ out = [e \in Elements(p) |-> out[e]]
  BY Sizes, Ends DEF IInv, TypeInv, H2CInv, First
<1>1. Present(0, k) BY <1>0 DEF Present
<1>2. Read(b, k) = In(0, k) BY <1>0, <1>1, ReadBack
<1>3. In(0, k) = p.z[k] BY <1>0, Values
<1>4. k \in 1 .. p.n - 1 /\ p.n - k \in 1 .. p.n - 1
  <2>1. Centred => 2 * k < p.n BY <1>0, <1>1, Stored
  <2>2. p.fmt = "packed" => 2 * k + 1 < p.n BY <1>0, <1>1, Stored
  <2>3. p.fmt = "unpacked_ri" => k <= Half BY <1>0, <1>1, Stored
  <2>4. Half \in Nat /\ 2 * Half <= p.n BY <1>0, Sizes
  <2>5. Centred \/ p.fmt = "packed" \/ p.fmt = "unpacked_ri"
    BY <1>0, Sizes DEF Centred, Formats
  <2>6. QED BY <1>0, <2>1, <2>2, <2>3, <2>4, <2>5
<1>5. p.z[p.n - k] = Conj(p.z[k]) BY <1>0, <1>4, Ends
<1>6. out' = [out EXCEPT ![k] = p.z[k], ![p.n - k] = p.z[p.n - k]]
  BY <1>2, <1>3, <1>5
<1>7. PICK m \in 1 .. p.n - 1 : m = p.n - k BY <1>4
<1>8. out' = [out EXCEPT ![k] = p.z[k], ![m] = p.z[m]] BY <1>6, <1>7
<1>9. /\ out' = [e \in Elements(p) |-> out'[e]]
      /\ \A e \in Elements(p) : out'[e] = IF e = k \/ e = m THEN p.z[e] ELSE out[e]
  BY <1>0, <1>4, <1>8
<1>10. TypeInv' BY <1>0, <1>9, SameProblem DEF IInv, TypeInv
<1>11. C2HInv' BY <1>0 DEF C2HInv
<1>12. CopiedInv' BY <1>0, StillCopied
<1>13. H2CInv'
  <2>1. out'[0] = p.z[0]
    <3>1. 0 \in Elements(p) BY <1>0
    <3>2. out[0] = p.z[0] BY DEF IInv, H2CInv
    <3>3. QED BY <1>9, <3>1, <3>2
  <2>2. ASSUME p.fmt = "packed" PROVE out'[Half] = p.z[Half]
    <3>1. Half \in 0 .. p.n - 1 BY <1>0, Sizes
    <3>2. out[Half] = p.z[Half] BY <1>0, <2>2 DEF IInv, H2CInv
    <3>3. QED BY <1>0, <1>9, <3>1, <3>2
  <2>3. \A j \in 1 .. k : out'[j] = p.z[j] /\ out'[p.n - j] = p.z[p.n - j]
    <3> TAKE j \in 1 .. k
    <3>1. j \in Elements(p) /\ p.n - j \in Elements(p) BY <1>0, <1>4
    <3>2. CASE j = k BY <1>7, <1>9, <3>1, <3>2
    <3>3. CASE j # k
      <4>1. j \in 1 .. k - 1 BY <1>0, <3>3
      <4>2. out[j] = p.z[j] /\ out[p.n - j] = p.z[p.n - j]
        BY <1>0, <4>1 DEF IInv, H2CInv
      <4>3. QED BY <1>9, <3>1, <4>2
    <3>4. QED BY <3>2, <3>3
  <2>4. (k + 1) - 1 = k /\ 1 <= k + 1 /\ k + 1 <= Limit BY <1>0
  <2>5. QED BY <1>0, <2>1, <2>2, <2>3, <2>4, SameProblem DEF H2CInv
<1>14. RoundTrip' BY <1>0 DEF RoundTrip
<1>15. QED BY <1>10, <1>11, <1>12, <1>13, <1>14 DEF IInv

\* An element of the unpacked layout comes back, if it has not been stored from
\* its mirror image.
LEMMA CpKeeps == ASSUME IInv, Cp PROVE IInv'
<1> USE DEF Cp
<1>0. /\ p \in Problems /\ p' = p /\ b' = b /\ reals' = reals /\ hermPc' = "h2c" /\ k' = k + 1
      /\ p.fmt = "unpacked" /\ b \in 0 .. Rows(p) - 1 /\ p.n \in Nat \ {0}
      /\ k \in 0 .. p.n - 1 /\ Limit = Half + 1 /\ First = 0
      /\ Half \in Nat /\ (2 * Half = p.n \/ 2 * Half + 1 = p.n)
      /\ out = [e \in Elements(p) |-> out[e]]
  BY Sizes DEF IInv, TypeInv, H2CInv, First, Centred
<1>1. p.n * b \in Nat /\ p.n * b + k \in Elements(p) BY <1>0, RowStarts
<1>2. out' = [out EXCEPT ![p.n * b + k] = p.z[p.n * b + k]]
  <2>1. CASE 2 * k <= p.n
    <3>1. Present(b, k) BY <1>0, <2>1 DEF Present
    <3>2. Read(b, k) = In(b, k) BY <1>0, <3>1, ReadBack
    <3>3. QED BY <2>1, <3>2 DEF In
  <2>2. CASE ~(2 * k <= p.n)
    <3>1. MirrorRow(p, b) \in 0 .. Rows(p) - 1 BY <1>0, Mirrors
    <3>2. p.n - k \in First .. Limit - 1 BY <1>0, <2>2
    <3>3. Present(MirrorRow(p, b), p.n - k) BY <3>1, <3>2 DEF Present
    <3>4. Read(MirrorRow(p, b), p.n - k) = In(MirrorRow(p, b), p.n - k)
      BY <1>0, <3>3, ReadBack
    <3>5. In(b, k) = Conj(In(MirrorRow(p, b), p.n - k)) BY <1>0, <2>2, Symmetry
    <3>6. QED BY <2>2, <3>4, <3>5 DEF In
  <2>3. QED BY <2>1, <2>2
<1>3. PICK m \in Elements(p) : m = p.n * b + k BY <1>1
<1>4. /\ out' = [e \in Elements(p) |-> out'[e]]
      /\ \A e \in Elements(p) : out'[e] = IF e = m THEN p.z[e] ELSE out[e]
  BY <1>0, <1>2, <1>3
<1>5. TypeInv' BY <1>0, <1>4, SameProblem DEF IInv, TypeInv
<1>6. C2HInv' BY <1>0 DEF C2HInv
<1>7. CopiedInv' BY <1>0, StillCopied
<1>8. H2CInv'
  <2>1. \A e \in Elements(p) : e < p.n * b + (k + 1) => out'[e] = p.z[e]
    <3> TAKE e \in Elements(p)
    <3> HAVE e < p.n * b + (k + 1)
    <3>1. e \in Nat BY <1>0, Sizes DEF Elements
    <3>2. PICK q : q = p.n * b OBVIOUS
    <3>3. q \in Nat /\ m = q + k /\ e < q + (k + 1) BY <1>1, <1>3, <3>2
    <3>4. e = m \/ e < q + k BY <1>0, <3>1, <3>3
    <3>5. e < p.n * b + k => out[e] = p.z[e] BY <1>0 DEF IInv, H2CInv
    <3>6. QED BY <1>4, <3>2, <3>4, <3>5
  <2>2. k + 1 <= p.n BY <1>0
  <2>3. QED BY <1>0, <2>1, <2>2 DEF H2CInv
<1>9. RoundTrip' BY <1>0 DEF RoundTrip
<1>10. QED BY <1>5, <1>6, <1>7, <1>8, <1>9 DEF IInv

\* A row of the unpacked layout has come back.
LEMMA CpRowKeeps == ASSUME IInv, CpRow PROVE IInv'
<1> USE DEF CpRow
<1>0. /\ p \in Problems /\ p' = p /\ b' = b + 1 /\ reals' = reals /\ hermPc' = "h2c" /\ k' = 0
      /\ p.fmt = "unpacked" /\ b \in 0 .. Rows(p) - 1 /\ Rows(p) \in Nat /\ k = p.n
      /\ p.n \in Nat /\ out' = out
  BY Sizes DEF IInv, TypeInv
<1>1. TypeInv' BY <1>0, SameProblem DEF IInv, TypeInv, CpRow
<1>2. C2HInv' BY <1>0 DEF C2HInv
<1>3. CopiedInv' BY <1>0, StillCopied
<1>4. H2CInv'
  <2>1. p.n * (b + 1) + 0 = p.n * b + p.n BY <1>0, RowStarts
  <2>2. \A e \in Elements(p) : e < p.n * b + p.n => out[e] = p.z[e]
    BY <1>0 DEF IInv, H2CInv
  <2>3. QED BY <1>0, <2>1, <2>2 DEF H2CInv
<1>5. RoundTrip' BY <1>0 DEF RoundTrip
<1>6. QED BY <1>1, <1>2, <1>3, <1>4, <1>5 DEF IInv

\* Everything has come back.
LEMMA H2CTailKeeps == ASSUME IInv, H2CTail PROVE IInv'
<1> USE DEF H2CTail
<1>0. /\ p \in Problems /\ p' = p /\ b' = b /\ k' = k /\ reals' = reals /\ hermPc' = "done"
      /\ b \in 0 .. Rows(p) - 1 /\ Rows(p) \in Nat /\ p.n \in Nat \ {0} /\ k \in Nat
      /\ out = [e \in Elements(p) |-> out[e]]
      /\ p.z \in [Elements(p) -> [re : Int, im : Int]]
  BY Sizes, Values DEF IInv, TypeInv
<1>1. out' = [e \in Elements(p) |-> out'[e]] /\ \A e \in Elements(p) : out'[e] = p.z[e]
  <2>1. CASE p.fmt = "unpacked"
    <3>1. out' = out /\ k = p.n /\ b + 1 = Rows(p) BY <2>1 DEF Centred
    <3>2. \A e \in Elements(p) : e < p.n * b + p.n => out[e] = p.z[e]
      BY <2>1, <3>1 DEF IInv, H2CInv
    <3>3. p.n * (b + 1) = p.n * b + p.n BY <1>0, RowStarts
    <3>4. p.n * (b + 1) = Rows(p) * p.n BY <1>0, <3>1
    <3>5. \A e \in Elements(p) : e < Rows(p) * p.n BY <1>0, RowStarts DEF Elements
    <3>6. QED BY <1>0, <3>1, <3>2, <3>3, <3>4, <3>5
  <2>2. CASE p.fmt # "unpacked"
    <3>0. /\ Elements(p) = 0 .. p.n - 1 /\ b = 0
          /\ Half \in Nat /\ (IsEven => 2 * Half = p.n) /\ (~IsEven => 2 * Half + 1 = p.n)
          /\ k = Limit /\ out[0] = p.z[0]
      BY <1>0, <2>2, Sizes, Ends DEF IInv, H2CInv
    <3>1. \A j \in 1 .. k - 1 : out[j] = p.z[j] /\ out[p.n - j] = p.z[p.n - j]
      BY <2>2 DEF IInv, H2CInv
    <3>2. ASSUME NEW e \in Elements(p), e = 0 \/ e < k \/ p.n - e < k
          PROVE  out[e] = p.z[e]
      <4>0. e \in 0 .. p.n - 1 BY <3>0
      <4>1. CASE e = 0 BY <3>0, <4>1
      <4>2. CASE e # 0 /\ e < k
        <5>1. e \in 1 .. k - 1 BY <1>0, <4>0, <4>2
        <5>2. QED BY <3>1, <5>1
      <4>3. CASE e # 0 /\ p.n - e < k
        <5>1. p.n - e \in 1 .. k - 1 /\ p.n - (p.n - e) = e BY <1>0, <4>0, <4>3
        <5>2. QED BY <3>1, <5>1
      <4>4. QED BY <3>2, <4>1, <4>2, <4>3
    <3>3. CASE Centred
      <4>1. k = IF IsEven THEN Half ELSE Half + 1 BY <1>0, <3>0, <3>3, Sizes
      <4>2. CASE IsEven
        <5>1. 2 * k = p.n /\ k = Half /\ Half \in 1 .. p.n - 1 BY <1>0, <3>0, <4>1, <4>2
        <5>2. p.z[Half].im = 0 /\ In(0, Half) = p.z[Half]
          BY <1>0, <2>2, <3>0, <4>2, Ends, Values
        <5>3. reals[ReCell(0, Half)] = In(0, Half).re BY <3>3, <4>2 DEF IInv, CopiedInv
        <5>4. p.z[Half] = [re |-> In(0, Half).re, im |-> 0]
          BY <1>0, <3>0, <5>1, <5>2, RealPart
        <5>5. out' = [out EXCEPT ![Half] = p.z[Half]]
          BY <3>0, <3>3, <5>1, <5>3, <5>4
        <5>6. \A e \in 0 .. p.n - 1 : e = Half \/ e < k \/ p.n - e < k
          BY <1>0, <3>0, <5>1
        <5>7. \A e \in Elements(p) : e = Half \/ out[e] = p.z[e] BY <3>0, <3>2, <5>6
        <5>8. QED BY <1>0, <3>0, <5>1, <5>5, <5>7
      <4>3. CASE ~IsEven
        <5>1. 2 * k # p.n BY <1>0, <3>0, <4>1, <4>3
        <5>2. out' = out BY <5>1
        <5>3. 2 * Half + 1 = p.n /\ k = Half + 1 BY <3>0, <4>1, <4>3
        <5>4. \A e \in 0 .. p.n - 1 : e < k \/ p.n - e < k BY <1>0, <3>0, <5>3
        <5>5. \A e \in Elements(p) : out[e] = p.z[e] BY <3>0, <3>2, <5>4
        <5>6. QED BY <1>0, <5>2, <5>5
      <4>4. QED BY <4>2, <4>3
    <3>4. CASE p.fmt = "packed"
      <4>1. out' = out /\ k = Half /\ 2 * Half = p.n /\ out[Half] = p.z[Half]
        BY <1>0, <3>0, <3>4, Sizes DEF IInv, H2CInv, CopiedInv, Centred
      <4>2. \A e \in 0 .. p.n - 1 : e = Half \/ e < k \/ p.n - e < k BY <1>0, <3>0, <4>1
      <4>3. \A e \in Elements(p) : e = Half \/ out[e] = p.z[e] BY <3>0, <3>2, <4>2
      <4>4. QED BY <1>0, <4>1, <4>3
    <3>5. CASE p.fmt = "unpacked_ri"
      <4>1. out' = out /\ k = Half + 1 BY <1>0, <3>0, <3>5, Sizes DEF Centred
      <4>2. 2 * Half = p.n \/ 2 * Half + 1 = p.n BY <3>0
      <4>3. \A e \in 0 .. p.n - 1 : e < k \/ p.n - e < k BY <1>0, <3>0, <4>1, <4>2
      <4>4. \A e \in Elements(p) : out[e] = p.z[e] BY <3>0, <3>2, <4>3
      <4>5. QED BY <1>0, <4>1, <4>4
    <3>6. QED BY <1>0, <2>2, <3>3, <3>4, <3>5, Sizes DEF Formats, Centred
  <2>3. QED BY <2>1, <2>2
<1>2. out' = p.z BY <1>0, <1>1
<1>3. TypeInv' BY <1>0, <1>1, SameProblem DEF IInv, TypeInv
<1>4. C2HInv' /\ CopiedInv' /\ H2CInv' BY <1>0 DEF C2HInv, CopiedInv, H2CInv
<1>5. RoundTrip' BY <1>0, <1>2 DEF RoundTrip
<1>6. QED BY <1>3, <1>4, <1>5 DEF IInv

-----------------------------------------------------------------------------
\* The invariant holds for every set of hermitian arrays.
THEOREM Invariant == HermSpec => []IInv
<1>1. HermInit => IInv BY Initially
<1>2. IInv /\ [HermNext]_hermVars => IInv'
  <2> SUFFICES ASSUME IInv, [HermNext]_hermVars PROVE IInv'
    OBVIOUS
  <2>1. CASE UNCHANGED hermVars
    <3>1. p' = p /\ hermPc' = hermPc /\ b' = b /\ k' = k /\ reals' = reals /\ out' = out
      BY <2>1 DEF hermVars
    <3>2. \A a, j : Holds(a, j)' <=> Holds(a, j) BY <3>1, SameProblem DEF Holds
    <3>3. TypeInv' BY <3>1, SameProblem DEF IInv, TypeInv
    <3>4. C2HInv' BY <3>1, <3>2, SameProblem DEF IInv, C2HInv
    <3>5. CopiedInv' BY <3>1, <3>2, SameProblem DEF IInv, CopiedInv
    <3>6. H2CInv' BY <3>1, SameProblem DEF IInv, H2CInv
    <3>7. RoundTrip' BY <3>1 DEF IInv, RoundTrip
    <3>8. QED BY <3>3, <3>4, <3>5, <3>6, <3>7 DEF IInv
  <2>2. CASE HermNext
    BY <2>2, C2HHeadKeeps, C2HLoopKeeps, C2HTailKeeps, H2CHeadKeeps, H2CLoopKeeps,
       CpKeeps,
       CpRowKeeps, H2CTailKeeps DEF HermNext
  <2>3. QED BY <2>1, <2>2
<1>3. QED BY <1>1, <1>2, PTL DEF HermSpec

\* What is read back is what was written, whatever the layout, the size, the
\* number of rows and the sign convention.
THEOREM CopiesAgree == HermSpec => []RoundTrip
<1>1. IInv => RoundTrip BY DEF IInv
<1>2. QED BY <1>1, Invariant, PTL

\* Every element is where the comments of the copy functions say.
THEOREM LayoutHolds == HermSpec => []LayoutAsDocumented
<1>1. ASSUME IInv, hermPc = "h2c_head", p.fmt # "unpacked"
      PROVE  /\ p.n \in Nat /\ Half \in Nat
             /\ (IsEven => 2 * Half = p.n) /\ (~IsEven => 2 * Half + 1 = p.n)
             /\ \A j \in First .. Limit - 1 : Present(0, j) /\ Holds(0, j)
             /\ \A j \in Nat : In(0, j).re = Re(j) /\ Turn(In(0, j).im) = Im(j)
  <2>1. p \in Problems /\ Rows(p) = 1 BY <1>1, Sizes DEF IInv, TypeInv
  <2>2. \A j \in First .. Limit - 1 : Present(0, j) /\ Holds(0, j)
    BY <1>1, <2>1 DEF IInv, CopiedInv, Present
  <2>3. \A j \in Nat : In(0, j) = p.z[j] BY <2>1, Values
  <2>4. QED BY <2>1, <2>2, <2>3, Sizes DEF Re, Im
<1>2. ASSUME IInv, hermPc = "h2c_head", p.fmt = "fftpack"
      PROVE  /\ reals[0] = Re(0)
             /\ \A j \in 1 .. p.n : 2 * j < p.n => /\ reals[2 * j - 1] = Re(j)
                                                   /\ reals[2 * j] = Im(j)
             /\ IsEven => reals[p.n - 1] = Re(Half)
  <2>1. p \in Problems /\ Centred /\ First = 1 BY <1>2 DEF IInv, TypeInv, Centred, First
  <2>2. reals[0] = In(0, 0).re /\ (IsEven => reals[ReCell(0, Half)] = In(0, Half).re)
    BY <1>2, <2>1 DEF IInv, CopiedInv
  <2>3. ASSUME NEW j \in 1 .. p.n, 2 * j < p.n
        PROVE  reals[2 * j - 1] = Re(j) /\ reals[2 * j] = Im(j)
    <3>1. j \in First .. Limit - 1 BY <1>1, <1>2, <2>1, <2>3, Sizes
    <3>2. Holds(0, j) BY <1>1, <1>2, <3>1
    <3>3. ReCell(0, j) = 2 * j - 1 /\ ImCell(0, j) = 2 * j
      BY <1>1, <1>2, <2>1, CellNumbers
    <3>4. QED BY <1>1, <1>2, <3>2, <3>3 DEF Holds
  <2>4. ASSUME IsEven PROVE reals[p.n - 1] = Re(Half)
    <3>1. ReCell(0, Half) = 2 * Half - 1 BY <1>1, <1>2, <2>1, CellNumbers
    <3>2. QED BY <1>1, <1>2, <2>2, <2>4, <3>1
  <2>5. QED BY <1>1, <1>2, <2>2, <2>3, <2>4
<1>3. ASSUME IInv, hermPc = "h2c_head", p.fmt = "halfcomplex"
      PROVE  /\ \A j \in 0 .. Half : reals[j] = Re(j)
             /\ \A j \in 1 .. p.n : 2 * j < p.n => reals[p.n - j] = Im(j)
  <2>1. p \in Problems /\ Centred /\ First = 1 BY <1>3 DEF IInv, TypeInv, Centred, First
  <2>2. reals[0] = In(0, 0).re /\ (IsEven => reals[ReCell(0, Half)] = In(0, Half).re)
    BY <1>3, <2>1 DEF IInv, CopiedInv
  <2>3. \A j \in Nat : ReCell(0, j) = j /\ ImCell(0, j) = p.n - j
    BY <1>3, <2>1, CellNumbers
  <2>4. ASSUME NEW j \in 1 .. p.n, 2 * j < p.n
        PROVE  reals[j] = Re(j) /\ reals[p.n - j] = Im(j)
    <3>1. j \in First .. Limit - 1 BY <1>1, <1>3, <2>1, <2>4, Sizes
    <3>2. Holds(0, j) BY <1>1, <1>3, <3>1
    <3>3. QED BY <1>1, <1>3, <2>3, <3>2 DEF Holds
  <2>5. ASSUME NEW j \in 0 .. Half PROVE reals[j] = Re(j)
    <3>1. CASE j = 0 BY <1>1, <1>3, <2>2, <3>1
    <3>2. CASE IsEven /\ j = Half BY <1>1, <1>3, <2>2, <2>3, <3>2
    <3>3. CASE j # 0 /\ ~(IsEven /\ j = Half)
      <4>1. j \in 1 .. p.n /\ 2 * j < p.n BY <1>1, <1>3, <3>3
      <4>2. QED BY <2>4, <4>1
    <3>4. QED BY <3>1, <3>2, <3>3
  <2>6. QED BY <2>4, <2>5
<1>4. ASSUME IInv, hermPc = "h2c_head", p.fmt = "packed"
      PROVE  /\ \A j \in 0 .. Half - 1 : reals[2 * j] = Re(j)
             /\ \A j \in 1 .. Half - 1 : reals[2 * j + 1] = Im(j)
             /\ reals[1] = Re(Half)
  <2>1. p \in Problems /\ First = 0 /\ Limit = Half
    BY <1>4, Sizes DEF IInv, TypeInv, Centred, First
  <2>2. \A j \in Nat : ReCell(0, j) = 2 * j /\ ImCell(0, j) = 2 * j + 1
    BY <1>4, <2>1, CellNumbers
  <2>3. \A j \in 0 .. Half - 1 : Holds(0, j) BY <1>1, <1>4, <2>1
  <2>4. reals[1] = In(0, Half).re BY <1>4 DEF IInv, CopiedInv
  <2>5. ASSUME NEW j \in 0 .. Half - 1
        PROVE  reals[2 * j] = Re(j) /\ (j # 0 => reals[2 * j + 1] = Im(j))
    <3>1. j \in Nat BY <1>1, <1>4
    <3>2. QED BY <1>1, <1>4, <2>2, <2>3, <3>1 DEF Holds
  <2>6. QED BY <1>1, <1>4, <2>4, <2>5
<1>5. ASSUME IInv, hermPc = "h2c_head", p.fmt = "unpacked_ri"
      PROVE  \A j \in 0 .. Half : reals[j] = Re(j) /\ reals[Half + 1 + j] = Im(j)
  <2>1. p \in Problems /\ First = 0 /\ Limit = Half + 1
    BY <1>5, Sizes DEF IInv, TypeInv, Centred, First
  <2>2. TAKE j \in 0 .. Half
  <2>3. j \in Nat /\ j \in First .. Limit - 1 BY <1>1, <1>5, <2>1
  <2>4. Holds(0, j) BY <1>1, <1>5, <2>3
  <2>5. ReCell(0, j) = j /\ ImCell(0, j) = Half + 1 + j BY <1>5, <2>1, <2>3, CellNumbers
  <2>6. QED BY <1>1, <1>5, <2>3, <2>4, <2>5 DEF Holds
<1>6. IInv => LayoutAsDocumented BY <1>2, <1>3, <1>4, <1>5 DEF LayoutAsDocumented
<1>7. QED BY <1>6, Invariant, PTL
=============================================================================
