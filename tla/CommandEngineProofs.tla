------------------------ MODULE CommandEngineProofs ------------------------
(***************************************************************************)
(* The commands of the V9938, for every size of the page, every budget and *)
(* every command a program may give: the BUSY flag, what a command draws,  *)
(* searches or transfers, and what it leaves in the registers.             *)
(*                                                                         *)
(* Going says at which pixel of its command a machine is, row and column   *)
(* or point.  One step of an engine goes from a pixel to the next          *)
(* (BlockGoes, LineEnds, SearchStep), draws the one pixel the reference    *)
(* draws (PlottedIs, TransferredIs), and ends where the reference ends.    *)
(* Chain says what the pixels before it have made of the picture.          *)
(***************************************************************************)
EXTENDS MCCommandEngine, WellFoundedInduction, TLAPS

-----------------------------------------------------------------------------
(***************************************************************************)
(* Numbers.                                                                *)
(***************************************************************************)
\* Every set of natural numbers with a member has a least one.
LEMMA LeastElement ==
  ASSUME NEW T \in SUBSET Nat, T # {}
  PROVE  \E x \in T : \A y \in T : x <= y
<1> DEFINE R == OpToRel(<, Nat)
<1>1. IsWellFoundedOn(R, Nat)
  BY NatLessThanWellFounded
<1>2. \A x, y \in Nat : x < y => <<x, y>> \in R
  BY DEF OpToRel
<1> HIDE DEF R
<1>3. PICK x \in T : \A y \in T : ~ (<<y, x>> \in R)
  BY <1>1, WFMin, Zenon
<1>4. ASSUME NEW y \in T PROVE x <= y
  <2>1. x \in Nat /\ y \in Nat
    OBVIOUS
  <2>2. ~ (y < x)
    BY <1>2, <1>3, <2>1, Zenon
  <2> QED BY <2>1, <2>2
<1> QED BY <1>4

LEMMA MinIs ==
  ASSUME NEW S \in SUBSET Int, NEW x \in S, \A y \in S : x <= y
  PROVE  Min(S) = x
<1>1. \E y \in S : \A z \in S : y <= z
  OBVIOUS
<1>2. Min(S) \in S /\ \A y \in S : Min(S) <= y
  BY <1>1, Zenon DEF Min
<1>3. \A p, q \in Int : p <= q /\ q <= p => p = q
  OBVIOUS
<1> QED BY <1>2, <1>3

\* So the reference's Min is in its set and under all of it.
LEMMA MinOf ==
  ASSUME NEW S \in SUBSET Nat, S # {}
  PROVE  Min(S) \in S /\ \A y \in S : Min(S) <= y
<1>1. \E x \in S : \A y \in S : x <= y
  BY LeastElement
<1> QED BY <1>1, Zenon DEF Min

\* Column and row of a pixel that is counted row after row.
LEMMA DivMod ==
  \A n \in Nat \ {0}, j \in Nat, i \in Nat :
    i < n => /\ (j * n + i) \div n = j
             /\ (j * n + i) % n = i
<1> SUFFICES ASSUME NEW n \in Nat \ {0}, NEW j \in Nat, NEW i \in Nat, i < n
             PROVE  (j * n + i) \div n = j /\ (j * n + i) % n = i
  OBVIOUS
<1> DEFINE x == j * n + i
           q == x \div n
<1>1. x \in Nat /\ q \in Int /\ q * n <= x /\ x < q * n + n /\ x % n = x - q * n
  OBVIOUS
<1>2. q = j
  <2>1. j * n \in Int /\ q * n \in Int
    BY <1>1
  <2>2. q * n < j * n + n /\ j * n < q * n + n
    BY <1>1, <2>1
  <2> HIDE DEF q
  <2>3. (q - j) * n < n /\ (j - q) * n < n
    BY <1>1, <2>1, <2>2
  <2>4. ~ (q - j >= 1) /\ ~ (j - q >= 1)
    BY <1>1, <2>3
  <2> QED BY <1>1, <2>4
<1> QED BY <1>1, <1>2

-----------------------------------------------------------------------------
(***************************************************************************)
(* The reference has as many rows and columns as it says.                  *)
(***************************************************************************)
Sizes == /\ Width \in Nat \ {0} /\ Height \in Nat \ {0}

LEMMA SizesHold == Sizes
BY EngineAssumption DEF Sizes, EngineAssumption

\* Whichever way a row goes, there is an edge of the screen on it.
LEMMA EdgeAhead ==
  ASSUME NEW x \in Int, NEW t \in {-1, 1}
  PROVE  \E c \in 1 .. 2 * Width : Off(x + c * t)
<1> DEFINE w == Width
           q == x \div w
           r == x % w
<1>1. w \in Nat \ {0}
  BY SizesHold DEF Sizes
<1>2. q \in Int /\ r \in Int /\ 0 <= r /\ r < w /\ x = q * w + r
  BY <1>1
<1>3. \A k \in Int : k % 2 = 1 \/ (k + 1) % 2 = 1
  <2>1. \A h \in Int : (2 * h + 1) % 2 = 1
    OBVIOUS
  <2>2. \A k \in Int : \E h \in Int : k = 2 * h + 1 \/ k + 1 = 2 * h + 1
    <3>1. \A k \in Int : k \div 2 \in Int /\ (k = 2 * (k \div 2) \/ k = 2 * (k \div 2) + 1)
      OBVIOUS
    <3>2. \A k, h \in Int : k = 2 * h => k + 1 = 2 * h + 1
      OBVIOUS
    <3> QED BY <3>1, <3>2, Zenon
  <2>3. \A k \in Int : k + 1 \in Int
    OBVIOUS
  <2> QED BY <2>1, <2>2, Zenon
<1> HIDE DEF w, q, r
<1>4. \A k \in Int : (k * w) \div w = k /\ (k * w - 1) \div w = k - 1
  BY <1>1
<1>5. CASE t = 1
  <2>1. (x + (w - r)) \div w = q + 1 /\ (x + (w - r + w)) \div w = q + 2
    <3>1. x + (w - r) = (q + 1) * w /\ x + (w - r + w) = (q + 2) * w
      BY <1>1, <1>2
    <3> QED BY <1>2, <1>4, <3>1
  <2>2. Off(x + (w - r)) \/ Off(x + (w - r + w))
    <3>1. (q + 1) % 2 = 1 \/ (q + 1 + 1) % 2 = 1
      BY <1>2, <1>3
    <3>2. q + 1 + 1 = q + 2
      BY <1>2
    <3> QED BY <2>1, <3>1, <3>2 DEF Off, w
  <2>3. w - r \in 1 .. 2 * w /\ w - r + w \in 1 .. 2 * w
    BY <1>1, <1>2
  <2>4. (w - r) * t = w - r /\ (w - r + w) * t = w - r + w
    BY <1>1, <1>2, <1>5
  <2> QED BY <2>2, <2>3, <2>4 DEF w
<1>6. CASE t = -1
  <2>1. (x - (r + 1)) \div w = q - 1 /\ (x - (r + 1 + w)) \div w = q - 2
    <3>1. x - (r + 1) = q * w - 1 /\ x - (r + 1 + w) = (q - 1) * w - 1
      BY <1>1, <1>2
    <3> QED BY <1>2, <1>4, <3>1
  <2>2. Off(x - (r + 1)) \/ Off(x - (r + 1 + w))
    <3>1. (q - 2) % 2 = 1 \/ (q - 2 + 1) % 2 = 1
      BY <1>2, <1>3
    <3>2. q - 2 + 1 = q - 1
      BY <1>2
    <3> QED BY <2>1, <3>1, <3>2 DEF Off, w
  <2>3. r + 1 \in 1 .. 2 * w /\ r + 1 + w \in 1 .. 2 * w
    BY <1>1, <1>2
  <2>4. x + (r + 1) * t = x - (r + 1) /\ x + (r + 1 + w) * t = x - (r + 1 + w)
    BY <1>1, <1>2, <1>6
  <2> QED BY <2>2, <2>3, <2>4 DEF w
<1> QED BY <1>5, <1>6

\* A row ends after its j-th pixel, a rectangle after its j-th row.
RowEnds(cmd, a, j) ==
  \/ cmd # "YMMM" /\ j = a.NX
  \/ cmd \in {"LMMM", "LMCM"} /\ Off(a.SX + j * a.TX)
  \/ cmd \in ToTarget /\ Off(a.DX + j * a.TX)

RectangleEnds(cmd, a, j) ==
  \/ j % Height = a.NY % Height
  \/ cmd \in FromSource /\ a.SY + j * a.TY = -1
  \/ cmd \in ToTarget /\ a.DY + j * a.TY = -1

\* The commands that go over a rectangle, row by row.
Blocks == {"LMMV", "LMMM", "YMMM", "LMMC", "LMCM"}

\* Columns is the first number of pixels at which a row ends.
LEMMA ColumnsAre ==
  ASSUME NEW cmd \in Blocks, NEW a \in Arguments
  PROVE  /\ Columns(cmd, a) \in 1 .. 2 * Width + Height
         /\ RowEnds(cmd, a, Columns(cmd, a))
         /\ \A j \in 1 .. 2 * Width + Height :
              RowEnds(cmd, a, j) => Columns(cmd, a) <= j
<1> DEFINE S == {j \in 1 .. 2 * Width + Height : RowEnds(cmd, a, j)}
<1>1. Columns(cmd, a) = Min(S)
  BY DEF Columns, RowEnds
<1>2. Width \in Nat /\ Height \in Nat
  BY SizesHold DEF Sizes
<1>3. a.SX \in Int /\ a.DX \in Int /\ a.TX \in {-1, 1}
  BY <1>2 DEF Arguments
<1>4. S # {}
  <2>1. ASSUME cmd \in ToTarget PROVE S # {}
    <3>1. PICK c \in 1 .. 2 * Width : Off(a.DX + c * a.TX)
      BY <1>3, EdgeAhead
    <3>2. c \in S
      BY <1>2, <2>1, <3>1 DEF RowEnds
    <3> QED BY <3>2
  <2>2. ASSUME cmd = "LMCM" PROVE S # {}
    <3>1. PICK c \in 1 .. 2 * Width : Off(a.SX + c * a.TX)
      BY <1>3, EdgeAhead
    <3>2. c \in S
      BY <1>2, <2>2, <3>1 DEF RowEnds
    <3> QED BY <3>2
  <2> QED BY <2>1, <2>2 DEF Blocks, ToTarget
<1>5. S \in SUBSET Nat
  BY <1>2
<1>6. Min(S) \in S /\ \A j \in S : Min(S) <= j
  BY <1>4, <1>5, MinOf
<1> QED BY <1>1, <1>6

\* Rows is the first number of rows at which a rectangle ends.
LEMMA RowsAre ==
  ASSUME NEW cmd \in Blocks, NEW a \in Arguments
  PROVE  /\ Rows(cmd, a) \in 1 .. Height
         /\ RectangleEnds(cmd, a, Rows(cmd, a))
         /\ \A j \in 1 .. Height :
              RectangleEnds(cmd, a, j) => Rows(cmd, a) <= j
<1> DEFINE S == {j \in 1 .. Height : RectangleEnds(cmd, a, j)}
<1>1. Rows(cmd, a) = Min(S)
  BY DEF Rows, RectangleEnds
<1>2. Height \in Nat \ {0}
  BY SizesHold DEF Sizes
<1>3. a.NY \in 0 .. Height - 1
  BY DEF Arguments
<1>4. S # {}
  <2>1. CASE a.NY # 0
    <3>1. a.NY \in S
      BY <1>2, <1>3, <2>1 DEF RectangleEnds
    <3> QED BY <3>1
  <2>2. CASE a.NY = 0
    <3>1. Height % Height = 0 /\ 0 % Height = 0
      BY <1>2
    <3>2. Height \in S
      BY <1>2, <2>2, <3>1 DEF RectangleEnds
    <3> QED BY <3>2
  <2> QED BY <2>1, <2>2
<1>5. S \in SUBSET Nat
  BY <1>2
<1>6. Min(S) \in S /\ \A j \in S : Min(S) <= j
  BY <1>4, <1>5, MinOf
<1> QED BY <1>1, <1>6

-----------------------------------------------------------------------------
(***************************************************************************)
(* A rectangle, pixel by pixel.                                            *)
(***************************************************************************)
\* The operations of VDPpsetlowlevel.
Operators == {"IMP", "AND", "OR", "XOR", "NOT"} \union DOMAIN Transparent

\* What the engines count in; the fields are the registers of MMC.
Machine == [SX : Int, SY : Int, DX : Int, DY : Int, TX : Int, TY : Int, NX : Int, NY : Int,
            ASX : Int, ADX : Int, ANX : Int, CL : Colors,
            LO : Operators]

\* The operands that command c does not count in.
Kept(c, m) ==
  LET a == c.args IN
  /\ m.TX = a.TX /\ m.TY = a.TY /\ m.NX = a.NX /\ m.LO = a.LO /\ m.CL = c.CL
  /\ c.CM # "SRCH" => m.SX = a.SX
  /\ c.CM # "LINE" => m.DX = a.DX
  /\ c.CM = "LINE" => m.NY = a.NY
  /\ c.CM = "SRCH" => m.SY = a.SY /\ m.ANX = a.EQ

\* The machine m is before the i-th pixel of the j-th row.
BlockAt(c, m, j, i) ==
  LET a == c.args
      cmd == c.CM
  IN
  /\ j < Rows(cmd, a) /\ i < Columns(cmd, a)
  /\ m.NY = a.NY - j
  /\ cmd # "YMMM" => m.ANX = a.NX - i
  /\ cmd \in FromSource => m.SY = a.SY + j * a.TY
  /\ cmd \in {"LMMM", "LMCM"} => m.ASX = a.SX + i * a.TX
  /\ cmd \in ToTarget => m.DY = a.DY + j * a.TY /\ m.ADX = a.DX + i * a.TX

LEMMA RowOverIs ==
  ASSUME NEW c, c.CM \in Blocks, c.args \in Arguments, NEW m \in Machine, Kept(c, m),
         NEW j \in Nat, NEW i \in Nat, BlockAt(c, m, j, i)
  PROVE  RowOver(c.CM, m) <=> i + 1 = Columns(c.CM, c.args)
<1> DEFINE a == c.args
           cmd == c.CM
<1>1. a.SX \in Int /\ a.DX \in Int /\ a.TX \in {-1, 1} /\ a.NX \in Int
  BY SizesHold DEF Arguments, Sizes
<1>2. m.ANX \in Int /\ m.TX = a.TX
  BY DEF Machine, Kept
<1>3. /\ Columns(cmd, a) \in Nat /\ Columns(cmd, a) <= 2 * Width + Height
      /\ RowEnds(cmd, a, Columns(cmd, a))
      /\ \A k \in 1 .. 2 * Width + Height :
           RowEnds(cmd, a, k) => Columns(cmd, a) <= k
  BY ColumnsAre, SizesHold DEF Sizes
<1>4. RowOver(cmd, m) <=> RowEnds(cmd, a, i + 1)
  <2>1. cmd \in ToTarget <=> cmd # "LMCM"
    BY DEF Blocks, ToTarget
  <2>2. cmd # "YMMM" => (m.ANX - 1 = 0 <=> i + 1 = a.NX)
    BY <1>1, <1>2 DEF BlockAt
  <2>3. (i + 1) * a.TX = i * a.TX + a.TX
    BY <1>1
  <2>4. cmd \in {"LMMM", "LMCM"} => m.ASX + m.TX = a.SX + (i + 1) * a.TX
    BY <1>1, <1>2, <2>3 DEF BlockAt
  <2>5. cmd \in ToTarget => m.ADX + m.TX = a.DX + (i + 1) * a.TX
    BY <1>1, <1>2, <2>3 DEF BlockAt
  <2> HIDE DEF a, cmd
  <2> QED BY <2>1, <2>2, <2>4, <2>5 DEF RowOver, RowEnds
<1>5. i < Columns(cmd, a)
  BY DEF BlockAt
<1> HIDE DEF a, cmd
<1>6. i + 1 \in 1 .. 2 * Width + Height
  BY <1>3, <1>5, SizesHold DEF Sizes
<1>7. ASSUME RowEnds(cmd, a, i + 1) PROVE i + 1 = Columns(cmd, a)
  BY <1>3, <1>5, <1>6, <1>7
<1> QED BY <1>3, <1>4, <1>7 DEF a, cmd

LEMMA BlockOverIs ==
  ASSUME NEW c, c.CM \in Blocks, c.args \in Arguments, NEW m \in Machine, Kept(c, m),
         NEW j \in Nat, NEW i \in Nat, BlockAt(c, m, j, i)
  PROVE  /\ RowsEnd(m) <=> (j + 1) % Height = c.args.NY % Height
         /\ BlockOver(c.CM, m) <=> i + 1 = Columns(c.CM, c.args) /\ j + 1 = Rows(c.CM, c.args)
<1> DEFINE a == c.args
           cmd == c.CM
<1>1. /\ a.SY \in Int /\ a.DY \in Int /\ a.TY \in {-1, 1}
      /\ a.NY \in Nat /\ a.NY < Height /\ Height \in Nat \ {0}
  BY SizesHold DEF Arguments, Sizes
<1>2. /\ Rows(cmd, a) \in Nat /\ Rows(cmd, a) <= Height
      /\ RectangleEnds(cmd, a, Rows(cmd, a))
      /\ \A k \in 1 .. Height : RectangleEnds(cmd, a, k) => Rows(cmd, a) <= k
  BY RowsAre, <1>1
<1>3. j < Rows(cmd, a) /\ m.NY = a.NY - j /\ m.TY = a.TY
  BY DEF BlockAt, Kept
<1>4. RowsEnd(m) <=> (j + 1) % Height = a.NY % Height
  <2>1. a.NY % Height = a.NY
    BY <1>1
  <2>2. (j + 1) % Height = IF j + 1 = Height THEN 0 ELSE j + 1
    BY <1>1, <1>2, <1>3
  <2>3. m.NY - 1 = a.NY - (j + 1)
    BY <1>1, <1>3
  <2>4. \A x \in Int : -Height <= x /\ x < Height => (x % Height = 0 <=> x = 0 \/ x = -Height)
    BY <1>1
  <2>5. (a.NY - (j + 1)) % Height = 0 <=> a.NY = j + 1 \/ (a.NY = 0 /\ j + 1 = Height)
    <3> DEFINE x == a.NY - (j + 1)
    <3>1. x \in Int /\ -Height <= x /\ x < Height
      BY <1>1, <1>2, <1>3
    <3>2. x % Height = 0 <=> x = 0 \/ x = -Height
      BY <2>4, <3>1, Zenon
    <3>3. (x = 0 <=> a.NY = j + 1) /\ (x = -Height <=> a.NY = 0 /\ j + 1 = Height)
      BY <1>1, <1>2, <1>3
    <3> QED BY <3>2, <3>3, Zenon
  <2> QED BY <1>1, <2>1, <2>2, <2>3, <2>5 DEF RowsEnd
<1>5. BlockOver(cmd, m) <=> i + 1 = Columns(cmd, a) /\ RectangleEnds(cmd, a, j + 1)
  <2>1. RowOver(cmd, m) <=> i + 1 = Columns(cmd, a)
    BY RowOverIs
  <2>2. (j + 1) * a.TY = j * a.TY + a.TY
    BY <1>1
  <2>3. cmd \in FromSource => m.SY + m.TY = a.SY + (j + 1) * a.TY
    BY <1>1, <1>3, <2>2 DEF BlockAt
  <2>4. cmd \in ToTarget => m.DY + m.TY = a.DY + (j + 1) * a.TY
    BY <1>1, <1>3, <2>2 DEF BlockAt
  <2>5. cmd \in Blocks
    OBVIOUS
  <2> HIDE DEF a, cmd
  <2>6. /\ cmd \in ToTarget <=> cmd # "LMCM"
        /\ cmd \in FromSource <=> cmd \in {"LMMM", "YMMM", "LMCM"}
    BY <2>5 DEF Blocks, ToTarget, FromSource
  <2> QED BY <1>4, <2>1, <2>3, <2>4, <2>6 DEF BlockOver, RectangleEnds, a, cmd
<1> HIDE DEF a, cmd
<1>6. RectangleEnds(cmd, a, j + 1) <=> j + 1 = Rows(cmd, a)
  <2>1. j + 1 \in 1 .. Height
    BY <1>1, <1>2, <1>3
  <2>2. ASSUME RectangleEnds(cmd, a, j + 1) PROVE j + 1 = Rows(cmd, a)
    BY <1>2, <1>3, <2>1, <2>2
  <2> QED BY <1>2, <2>2
<1> QED BY <1>4, <1>5, <1>6 DEF a, cmd

\* The next pixel of an engine is the next one of its row, or the first
\* of the next row.
LEMMA BlockNextIs ==
  ASSUME NEW c, c.CM \in Blocks, c.args \in Arguments, NEW m \in Machine, Kept(c, m),
         NEW j \in Nat, NEW i \in Nat, BlockAt(c, m, j, i), ~BlockOver(c.CM, m)
  PROVE  /\ BlockNext(c.CM, m) \in Machine
         /\ Kept(c, BlockNext(c.CM, m))
         /\ \E k, l \in Nat :
              /\ BlockAt(c, BlockNext(c.CM, m), k, l)
              /\ k * Columns(c.CM, c.args) + l = j * Columns(c.CM, c.args) + i + 1
<1> DEFINE a == c.args
           cmd == c.CM
           n == BlockNext(cmd, m)
           w == Columns(cmd, a)
<1>1. /\ a.SX \in Int /\ a.SY \in Int /\ a.DX \in Int /\ a.DY \in Int
      /\ a.NX \in Int /\ a.NY \in Int /\ a.TX \in Int /\ a.TY \in Int
  BY SizesHold DEF Arguments, Sizes
<1>2. w \in Nat /\ Rows(cmd, a) \in Nat
  BY ColumnsAre, RowsAre, SizesHold DEF Sizes
<1>3. j < Rows(cmd, a) /\ i < w
  BY DEF BlockAt
<1>4. CASE i + 1 = w
  <2>1. j + 1 < Rows(cmd, a)
    <3>1. j + 1 # Rows(cmd, a)
      BY <1>4, BlockOverIs
    <3> QED BY <1>2, <1>3, <3>1
  <2>2. n = NextRow(m, cmd # "LMMV" /\ cmd # "LMMC")
    BY <1>4, RowOverIs DEF BlockNext
  <2>3. n.SY = (IF cmd # "LMMV" /\ cmd # "LMMC" THEN m.SY + m.TY ELSE m.SY)
    BY <2>2 DEF NextRow, Machine
  <2>4. /\ n.NY = m.NY - 1 /\ n.DY = m.DY + m.TY /\ n.ASX = m.SX /\ n.ADX = m.DX
        /\ n.ANX = m.NX /\ n.CL = m.CL /\ n.LO = m.LO
        /\ n.SX = m.SX /\ n.DX = m.DX /\ n.NX = m.NX /\ n.TX = m.TX /\ n.TY = m.TY
    BY <2>2 DEF NextRow, Machine
  <2>5. n \in Machine
    <3>1. m.NY - 1 \in Int /\ m.SY \in Int /\ m.SY + m.TY \in Int /\ m.DY + m.TY \in Int
      BY DEF Machine
    <3>2. n.NY \in Int /\ n.SY \in Int /\ n.DY \in Int
      BY <2>3, <2>4, <3>1, Zenon
    <3>3. /\ m.SX \in Int /\ m.DX \in Int /\ m.NX \in Int /\ m.TX \in Int /\ m.TY \in Int
          /\ m.CL \in Colors /\ m.LO \in Operators
      BY DEF Machine
    <3>4. n = [SX |-> n.SX, SY |-> n.SY, DX |-> n.DX, DY |-> n.DY, TX |-> n.TX, TY |-> n.TY,
               NX |-> n.NX, NY |-> n.NY, ASX |-> n.ASX, ADX |-> n.ADX, ANX |-> n.ANX,
               CL |-> n.CL, LO |-> n.LO]
      BY <2>2 DEF NextRow, Machine
    <3> HIDE DEF n
    <3> QED BY <2>4, <3>2, <3>3, <3>4 DEF Machine
  <2>6. cmd \in FromSource => n.SY = m.SY + m.TY
    BY <2>3 DEF FromSource
  <2>7. cmd # "LINE" /\ cmd # "SRCH"
    BY DEF Blocks
  <2>8. Kept(c, n)
    BY <2>4, <2>7 DEF Kept
  <2>9. BlockAt(c, n, j + 1, 0)
    <3>0. 0 < w
      BY <1>1, <1>2, <1>3
    <3>a. \A t \in Int : 0 * t = 0 /\ (j + 1) * t = j * t + t
      BY <1>1
    <3>b. a.TX \in Int /\ a.TY \in Int
      BY <1>1
    <3>1. 0 < w /\ 0 * a.TX = 0 /\ (j + 1) * a.TY = j * a.TY + a.TY
      BY <3>0, <3>a, <3>b, Zenon
    <3>2. cmd \in ToTarget => m.DY + m.TY = a.DY + (j + 1) * a.TY
      BY <1>1, <3>1 DEF BlockAt, Kept
    <3>3. cmd \in FromSource => m.SY + m.TY = a.SY + (j + 1) * a.TY
      BY <1>1, <3>1 DEF BlockAt, Kept
    <3>4. m.NY - 1 = a.NY - (j + 1)
      BY <1>1 DEF BlockAt
    <3>5. m.NX = a.NX - 0 /\ m.SX = a.SX + 0 * a.TX /\ m.DX = a.DX + 0 * a.TX
      BY <1>1, <2>7, <3>1 DEF Kept
    <3> HIDE DEF n
    <3> QED BY <2>1, <2>4, <2>6, <3>1, <3>2, <3>3, <3>4, <3>5 DEF BlockAt
  <2>10. (j + 1) * w + 0 = j * w + i + 1
    BY <1>2, <1>4
  <2> QED BY <2>5, <2>8, <2>9, <2>10
<1>5. CASE i + 1 # w
  <2>1. n = [m EXCEPT !.ANX = @ - 1, !.ASX = @ + m.TX, !.ADX = @ + m.TX]
    BY <1>5, RowOverIs DEF BlockNext
  <2>2. /\ n.ANX = m.ANX - 1 /\ n.ASX = m.ASX + m.TX /\ n.ADX = m.ADX + m.TX
        /\ n.NY = m.NY /\ n.SY = m.SY /\ n.DY = m.DY /\ n.CL = m.CL /\ n.LO = m.LO
        /\ n.SX = m.SX /\ n.DX = m.DX /\ n.NX = m.NX /\ n.TX = m.TX /\ n.TY = m.TY
    BY <2>1 DEF Machine
  <2>3. n \in Machine
    <3>1. m.ANX - 1 \in Int /\ m.ASX + m.TX \in Int /\ m.ADX + m.TX \in Int
      BY DEF Machine
    <3> QED BY <2>1, <3>1 DEF Machine
  <2>4. cmd # "LINE" /\ cmd # "SRCH"
    BY DEF Blocks
  <2>5. Kept(c, n)
    BY <2>2, <2>4 DEF Kept
  <2>6. BlockAt(c, n, j, i + 1)
    <3>1. i + 1 < w
      BY <1>2, <1>3, <1>5
    <3>2. \A t \in Int : (i + 1) * t = i * t + t
      OBVIOUS
    <3>3. i + 1 < w /\ (i + 1) * a.TX = i * a.TX + a.TX
      BY <1>1, <3>1, <3>2, Zenon
    <3>4. cmd \in ToTarget => m.ADX + m.TX = a.DX + (i + 1) * a.TX
      BY <1>1, <3>3 DEF BlockAt, Kept
    <3>5. cmd \in {"LMMM", "LMCM"} => m.ASX + m.TX = a.SX + (i + 1) * a.TX
      BY <1>1, <3>3 DEF BlockAt, Kept
    <3>6. cmd # "YMMM" => m.ANX - 1 = a.NX - (i + 1)
      BY <1>1 DEF BlockAt
    <3> HIDE DEF n
    <3> QED BY <2>2, <3>3, <3>4, <3>5, <3>6 DEF BlockAt
  <2>7. j * w + (i + 1) = j * w + i + 1
    BY <1>2
  <2> QED BY <2>3, <2>5, <2>6, <2>7
<1> QED BY <1>4, <1>5

-----------------------------------------------------------------------------
(***************************************************************************)
(* A line, point by point.                                                 *)
(***************************************************************************)
LEMMA Quotient ==
  \A n \in Nat \ {0}, j \in Int, i \in Nat : i < n => (j * n + i) \div n = j
<1> SUFFICES ASSUME NEW n \in Nat \ {0}, NEW j \in Int, NEW i \in Nat, i < n
             PROVE  (j * n + i) \div n = j
  OBVIOUS
<1> DEFINE x == j * n + i
           q == x \div n
<1>1. x \in Int /\ q \in Int /\ q * n <= x /\ x < q * n + n
  OBVIOUS
<1>2. j * n \in Int /\ q * n \in Int
  BY <1>1
<1>3. q * n < j * n + n /\ j * n < q * n + n
  BY <1>1, <1>2
<1> HIDE DEF q
<1>4. (q - j) * n < n /\ (j - q) * n < n
  BY <1>1, <1>2, <1>3
<1>5. ~ (q - j >= 1) /\ ~ (j - q >= 1)
  BY <1>1, <1>4
<1> QED BY <1>1, <1>5

\* What is left to the next step of the minor axis, at the i-th point.
Remainder(a, i) == (a.NX - 1) \div 2 - i * a.NY + Minor(a, i) * a.NX

\* The machine m is before the i-th point of the line.
LineAt(c, m, i) ==
  LET a == c.args
  IN  /\ i <= LastPoint(a)
      /\ m.DX = PointX(a, i) /\ m.DY = PointY(a, i)
      /\ m.ADX = i
      /\ a.NX # 0 => m.ASX = Remainder(a, i) /\ 0 <= m.ASX /\ m.ASX < a.NX

LEMMA LineNumbers ==
  ASSUME NEW a \in Arguments
  PROVE  /\ a.DX \in Int /\ a.DY \in Int /\ a.TX \in {-1, 1} /\ a.TY \in {-1, 1}
         /\ a.NX \in Nat /\ a.NY \in Nat /\ a.NX < Height
         /\ a.MAJ \in {0, 1}
BY SizesHold DEF Arguments, Sizes

LEMMA MinorIsInteger ==
  ASSUME NEW a \in Arguments, NEW i \in Nat
  PROVE  Minor(a, i) \in Int /\ PointX(a, i) \in Int /\ PointY(a, i) \in Int
<1>1. Minor(a, i) \in Int
  <2>1. CASE a.NX = 0
    BY <2>1 DEF Minor
  <2>2. CASE a.NX # 0
    <3>1. \A n \in Nat \ {0}, y \in Nat :
            (i * y - ((n - 1) \div 2) + n - 1) \div n \in Int
      OBVIOUS
    <3>2. \A n \in Nat \ {0}, y \in Nat :
            (i * y - (n - 1) \div 2 + n - 1) \div n \in Int
      OBVIOUS
    <3> QED BY <2>2, <3>2, LineNumbers DEF Minor
  <2> QED BY <2>1, <2>2
<1>2. \A m \in Int, x \in Int, t \in {-1, 1} : x + t * (IF a.MAJ = 0 THEN i ELSE m) \in Int
  OBVIOUS
<1>3. \A m \in Int, x \in Int, t \in {-1, 1} : x + t * (IF a.MAJ = 0 THEN m ELSE i) \in Int
  OBVIOUS
<1> QED BY <1>1, <1>2, <1>3, LineNumbers DEF PointX, PointY

LEMMA LastPointIs ==
  ASSUME NEW a \in Arguments
  PROVE  /\ LastPoint(a) \in Nat /\ LastPoint(a) <= a.NX
         /\ LastPoint(a) = a.NX \/ Off(PointX(a, LastPoint(a) + 1))
         /\ \A i \in Nat : i <= a.NX /\ (i = a.NX \/ Off(PointX(a, i + 1))) => LastPoint(a) <= i
<1> DEFINE S == {i \in 0 .. a.NX : i = a.NX \/ Off(PointX(a, i + 1))}
<1>1. LastPoint(a) = Min(S)
  BY DEF LastPoint
<1>2. a.NX \in Nat
  BY LineNumbers
<1>3. S # {} /\ S \in SUBSET Nat
  BY <1>2
<1>4. Min(S) \in S /\ \A i \in S : Min(S) <= i
  BY <1>3, MinOf
<1> QED BY <1>1, <1>2, <1>4

\* Minor is the one number of steps that leaves such a remainder.
LEMMA MinorIs ==
  ASSUME NEW n \in Nat \ {0}, NEW y \in Int, NEW h \in Int, NEW k \in Int,
         0 <= h - y + k * n, h - y + k * n < n
  PROVE  (y - h + n - 1) \div n = k
<1> DEFINE r == h - y + k * n
<1>1. k * n \in Int /\ r \in Nat
  OBVIOUS
<1>2. y - h + n - 1 = k * n + (n - 1 - r)
  BY <1>1
<1>3. n - 1 - r \in Nat /\ n - 1 - r < n
  BY <1>1
<1> HIDE DEF r
<1> QED BY <1>2, <1>3, Quotient

LEMMA RemainderIs ==
  ASSUME NEW a \in Arguments, a.NX # 0, NEW i \in Nat, NEW k \in Int,
         0 <= (a.NX - 1) \div 2 - i * a.NY + k * a.NX,
         (a.NX - 1) \div 2 - i * a.NY + k * a.NX < a.NX
  PROVE  Minor(a, i) = k
<1>1. a.NX \in Nat \ {0} /\ a.NY \in Int
  BY LineNumbers
<1>2. i * a.NY \in Int /\ (a.NX - 1) \div 2 \in Int
  BY <1>1
<1>3. (i * a.NY - (a.NX - 1) \div 2 + a.NX - 1) \div a.NX = k
  BY <1>1, <1>2, MinorIs
<1> QED BY <1>3 DEF Minor

LEMMA LineStarts ==
  ASSUME NEW a \in Arguments
  PROVE  /\ PointX(a, 0) = a.DX /\ PointY(a, 0) = a.DY
         /\ a.NX # 0 => /\ Remainder(a, 0) = (a.NX - 1) \div 2
                        /\ 0 <= Remainder(a, 0) /\ Remainder(a, 0) < a.NX
<1>1. Minor(a, 0) = 0
  <2>1. CASE a.NX = 0
    BY <2>1 DEF Minor
  <2>2. CASE a.NX # 0
    <3>1. \A n \in Nat \ {0}, y \in Nat :
            /\ 0 <= (n - 1) \div 2 - 0 * y + 0 * n
            /\ (n - 1) \div 2 - 0 * y + 0 * n < n
      OBVIOUS
    <3>2. a.NX \in Nat \ {0} /\ a.NY \in Nat
      BY <2>2, LineNumbers
    <3>3. /\ 0 <= (a.NX - 1) \div 2 - 0 * a.NY + 0 * a.NX
          /\ (a.NX - 1) \div 2 - 0 * a.NY + 0 * a.NX < a.NX
      BY <3>1, <3>2, Zenon
    <3> QED BY <2>2, <3>3, RemainderIs
  <2> QED BY <2>1, <2>2
<1>2. PointX(a, 0) = a.DX /\ PointY(a, 0) = a.DY
  BY <1>1, LineNumbers DEF PointX, PointY
<1>3. \A n \in Nat \ {0}, y \in Nat :
        /\ (n - 1) \div 2 - 0 * y + 0 * n = (n - 1) \div 2
        /\ 0 <= (n - 1) \div 2
        /\ (n - 1) \div 2 < n
  OBVIOUS
<1>4. a.NX # 0 => /\ Remainder(a, 0) = (a.NX - 1) \div 2
                  /\ 0 <= Remainder(a, 0) /\ Remainder(a, 0) < a.NX
  <2>1. a.NX # 0 => a.NX \in Nat \ {0}
    BY LineNumbers
  <2>2. a.NY \in Nat
    BY LineNumbers
  <2> QED BY <1>1, <1>3, <2>1, <2>2, Zenon DEF Remainder
<1> QED BY <1>2, <1>4

\* One step along the longer axis keeps the remainder within a step, and
\* takes the machine to the reference's next point.
LEMMA LineStep ==
  ASSUME NEW c, c.CM = "LINE", c.args \in Arguments, c.args.NY <= c.args.NX,
         regs.MAJ = c.args.MAJ,
         NEW m \in Machine, Kept(c, m), NEW i \in Nat, LineAt(c, m, i), c.args.NX # 0
  PROVE  /\ LineNext(m).DX = PointX(c.args, i + 1) /\ LineNext(m).DY = PointY(c.args, i + 1)
         /\ LineNext(m).ADX = i + 1
         /\ LineNext(m).ASX = Remainder(c.args, i + 1)
         /\ 0 <= LineNext(m).ASX /\ LineNext(m).ASX < c.args.NX
         /\ LineNext(m).SX = m.SX /\ LineNext(m).SY = m.SY /\ LineNext(m).TX = m.TX
         /\ LineNext(m).TY = m.TY /\ LineNext(m).NX = m.NX /\ LineNext(m).NY = m.NY
         /\ LineNext(m).ANX = m.ANX /\ LineNext(m).CL = m.CL /\ LineNext(m).LO = m.LO
         /\ LineNext(m) \in Machine
<1> DEFINE a == c.args
           short == m.ASX - m.NY < 0
           minor == IF short THEN 1 ELSE 0
           left == m.ASX - m.NY + (IF short THEN m.NX ELSE 0)
           n == LineNext(m)
<1>1. /\ a.DX \in Int /\ a.DY \in Int /\ a.TX \in Int /\ a.TY \in Int
      /\ a.NX \in Nat \ {0} /\ a.NY \in Nat /\ a.NY <= a.NX /\ a.NX < Height
      /\ a.MAJ \in {0, 1}
  BY LineNumbers
<1>2. m.NX = a.NX /\ m.NY = a.NY /\ m.TX = a.TX /\ m.TY = a.TY
  BY DEF Kept
<1>3. /\ m.DX = PointX(a, i) /\ m.DY = PointY(a, i) /\ m.ADX = i
      /\ m.ASX = Remainder(a, i) /\ 0 <= m.ASX /\ m.ASX < a.NX /\ m.ASX \in Int
  BY DEF LineAt, Machine
<1>4. left \in Nat /\ left < a.NX /\ minor \in {0, 1}
  BY <1>1, <1>2, <1>3
<1>5. left = m.ASX - a.NY + minor * a.NX
  BY <1>1, <1>2, <1>3
<1>6. left % Height = left
  BY <1>1, <1>4, SizesHold DEF Sizes
<1>7. Minor(a, i) \in Int
  BY MinorIsInteger
<1>8. left = (a.NX - 1) \div 2 - (i + 1) * a.NY + (Minor(a, i) + minor) * a.NX
  <2> DEFINE h == (a.NX - 1) \div 2
             y == a.NY
             x == a.NX
             k == Minor(a, i)
  <2>1. h \in Int /\ y \in Int /\ x \in Int /\ k \in Int /\ minor \in Int
    BY <1>1, <1>4, <1>7
  <2>2. left = (h - i * y + k * x) - y + minor * x
    BY <1>3, <1>5 DEF Remainder
  <2> HIDE DEF left, minor, short, h, y, x, k
  <2>3. i * y \in Int /\ k * x \in Int /\ minor * x \in Int
    BY <2>1
  <2>4. (i + 1) * y = i * y + y /\ (k + minor) * x = k * x + minor * x
    BY <2>1
  <2>5. left = h - (i + 1) * y + (k + minor) * x
    BY <2>1, <2>2, <2>3, <2>4
  <2> QED BY <2>5 DEF h, y, x, k
<1>9. Minor(a, i) + minor \in Int
  BY <1>4, <1>7
<1> HIDE DEF left, minor
<1>10. Minor(a, i + 1) = Minor(a, i) + minor
  BY <1>1, <1>4, <1>8, <1>9, RemainderIs DEF a
<1>11. left = Remainder(a, i + 1)
  BY <1>8, <1>10 DEF Remainder
<1>12. /\ m.DX + m.TX * (IF regs.MAJ = 0 THEN 1 ELSE minor) = PointX(a, i + 1)
       /\ m.DY + m.TY * (IF regs.MAJ = 0 THEN minor ELSE 1) = PointY(a, i + 1)
  <2>1. \A x, t, k \in Int : (x + t * k) + t * minor = x + t * (k + minor)
    <3> SUFFICES ASSUME NEW x \in Int, NEW t \in Int, NEW k \in Int
                 PROVE  (x + t * k) + t * minor = x + t * (k + minor)
      OBVIOUS
    <3>1. minor = 0 \/ minor = 1
      BY <1>4
    <3>2. CASE minor = 0
      BY <3>2
    <3>3. CASE minor = 1
      BY <3>3
    <3> QED BY <3>1, <3>2, <3>3
  <2>2. \A x, t \in Int : (x + t * i) + t * 1 = x + t * (i + 1)
    OBVIOUS
  <2>3. CASE a.MAJ = 0
    <3>1. /\ PointX(a, i) = a.DX + a.TX * i
          /\ PointY(a, i) = a.DY + a.TY * Minor(a, i)
      BY <2>3 DEF PointX, PointY
    <3>2. /\ PointX(a, i + 1) = a.DX + a.TX * (i + 1)
          /\ PointY(a, i + 1) = a.DY + a.TY * (Minor(a, i) + minor)
      BY <1>10, <2>3 DEF PointX, PointY
    <3>3. /\ (a.DX + a.TX * i) + a.TX * 1 = a.DX + a.TX * (i + 1)
          /\ (a.DY + a.TY * Minor(a, i)) + a.TY * minor = a.DY + a.TY * (Minor(a, i) + minor)
      BY <1>1, <1>7, <2>1, <2>2, Zenon
    <3>4. regs.MAJ = a.MAJ
      OBVIOUS
    <3> HIDE DEF a
    <3> QED BY <1>2, <1>3, <2>3, <3>4, <3>1, <3>2, <3>3
  <2>4. CASE a.MAJ # 0
    <3>1. /\ PointX(a, i) = a.DX + a.TX * Minor(a, i)
          /\ PointY(a, i) = a.DY + a.TY * i
      BY <2>4 DEF PointX, PointY
    <3>2. /\ PointX(a, i + 1) = a.DX + a.TX * (Minor(a, i) + minor)
          /\ PointY(a, i + 1) = a.DY + a.TY * (i + 1)
      BY <1>10, <2>4 DEF PointX, PointY
    <3>3. /\ (a.DX + a.TX * Minor(a, i)) + a.TX * minor = a.DX + a.TX * (Minor(a, i) + minor)
          /\ (a.DY + a.TY * i) + a.TY * 1 = a.DY + a.TY * (i + 1)
      BY <1>1, <1>7, <2>1, <2>2, Zenon
    <3>4. regs.MAJ = a.MAJ
      OBVIOUS
    <3> HIDE DEF a
    <3> QED BY <1>2, <1>3, <2>4, <3>4, <3>1, <3>2, <3>3
  <2> QED BY <2>3, <2>4
<1>13. n = [m EXCEPT !.DX = m.DX + m.TX * (IF regs.MAJ = 0 THEN 1 ELSE minor),
                     !.DY = m.DY + m.TY * (IF regs.MAJ = 0 THEN minor ELSE 1),
                     !.ASX = left % Height, !.ADX = m.ADX + 1]
  BY DEF LineNext, left, minor, short
<1>14. n = [m EXCEPT !.DX = PointX(a, i + 1), !.DY = PointY(a, i + 1), !.ASX = left, !.ADX = i + 1]
  BY <1>3, <1>6, <1>12, <1>13
<1>15. PointX(a, i + 1) \in Int /\ PointY(a, i + 1) \in Int /\ left \in Int /\ i + 1 \in Int
  BY <1>4, MinorIsInteger
<1> HIDE DEF n
<1>16. n \in Machine
  BY <1>14, <1>15 DEF Machine
<1>17. /\ n.DX = PointX(a, i + 1) /\ n.DY = PointY(a, i + 1) /\ n.ASX = left /\ n.ADX = i + 1
       /\ n.SX = m.SX /\ n.SY = m.SY /\ n.TX = m.TX /\ n.TY = m.TY /\ n.NX = m.NX /\ n.NY = m.NY
       /\ n.ANX = m.ANX /\ n.CL = m.CL /\ n.LO = m.LO
  BY <1>14 DEF Machine
<1> QED BY <1>4, <1>11, <1>16, <1>17 DEF n, a

\* An engine is over at the reference's last point, and not before.
LEMMA LineEnds ==
  ASSUME NEW c, c.CM = "LINE", c.args \in Arguments, c.args.NY <= c.args.NX,
         regs.MAJ = c.args.MAJ,
         NEW m \in Machine, Kept(c, m), NEW i \in Nat, LineAt(c, m, i)
  PROVE  /\ (m.ADX = m.NX \/ Off(LineNext(m).DX)) <=> i = LastPoint(c.args)
         /\ i # LastPoint(c.args) =>
              /\ LineNext(m) \in Machine
              /\ Kept(c, LineNext(m))
              /\ LineAt(c, LineNext(m), i + 1)
<1> DEFINE a == c.args
           n == LineNext(m)
<1>1. /\ LastPoint(a) \in Nat /\ LastPoint(a) <= a.NX
      /\ LastPoint(a) = a.NX \/ Off(PointX(a, LastPoint(a) + 1))
      /\ \A k \in Nat : k <= a.NX /\ (k = a.NX \/ Off(PointX(a, k + 1))) => LastPoint(a) <= k
  BY LastPointIs
<1>2. i <= LastPoint(a) /\ m.ADX = i /\ m.NX = a.NX /\ a.NX \in Nat
  BY LineNumbers DEF LineAt, Kept
<1>3. CASE a.NX = 0
  BY <1>1, <1>2, <1>3
<1>4. CASE a.NX # 0
  <2>1. /\ n.DX = PointX(a, i + 1) /\ n.DY = PointY(a, i + 1)
        /\ n.ADX = i + 1
        /\ n.ASX = Remainder(a, i + 1)
        /\ 0 <= n.ASX /\ n.ASX < a.NX
        /\ n.SX = m.SX /\ n.SY = m.SY /\ n.TX = m.TX
        /\ n.TY = m.TY /\ n.NX = m.NX /\ n.NY = m.NY
        /\ n.ANX = m.ANX /\ n.CL = m.CL /\ n.LO = m.LO
        /\ n \in Machine
    BY <1>4, LineStep
  <2> HIDE DEF n
  <2>2. (i = a.NX \/ Off(PointX(a, i + 1))) <=> i = LastPoint(a)
    <3> HIDE DEF a
    <3>1. ASSUME i = a.NX \/ Off(PointX(a, i + 1)) PROVE i = LastPoint(a)
      <4>1. i <= a.NX
        BY <1>1, <1>2
      <4>2. LastPoint(a) <= i
        BY <1>1, <3>1, <4>1, Zenon
      <4> QED BY <1>1, <1>2, <4>2
    <3>2. ASSUME i = LastPoint(a) PROVE i = a.NX \/ Off(PointX(a, i + 1))
      BY <1>1, <3>2
    <3> QED BY <3>1, <3>2
  <2>3. Kept(c, n)
    BY <2>1 DEF Kept
  <2>4. i # LastPoint(a) => LineAt(c, n, i + 1)
    <3>1. i # LastPoint(a) => i + 1 <= LastPoint(a)
      BY <1>1, <1>2
    <3> QED BY <2>1, <3>1 DEF LineAt
  <2> QED BY <1>2, <2>1, <2>2, <2>3, <2>4 DEF n
<1> QED BY <1>3, <1>4
LEMMA LineNextIsMachine ==
  ASSUME NEW m \in Machine
  PROVE  LineNext(m) \in Machine
<1> DEFINE b == IF m.ASX - m.NY < 0 THEN 1 ELSE 0
           x == IF regs.MAJ = 0 THEN 1 ELSE b
           y == IF regs.MAJ = 0 THEN b ELSE 1
           s == (m.ASX - m.NY + (IF m.ASX - m.NY < 0 THEN m.NX ELSE 0)) % Height
<1>1. /\ m.DX \in Int /\ m.DY \in Int /\ m.TX \in Int /\ m.TY \in Int
      /\ m.ASX \in Int /\ m.NY \in Int /\ m.NX \in Int /\ m.ADX \in Int
  BY DEF Machine
<1>2. x \in Int /\ y \in Int
  OBVIOUS
<1>3. s \in Int
  BY <1>1, SizesHold DEF Sizes
<1>4. LineNext(m) = [m EXCEPT !.DX = m.DX + m.TX * x, !.DY = m.DY + m.TY * y,
                              !.ASX = s, !.ADX = m.ADX + 1]
  BY DEF LineNext
<1> HIDE DEF x, y, s
<1>5. m.DX + m.TX * x \in Int /\ m.DY + m.TY * y \in Int /\ m.ADX + 1 \in Int
  BY <1>1, <1>2
<1> DEFINE p == m.DX + m.TX * x
           q == m.DY + m.TY * y
           e == m.ADX + 1
<1>6. LineNext(m) = [m EXCEPT !.DX = p, !.DY = q, !.ASX = s, !.ADX = e]
  BY <1>4
<1>7. p \in Int /\ q \in Int /\ e \in Int
  BY <1>5
<1> HIDE DEF p, q, e
<1>8. [m EXCEPT !.DX = p, !.DY = q] \in Machine
  BY <1>7 DEF Machine
<1>9. \A n \in Machine : [n EXCEPT !.ASX = s, !.ADX = e] \in Machine
  BY <1>3, <1>7 DEF Machine
<1>10. LineNext(m) = [[m EXCEPT !.DX = p, !.DY = q] EXCEPT !.ASX = s, !.ADX = e]
  BY <1>6 DEF Machine
<1> QED BY <1>8, <1>9, <1>10, Zenon

-----------------------------------------------------------------------------
(***************************************************************************)
(* A search, pixel by pixel.                                               *)
(***************************************************************************)
SearchAt(c, m, k) ==
  k <= SearchedTo(c) /\ m.SX = c.args.SX + k * c.args.TX

LEMMA SearchedToIs ==
  ASSUME NEW c, c.args \in Arguments
  PROVE  /\ SearchedTo(c) \in Nat /\ SearchedTo(c) <= 2 * Width
         /\ Matches(c, SearchedTo(c)) \/ Off(c.args.SX + (SearchedTo(c) + 1) * c.args.TX)
         /\ \A j \in Nat : /\ j <= 2 * Width
                           /\ Matches(c, j) \/ Off(c.args.SX + (j + 1) * c.args.TX)
                           => SearchedTo(c) <= j
<1> DEFINE a == c.args
           S == {j \in 0 .. 2 * Width : Matches(c, j) \/ Off(a.SX + (j + 1) * a.TX)}
<1>1. SearchedTo(c) = Min(S)
  BY DEF SearchedTo
<1>2. Width \in Nat /\ a.SX \in Int /\ a.TX \in {-1, 1}
  BY SizesHold DEF Arguments, Sizes
<1>3. PICK e \in 1 .. 2 * Width : Off(a.SX + e * a.TX)
  BY <1>2, EdgeAhead
<1>4. e - 1 \in S
  <2>1. e - 1 \in 0 .. 2 * Width /\ (e - 1) + 1 = e
    BY <1>2
  <2> QED BY <1>3, <2>1
<1>5. S \in SUBSET Nat
  BY <1>2
<1>6. Min(S) \in S /\ \A j \in S : Min(S) <= j
  BY <1>4, <1>5, MinOf
<1>7. ASSUME NEW j \in Nat, j <= 2 * Width, Matches(c, j) \/ Off(a.SX + (j + 1) * a.TX)
      PROVE  SearchedTo(c) <= j
  <2>1. j \in 0 .. 2 * Width
    BY <1>2, <1>7
  <2>2. j \in S
    BY <1>7, <2>1, Zenon
  <2> QED BY <1>1, <1>6, <2>2, Zenon
<1>8. SearchedTo(c) \in S
  BY <1>1, <1>6, Zenon
<1>9. /\ SearchedTo(c) \in 0 .. 2 * Width
      /\ Matches(c, SearchedTo(c)) \/ Off(a.SX + (SearchedTo(c) + 1) * a.TX)
  BY <1>8, Zenon
<1>10. SearchedTo(c) \in Nat /\ SearchedTo(c) <= 2 * Width
  BY <1>2, <1>9
<1> QED BY <1>7, <1>9, <1>10

\* A search finds what the reference finds, and where.
LEMMA SearchStep ==
  ASSUME NEW c, c.CM = "SRCH", VdpEngine = "SRCH", c.args \in Arguments, VRAM = Picture,
         NEW m \in Machine, Kept(c, m), NEW k \in Nat, SearchAt(c, m, k)
  PROVE  /\ Found(m) <=> Matches(c, k)
         /\ Found(m) \/ Over(m) <=> k = SearchedTo(c)
         /\ k # SearchedTo(c) => /\ Following(m) \in Machine
                                 /\ Kept(c, Following(m))
                                 /\ SearchAt(c, Following(m), k + 1)
<1> DEFINE a == c.args
           n == [m EXCEPT !.SX = m.SX + m.TX]
<1>1. a.SX \in Int /\ a.TX \in Int /\ m.SX \in Int /\ m.TX = a.TX /\ Width \in Nat
  BY SizesHold DEF Arguments, Sizes, Machine, Kept
<1>2. m.SY = a.SY /\ m.ANX = a.EQ /\ m.CL = c.CL /\ m.SX = a.SX + k * a.TX /\ k <= SearchedTo(c)
  BY DEF Kept, SearchAt
<1>3. Found(m) <=> Matches(c, k)
  BY <1>2 DEF Found, Matches
<1>4. m.SX + m.TX = a.SX + (k + 1) * a.TX
  <2>1. \A x, t \in Int : (x + k * t) + t = x + (k + 1) * t
    OBVIOUS
  <2> QED BY <1>1, <1>2, <2>1, Zenon
<1>5. Over(m) <=> Off(a.SX + (k + 1) * a.TX)
  BY <1>4 DEF Over
<1>6. /\ SearchedTo(c) \in Nat /\ SearchedTo(c) <= 2 * Width
      /\ Matches(c, SearchedTo(c)) \/ Off(a.SX + (SearchedTo(c) + 1) * a.TX)
      /\ \A j \in Nat : j <= 2 * Width /\ (Matches(c, j) \/ Off(a.SX + (j + 1) * a.TX))
                        => SearchedTo(c) <= j
  BY SearchedToIs
<1>7. Found(m) \/ Over(m) <=> k = SearchedTo(c)
  <2>1. ASSUME Found(m) \/ Over(m) PROVE k = SearchedTo(c)
    <3>1. k <= 2 * Width
      BY <1>1, <1>2, <1>6
    <3>2. SearchedTo(c) <= k
      BY <1>3, <1>5, <1>6, <2>1, <3>1, Zenon
    <3> QED BY <1>2, <1>6, <3>2
  <2>2. ASSUME k = SearchedTo(c) PROVE Found(m) \/ Over(m)
    BY <1>3, <1>5, <1>6, <2>2, Zenon
  <2> QED BY <2>1, <2>2, Zenon
<1>8. ASSUME k # SearchedTo(c)
      PROVE  /\ Following(m) \in Machine
             /\ Kept(c, Following(m))
             /\ SearchAt(c, Following(m), k + 1)
  <2>1. Following(m) = n
    BY DEF Following
  <2>2. n \in Machine
    <3>1. m.SX + m.TX \in Int
      BY <1>1
    <3> QED BY <3>1 DEF Machine
  <2>3. /\ n.SX = m.SX + m.TX
        /\ n.SY = m.SY /\ n.DX = m.DX /\ n.DY = m.DY /\ n.TX = m.TX /\ n.TY = m.TY
        /\ n.NX = m.NX /\ n.NY = m.NY /\ n.ANX = m.ANX /\ n.CL = m.CL /\ n.LO = m.LO
    BY DEF Machine
  <2>4. Kept(c, n)
    BY <2>3 DEF Kept
  <2>5. k + 1 <= SearchedTo(c)
    BY <1>2, <1>6, <1>8
  <2> HIDE DEF n
  <2> QED BY <1>4, <2>1, <2>2, <2>3, <2>4, <2>5 DEF SearchAt
<1> QED BY <1>3, <1>7, <1>8

-----------------------------------------------------------------------------
(***************************************************************************)
(* A command, pixel by pixel.                                              *)
(***************************************************************************)
\* How many pixels the command goes through.
Whole(c) ==
  CASE c.CM = "LINE" -> LastPoint(c.args) + 1
    [] c.CM = "SRCH" -> SearchedTo(c) + 1
    [] OTHER -> Size(c.CM, c.args)

\* The machine m is before the k-th pixel of the command.
Going(c, m, k) ==
  /\ m \in Machine /\ Kept(c, m)
  /\ k \in Nat
  /\ c.CM \in Blocks => \E j, i \in Nat : /\ BlockAt(c, m, j, i)
                                          /\ k = j * Columns(c.CM, c.args) + i
  /\ c.CM = "LINE" => LineAt(c, m, k)
  /\ c.CM = "SRCH" => SearchAt(c, m, k)

LEMMA LastOfAll ==
  \A r, w, j, i \in Nat :
    j < r /\ i < w => /\ j * w + i < r * w
                      /\ j * w + i + 1 = r * w <=> i + 1 = w /\ j + 1 = r
<1> SUFFICES ASSUME NEW r \in Nat, NEW w \in Nat, NEW j \in Nat, NEW i \in Nat, j < r, i < w
             PROVE  /\ j * w + i < r * w
                    /\ j * w + i + 1 = r * w <=> i + 1 = w /\ j + 1 = r
  OBVIOUS
<1>1. j * w \in Nat /\ r * w \in Nat /\ r - j - 1 \in Nat
  OBVIOUS
<1>2. r * w = j * w + w + (r - j - 1) * w
  OBVIOUS
<1>3. (r - j - 1) * w \in Nat
  BY <1>1
<1>4. r - j - 1 >= 1 => (r - j - 1) * w >= w
  BY <1>1
<1>5. r - j - 1 = 0 => (r - j - 1) * w = 0
  BY <1>1
<1> DEFINE d == (r - j - 1) * w
           p == j * w
           t == r * w
<1> HIDE DEF d, p, t
<1>6. /\ p \in Nat /\ t \in Nat /\ d \in Nat /\ t = p + w + d
      /\ (r - j - 1 >= 1 => d >= w) /\ (r - j - 1 = 0 => d = 0)
  BY <1>1, <1>2, <1>3, <1>4, <1>5 DEF d, p, t
<1>7. p + i < t /\ (p + i + 1 = t <=> i + 1 = w /\ j + 1 = r)
  BY <1>6
<1> QED BY <1>7 DEF p, t

\* An engine goes through the rectangle pixel by pixel and is over at the last.
LEMMA BlockGoes ==
  ASSUME NEW c, c.CM \in Blocks, c.args \in Arguments, NEW m, NEW k, Going(c, m, k)
  PROVE  /\ k < Whole(c)
         /\ BlockOver(c.CM, m) <=> k + 1 = Whole(c)
         /\ ~BlockOver(c.CM, m) => Going(c, BlockNext(c.CM, m), k + 1)
<1> DEFINE a == c.args
           cmd == c.CM
           w == Columns(cmd, a)
           r == Rows(cmd, a)
<1>1. PICK j, i \in Nat : BlockAt(c, m, j, i) /\ k = j * w + i
  BY DEF Going
<1>2. m \in Machine /\ Kept(c, m) /\ k \in Nat
  BY DEF Going
<1>3. w \in Nat /\ r \in Nat /\ j < r /\ i < w
  BY <1>1, ColumnsAre, RowsAre, SizesHold DEF Sizes, BlockAt
<1>4. Whole(c) = r * w
  BY DEF Whole, Size, Blocks
<1>5. BlockOver(cmd, m) <=> i + 1 = w /\ j + 1 = r
  BY <1>1, <1>2, BlockOverIs
<1> HIDE DEF w, r
<1>6. k < Whole(c) /\ (BlockOver(cmd, m) <=> k + 1 = Whole(c))
  BY <1>1, <1>3, <1>4, <1>5, LastOfAll
<1> USE DEF w, r
<1>7. ASSUME ~BlockOver(cmd, m) PROVE Going(c, BlockNext(cmd, m), k + 1)
  <2>1. BlockNext(cmd, m) \in Machine /\ Kept(c, BlockNext(cmd, m))
    BY <1>1, <1>2, <1>7, BlockNextIs
  <2>2. PICK y, x \in Nat : BlockAt(c, BlockNext(cmd, m), y, x) /\ y * w + x = j * w + i + 1
    BY <1>1, <1>2, <1>7, BlockNextIs
  <2>3. cmd # "LINE" /\ cmd # "SRCH"
    BY DEF Blocks
  <2>4. k + 1 \in Nat
    BY <1>2
  <2> HIDE DEF w
  <2>5. k + 1 = y * w + x
    BY <1>1, <2>2
  <2> QED BY <2>1, <2>2, <2>3, <2>4, <2>5 DEF Going, w
<1> QED BY <1>6, <1>7

-----------------------------------------------------------------------------
(***************************************************************************)
(* The picture, pixel by pixel.                                            *)
(***************************************************************************)
\* The reference's i-th pixel, drawn on a screen.
DrawnOn(c, sent, i, screen) ==
  LET a == c.args
      new == CASE c.CM \in FromSource -> screen[Source(c.CM, a, i)]
               [] c.CM = "LMMC" -> sent[i + 1]
               [] OTHER -> c.CL
  IN  [screen EXCEPT ![Destination(c.CM, a, i)] =
         Apply(IF c.CM = "YMMM" THEN "IMP" ELSE a.LO, @, new)]

\* The screen is what the first k pixels make of the picture.
Chain(c, sent, k, screen) ==
  \E g : /\ g[0] = Picture /\ g[k] = screen
         /\ \A i \in 0 .. k - 1 : g[i + 1] = DrawnOn(c, sent, i, g[i])

\* Before its first pixel a command has drawn nothing.
LEMMA ChainStarts ==
  ASSUME NEW c, NEW sent
  PROVE  \A screen : Chain(c, sent, 0, screen) <=> screen = Picture
<1>1. ASSUME NEW screen, screen = Picture PROVE Chain(c, sent, 0, screen)
  <2> DEFINE g == [i \in {0} |-> Picture]
  <2>1. g[0] = Picture /\ g[0] = screen
    BY <1>1
  <2>2. 0 .. 0 - 1 = {}
    OBVIOUS
  <2> HIDE DEF g
  <2>3. \A i \in 0 .. 0 - 1 : g[i + 1] = DrawnOn(c, sent, i, g[i])
    BY <2>2
  <2> QED BY <2>1, <2>3, Zenon DEF Chain
<1>2. ASSUME NEW screen, Chain(c, sent, 0, screen) PROVE screen = Picture
  BY <1>2, Zenon DEF Chain
<1> QED BY <1>1, <1>2, Zenon

\* Drawing the k-th pixel makes a longer chain.
LEMMA ChainGoes ==
  ASSUME NEW c, NEW sent, NEW k \in Nat, NEW screen, Chain(c, sent, k, screen)
  PROVE  Chain(c, sent, k + 1, DrawnOn(c, sent, k, screen))
<1>1. PICK g : /\ g[0] = Picture /\ g[k] = screen
               /\ \A i \in 0 .. k - 1 : g[i + 1] = DrawnOn(c, sent, i, g[i])
  BY Zenon DEF Chain
<1> DEFINE next == DrawnOn(c, sent, k, screen)
           h == [i \in 0 .. k + 1 |-> IF i = k + 1 THEN next ELSE g[i]]
<1> HIDE DEF next
<1>2. h[0] = Picture /\ h[k + 1] = next /\ h[k] = screen
  BY <1>1
<1>3. ASSUME NEW i \in 0 .. (k + 1) - 1 PROVE h[i + 1] = DrawnOn(c, sent, i, h[i])
  <2>1. CASE i = k
    BY <1>2, <2>1 DEF next
  <2>2. CASE i # k
    <3>1. i \in 0 .. k - 1 /\ h[i + 1] = g[i + 1] /\ h[i] = g[i]
      BY <2>2
    <3> HIDE DEF h
    <3> QED BY <1>1, <3>1, Zenon
  <2> QED BY <2>1, <2>2
<1> HIDE DEF h
<1> QED BY <1>2, <1>3, Zenon DEF Chain, next

\* Only LMMC's pixels depend on what the program sent.
LEMMA ChainSame ==
  ASSUME NEW c, NEW sent, NEW more, NEW k \in Nat, NEW screen, Chain(c, sent, k, screen),
         c.CM = "LMMC" => \A i \in 1 .. k : more[i] = sent[i]
  PROVE  Chain(c, more, k, screen)
<1>1. PICK g : /\ g[0] = Picture /\ g[k] = screen
               /\ \A i \in 0 .. k - 1 : g[i + 1] = DrawnOn(c, sent, i, g[i])
  BY Zenon DEF Chain
<1>2. ASSUME NEW i \in 0 .. k - 1 PROVE g[i + 1] = DrawnOn(c, more, i, g[i])
  <2>1. CASE c.CM = "LMMC"
    <3>1. i + 1 \in 1 .. k
      OBVIOUS
    <3>2. more[i + 1] = sent[i + 1]
      BY <2>1, <3>1, Zenon
    <3>3. DrawnOn(c, more, i, g[i]) = DrawnOn(c, sent, i, g[i])
      BY <3>2, Zenon DEF DrawnOn
    <3> QED BY <1>1, <3>3, Zenon
  <2>2. CASE c.CM # "LMMC"
    <3>1. DrawnOn(c, more, i, g[i]) = DrawnOn(c, sent, i, g[i])
      BY <2>2 DEF DrawnOn
    <3> QED BY <1>1, <3>1, Zenon
  <2> QED BY <2>1, <2>2
<1> QED BY <1>1, <1>2, Zenon DEF Chain

\* The chain over all pixels is what the reference draws: two functions
\* that start and go on alike are one, for there is no first difference.
LEMMA ChainEnds ==
  ASSUME NEW c, NEW sent, Steps(c.CM, c.args) \in Nat, NEW screen,
         Chain(c, sent, Steps(c.CM, c.args), screen)
  PROVE  Drawn(c, sent) = screen
<1> DEFINE n == Steps(c.CM, c.args)
           Is(f) == f = [i \in 0 .. n |-> IF i = 0 THEN Picture ELSE DrawnOn(c, sent, i - 1, f[i - 1])]
           after == CHOOSE f : Is(f)
<1>1. Drawn(c, sent) = after[n]
  BY DEF Drawn, DrawnOn
<1>2. PICK g : /\ g[0] = Picture /\ g[n] = screen
               /\ \A i \in 0 .. n - 1 : g[i + 1] = DrawnOn(c, sent, i, g[i])
  BY Zenon DEF Chain
<1> HIDE DEF n
<1>3. n \in Nat
  BY DEF n
<1>4. Is(after)
  <2> DEFINE h == [i \in 0 .. n |-> g[i]]
  <2>1. ASSUME NEW i \in 0 .. n
        PROVE  h[i] = IF i = 0 THEN Picture ELSE DrawnOn(c, sent, i - 1, h[i - 1])
    <3>1. CASE i = 0
      BY <1>2, <3>1
    <3>2. CASE i # 0
      <4>1. i - 1 \in 0 .. n - 1 /\ i - 1 \in 0 .. n /\ (i - 1) + 1 = i
        BY <1>3, <3>2
      <4>2. g[i] = DrawnOn(c, sent, i - 1, g[i - 1])
        BY <1>2, <4>1
      <4>3. h[i] = g[i] /\ h[i - 1] = g[i - 1]
        BY <4>1
      <4> HIDE DEF h
      <4> QED BY <3>2, <4>2, <4>3
    <3> QED BY <3>1, <3>2
  <2>2. h = [i \in 0 .. n |-> IF i = 0 THEN Picture ELSE DrawnOn(c, sent, i - 1, h[i - 1])]
    <3>1. h = [i \in 0 .. n |-> h[i]]
      OBVIOUS
    <3> HIDE DEF h
    <3> QED BY <2>1, <3>1
  <2>3. Is(h)
    BY <2>2, Zenon
  <2> QED BY <2>3, Zenon
<1>5. \A i \in 0 .. n :
        after[i] = IF i = 0 THEN Picture ELSE DrawnOn(c, sent, i - 1, after[i - 1])
  <2> HIDE DEF after
  <2> QED BY <1>4
<1> HIDE DEF after
<1> DEFINE T == {i \in 0 .. n : after[i] # g[i]}
<1>6. T = {}
  <2> SUFFICES ASSUME T # {} PROVE FALSE
    OBVIOUS
  <2>1. T \in SUBSET Nat
    BY <1>3
  <2> HIDE DEF T
  <2>2. PICK x \in T : \A y \in T : x <= y
    BY <2>1, LeastElement
  <2>3. x \in 0 .. n /\ after[x] # g[x]
    BY DEF T
  <2>4. x # 0
    BY <1>2, <1>3, <1>5, <2>3
  <2>5. x - 1 \in 0 .. n - 1 /\ x - 1 \in 0 .. n /\ (x - 1) + 1 = x /\ ~(x <= x - 1)
    BY <1>3, <2>3, <2>4
  <2>6. after[x - 1] = g[x - 1]
    <3>1. x - 1 \notin T
      BY <2>2, <2>5, Zenon
    <3> QED BY <2>5, <3>1 DEF T
  <2>7. g[x] = DrawnOn(c, sent, x - 1, g[x - 1])
    BY <1>2, <2>5
  <2>8. after[x] = DrawnOn(c, sent, x - 1, after[x - 1])
    BY <1>5, <2>3, <2>4
  <2> QED BY <2>3, <2>6, <2>7, <2>8
<1>7. n \in 0 .. n
  BY <1>3
<1>8. after[n] = g[n]
  BY <1>6, <1>7
<1> QED BY <1>1, <1>2, <1>8

-----------------------------------------------------------------------------
(***************************************************************************)
(* An engine draws the reference's pixels.                                 *)
(***************************************************************************)
LEMMA BlockPlaces ==
  ASSUME NEW c, c.CM \in Blocks, c.args \in Arguments, NEW m, NEW k, Going(c, m, k)
  PROVE  /\ c.CM \in ToTarget =>
              Place(c.CM, c.args, c.args.DX, c.args.DY, k) = At(m.ADX, m.DY)
         /\ c.CM \in {"LMMM", "LMCM"} =>
              Place(c.CM, c.args, c.args.SX, c.args.SY, k) = At(m.ASX, m.SY)
         /\ c.CM = "YMMM" =>
              Place(c.CM, c.args, c.args.DX, c.args.SY, k) = At(m.ADX, m.SY)
<1> DEFINE a == c.args
           cmd == c.CM
           w == Columns(cmd, a)
<1>1. PICK j, i \in Nat : BlockAt(c, m, j, i) /\ k = j * w + i
  BY DEF Going
<1>2. w \in Nat \ {0} /\ i < w
  BY <1>1, ColumnsAre, SizesHold DEF Sizes, BlockAt
<1>3. k \div w = j /\ k % w = i
  <2> HIDE DEF w
  <2> QED BY <1>1, <1>2, DivMod
<1>4. \A x, y : Place(cmd, a, x, y, k) = At(x + i * a.TX, y + j * a.TY)
  <2> HIDE DEF w, cmd, a
  <2> QED BY <1>3 DEF Place, w
<1>5. /\ cmd \in FromSource => m.SY = a.SY + j * a.TY
      /\ cmd \in {"LMMM", "LMCM"} => m.ASX = a.SX + i * a.TX
      /\ cmd \in ToTarget => m.DY = a.DY + j * a.TY /\ m.ADX = a.DX + i * a.TX
  BY <1>1 DEF BlockAt
<1>6. /\ "YMMM" \in FromSource /\ "YMMM" \in ToTarget /\ "LMMM" \in FromSource
      /\ "LMCM" \in FromSource
  BY DEF FromSource, ToTarget
<1> HIDE DEF w, cmd, a
<1>7. /\ cmd \in ToTarget => Place(cmd, a, a.DX, a.DY, k) = At(m.ADX, m.DY)
      /\ cmd \in {"LMMM", "LMCM"} => Place(cmd, a, a.SX, a.SY, k) = At(m.ASX, m.SY)
      /\ cmd = "YMMM" => Place(cmd, a, a.DX, a.SY, k) = At(m.ADX, m.SY)
  BY <1>4, <1>5, <1>6
<1> QED BY <1>7 DEF w, cmd, a

\* An engine at the k-th pixel draws the reference's k-th pixel.
LEMMA PlottedIs ==
  ASSUME NEW c, c.CM \in Plotting, c.CM # "SRCH", c.args \in Arguments, VdpEngine = c.CM,
         NEW m, NEW k, Going(c, m, k), NEW sent
  PROVE  Plotted(m) = DrawnOn(c, sent, k, VRAM)
<1> DEFINE a == c.args
<1>1. m.CL = c.CL /\ m.LO = a.LO
  BY DEF Going, Kept
<1>2. CASE c.CM = "LINE"
  <2>1. m.DX = PointX(a, k) /\ m.DY = PointY(a, k)
    BY <1>2 DEF Going, LineAt
  <2>2. Target(m) = Destination("LINE", a, k) /\ Operation(m) = a.LO /\ Color(m) = c.CL
    BY <1>1, <1>2, <2>1 DEF Target, Destination, Operation, Color
  <2>3. Plotted(m) = [VRAM EXCEPT ![Destination("LINE", a, k)] = Apply(a.LO, @, c.CL)]
    BY <1>2, <2>2 DEF Plotted
  <2> QED BY <1>2, <2>3 DEF DrawnOn, FromSource
<1>3. CASE c.CM = "LMMV"
  <2>1. c.CM \in Blocks /\ c.CM \in ToTarget
    BY <1>3 DEF Blocks, ToTarget
  <2>2. Place("LMMV", a, a.DX, a.DY, k) = At(m.ADX, m.DY)
    BY <1>3, <2>1, BlockPlaces
  <2>3. Target(m) = Destination("LMMV", a, k) /\ Operation(m) = a.LO /\ Color(m) = c.CL
    BY <1>1, <1>3, <2>2 DEF Target, Destination, Operation, Color
  <2>4. Plotted(m) = [VRAM EXCEPT ![Destination("LMMV", a, k)] = Apply(a.LO, @, c.CL)]
    BY <1>3, <2>3 DEF Plotted
  <2> QED BY <1>3, <2>4 DEF DrawnOn, FromSource
<1>4. CASE c.CM = "LMMM"
  <2>1. c.CM \in Blocks /\ c.CM \in ToTarget
    BY <1>4 DEF Blocks, ToTarget
  <2>2. /\ Place("LMMM", a, a.DX, a.DY, k) = At(m.ADX, m.DY)
        /\ Place("LMMM", a, a.SX, a.SY, k) = At(m.ASX, m.SY)
    BY <1>4, <2>1, BlockPlaces
  <2>3. /\ Target(m) = Destination("LMMM", a, k) /\ Operation(m) = a.LO
        /\ Color(m) = VRAM[Source("LMMM", a, k)]
    BY <1>1, <1>4, <2>2 DEF Target, Destination, Source, Operation, Color
  <2>4. Plotted(m) = [VRAM EXCEPT ![Destination("LMMM", a, k)] =
                                     Apply(a.LO, @, VRAM[Source("LMMM", a, k)])]
    BY <1>4, <2>3 DEF Plotted
  <2> QED BY <1>4, <2>4 DEF DrawnOn, FromSource
<1>5. CASE c.CM = "YMMM"
  <2>1. c.CM \in Blocks /\ c.CM \in ToTarget
    BY <1>5 DEF Blocks, ToTarget
  <2>2. /\ Place("YMMM", a, a.DX, a.DY, k) = At(m.ADX, m.DY)
        /\ Place("YMMM", a, a.DX, a.SY, k) = At(m.ADX, m.SY)
    BY <1>5, <2>1, BlockPlaces
  <2>3. /\ Target(m) = Destination("YMMM", a, k) /\ Operation(m) = "IMP"
        /\ Color(m) = VRAM[Source("YMMM", a, k)]
    BY <1>1, <1>5, <2>2 DEF Target, Destination, Source, Operation, Color
  <2>4. Plotted(m) = [VRAM EXCEPT ![Destination("YMMM", a, k)] =
                                     Apply("IMP", @, VRAM[Source("YMMM", a, k)])]
    BY <1>5, <2>3 DEF Plotted
  <2> QED BY <1>5, <2>4 DEF DrawnOn, FromSource
<1> QED BY <1>2, <1>3, <1>4, <1>5 DEF Plotting

\* LMMC at the k-th pixel draws the reference's, with the color sent.
LEMMA TransferredIs ==
  ASSUME NEW c, c.CM = "LMMC", c.args \in Arguments, NEW m, NEW k, Going(c, m, k), NEW sent
  PROVE  [VRAM EXCEPT ![At(m.ADX, m.DY)] = Apply(m.LO, @, sent[k + 1])]
         = DrawnOn(c, sent, k, VRAM)
<1> DEFINE a == c.args
<1>1. m.LO = a.LO
  BY DEF Going, Kept
<1>2. c.CM \in Blocks /\ c.CM \in ToTarget
  BY DEF Blocks, ToTarget
<1>3. Place("LMMC", a, a.DX, a.DY, k) = At(m.ADX, m.DY)
  BY <1>2, BlockPlaces
<1>4. At(m.ADX, m.DY) = Destination("LMMC", a, k)
  BY <1>3 DEF Destination
<1> QED BY <1>1, <1>4 DEF DrawnOn, FromSource

LEMMA FetchedFrom ==
  ASSUME NEW c, c.CM = "LMCM", c.args \in Arguments, NEW m, NEW k, Going(c, m, k)
  PROVE  At(m.ASX, m.SY) = Source("LMCM", c.args, k)
<1>1. c.CM \in Blocks
  BY DEF Blocks
<1> QED BY <1>1, BlockPlaces DEF Source

-----------------------------------------------------------------------------
(***************************************************************************)
(* The begin and the end of a command.                                     *)
(***************************************************************************)
LEMMA WholeIs ==
  ASSUME NEW c, c.CM \in Plotting \union Transfers, c.args \in Arguments
  PROVE  /\ Whole(c) \in Nat \ {0}
         /\ Steps(c.CM, c.args) = IF c.CM \in {"SRCH", "LMCM"} THEN 0 ELSE Whole(c)
<1> DEFINE a == c.args
           cmd == c.CM
<1>1. CASE c.CM = "LINE"
  BY <1>1, LastPointIs DEF Whole, Steps
<1>2. CASE c.CM = "SRCH"
  BY <1>2, SearchedToIs DEF Whole, Steps
<1>3. CASE c.CM \in Blocks
  <2>1. Rows(cmd, a) \in Nat \ {0} /\ Columns(cmd, a) \in Nat \ {0}
    BY <1>3, ColumnsAre, RowsAre, SizesHold DEF Sizes
  <2>2. Rows(cmd, a) * Columns(cmd, a) \in Nat \ {0}
    BY <2>1
  <2>3. /\ cmd \notin {"LINE", "SRCH", "POINT", "PSET"}
    BY <1>3 DEF Blocks
  <2> HIDE DEF cmd, a
  <2>4. Whole(c) = Size(cmd, a) /\ (Steps(cmd, a) = IF cmd = "LMCM" THEN 0 ELSE Size(cmd, a))
    BY <2>3 DEF Whole, Steps, cmd, a
  <2> QED BY <2>2, <2>3, <2>4 DEF Size, cmd, a
<1> QED BY <1>1, <1>2, <1>3 DEF Plotting, Transfers, Blocks

\* VDPDraw begins a command before its first pixel.
LEMMA FetchedGoes ==
  ASSUME NEW c, c.CM \in Plotting \union Transfers, c.args \in Arguments, c.CL = R44, R44 \in Colors
  PROVE  Going(c, Fetched(c.CM, c.args), 0)
<1> DEFINE a == c.args
           cmd == c.CM
           m == Fetched(cmd, a)
<1>1. /\ a.SX \in Int /\ a.SY \in Int /\ a.DX \in Int /\ a.DY \in Int
      /\ a.NX \in Int /\ a.NY \in Int /\ a.TX \in Int /\ a.TY \in Int /\ a.EQ \in Int
      /\ a.LO \in Operators
  BY SizesHold DEF Arguments, Sizes, Operators
<1>2. /\ m.SX = a.SX /\ m.SY = a.SY /\ m.DX = a.DX /\ m.DY = a.DY /\ m.TX = a.TX /\ m.TY = a.TY
      /\ m.NX = a.NX /\ m.NY = a.NY /\ m.CL = R44 /\ m.LO = a.LO
      /\ m.ASX = (IF cmd = "LINE" THEN (a.NX - 1) \div 2 ELSE a.SX)
      /\ m.ADX = (IF cmd = "LINE" THEN 0 ELSE a.DX)
      /\ m.ANX = (IF cmd = "SRCH" THEN a.EQ ELSE a.NX)
  BY DEF Fetched
<1>3. m \in Machine
  <2>1. /\ (IF cmd = "LINE" THEN (a.NX - 1) \div 2 ELSE a.SX) \in Int
        /\ (IF cmd = "LINE" THEN 0 ELSE a.DX) \in Int
        /\ (IF cmd = "SRCH" THEN a.EQ ELSE a.NX) \in Int
    BY <1>1
  <2> HIDE DEF cmd, a
  <2> QED BY <1>1, <2>1 DEF Machine, Fetched
<1> HIDE DEF m
<1>4. Kept(c, m)
  BY <1>2 DEF Kept
<1>5. ASSUME cmd \in Blocks PROVE BlockAt(c, m, 0, 0) /\ 0 = 0 * Columns(cmd, a) + 0
  <2>1. /\ Rows(cmd, a) \in Nat \ {0} /\ Columns(cmd, a) \in Nat \ {0}
    BY <1>5, ColumnsAre, RowsAre, SizesHold DEF Sizes
  <2>2. 0 < Rows(cmd, a) /\ 0 < Columns(cmd, a) /\ 0 = 0 * Columns(cmd, a) + 0
    BY <2>1
  <2>3. cmd # "LINE" /\ cmd # "SRCH"
    BY <1>5 DEF Blocks
  <2>4. \A x, t \in Int : x + 0 * t = x /\ x - 0 = x
    OBVIOUS
  <2>5. /\ a.NY = a.NY - 0 /\ a.NX = a.NX - 0 /\ a.SY = a.SY + 0 * a.TY /\ a.SX = a.SX + 0 * a.TX
        /\ a.DY = a.DY + 0 * a.TY /\ a.DX = a.DX + 0 * a.TX
    BY <1>1, <2>4
  <2> HIDE DEF cmd, a
  <2> QED BY <1>2, <2>2, <2>3, <2>5 DEF BlockAt, cmd, a
<1>6. cmd = "LINE" => LineAt(c, m, 0)
  <2>1. 0 <= LastPoint(a)
    BY LastPointIs
  <2>2. /\ PointX(a, 0) = a.DX /\ PointY(a, 0) = a.DY
        /\ a.NX # 0 => /\ Remainder(a, 0) = (a.NX - 1) \div 2
                       /\ 0 <= Remainder(a, 0) /\ Remainder(a, 0) < a.NX
    BY LineStarts
  <2> QED BY <1>2, <2>1, <2>2 DEF LineAt
<1>7. cmd = "SRCH" => SearchAt(c, m, 0)
  <2>1. 0 <= SearchedTo(c)
    BY SearchedToIs
  <2> QED BY <1>1, <1>2, <2>1 DEF SearchAt
<1> QED BY <1>3, <1>4, <1>5, <1>6, <1>7 DEF Going, m

-----------------------------------------------------------------------------
\* What the end of a slice saves is enough to go on.
LEMMA SavedGoes ==
  ASSUME NEW c, c.CM \in Plotting, VdpEngine = c.CM, local \in Machine,
         MMC \in Machine, Kept(c, MMC), NEW n,
         n = [f \in DOMAIN MMC |-> IF f \in Saved THEN local[f] ELSE MMC[f]]
  PROVE  /\ n \in Machine /\ Kept(c, n)
         /\ \A k : Going(c, local, k) => Going(c, n, k)
<1>1. DOMAIN MMC = {"SX", "SY", "DX", "DY", "TX", "TY", "NX", "NY", "ASX", "ADX", "ANX", "CL", "LO"}
  BY DEF Machine
<1>2. /\ n.SX = (IF "SX" \in Saved THEN local.SX ELSE MMC.SX)
      /\ n.SY = (IF "SY" \in Saved THEN local.SY ELSE MMC.SY)
      /\ n.DX = (IF "DX" \in Saved THEN local.DX ELSE MMC.DX)
      /\ n.DY = (IF "DY" \in Saved THEN local.DY ELSE MMC.DY)
      /\ n.TX = (IF "TX" \in Saved THEN local.TX ELSE MMC.TX)
      /\ n.TY = (IF "TY" \in Saved THEN local.TY ELSE MMC.TY)
      /\ n.NX = (IF "NX" \in Saved THEN local.NX ELSE MMC.NX)
      /\ n.NY = (IF "NY" \in Saved THEN local.NY ELSE MMC.NY)
      /\ n.ASX = (IF "ASX" \in Saved THEN local.ASX ELSE MMC.ASX)
      /\ n.ADX = (IF "ADX" \in Saved THEN local.ADX ELSE MMC.ADX)
      /\ n.ANX = (IF "ANX" \in Saved THEN local.ANX ELSE MMC.ANX)
      /\ n.CL = (IF "CL" \in Saved THEN local.CL ELSE MMC.CL)
      /\ n.LO = (IF "LO" \in Saved THEN local.LO ELSE MMC.LO)
  BY <1>1
<1>3. DOMAIN n = {"SX", "SY", "DX", "DY", "TX", "TY", "NX", "NY", "ASX", "ADX", "ANX", "CL", "LO"}
      /\ n = [f \in DOMAIN n |-> n[f]]
  BY <1>1
<1>4. n \in Machine
  BY <1>2, <1>3 DEF Machine
<1>6. CASE c.CM = "LINE"
  <2>1. Saved = {"DX", "DY", "ASX", "ADX"}
    BY <1>6 DEF Saved
  <2>2. /\ n.DX = local.DX /\ n.DY = local.DY /\ n.ASX = local.ASX /\ n.ADX = local.ADX
        /\ n.SX = MMC.SX /\ n.SY = MMC.SY /\ n.TX = MMC.TX /\ n.TY = MMC.TY /\ n.NX = MMC.NX
        /\ n.NY = MMC.NY /\ n.ANX = MMC.ANX /\ n.CL = MMC.CL /\ n.LO = MMC.LO
    BY <1>2, <2>1
  <2>3. Kept(c, n)
    BY <1>6, <2>2 DEF Kept
  <2>4. ASSUME NEW k, Going(c, local, k) PROVE Going(c, n, k)
    <3>1. LineAt(c, n, k) /\ k \in Nat
      BY <1>6, <2>2, <2>4 DEF Going, LineAt
    <3> QED BY <1>4, <1>6, <2>3, <3>1 DEF Going, Blocks
  <2> QED BY <1>4, <2>3, <2>4
<1>7. CASE c.CM = "SRCH"
  <2>1. Saved = {"SX"}
    BY <1>7 DEF Saved
  <2>2. /\ n.DX = MMC.DX /\ n.DY = MMC.DY /\ n.ASX = MMC.ASX /\ n.ADX = MMC.ADX
        /\ n.SX = local.SX /\ n.SY = MMC.SY /\ n.TX = MMC.TX /\ n.TY = MMC.TY /\ n.NX = MMC.NX
        /\ n.NY = MMC.NY /\ n.ANX = MMC.ANX /\ n.CL = MMC.CL /\ n.LO = MMC.LO
    BY <1>2, <2>1
  <2>3. Kept(c, n)
    BY <1>7, <2>2 DEF Kept
  <2>4. ASSUME NEW k, Going(c, local, k) PROVE Going(c, n, k)
    <3>1. SearchAt(c, n, k) /\ k \in Nat
      BY <1>7, <2>2, <2>4 DEF Going, SearchAt
    <3> QED BY <1>4, <1>7, <2>3, <3>1 DEF Going, Blocks
  <2> QED BY <1>4, <2>3, <2>4
<1>8. CASE c.CM \in {"LMMV", "LMMM", "YMMM"}
  <2>1. {"DY", "NY", "ADX"} \subseteq Saved
    BY <1>8 DEF Saved
  <2>2. /\ c.CM # "LMMV" => "SY" \in Saved
        /\ c.CM # "YMMM" => "ANX" \in Saved
        /\ c.CM = "LMMM" => "ASX" \in Saved
    BY <1>8 DEF Saved
  <2>3. {"SX", "DX", "TX", "TY", "NX", "CL", "LO"} \intersect Saved = {}
    BY <1>8 DEF Saved
  <2> HIDE DEF Saved
  <2>4. /\ n.DY = local.DY /\ n.NY = local.NY /\ n.ADX = local.ADX
        /\ c.CM # "LMMV" => n.SY = local.SY
        /\ c.CM # "YMMM" => n.ANX = local.ANX
        /\ c.CM = "LMMM" => n.ASX = local.ASX
        /\ n.SX = MMC.SX /\ n.DX = MMC.DX /\ n.TX = MMC.TX /\ n.TY = MMC.TY /\ n.NX = MMC.NX
        /\ n.CL = MMC.CL /\ n.LO = MMC.LO
    BY <1>2, <2>1, <2>2, <2>3
  <2>5. Kept(c, n)
    BY <1>8, <2>4 DEF Kept
  <2>6. ASSUME NEW k, Going(c, local, k) PROVE Going(c, n, k)
    <3>1. PICK j, i \in Nat : BlockAt(c, local, j, i) /\ k = j * Columns(c.CM, c.args) + i
      BY <1>8, <2>6 DEF Going, Blocks
    <3>2. BlockAt(c, n, j, i)
      BY <1>8, <2>4, <3>1 DEF BlockAt, FromSource, ToTarget
    <3>3. k \in Nat
      BY <2>6 DEF Going
    <3> QED BY <1>4, <1>8, <2>5, <3>1, <3>2, <3>3 DEF Going
  <2> QED BY <1>4, <2>5, <2>6
<1> QED BY <1>6, <1>7, <1>8 DEF Plotting

-----------------------------------------------------------------------------
(***************************************************************************)
(* The registers after a command.                                          *)
(***************************************************************************)
\* The registers that a command writes back.
Registers == [SX : Int, SY : Int, DY : Int, NY : Int, MAJ : {0, 1}]

\* RegistersLeft, of a command c.
LeftBy(c, left) ==
  LET a == c.args
      r == Rows(c.CM, a)
      j == SearchedTo(c)
  IN  /\ c.CM = "SRCH" => left.SX = a.SX + a.TX * (IF Matches(c, j) THEN j ELSE j + 1)
      /\ c.CM = "LINE" => (a.NX # 0 => left.DY = PointY(a, LastPoint(a) + 1) % Height)
      /\ c.CM \in Dots => left.DY = a.DY /\ left.SY = a.SY /\ left.NY = a.NY
      /\ c.CM \in Blocks =>
           /\ left.NY = (a.NY - r) % Height
           /\ c.CM \in ToTarget /\ (a.NY # 0 \/ r < Height) =>
                left.DY = (a.DY + r * a.TY) % Height
           /\ c.CM \in {"LMMM", "YMMM"} /\ (a.NY # 0 \/ r < Height) =>
                left.SY = (a.SY + r * a.TY) % Height

LEMMA LeftIsRegisters ==
  ASSUME regs \in Registers, NEW m \in Machine, VdpEngine \in Plotting \union Transfers
  PROVE  Left(m) \in Registers /\ Left(m).MAJ = regs.MAJ
<1>1. \A y \in Int : y % Height \in Int
  BY SizesHold DEF Sizes
<1>2. /\ m.NY - 1 \in Int /\ m.SX \in Int /\ m.SX + m.TX \in Int /\ m.DY + m.TY \in Int
      /\ m.SY + m.TY \in Int /\ m.SY \in Int /\ m.DY \in Int
  BY DEF Machine
<1> DEFINE next(y) == (IF RowsEnd(m) /\ m.NY - 1 # 0 THEN y ELSE y + m.TY) % Height
           last == (IF RowsEnd(m) THEN m.SY ELSE m.SY + m.TY) % Height
<1>3. next(m.DY) \in Int /\ next(m.SY) \in Int /\ last \in Int /\ (m.NY - 1) % Height \in Int
  BY <1>1, <1>2, Zenon
<1>4. CASE VdpEngine = "LINE"
  <2>1. LineNext(m).DY % Height \in Int
    <3>1. LineNext(m).DY \in Int
      BY LineNextIsMachine DEF Machine
    <3> QED BY <1>1, <3>1
  <2>2. Left(m) = [regs EXCEPT !.DY = LineNext(m).DY % Height]
    BY <1>4 DEF Left
  <2> QED BY <2>1, <2>2 DEF Registers
<1>5. CASE VdpEngine = "SRCH"
  <2>1. Left(m) = [regs EXCEPT !.SX = IF Found(m) THEN m.SX ELSE m.SX + m.TX]
    BY <1>5 DEF Left
  <2> QED BY <1>2, <2>1 DEF Registers
<1> HIDE DEF next, last
<1>6. CASE VdpEngine = "LMCM"
  <2>1. Left(m) = [regs EXCEPT !.NY = (m.NY - 1) % Height, !.SY = last]
    BY <1>6 DEF Left, last
  <2> QED BY <1>3, <2>1 DEF Registers
<1>7. CASE VdpEngine \in {"LMMV", "LMMC"}
  <2>1. Left(m) = [regs EXCEPT !.NY = (m.NY - 1) % Height, !.DY = next(m.DY)]
    BY <1>7 DEF Left, next
  <2> QED BY <1>3, <2>1 DEF Registers
<1>8. CASE VdpEngine \in {"LMMM", "YMMM"}
  <2>1. Left(m) = [regs EXCEPT !.NY = (m.NY - 1) % Height, !.DY = next(m.DY), !.SY = next(m.SY)]
    BY <1>8 DEF Left, next
  <2> QED BY <1>3, <2>1 DEF Registers
<1> QED BY <1>4, <1>5, <1>6, <1>7, <1>8 DEF Plotting, Transfers

\* What the last pixel leaves in the registers.
LEMMA BlockLeaves ==
  ASSUME NEW c, c.CM \in Blocks, c.args \in Arguments, VdpEngine = c.CM, regs \in Registers,
         NEW m, NEW k, Going(c, m, k), BlockOver(c.CM, m)
  PROVE  LeftBy(c, Left(m))
<1> DEFINE a == c.args
           cmd == c.CM
           r == Rows(cmd, a)
           moves == ~(RowsEnd(m) /\ m.NY - 1 # 0)
<1>1. m \in Machine /\ Kept(c, m)
  BY DEF Going
<1>2. PICK j, i \in Nat : BlockAt(c, m, j, i)
  BY DEF Going
<1>3. /\ RowsEnd(m) <=> (j + 1) % Height = a.NY % Height
      /\ j + 1 = r
  BY <1>1, <1>2, BlockOverIs
<1>4. /\ a.SY \in Int /\ a.DY \in Int /\ a.TY \in Int /\ a.NY \in Nat /\ a.NY < Height
      /\ Height \in Nat \ {0} /\ r \in Nat /\ 1 <= r /\ r <= Height
  BY RowsAre, SizesHold DEF Arguments, Sizes
<1>5. m.NY = a.NY - j /\ m.TY = a.TY
  BY <1>1, <1>2 DEF BlockAt, Kept
<1>6. m.NY - 1 = a.NY - r
  BY <1>3, <1>4, <1>5
<1>7. a.NY # 0 \/ r < Height => moves
  <2> HIDE DEF a, r
  <2>1. ASSUME a.NY # 0 \/ r < Height, RowsEnd(m) PROVE m.NY - 1 = 0
    <3>1. r % Height = a.NY
      <4>1. a.NY % Height = a.NY
        BY <1>4
      <4> QED BY <1>3, <2>1, <4>1
    <3>2. CASE r < Height
      <4>1. r % Height = r
        BY <1>4, <3>2
      <4>2. a.NY = r
        BY <3>1, <4>1
      <4> QED BY <1>4, <1>6, <4>2
    <3>3. CASE r = Height
      <4>1. r % Height = 0
        BY <1>4, <3>3
      <4>2. a.NY = 0 /\ ~(r < Height)
        BY <1>4, <3>1, <3>3, <4>1
      <4> QED BY <2>1, <4>2
    <3> QED BY <1>4, <3>2, <3>3
  <2> QED BY <2>1
<1>8. \A y \in Int : (y + j * a.TY) + a.TY = y + (j + 1) * a.TY
  <2>1. \A y, t \in Int : (y + j * t) + t = y + (j + 1) * t
    OBVIOUS
  <2> QED BY <1>4, <2>1, Zenon
<1>9. cmd \in ToTarget => m.DY + m.TY = a.DY + r * a.TY
  <2>1. cmd \in ToTarget => m.DY = a.DY + j * a.TY
    BY <1>2 DEF BlockAt
  <2> QED BY <1>3, <1>4, <1>5, <1>8, <2>1, Zenon
<1>10. cmd \in FromSource => m.SY + m.TY = a.SY + r * a.TY
  <2>1. cmd \in FromSource => m.SY = a.SY + j * a.TY
    BY <1>2 DEF BlockAt
  <2> QED BY <1>3, <1>4, <1>5, <1>8, <2>1, Zenon
<1> DEFINE next(y) == (IF RowsEnd(m) /\ m.NY - 1 # 0 THEN y ELSE y + m.TY) % Height
<1>11. a.NY # 0 \/ r < Height => next(m.DY) = (m.DY + m.TY) % Height /\ next(m.SY) = (m.SY + m.TY) % Height
  BY <1>7, Zenon
<1>12. /\ cmd # "SRCH" /\ cmd # "LINE" /\ cmd \notin Dots
       /\ cmd \in ToTarget <=> cmd # "LMCM"
       /\ cmd \in FromSource <=> cmd \in {"LMMM", "YMMM", "LMCM"}
       /\ cmd \in {"LMMV", "LMMC", "LMMM", "YMMM", "LMCM"}
  BY DEF Blocks, Dots, ToTarget, FromSource
<1>13. /\ Left(m).NY = (m.NY - 1) % Height
       /\ cmd # "LMCM" => Left(m).DY = next(m.DY)
       /\ cmd \in {"LMMM", "YMMM"} => Left(m).SY = next(m.SY)
  <2> DEFINE last == (IF RowsEnd(m) THEN m.SY ELSE m.SY + m.TY) % Height
  <2> HIDE DEF next, last
  <2>1. CASE cmd = "LMCM"
    <3>1. Left(m) = [regs EXCEPT !.NY = (m.NY - 1) % Height, !.SY = last]
      BY <2>1 DEF Left, last
    <3> QED BY <2>1, <3>1 DEF Registers
  <2>2. CASE cmd \in {"LMMV", "LMMC"}
    <3>1. Left(m) = [regs EXCEPT !.NY = (m.NY - 1) % Height, !.DY = next(m.DY)]
      BY <2>2 DEF Left, next
    <3> QED BY <2>2, <3>1 DEF Registers
  <2>3. CASE cmd \in {"LMMM", "YMMM"}
    <3>1. Left(m) = [regs EXCEPT !.NY = (m.NY - 1) % Height, !.DY = next(m.DY), !.SY = next(m.SY)]
      BY <2>3 DEF Left, next
    <3> QED BY <2>3, <3>1 DEF Registers
  <2> QED BY <1>12, <2>1, <2>2, <2>3
<1> HIDE DEF next, r, a, cmd
<1>14. /\ Left(m).NY = (a.NY - r) % Height
       /\ cmd \in ToTarget /\ (a.NY # 0 \/ r < Height) => Left(m).DY = (a.DY + r * a.TY) % Height
       /\ cmd \in {"LMMM", "YMMM"} /\ (a.NY # 0 \/ r < Height) =>
            Left(m).SY = (a.SY + r * a.TY) % Height
  BY <1>6, <1>9, <1>10, <1>11, <1>12, <1>13
<1> QED BY <1>12, <1>14 DEF LeftBy, r, a, cmd

LEMMA LineLeaves ==
  ASSUME NEW c, c.CM = "LINE", c.args \in Arguments, c.args.NY <= c.args.NX,
         regs.MAJ = c.args.MAJ, VdpEngine = "LINE", regs \in Registers,
         NEW m, NEW k, Going(c, m, k), k = LastPoint(c.args)
  PROVE  LeftBy(c, Left(m))
<1> DEFINE a == c.args
<1>1. m \in Machine /\ Kept(c, m) /\ LineAt(c, m, k) /\ k \in Nat
  BY DEF Going
<1>2. a.NX # 0 => LineNext(m).DY = PointY(a, LastPoint(a) + 1)
  BY <1>1, LineStep
<1>3. Left(m) = [regs EXCEPT !.DY = LineNext(m).DY % Height]
  BY DEF Left
<1>4. Left(m).DY = LineNext(m).DY % Height
  BY <1>3 DEF Registers
<1> QED BY <1>2, <1>4 DEF LeftBy, Blocks, Dots

LEMMA SearchLeaves ==
  ASSUME NEW c, c.CM = "SRCH", c.args \in Arguments, VRAM = Picture,
         VdpEngine = "SRCH", regs \in Registers,
         NEW m, NEW k, Going(c, m, k), k = SearchedTo(c)
  PROVE  LeftBy(c, Left(m))
<1> DEFINE a == c.args
<1>1. m \in Machine /\ Kept(c, m) /\ SearchAt(c, m, k) /\ k \in Nat
  BY DEF Going
<1>2. Found(m) <=> Matches(c, k)
  BY <1>1, SearchStep
<1>3. Left(m) = [regs EXCEPT !.SX = IF Found(m) THEN m.SX ELSE m.SX + m.TX]
  BY DEF Left
<1>4. Left(m).SX = IF Found(m) THEN m.SX ELSE m.SX + m.TX
  BY <1>3 DEF Registers
<1>5. m.SX = a.SX + k * a.TX /\ m.TX = a.TX /\ a.SX \in Int /\ a.TX \in Int
  BY <1>1, SizesHold DEF SearchAt, Kept, Arguments, Sizes
<1>6. \A x, t \in Int : x + k * t = x + t * k /\ (x + k * t) + t = x + t * (k + 1)
  BY <1>1
<1>7. m.SX = a.SX + a.TX * k /\ m.SX + m.TX = a.SX + a.TX * (k + 1)
  BY <1>5, <1>6, Zenon
<1>8. Left(m).SX = a.SX + a.TX * (IF Matches(c, k) THEN k ELSE k + 1)
  BY <1>2, <1>4, <1>7
<1> QED BY <1>8 DEF LeftBy, Blocks, Dots

-----------------------------------------------------------------------------
\* A machine goes on from one pixel to the next, until it is at the last.
LEMMA PlotGoes ==
  ASSUME NEW c, c.CM \in Plotting, c.args \in Arguments, VdpEngine = c.CM,
         c.CM = "LINE" => c.args.NY <= c.args.NX,
         regs.MAJ = c.args.MAJ, regs \in Registers,
         c.CM = "SRCH" => VRAM = Picture,
         NEW m, NEW k, Going(c, m, k)
  PROVE  /\ Found(m) => c.CM = "SRCH"
         /\ Found(m) \/ Over(m) <=> k + 1 = Whole(c)
         /\ k + 1 # Whole(c) => Going(c, Following(m), k + 1)
         /\ k + 1 = Whole(c) => LeftBy(c, Left(m))
<1>1. m \in Machine /\ Kept(c, m) /\ k \in Nat
  BY DEF Going
<1>2. Found(m) => c.CM = "SRCH"
  BY DEF Found
<1>3. CASE c.CM = "LINE"
  <2>1. LineAt(c, m, k) /\ Whole(c) = LastPoint(c.args) + 1 /\ LastPoint(c.args) \in Nat
    BY <1>3, LastPointIs DEF Going, Whole
  <2>2. k + 1 = Whole(c) <=> k = LastPoint(c.args)
    BY <1>1, <2>1
  <2>3. Over(m) <=> k = LastPoint(c.args)
    BY <1>1, <1>3, <2>1, LineEnds DEF Over
  <2>4. k # LastPoint(c.args) => /\ LineNext(m) \in Machine
                                 /\ Kept(c, LineNext(m))
                                 /\ LineAt(c, LineNext(m), k + 1)
    BY <1>1, <1>3, <2>1, LineEnds
  <2>5. Following(m) = LineNext(m)
    BY <1>3 DEF Following
  <2>6. k # LastPoint(c.args) => Going(c, Following(m), k + 1)
    BY <1>1, <1>3, <2>4, <2>5 DEF Going, Blocks
  <2>7. k = LastPoint(c.args) => LeftBy(c, Left(m))
    BY <1>3, LineLeaves
  <2> QED BY <1>2, <1>3, <2>2, <2>3, <2>6, <2>7
<1>4. CASE c.CM = "SRCH"
  <2>1. SearchAt(c, m, k) /\ Whole(c) = SearchedTo(c) + 1 /\ SearchedTo(c) \in Nat
    BY <1>4, SearchedToIs DEF Going, Whole
  <2>2. k + 1 = Whole(c) <=> k = SearchedTo(c)
    BY <1>1, <2>1
  <2>3. /\ Found(m) \/ Over(m) <=> k = SearchedTo(c)
        /\ k # SearchedTo(c) => /\ Following(m) \in Machine
                                /\ Kept(c, Following(m))
                                /\ SearchAt(c, Following(m), k + 1)
    BY <1>1, <1>4, <2>1, SearchStep
  <2>4. k # SearchedTo(c) => Going(c, Following(m), k + 1)
    BY <1>1, <1>4, <2>3 DEF Going, Blocks
  <2>5. k = SearchedTo(c) => LeftBy(c, Left(m))
    BY <1>4, SearchLeaves
  <2> QED BY <1>2, <2>2, <2>3, <2>4, <2>5
<1>5. CASE c.CM \in {"LMMV", "LMMM", "YMMM"}
  <2>1. c.CM \in Blocks /\ c.CM # "LINE" /\ c.CM # "SRCH"
    BY <1>5 DEF Blocks
  <2>2. Over(m) <=> BlockOver(c.CM, m)
    BY <2>1 DEF Over
  <2>3. Following(m) = BlockNext(c.CM, m)
    BY <2>1 DEF Following
  <2>4. /\ BlockOver(c.CM, m) <=> k + 1 = Whole(c)
        /\ ~BlockOver(c.CM, m) => Going(c, BlockNext(c.CM, m), k + 1)
    BY <2>1, BlockGoes
  <2>5. BlockOver(c.CM, m) => LeftBy(c, Left(m))
    BY <2>1, BlockLeaves
  <2> QED BY <1>2, <2>1, <2>2, <2>3, <2>4, <2>5
<1> QED BY <1>3, <1>4, <1>5 DEF Plotting

-----------------------------------------------------------------------------
(***************************************************************************)
(* The state.                                                              *)
(***************************************************************************)
TypeOK ==
  /\ VRAM \in [Pixels -> Colors]
  /\ VdpEngine \in Plotting \union Transfers \union {NoCommand}
  /\ MMC \in Machine /\ local \in Machine
  /\ CE \in BOOLEAN /\ TR \in BOOLEAN /\ BD \in BOOLEAN
  /\ R44 \in Colors
  /\ regs \in Registers
  /\ VdpOpsCnt \in Int /\ cnt \in Int /\ delta \in Int
  /\ at \in {"cpu", "engine"}
  /\ moved \in Seq(Colors)

Given ==
  /\ command.CM \in Commands \union {NoCommand, "ABRT"}
  /\ command.CM \in Commands => /\ command.args \in Operands[command.CM]
                                /\ command.CL \in Colors

LEMMA ApplyIsColor ==
  ASSUME NEW lo \in Operators, NEW old \in Colors, NEW new \in Colors
  PROVE  Apply(lo, old, new) \in Colors
<1>1. ASSUME NEW l \in {"IMP", "AND", "OR", "XOR", "NOT"}, NEW x \in {0, 1}, NEW y \in {0, 1}
      PROVE  Logic(l, x, y) \in {0, 1}
  <2>1. x = 0 \/ x = 1
    OBVIOUS
  <2>2. y = 0 \/ y = 1
    OBVIOUS
  <2> QED BY <2>1, <2>2 DEF Logic
<1>2. CASE lo \notin DOMAIN Transparent
  BY <1>1, <1>2 DEF Apply, Operators, Colors
<1>3. CASE lo \in DOMAIN Transparent
  <2>1. Transparent[lo] \in {"IMP", "AND", "OR", "XOR", "NOT"}
    BY <1>3 DEF Transparent
  <2> HIDE DEF Transparent
  <2>2. CASE new = 0
    BY <1>3, <2>2 DEF Apply
  <2>3. CASE new # 0
    BY <1>1, <1>3, <2>1, <2>3 DEF Apply, Colors
  <2> QED BY <2>2, <2>3
<1> QED BY <1>2, <1>3

LEMMA AtIsPixel ==
  ASSUME NEW x \in Int, NEW y \in Int
  PROVE  At(x, y) \in Pixels
<1>1. x % Width \in 0 .. Width - 1 /\ y % Height \in 0 .. Height - 1
  BY SizesHold DEF Sizes
<1> QED BY <1>1 DEF At, Pixels

LEMMA OpsHold ==
  /\ "IMP" \in Operators
  /\ \A a \in Arguments : a.LO \in Operators
BY DEF Operators, Arguments

LEMMA PlottedIsScreen ==
  ASSUME VRAM \in [Pixels -> Colors], NEW m \in Machine
  PROVE  Plotted(m) \in [Pixels -> Colors]
<1>1. /\ m.DX \in Int /\ m.DY \in Int /\ m.ADX \in Int /\ m.ASX \in Int /\ m.SY \in Int
      /\ m.CL \in Colors /\ m.LO \in Operators
  BY DEF Machine
<1>2. Target(m) \in Pixels
  BY <1>1, AtIsPixel DEF Target
<1>3. Color(m) \in Colors
  <2>1. At(m.ASX, m.SY) \in Pixels /\ At(m.ADX, m.SY) \in Pixels
    BY <1>1, AtIsPixel
  <2> QED BY <1>1, <2>1 DEF Color
<1>4. Operation(m) \in Operators
  BY <1>1, OpsHold DEF Operation
<1>5. Apply(Operation(m), VRAM[Target(m)], Color(m)) \in Colors
  BY <1>2, <1>3, <1>4, ApplyIsColor
<1> QED BY <1>2, <1>5 DEF Plotted

\* The machine that goes on: an engine's copy while one draws.
Current == IF at = "engine" /\ VdpEngine \in Plotting THEN local ELSE MMC

\* The pixels a program has sent or received when the command is before its k-th.
SentTo(k) ==
  /\ Len(moved) = (IF TR THEN k ELSE k + 1)
  /\ ~TR => moved[k + 1] = R44

ReceivedTo(k) ==
  LET a == command.args
  IN  /\ (IF TR THEN Len(moved) + 1 ELSE Len(moved)) = k
      /\ \A i \in 1 .. Len(moved) : moved[i] = Picture[Source("LMCM", a, i - 1)]
      /\ TR => R44 = Picture[Source("LMCM", a, k - 1)]

DrawnBefore(k) == IF command.CM \in {"SRCH", "LMCM"} THEN 0 ELSE k

\* A line whose longer side is given first; the other commands are.
Straight == command.CM = "LINE" => command.args.NY <= command.args.NX

\* A command at work has drawn the pixels before its machine's, and no others.
Working ==
  /\ command.CM = VdpEngine
  /\ regs.MAJ = command.args.MAJ
  /\ Kept(command, MMC)
  /\ Straight =>
       \E k \in Nat : /\ Going(command, Current, k)
                      /\ command.CM = "LMMC" => SentTo(k)
                      /\ command.CM = "LMCM" => ReceivedTo(k)
                      /\ Chain(command, moved, DrawnBefore(k), VRAM)

\* A command that has ended has drawn them all.
Ended ==
  LET a == command.args
  IN  /\ Chain(command, moved, Steps(command.CM, a), VRAM)
      /\ command.CM = "LMMC" => Len(moved) = Size("LMMC", a)
      /\ command.CM = "LMCM" => ReceivedTo(Size("LMCM", a))
      /\ command.CM = "POINT" => R44 = Picture[At(a.SX, a.SY)]
      /\ command.CM = "SRCH" => BD = Matches(command, SearchedTo(command))
      /\ LeftBy(command, regs)

Progress ==
  /\ CE => Working
  /\ command.CM \in Commands /\ ~CE /\ Straight => Ended
  /\ command.CM = NoCommand => VRAM = Picture
  /\ command.CM \notin Commands => ~CE

IInv == TypeOK /\ Given /\ Busy /\ Progress

\* A program gives a line its longer side first.
LongAxis == \A a \in Operands["LINE"] : a.NY <= a.NX

LEMMA EngineKinds ==
  /\ NoCommand \notin Commands /\ "ABRT" \notin Commands
  /\ Plotting \subseteq Commands /\ Transfers \subseteq Commands /\ Dots \subseteq Commands
  /\ Plotting \intersect Transfers = {}
  /\ Dots \intersect Plotting = {} /\ Dots \intersect Transfers = {}
  /\ Commands = Plotting \union Transfers \union Dots
  /\ Transfers \subseteq Blocks
BY DEF NoCommand, Commands, Plotting, Transfers, Dots, Blocks

LEMMA IdleIsMachine == Idle \in Machine
BY DEF Idle, Machine, Colors, Operators

LEMMA InitIInv == Init => IInv
<1> SUFFICES ASSUME Init PROVE IInv
  OBVIOUS
<1>1. Picture \in [Pixels -> Colors]
  BY EngineAssumption DEF EngineAssumption
<1>2. TypeOK
  <2>1. regs \in Registers
    BY DEF Init, Registers
  <2>2. <<>> \in Seq(Colors)
    OBVIOUS
  <2>3. VRAM \in [Pixels -> Colors]
    BY <1>1 DEF Init
  <2>4. MMC \in Machine /\ local \in Machine
    BY IdleIsMachine DEF Init
  <2>5. moved \in Seq(Colors)
    BY <2>2 DEF Init
  <2>6. R44 \in Colors
    BY DEF Init, Colors
  <2>7. VdpOpsCnt \in Int /\ cnt \in Int /\ delta \in Int /\ at \in {"cpu", "engine"}
    BY DEF Init
  <2>8. CE \in BOOLEAN /\ TR \in BOOLEAN /\ BD \in BOOLEAN
    BY DEF Init
  <2>9. VdpEngine \in Plotting \union Transfers \union {NoCommand}
    BY DEF Init
  <2> QED BY <2>1, <2>3, <2>4, <2>5, <2>6, <2>7, <2>8, <2>9, Zenon DEF TypeOK
<1>3. command.CM = NoCommand
  BY DEF Init
<1>4. Given /\ Progress
  BY <1>3, EngineKinds DEF Init, Given, Progress
<1>5. Busy
  BY EngineKinds DEF Init, Busy
<1> QED BY <1>2, <1>4, <1>5 DEF IInv

\* What a command at work is.
LEMMA AtWork ==
  ASSUME IInv, CE
  PROVE  /\ command.CM = VdpEngine /\ VdpEngine \in Plotting \union Transfers
         /\ command.args \in Arguments /\ command.args \in Operands[command.CM]
         /\ Working
<1>1. VdpEngine # NoCommand /\ VdpEngine \in Plotting \union Transfers
  BY DEF IInv, TypeOK, Busy
<1>2. Working /\ command.CM = VdpEngine
  BY DEF IInv, Progress, Working
<1>3. command.CM \in Commands
  BY <1>1, <1>2, EngineKinds
<1>4. command.args \in Operands[command.CM]
  BY <1>3 DEF IInv, Given
<1> QED BY <1>1, <1>2, <1>3, <1>4, OperandAssumption DEF OperandAssumption

\* A call of an engine that is already at work.
LEMMA CalledAgain ==
  ASSUME IInv, NEW n \in Int, at = "cpu", CallEngine(VdpEngine, MMC, n),
         VdpEngine' = VdpEngine, MMC' = MMC, CE' = CE
  PROVE  /\ local' \in Machine /\ cnt' \in Int /\ delta' \in Int
         /\ at' \in {"cpu", "engine"}
         /\ at' = "engine" => CE
         /\ at' = "cpu" => VdpEngine = NoCommand \/ n <= 0
         /\ Current' = Current
<1>1. CASE VdpEngine # NoCommand /\ n > 0
  <2>1. at' = "engine" /\ cnt' = n /\ delta' \in Deltas /\ local' = MMC
    BY <1>1 DEF CallEngine
  <2>2. delta' \in Int
    BY <2>1, EngineAssumption DEF EngineAssumption
  <2> QED BY <1>1, <2>1, <2>2 DEF IInv, TypeOK, Busy, Current
<1>2. CASE ~(VdpEngine # NoCommand /\ n > 0)
  BY <1>2 DEF CallEngine, slicing, IInv, TypeOK, Current
<1> QED BY <1>1, <1>2

LEMMA ExpireIInv ==
  ASSUME IInv, Expire
  PROVE  IInv'
<1>1. at = "engine" /\ VdpEngine \in Plotting /\ CE
  BY DEF Expire, IInv, Busy
<1>2. /\ command.CM = VdpEngine /\ command.args \in Arguments /\ Working
  BY <1>1, AtWork
<1>3. /\ VdpOpsCnt' = cnt - delta /\ cnt - delta <= 0
      /\ MMC' = [f \in DOMAIN MMC |-> IF f \in Saved THEN local[f] ELSE MMC[f]]
      /\ at' = "cpu" /\ local' = Idle /\ cnt' = 0 /\ delta' = 0
      /\ VRAM' = VRAM /\ VdpEngine' = VdpEngine /\ CE' = CE /\ TR' = TR /\ BD' = BD
      /\ R44' = R44 /\ regs' = regs /\ command' = command /\ moved' = moved
  BY DEF Expire, Return
<1>4. Current = local
  BY <1>1 DEF Current
<1>5. local \in Machine /\ MMC \in Machine /\ Kept(command, MMC)
  BY <1>2 DEF IInv, TypeOK, Working
<1>6. /\ MMC' \in Machine /\ Kept(command, MMC')
      /\ \A k : Going(command, local, k) => Going(command, MMC', k)
  BY <1>1, <1>2, <1>3, <1>5, SavedGoes
<1>7. Current' = MMC'
  BY <1>3 DEF Current
<1>8. command.CM # "LMMC" /\ command.CM # "LMCM"
  BY <1>1, <1>2 DEF Plotting
<1>9. Straight' <=> Straight
  BY <1>3 DEF Straight
<1>10. Working'
  <2>1. regs.MAJ = command.args.MAJ
    BY <1>2 DEF Working
  <2>2. ASSUME Straight
        PROVE  \E k \in Nat : /\ Going(command, MMC', k)
                              /\ Chain(command, moved, DrawnBefore(k)', VRAM)
    <3>1. PICK k \in Nat : /\ Going(command, local, k)
                           /\ Chain(command, moved, DrawnBefore(k), VRAM)
      BY <1>2, <1>4, <2>2 DEF Working
    <3>2. DrawnBefore(k)' = DrawnBefore(k)
      BY <1>3 DEF DrawnBefore
    <3> QED BY <1>6, <3>1, <3>2
  <2> QED BY <1>2, <1>3, <1>6, <1>7, <1>8, <1>9, <2>1, <2>2 DEF Working
<1>11. TypeOK'
  <2>1. cnt - delta \in Int
    BY DEF IInv, TypeOK
  <2> QED BY <1>3, <1>6, <2>1, IdleIsMachine DEF IInv, TypeOK
<1>12. Given' /\ Busy'
  BY <1>1, <1>3 DEF IInv, Given, Busy, TypeOK
<1>13. command.CM \in Commands /\ command.CM # NoCommand
  BY <1>1, <1>2, EngineKinds
<1>14. Progress'
  BY <1>1, <1>3, <1>10, <1>13 DEF Progress
<1> QED BY <1>11, <1>12, <1>14 DEF IInv

LEMMA FollowingIsMachine ==
  ASSUME NEW m \in Machine
  PROVE  Following(m) \in Machine
<1>1. /\ m.SX \in Int /\ m.SY \in Int /\ m.DX \in Int /\ m.DY \in Int /\ m.TX \in Int
      /\ m.TY \in Int /\ m.NX \in Int /\ m.NY \in Int /\ m.ASX \in Int /\ m.ADX \in Int
      /\ m.ANX \in Int
  BY DEF Machine
<1>2. [m EXCEPT !.SX = m.SX + m.TX] \in Machine
  <2>1. m.SX + m.TX \in Int
    BY <1>1
  <2> QED BY <2>1 DEF Machine
<1>3. [m EXCEPT !.ANX = m.ANX - 1, !.ASX = m.ASX + m.TX, !.ADX = m.ADX + m.TX] \in Machine
  <2>1. m.ANX - 1 \in Int /\ m.ASX + m.TX \in Int /\ m.ADX + m.TX \in Int
    BY <1>1
  <2> QED BY <2>1 DEF Machine
<1>4. ASSUME NEW sy PROVE NextRow(m, sy) \in Machine
  <2>1. /\ m.NY - 1 \in Int /\ m.DY + m.TY \in Int
        /\ (IF sy THEN m.SY + m.TY ELSE m.SY) \in Int
    BY <1>1
  <2> QED BY <1>1, <2>1 DEF NextRow, Machine
<1>5. BlockNext(VdpEngine, m) \in Machine
  BY <1>3, <1>4 DEF BlockNext
<1> QED BY <1>2, <1>5, LineNextIsMachine DEF Following

LEMMA PlotIInv ==
  ASSUME IInv, Plot
  PROVE  IInv'
<1>1. at = "engine" /\ VdpEngine \in Plotting /\ CE
  BY DEF Plot, IInv, Busy
<1>2. /\ command.CM = VdpEngine /\ command.args \in Arguments /\ Working
      /\ command.args \in Operands[command.CM]
  BY <1>1, AtWork
<1>3. /\ VRAM' = Plotted(local)
      /\ TR' = TR /\ R44' = R44 /\ command' = command /\ moved' = moved
  BY DEF Plot
<1>4. Current = local
  BY <1>1 DEF Current
<1>5. /\ local \in Machine /\ MMC \in Machine /\ Kept(command, MMC)
      /\ regs \in Registers /\ regs.MAJ = command.args.MAJ
  BY <1>2 DEF IInv, TypeOK, Working
<1>6. /\ command.CM # "LMMC" /\ command.CM # "LMCM" /\ command.CM \in Plotting
      /\ command.CM \notin Dots
      /\ command.CM \in Commands /\ command.CM # NoCommand
  BY <1>1, <1>2, EngineKinds DEF Plotting, Dots
<1>7. VRAM' \in [Pixels -> Colors]
  BY <1>3, <1>5, PlottedIsScreen DEF IInv, TypeOK
<1>8. cnt - delta \in Int
  BY DEF IInv, TypeOK
<1>9. Straight' <=> Straight
  BY <1>3 DEF Straight
<1>10. ASSUME Straight
       PROVE  \E k \in Nat :
                /\ Going(command, local, k)
                /\ Found(local) \/ Over(local) <=> k + 1 = Whole(command)
                /\ command.CM = "SRCH" =>
                     VRAM' = Picture /\ (Found(local) <=> Matches(command, k))
                /\ command.CM # "SRCH" => Chain(command, moved, k + 1, VRAM')
                /\ k + 1 # Whole(command) => Going(command, Following(local), k + 1)
                /\ k + 1 = Whole(command) => LeftBy(command, Left(local))
  <2>1. PICK k \in Nat : /\ Going(command, local, k)
                         /\ Chain(command, moved, DrawnBefore(k), VRAM)
    BY <1>2, <1>4, <1>10 DEF Working
  <2>2. command.CM = "LINE" => command.args.NY <= command.args.NX
    BY <1>10 DEF Straight
  <2>3. command.CM = "SRCH" => VRAM = Picture
    BY <2>1, ChainStarts DEF DrawnBefore
  <2>4. /\ Found(local) \/ Over(local) <=> k + 1 = Whole(command)
        /\ k + 1 # Whole(command) => Going(command, Following(local), k + 1)
        /\ k + 1 = Whole(command) => LeftBy(command, Left(local))
    BY <1>2, <1>5, <1>6, <2>1, <2>2, <2>3, PlotGoes
  <2>5. ASSUME command.CM = "SRCH"
        PROVE  VRAM' = Picture /\ (Found(local) <=> Matches(command, k))
    <3>1. VRAM' = Picture
      BY <1>2, <1>3, <2>3, <2>5 DEF Plotted
    <3>2. SearchAt(command, local, k) /\ Kept(command, local)
      BY <2>1, <2>5 DEF Going
    <3>3. Found(local) <=> Matches(command, k)
      BY <1>2, <1>5, <2>3, <2>5, <3>2, SearchStep
    <3> QED BY <3>1, <3>3
  <2>6. ASSUME command.CM # "SRCH" PROVE Chain(command, moved, k + 1, VRAM')
    <3>1. VRAM' = DrawnOn(command, moved, k, VRAM)
      BY <1>2, <1>3, <1>6, <2>1, <2>6, PlottedIs
    <3>2. Chain(command, moved, k, VRAM)
      BY <1>6, <2>1, <2>6 DEF DrawnBefore
    <3> QED BY <3>1, <3>2, ChainGoes
  <2> QED BY <2>1, <2>4, <2>5, <2>6, Zenon
<1>11. Following(local) \in Machine
  BY <1>5, FollowingIsMachine
<1>12. CASE Found(local) \/ Over(local)
  <2>1. /\ VdpOpsCnt' = cnt - delta
        /\ CE' = FALSE /\ VdpEngine' = NoCommand /\ MMC' = Idle
        /\ BD' = (IF VdpEngine = "SRCH" THEN Found(local) ELSE BD)
        /\ regs' = Left(local)
        /\ at' = "cpu" /\ local' = Idle /\ cnt' = 0 /\ delta' = 0
    BY <1>12 DEF Plot, Finish, Return
  <2>2. regs' \in Registers
    BY <1>1, <1>5, <2>1, LeftIsRegisters DEF Plotting
  <2>3. BD' \in BOOLEAN
    <3>1. Found(local) \in BOOLEAN
      BY DEF Found
    <3> QED BY <2>1, <3>1 DEF IInv, TypeOK
  <2>4. TypeOK'
    <3>1. /\ VdpEngine' \in Plotting \union Transfers \union {NoCommand}
          /\ at' \in {"cpu", "engine"}
          /\ VdpOpsCnt' \in Int /\ cnt' \in Int /\ delta' \in Int
      BY <1>8, <2>1
    <3>2. CE' \in BOOLEAN /\ MMC' \in Machine /\ local' \in Machine
      BY <2>1, IdleIsMachine
    <3>3. TR' \in BOOLEAN /\ R44' \in Colors /\ moved' \in Seq(Colors)
      BY <1>3 DEF IInv, TypeOK
    <3> QED BY <1>7, <2>2, <2>3, <3>1, <3>2, <3>3, Zenon DEF TypeOK
  <2>5. ASSUME Straight PROVE Ended'
    <3>1. PICK k \in Nat :
            /\ k + 1 = Whole(command)
            /\ command.CM = "SRCH" => VRAM' = Picture /\ (Found(local) <=> Matches(command, k))
            /\ command.CM # "SRCH" => Chain(command, moved, k + 1, VRAM')
            /\ LeftBy(command, Left(local))
      BY <1>10, <1>12, <2>5
    <3>2. Chain(command, moved, Steps(command.CM, command.args), VRAM')
      <4>1. Steps(command.CM, command.args) = IF command.CM = "SRCH" THEN 0 ELSE k + 1
        BY <1>2, <1>6, <3>1, WholeIs
      <4> QED BY <3>1, <4>1, ChainStarts
    <3>3. ASSUME command.CM = "SRCH" PROVE BD' = Matches(command, SearchedTo(command))
      <4>1. k = SearchedTo(command)
        <5>1. SearchedTo(command) \in Nat
          BY <1>2, SearchedToIs
        <5> QED BY <3>1, <3>3, <5>1 DEF Whole
      <4>2. Found(local) \in BOOLEAN /\ Matches(command, k) \in BOOLEAN
        BY DEF Found, Matches
      <4> QED BY <1>2, <2>1, <3>1, <3>3, <4>1, <4>2
    <3>4. LeftBy(command, regs')
      BY <2>1, <3>1
    <3>5. command.CM # "POINT"
      BY <1>6 DEF Dots
    <3> QED BY <1>3, <1>6, <3>2, <3>3, <3>4, <3>5 DEF Ended
  <2>6. Progress'
    BY <1>3, <1>6, <1>9, <2>1, <2>5 DEF Progress
  <2>7. Busy'
    BY <2>1, EngineKinds DEF Busy
  <2>8. Given'
    BY <1>3 DEF IInv, Given
  <2> QED BY <2>4, <2>6, <2>7, <2>8 DEF IInv
<1>13. CASE ~(Found(local) \/ Over(local))
  <2>1. /\ local' = Following(local) /\ cnt' = cnt - delta
        /\ VdpOpsCnt' = VdpOpsCnt /\ VdpEngine' = VdpEngine /\ MMC' = MMC /\ CE' = CE /\ BD' = BD
        /\ regs' = regs /\ delta' = delta /\ at' = at
    BY <1>13 DEF Plot
  <2>2. TypeOK'
    BY <1>3, <1>7, <1>8, <1>11, <1>13, <2>1 DEF IInv, TypeOK
  <2>3. Current' = local'
    BY <1>1, <2>1 DEF Current
  <2>4. ASSUME Straight
        PROVE  \E k \in Nat : /\ Going(command, local', k)
                              /\ Chain(command, moved, DrawnBefore(k)', VRAM')
    <3>1. PICK k \in Nat :
            /\ command.CM = "SRCH" => VRAM' = Picture
            /\ command.CM # "SRCH" => Chain(command, moved, k + 1, VRAM')
            /\ Going(command, Following(local), k + 1)
      BY <1>10, <1>13, <2>4
    <3>2. k + 1 \in Nat
      OBVIOUS
    <3>3. Chain(command, moved, DrawnBefore(k + 1)', VRAM')
      BY <1>3, <1>6, <3>1, ChainStarts DEF DrawnBefore
    <3> QED BY <2>1, <3>1, <3>2, <3>3
  <2>5. Working'
    BY <1>2, <1>3, <1>5, <1>6, <1>9, <2>1, <2>3, <2>4 DEF Working
  <2>6. Progress'
    BY <1>1, <1>3, <1>6, <2>1, <2>5 DEF Progress
  <2>7. Given' /\ Busy'
    BY <1>1, <1>3, <2>1 DEF IInv, Given, Busy
  <2> QED BY <2>2, <2>6, <2>7 DEF IInv
<1> QED BY <1>12, <1>13

LEMMA TransferIInv ==
  ASSUME IInv, Transfer
  PROVE  IInv'
<1> DEFINE a == command.args
           cmd == command.CM
<1>1. at = "engine" /\ VdpEngine \in Transfers /\ CE /\ VdpEngine \notin Plotting
  BY EngineKinds DEF Transfer, IInv, Busy
<1>2. /\ cmd = VdpEngine /\ a \in Arguments /\ Working
  BY <1>1, AtWork
<1>3. /\ BD' = BD /\ command' = command /\ moved' = moved
      /\ at' = "cpu" /\ local' = Idle /\ cnt' = 0 /\ delta' = 0
  BY DEF Transfer, Return
<1>4. Current = MMC
  BY <1>1 DEF Current
<1>5. Current' = MMC'
  BY <1>3 DEF Current
<1>6. PICK k \in Nat : /\ Going(command, MMC, k)
                       /\ command.CM = "LMMC" => SentTo(k)
                       /\ command.CM = "LMCM" => ReceivedTo(k)
                       /\ Chain(command, moved, DrawnBefore(k), VRAM)
  <2>1. Straight
    BY <1>1, <1>2 DEF Straight, Transfers
  <2> QED BY <1>2, <1>4, <2>1 DEF Working
<1>7. /\ MMC \in Machine /\ Kept(command, MMC) /\ regs.MAJ = a.MAJ
      /\ regs \in Registers /\ R44 \in Colors /\ VRAM \in [Pixels -> Colors]
      /\ VdpOpsCnt \in Int /\ cnt - delta \in Int /\ CE \in BOOLEAN /\ TR \in BOOLEAN /\ BD \in BOOLEAN
      /\ moved \in Seq(Colors)
  BY <1>2 DEF IInv, TypeOK, Working
<1>8. cmd \in Commands /\ cmd # NoCommand /\ cmd \in {"LMCM", "LMMC"} /\ cmd \in Blocks
  BY <1>1, <1>2, EngineKinds DEF Transfers
<1>9. CASE TR
  <2>1. /\ VRAM' = VRAM /\ VdpEngine' = VdpEngine /\ MMC' = MMC /\ CE' = CE /\ TR' = TR
        /\ R44' = R44 /\ regs' = regs /\ VdpOpsCnt' = VdpOpsCnt
    BY <1>9 DEF Transfer
  <2>2. TypeOK'
    BY <1>1, <1>3, <1>7, <2>1, IdleIsMachine DEF IInv, TypeOK
  <2>3. Current' = Current
    BY <1>4, <1>5, <2>1
  <2>4. Working'
    BY <1>2, <1>3, <2>1, <2>3 DEF Working, Straight, SentTo, ReceivedTo, DrawnBefore
  <2>5. Progress'
    BY <1>1, <1>3, <1>8, <2>1, <2>4 DEF Progress
  <2>6. Given' /\ Busy'
    BY <1>1, <1>3, <2>1 DEF IInv, Given, Busy
  <2> QED BY <2>2, <2>5, <2>6 DEF IInv
<1>10. CASE ~TR
  <2>1. /\ TR' = TRUE /\ VdpOpsCnt' = cnt - delta
        /\ cmd = "LMCM" => R44' = VRAM[At(MMC.ASX, MMC.SY)] /\ VRAM' = VRAM
        /\ cmd = "LMMC" =>
             /\ VRAM' = [VRAM EXCEPT ![At(MMC.ADX, MMC.DY)] = Apply(MMC.LO, @, R44)]
             /\ R44' = R44
        /\ BlockOver(cmd, MMC) =>
             CE' = FALSE /\ VdpEngine' = NoCommand /\ MMC' = Idle /\ regs' = Left(MMC)
        /\ ~BlockOver(cmd, MMC) =>
             MMC' = BlockNext(cmd, MMC) /\ CE' = CE /\ VdpEngine' = VdpEngine /\ regs' = regs
    BY <1>2, <1>8, <1>10 DEF Transfer, Finish
  <2>2. /\ MMC.ASX \in Int /\ MMC.SY \in Int /\ MMC.ADX \in Int /\ MMC.DY \in Int
        /\ MMC.LO \in Operators
    BY <1>7 DEF Machine
  <2>3. VRAM' \in [Pixels -> Colors] /\ R44' \in Colors
    <3>1. CASE cmd = "LMCM"
      <4>1. At(MMC.ASX, MMC.SY) \in Pixels
        BY <2>2, AtIsPixel
      <4> QED BY <1>7, <2>1, <3>1, <4>1
    <3>2. CASE cmd = "LMMC"
      <4>1. At(MMC.ADX, MMC.DY) \in Pixels
        BY <2>2, AtIsPixel
      <4>2. Apply(MMC.LO, VRAM[At(MMC.ADX, MMC.DY)], R44) \in Colors
        BY <1>7, <2>2, <4>1, ApplyIsColor
      <4> QED BY <1>7, <2>1, <3>2, <4>1, <4>2
    <3> QED BY <1>8, <3>1, <3>2
  <2>4. cmd = "LMMC" => /\ Len(moved) = k + 1
                        /\ Chain(command, moved, k + 1, VRAM')
    <3>1. ASSUME cmd = "LMMC" PROVE Len(moved) = k + 1 /\ Chain(command, moved, k + 1, VRAM')
      <4>1. Len(moved) = k + 1 /\ moved[k + 1] = R44
        BY <1>6, <1>10, <3>1 DEF SentTo
      <4>2. VRAM' = DrawnOn(command, moved, k, VRAM)
        BY <1>2, <1>6, <2>1, <3>1, <4>1, TransferredIs
      <4>3. Chain(command, moved, k, VRAM)
        BY <1>6, <3>1 DEF DrawnBefore
      <4> QED BY <4>1, <4>2, <4>3, ChainGoes
    <3> QED BY <3>1
  <2>5. cmd = "LMCM" => ReceivedTo(k + 1)' /\ VRAM' = Picture
    <3>1. ASSUME cmd = "LMCM" PROVE ReceivedTo(k + 1)' /\ VRAM' = Picture
      <4>1. VRAM = Picture
        BY <1>6, <3>1, ChainStarts DEF DrawnBefore
      <4>2. R44' = Picture[Source("LMCM", a, k)]
        BY <1>2, <1>6, <2>1, <3>1, <4>1, FetchedFrom
      <4>3. /\ Len(moved) = k
            /\ \A i \in 1 .. Len(moved) : moved[i] = Picture[Source("LMCM", a, i - 1)]
        BY <1>6, <1>10, <3>1 DEF ReceivedTo
      <4>4. (k + 1) - 1 = k
        OBVIOUS
      <4> QED BY <1>3, <2>1, <3>1, <4>1, <4>2, <4>3, <4>4 DEF ReceivedTo
    <3> QED BY <3>1
  <2>6. Size(cmd, a) = Whole(command)
    BY <1>8 DEF Whole
  <2>7. Steps(cmd, a) = IF cmd = "LMCM" THEN 0 ELSE Whole(command)
    BY <1>1, <1>2, <1>8, WholeIs
  <2>8. /\ BlockOver(cmd, MMC) <=> k + 1 = Whole(command)
        /\ ~BlockOver(cmd, MMC) => Going(command, BlockNext(cmd, MMC), k + 1)
    BY <1>2, <1>6, <1>8, BlockGoes
  <2>9. CASE BlockOver(cmd, MMC)
    <3>1. CE' = FALSE /\ VdpEngine' = NoCommand /\ MMC' = Idle /\ regs' = Left(MMC)
      BY <2>1, <2>9
    <3>2. LeftBy(command, regs')
      BY <1>2, <1>6, <1>7, <1>8, <2>9, <3>1, BlockLeaves
    <3>3. regs' \in Registers
      BY <1>1, <1>2, <1>7, <1>8, <3>1, LeftIsRegisters
    <3>4. TypeOK'
      <4>1. /\ VdpEngine' \in Plotting \union Transfers \union {NoCommand}
            /\ at' \in {"cpu", "engine"}
            /\ VdpOpsCnt' \in Int /\ cnt' \in Int /\ delta' \in Int
        BY <1>3, <1>7, <2>1, <3>1
      <4>2. CE' \in BOOLEAN /\ TR' \in BOOLEAN /\ MMC' \in Machine /\ local' \in Machine
        BY <1>3, <2>1, <3>1, IdleIsMachine
      <4>3. BD' \in BOOLEAN /\ moved' \in Seq(Colors)
        BY <1>3, <1>7
      <4> QED BY <2>3, <3>3, <4>1, <4>2, <4>3, Zenon DEF TypeOK
    <3>5. Ended'
      <4>1. Chain(command, moved, Steps(cmd, a), VRAM')
        BY <1>8, <2>4, <2>5, <2>7, <2>8, <2>9, ChainStarts
      <4>2. cmd = "LMMC" => Len(moved) = Size("LMMC", a)
        BY <2>4, <2>6, <2>8, <2>9
      <4>3. cmd = "LMCM" => ReceivedTo(Size("LMCM", a))'
        <5>1. k + 1 = Size(cmd, a)
          BY <2>6, <2>8, <2>9
        <5>2. cmd = "LMCM" => ReceivedTo(k + 1)'
          BY <2>5
        <5> QED BY <1>3, <5>1, <5>2 DEF ReceivedTo
      <4> QED BY <1>3, <1>8, <3>2, <4>1, <4>2, <4>3 DEF Ended
    <3>6. Progress'
      BY <1>3, <1>8, <3>1, <3>5 DEF Progress
    <3>7. Busy'
      BY <1>3, <3>1, EngineKinds DEF Busy
    <3>8. Given'
      BY <1>3 DEF IInv, Given
    <3> QED BY <3>4, <3>6, <3>7, <3>8 DEF IInv
  <2>10. CASE ~BlockOver(cmd, MMC)
    <3>1. MMC' = BlockNext(cmd, MMC) /\ CE' = CE /\ VdpEngine' = VdpEngine /\ regs' = regs
      BY <2>1, <2>10
    <3>2. Going(command, MMC', k + 1)
      BY <2>8, <2>10, <3>1
    <3>3. MMC' \in Machine /\ Kept(command, MMC')
      BY <3>2 DEF Going
    <3>4. TypeOK'
      <4>1. /\ VdpEngine' \in Plotting \union Transfers \union {NoCommand}
            /\ at' \in {"cpu", "engine"}
            /\ VdpOpsCnt' \in Int /\ cnt' \in Int /\ delta' \in Int
        BY <1>1, <1>3, <1>7, <2>1, <3>1
      <4>2. CE' \in BOOLEAN /\ TR' \in BOOLEAN /\ local' \in Machine
        BY <1>3, <1>7, <2>1, <3>1, IdleIsMachine
      <4>3. BD' \in BOOLEAN /\ moved' \in Seq(Colors) /\ regs' \in Registers
        BY <1>3, <1>7, <3>1
      <4> QED BY <2>3, <3>3, <4>1, <4>2, <4>3, Zenon DEF TypeOK
    <3>5. Working'
      <4>1. k + 1 \in Nat
        OBVIOUS
      <4>2. cmd = "LMMC" => SentTo(k + 1)'
        BY <1>3, <2>1, <2>4 DEF SentTo
      <4>3. Chain(command, moved, DrawnBefore(k + 1)', VRAM')
        BY <1>3, <1>8, <2>4, <2>5, ChainStarts DEF DrawnBefore
      <4> HIDE DEF a, cmd
      <4>4. command.CM = "LMMC" => SentTo(k + 1)'
        BY <4>2 DEF cmd
      <4>5. command.CM = "LMCM" => ReceivedTo(k + 1)'
        BY <2>5 DEF cmd
      <4>6. command.CM = VdpEngine /\ regs.MAJ = command.args.MAJ
        BY <1>2, <1>7 DEF cmd, a
      <4> QED BY <1>3, <1>5, <3>1, <3>2, <3>3, <4>1, <4>3, <4>4, <4>5, <4>6 DEF Working
    <3>6. Progress'
      BY <1>1, <1>3, <1>8, <3>1, <3>5 DEF Progress
    <3>7. Given' /\ Busy'
      BY <1>1, <1>3, <3>1 DEF IInv, Given, Busy
    <3> QED BY <3>4, <3>6, <3>7 DEF IInv
  <2> QED BY <2>9, <2>10
<1> QED BY <1>7, <1>9, <1>10

LEMMA VDPDrawIInv ==
  ASSUME IInv, NEW cmd \in Commands, NEW a \in Operands[cmd], VDPDraw(cmd, a)
  PROVE  IInv'
<1> DEFINE m == Fetched(cmd, a)
           c == [CM |-> cmd, args |-> a, CL |-> R44]
<1>1. /\ at = "cpu" /\ ~CE /\ command.CM = NoCommand /\ cmd \notin Dots
      /\ cmd = "LMMC" \/ cmd = "LMCM" => ~TR
      /\ VdpEngine' = cmd /\ MMC' = m /\ CE' = TRUE
      /\ regs' = [SX |-> regs.SX, SY |-> a.SY, DY |-> a.DY, NY |-> a.NY, MAJ |-> a.MAJ]
      /\ CallEngine(cmd, m, VdpOpsCnt)
      /\ command' = c
      /\ moved' = (IF cmd = "LMMC" THEN <<R44>> ELSE <<>>)
      /\ VRAM' = VRAM /\ TR' = TR /\ BD' = BD /\ R44' = R44 /\ VdpOpsCnt' = VdpOpsCnt
  BY DEF VDPDraw
<1>2. cmd \in Plotting \union Transfers /\ cmd # NoCommand /\ cmd # "ABRT"
  BY <1>1, EngineKinds
<1>3. a \in Arguments
  BY OperandAssumption DEF OperandAssumption
<1>4. /\ R44 \in Colors /\ VRAM \in [Pixels -> Colors] /\ TR \in BOOLEAN /\ BD \in BOOLEAN
      /\ VdpOpsCnt \in Int /\ cnt \in Int /\ delta \in Int /\ local \in Machine /\ regs \in Registers
  BY DEF IInv, TypeOK
<1>5. VRAM = Picture
  BY <1>1 DEF IInv, Progress
<1>6. c.CM = cmd /\ c.args = a /\ c.CL = R44
  OBVIOUS
<1> HIDE DEF c
<1>7. Going(c, m, 0)
  BY <1>2, <1>3, <1>4, <1>6, FetchedGoes
<1> HIDE DEF m
<1>8. m \in Machine /\ Kept(c, m)
  BY <1>7 DEF Going
<1>9. /\ at' \in {"cpu", "engine"} /\ cnt' \in Int /\ delta' \in Int /\ local' \in Machine
      /\ at' = "engine" => local' = m
      /\ at' = "cpu" => VdpOpsCnt <= 0
  <2>1. CASE VdpOpsCnt > 0
    <3>1. at' = "engine" /\ local' = m /\ cnt' = VdpOpsCnt /\ delta' \in Deltas
      BY <1>1, <1>2, <2>1 DEF CallEngine
    <3>2. delta' \in Int
      BY <3>1, EngineAssumption DEF EngineAssumption
    <3> QED BY <1>4, <1>8, <3>1, <3>2
  <2>2. CASE ~(VdpOpsCnt > 0)
    <3>1. at' = at /\ local' = local /\ cnt' = cnt /\ delta' = delta
      BY <1>1, <2>2 DEF CallEngine, slicing
    <3> QED BY <1>1, <1>4, <2>2, <3>1
  <2> QED BY <2>1, <2>2
<1>10. Current' = m
  BY <1>1, <1>9 DEF Current
<1>11. regs' \in Registers /\ regs'.MAJ = a.MAJ
  <2>1. a.SY \in Int /\ a.DY \in Int /\ a.NY \in Int /\ a.MAJ \in {0, 1} /\ regs.SX \in Int
    BY <1>3, <1>4, SizesHold DEF Arguments, Sizes, Registers
  <2> QED BY <1>1, <2>1 DEF Registers
<1>12. moved' \in Seq(Colors)
  <2>1. <<R44>> \in Seq(Colors) /\ <<>> \in Seq(Colors)
    BY <1>4
  <2> QED BY <1>1, <2>1
<1>13. TypeOK'
  <2>1. VdpEngine' \in Plotting \union Transfers \union {NoCommand} /\ CE' \in BOOLEAN
    BY <1>1, <1>2
  <2>2. VRAM' \in [Pixels -> Colors] /\ TR' \in BOOLEAN /\ BD' \in BOOLEAN /\ R44' \in Colors
        /\ VdpOpsCnt' \in Int /\ MMC' \in Machine
    BY <1>1, <1>4, <1>8
  <2> QED BY <1>9, <1>11, <1>12, <2>1, <2>2, Zenon DEF TypeOK
<1>14. Working'
  <2>1. command' = c /\ c.CM = VdpEngine' /\ regs'.MAJ = c.args.MAJ /\ MMC' = m
    BY <1>1, <1>6, <1>11
  <2>2. c.CM = "LMMC" => SentTo(0)'
    <3>1. ASSUME c.CM = "LMMC" PROVE SentTo(0)'
      <4>1. moved' = <<R44>> /\ TR' = FALSE /\ R44' = R44
        BY <1>1, <1>4, <1>6, <3>1
      <4> QED BY <4>1 DEF SentTo
    <3> QED BY <3>1
  <2>3. c.CM = "LMCM" => ReceivedTo(0)'
    <3>1. ASSUME c.CM = "LMCM" PROVE ReceivedTo(0)'
      <4>1. moved' = <<>> /\ TR' = FALSE
        BY <1>1, <1>4, <1>6, <3>1
      <4> QED BY <4>1 DEF ReceivedTo
    <3> QED BY <3>1
  <2>4. Chain(c, moved', DrawnBefore(0)', VRAM')
    <3>1. DrawnBefore(0)' = 0
      BY DEF DrawnBefore
    <3> QED BY <1>1, <1>5, <3>1, ChainStarts
  <2> QED BY <1>7, <1>8, <1>10, <2>1, <2>2, <2>3, <2>4 DEF Working
<1>15. Progress'
  BY <1>1, <1>2, <1>6, <1>14 DEF Progress
<1>16. Busy'
  BY <1>1, <1>2, <1>9 DEF Busy
<1>17. Given'
  BY <1>1, <1>4, <1>6 DEF Given
<1> QED BY <1>13, <1>15, <1>16, <1>17 DEF IInv

LEMMA DotIInv ==
  ASSUME IInv, NEW cmd \in Commands, NEW a \in Operands[cmd], Dot(cmd, a)
  PROVE  IInv'
<1> DEFINE c == [CM |-> cmd, args |-> a, CL |-> R44]
<1>1. /\ at = "cpu" /\ ~CE /\ command.CM = NoCommand
      /\ \/ cmd = "POINT" /\ Point(a)
         \/ cmd = "PSET" /\ Pset(a)
      /\ CE' = FALSE /\ VdpEngine' = NoCommand
      /\ regs' = [SX |-> regs.SX, SY |-> a.SY, DY |-> a.DY, NY |-> a.NY, MAJ |-> a.MAJ]
      /\ command' = c /\ moved' = <<>>
      /\ MMC' = MMC /\ TR' = TR /\ BD' = BD /\ VdpOpsCnt' = VdpOpsCnt
      /\ local' = local /\ cnt' = cnt /\ delta' = delta /\ at' = at
  BY DEF Dot, slicing
<1>2. cmd \in Dots /\ cmd \notin Plotting /\ cmd \notin Transfers /\ cmd # NoCommand
  BY <1>1, EngineKinds DEF Dots
<1>3. a \in Arguments
  BY OperandAssumption DEF OperandAssumption
<1>4. /\ a.SX \in Int /\ a.SY \in Int /\ a.DX \in Int /\ a.DY \in Int /\ a.NY \in Int
      /\ a.MAJ \in {0, 1} /\ a.LO \in Operators
  BY <1>3, SizesHold DEF Arguments, Sizes, Operators
<1>5. R44 \in Colors /\ VRAM \in [Pixels -> Colors] /\ VRAM = Picture
  BY <1>1 DEF IInv, TypeOK, Progress
<1>6. c.CM = cmd /\ c.args = a /\ c.CL = R44
  OBVIOUS
<1> HIDE DEF c
<1>7. VRAM' \in [Pixels -> Colors] /\ R44' \in Colors
  <2>1. At(a.SX, a.SY) \in Pixels /\ At(a.DX, a.DY) \in Pixels
    BY <1>4, AtIsPixel
  <2>2. Apply(a.LO, VRAM[At(a.DX, a.DY)], R44) \in Colors
    BY <1>4, <1>5, <2>1, ApplyIsColor
  <2> QED BY <1>1, <1>5, <2>1, <2>2 DEF Point, Pset
<1>8. Chain(c, moved', Steps(cmd, a), VRAM')
  <2>1. CASE cmd = "POINT"
    <3>1. Steps(cmd, a) = 0
      BY <2>1 DEF Steps
    <3>2. VRAM' = Picture
      BY <1>1, <1>5, <2>1 DEF Point
    <3> QED BY <3>1, <3>2, ChainStarts
  <2>2. CASE cmd = "PSET"
    <3>1. Steps(cmd, a) = 0 + 1
      BY <2>2 DEF Steps
    <3>2. Chain(c, moved', 0, VRAM)
      BY <1>5, ChainStarts
    <3>3. Chain(c, moved', 0 + 1, DrawnOn(c, moved', 0, VRAM))
      BY <3>2, ChainGoes
    <3>4. VRAM' = [VRAM EXCEPT ![At(a.DX, a.DY)] = Apply(a.LO, @, R44)]
      BY <1>1, <2>2 DEF Pset
    <3>5. VRAM' = DrawnOn(c, moved', 0, VRAM)
      BY <1>6, <2>2, <3>4 DEF DrawnOn, Destination, FromSource
    <3> QED BY <3>1, <3>3, <3>5
  <2> QED BY <1>1, <2>1, <2>2
<1>9. regs' \in Registers /\ regs'.DY = a.DY /\ regs'.SY = a.SY /\ regs'.NY = a.NY
  <2>1. regs.SX \in Int
    BY DEF IInv, TypeOK, Registers
  <2> QED BY <1>1, <1>4, <2>1 DEF Registers
<1>10. TypeOK'
  <2>1. moved' \in Seq(Colors) /\ CE' \in BOOLEAN
        /\ VdpEngine' \in Plotting \union Transfers \union {NoCommand}
    <3>1. <<>> \in Seq(Colors)
      OBVIOUS
    <3> QED BY <1>1, <3>1
  <2>2. /\ MMC' \in Machine /\ local' \in Machine /\ TR' \in BOOLEAN /\ BD' \in BOOLEAN
        /\ VdpOpsCnt' \in Int /\ cnt' \in Int /\ delta' \in Int /\ at' \in {"cpu", "engine"}
    BY <1>1 DEF IInv, TypeOK
  <2> QED BY <1>7, <1>9, <2>1, <2>2, Zenon DEF TypeOK
<1>11. cmd = "POINT" => R44' = Picture[At(a.SX, a.SY)]
  BY <1>1, <1>5 DEF Point
<1>12. LeftBy(c, regs')
  <2>1. cmd # "SRCH" /\ cmd # "LINE" /\ cmd \notin Blocks
    BY <1>2 DEF Dots, Blocks
  <2> QED BY <1>2, <1>6, <1>9, <2>1 DEF LeftBy
<1>13. Ended'
  <2>1. cmd # "SRCH" /\ cmd # "LMMC" /\ cmd # "LMCM"
    BY <1>2 DEF Dots
  <2> QED BY <1>1, <1>6, <1>8, <1>11, <1>12, <2>1 DEF Ended
<1>14. Progress'
  BY <1>1, <1>2, <1>6, <1>13 DEF Progress
<1>15. Busy'
  BY <1>1, EngineKinds DEF Busy
<1>16. Given'
  BY <1>1, <1>5, <1>6 DEF Given
<1> QED BY <1>10, <1>14, <1>15, <1>16 DEF IInv

LEMMA AbortIInv ==
  ASSUME IInv, Abort
  PROVE  IInv'
<1>1. /\ CE' = FALSE /\ VdpEngine' = NoCommand /\ MMC' = Idle
      /\ command' = [CM |-> "ABRT"] /\ moved' = <<>> /\ at = "cpu"
      /\ VRAM' = VRAM /\ TR' = TR /\ BD' = BD /\ R44' = R44 /\ regs' = regs /\ VdpOpsCnt' = VdpOpsCnt
      /\ local' = local /\ cnt' = cnt /\ delta' = delta /\ at' = at
  BY DEF Abort, Finish, slicing
<1>2. command'.CM = "ABRT"
  BY <1>1
<1>3. TypeOK'
  <2>1. moved' \in Seq(Colors) /\ CE' \in BOOLEAN /\ MMC' \in Machine
        /\ VdpEngine' \in Plotting \union Transfers \union {NoCommand}
    <3>1. <<>> \in Seq(Colors)
      OBVIOUS
    <3> QED BY <1>1, <3>1, IdleIsMachine
  <2>2. /\ local' \in Machine /\ TR' \in BOOLEAN /\ BD' \in BOOLEAN /\ R44' \in Colors
        /\ VdpOpsCnt' \in Int /\ cnt' \in Int /\ delta' \in Int /\ at' \in {"cpu", "engine"}
        /\ VRAM' \in [Pixels -> Colors] /\ regs' \in Registers
    BY <1>1 DEF IInv, TypeOK
  <2> QED BY <2>1, <2>2, Zenon DEF TypeOK
<1>4. Given' /\ Progress'
  BY <1>1, <1>2, EngineKinds DEF Given, Progress, NoCommand
<1>5. Busy'
  BY <1>1, EngineKinds DEF Busy
<1> QED BY <1>3, <1>4, <1>5 DEF IInv

LEMMA RedrawIInv ==
  ASSUME IInv, Redraw
  PROVE  IInv'
<1>1. /\ at = "cpu" /\ ~CE
      /\ VRAM' = Picture /\ command' = [CM |-> NoCommand] /\ moved' = <<>>
      /\ VdpEngine' = VdpEngine /\ MMC' = MMC /\ CE' = CE /\ TR' = TR /\ BD' = BD /\ R44' = R44
      /\ regs' = regs /\ VdpOpsCnt' = VdpOpsCnt
      /\ local' = local /\ cnt' = cnt /\ delta' = delta /\ at' = at
  BY DEF Redraw, slicing
<1>2. command'.CM = NoCommand
  BY <1>1
<1>3. TypeOK'
  <2>1. moved' \in Seq(Colors) /\ VRAM' \in [Pixels -> Colors]
    BY <1>1, EngineAssumption DEF EngineAssumption
  <2>2. /\ local' \in Machine /\ MMC' \in Machine /\ CE' \in BOOLEAN /\ TR' \in BOOLEAN
        /\ BD' \in BOOLEAN /\ R44' \in Colors
        /\ VdpOpsCnt' \in Int /\ cnt' \in Int /\ delta' \in Int /\ at' \in {"cpu", "engine"}
        /\ regs' \in Registers /\ VdpEngine' \in Plotting \union Transfers \union {NoCommand}
    BY <1>1 DEF IInv, TypeOK
  <2> QED BY <2>1, <2>2, Zenon DEF TypeOK
<1>4. Given' /\ Progress'
  BY <1>1, <1>2, EngineKinds DEF Given, Progress, NoCommand
<1>5. Busy'
  BY <1>1 DEF Busy, IInv
<1> QED BY <1>3, <1>4, <1>5 DEF IInv

LEMMA AppendColor ==
  ASSUME moved \in Seq(Colors), NEW v \in Colors
  PROVE  /\ Append(moved, v) \in Seq(Colors)
         /\ Len(moved) \in Nat
         /\ Len(Append(moved, v)) = Len(moved) + 1
         /\ Append(moved, v)[Len(moved) + 1] = v
         /\ \A i \in 1 .. Len(moved) : Append(moved, v)[i] = moved[i]
OBVIOUS

LEMMA VDPWriteIInv ==
  ASSUME IInv, NEW v \in Colors, VDPWrite(v)
  PROVE  IInv'
<1>1. /\ at = "cpu" /\ TR' = FALSE /\ R44' = v
      /\ \/ command.CM = NoCommand /\ moved' = moved
         \/ VdpEngine = "LMMC" /\ TR /\ moved' = Append(moved, v)
      /\ CallEngine(VdpEngine, MMC, VdpOpsCnt)
      /\ VRAM' = VRAM /\ VdpEngine' = VdpEngine /\ MMC' = MMC /\ CE' = CE /\ BD' = BD
      /\ regs' = regs /\ VdpOpsCnt' = VdpOpsCnt /\ command' = command
  BY DEF VDPWrite
<1>2. VdpOpsCnt \in Int /\ moved \in Seq(Colors)
  BY DEF IInv, TypeOK
<1>3. /\ local' \in Machine /\ cnt' \in Int /\ delta' \in Int
      /\ at' \in {"cpu", "engine"}
      /\ at' = "engine" => CE
      /\ at' = "cpu" => VdpEngine = NoCommand \/ VdpOpsCnt <= 0
      /\ Current' = Current
  BY <1>1, <1>2, CalledAgain
<1>4. moved' \in Seq(Colors)
  BY <1>1, <1>2, AppendColor
<1>5. TypeOK'
  <2>1. TR' \in BOOLEAN /\ R44' \in Colors
    BY <1>1
  <2>2. /\ MMC' \in Machine /\ CE' \in BOOLEAN /\ BD' \in BOOLEAN /\ VdpOpsCnt' \in Int
        /\ regs' \in Registers /\ VdpEngine' \in Plotting \union Transfers \union {NoCommand}
        /\ VRAM' \in [Pixels -> Colors]
    BY <1>1 DEF IInv, TypeOK
  <2> QED BY <1>3, <1>4, <2>1, <2>2, Zenon DEF TypeOK
<1>6. Given'
  BY <1>1 DEF IInv, Given
<1>7. Busy'
  <2>1. NoCommand \notin Plotting
    BY EngineKinds
  <2>2. CE <=> VdpEngine # NoCommand
    BY DEF IInv, Busy
  <2> QED BY <1>1, <1>3, <2>1, <2>2 DEF Busy
<1>8. CASE command.CM = NoCommand
  <2>1. ~CE /\ VRAM = Picture
    BY <1>8, EngineKinds DEF IInv, Progress
  <2>2. Progress'
    BY <1>1, <1>8, <2>1, EngineKinds DEF Progress
  <2> QED BY <1>5, <1>6, <1>7, <2>2 DEF IInv
<1>9. CASE command.CM # NoCommand
  <2>1. VdpEngine = "LMMC" /\ TR /\ moved' = Append(moved, v)
    BY <1>1, <1>9
  <2>2. CE
    BY <2>1 DEF IInv, Busy, NoCommand
  <2>3. command.CM = "LMMC" /\ Working
    BY <2>1, <2>2, AtWork
  <2>4. PICK k \in Nat : /\ Going(command, Current, k)
                         /\ SentTo(k)
                         /\ Chain(command, moved, DrawnBefore(k), VRAM)
    BY <2>3 DEF Working, Straight
  <2>5. Len(moved) = k
    BY <2>1, <2>4 DEF SentTo
  <2>6. SentTo(k)'
    BY <1>1, <1>2, <2>1, <2>5, AppendColor DEF SentTo
  <2>7. Chain(command, moved', k, VRAM)
    <3>1. \A i \in 1 .. k : moved'[i] = moved[i]
      BY <1>2, <2>1, <2>5, AppendColor
    <3>2. Chain(command, moved, k, VRAM)
      BY <2>3, <2>4 DEF DrawnBefore
    <3> QED BY <3>1, <3>2, ChainSame
  <2>8. DrawnBefore(k)' = k
    BY <1>1, <2>3 DEF DrawnBefore
  <2>9. command.CM = VdpEngine /\ regs.MAJ = command.args.MAJ /\ Kept(command, MMC)
    BY <2>3 DEF Working
  <2>10. Working'
    BY <1>1, <1>3, <2>3, <2>4, <2>6, <2>7, <2>8, <2>9 DEF Working
  <2>11. command.CM \in Commands
    BY <2>3 DEF Commands, Transfers
  <2>12. Progress'
    BY <1>1, <1>9, <2>2, <2>10, <2>11 DEF Progress
  <2> QED BY <1>5, <1>6, <1>7, <2>12 DEF IInv
<1> QED BY <1>8, <1>9

LEMMA VDPReadIInv ==
  ASSUME IInv, VDPRead
  PROVE  IInv'
<1>1. /\ at = "cpu" /\ TR /\ TR' = FALSE
      /\ \/ command.CM = NoCommand /\ moved' = moved
         \/ command.CM = "LMCM" /\ moved' = Append(moved, R44)
      /\ CallEngine(VdpEngine, MMC, VdpOpsCnt)
      /\ VRAM' = VRAM /\ VdpEngine' = VdpEngine /\ MMC' = MMC /\ CE' = CE /\ BD' = BD
      /\ R44' = R44 /\ regs' = regs /\ VdpOpsCnt' = VdpOpsCnt /\ command' = command
  BY DEF VDPRead
<1>2. VdpOpsCnt \in Int /\ moved \in Seq(Colors) /\ R44 \in Colors
  BY DEF IInv, TypeOK
<1>3. /\ local' \in Machine /\ cnt' \in Int /\ delta' \in Int
      /\ at' \in {"cpu", "engine"}
      /\ at' = "engine" => CE
      /\ at' = "cpu" => VdpEngine = NoCommand \/ VdpOpsCnt <= 0
      /\ Current' = Current
  BY <1>1, <1>2, CalledAgain
<1>4. moved' \in Seq(Colors)
  BY <1>1, <1>2, AppendColor
<1>5. TypeOK'
  <2>1. TR' \in BOOLEAN
    BY <1>1
  <2>2. /\ MMC' \in Machine /\ CE' \in BOOLEAN /\ BD' \in BOOLEAN /\ VdpOpsCnt' \in Int
        /\ regs' \in Registers /\ VdpEngine' \in Plotting \union Transfers \union {NoCommand}
        /\ VRAM' \in [Pixels -> Colors] /\ R44' \in Colors
    BY <1>1 DEF IInv, TypeOK
  <2> QED BY <1>3, <1>4, <2>1, <2>2, Zenon DEF TypeOK
<1>6. Given'
  BY <1>1 DEF IInv, Given
<1>7. Busy'
  <2>1. NoCommand \notin Plotting
    BY EngineKinds
  <2>2. CE <=> VdpEngine # NoCommand
    BY DEF IInv, Busy
  <2> QED BY <1>1, <1>3, <2>1, <2>2 DEF Busy
<1>8. CASE command.CM = NoCommand
  <2>1. ~CE /\ VRAM = Picture
    BY <1>8, EngineKinds DEF IInv, Progress
  <2>2. Progress'
    BY <1>1, <1>8, <2>1, EngineKinds DEF Progress
  <2> QED BY <1>5, <1>6, <1>7, <2>2 DEF IInv
<1>9. CASE command.CM # NoCommand
  <2>1. command.CM = "LMCM" /\ moved' = Append(moved, R44)
    BY <1>1, <1>9
  <2>2. ASSUME NEW k \in Nat, ReceivedTo(k) PROVE ReceivedTo(k)'
    <3>1. /\ Len(moved) + 1 = k
          /\ \A i \in 1 .. Len(moved) : moved[i] = Picture[Source("LMCM", command.args, i - 1)]
          /\ R44 = Picture[Source("LMCM", command.args, k - 1)]
      BY <1>1, <2>2 DEF ReceivedTo
    <3>2. /\ Len(moved) \in Nat /\ Len(moved') = Len(moved) + 1
          /\ moved'[Len(moved) + 1] = R44
          /\ \A i \in 1 .. Len(moved) : moved'[i] = moved[i]
      BY <1>2, <2>1, AppendColor
    <3>3. ASSUME NEW i \in 1 .. Len(moved')
          PROVE  moved'[i] = Picture[Source("LMCM", command.args, i - 1)]
      <4>1. CASE i = Len(moved) + 1
        BY <3>1, <3>2, <4>1
      <4>2. CASE i # Len(moved) + 1
        <5>1. i \in 1 .. Len(moved)
          BY <3>2, <4>2
        <5> QED BY <3>1, <3>2, <5>1, Zenon
      <4> QED BY <4>1, <4>2
    <3> QED BY <1>1, <3>1, <3>2, <3>3 DEF ReceivedTo
  <2>3. command.CM \in Commands
    BY <2>1 DEF Commands, Transfers
  <2>4. ASSUME NEW k \in Nat, Chain(command, moved, k, VRAM) PROVE Chain(command, moved', k, VRAM)
    BY <2>1, <2>4, ChainSame
  <2>5. CASE CE
    <3>1. Working
      BY <2>5, AtWork
    <3>2. PICK k \in Nat : /\ Going(command, Current, k)
                           /\ ReceivedTo(k)
                           /\ Chain(command, moved, DrawnBefore(k), VRAM)
      BY <2>1, <3>1 DEF Working, Straight
    <3>3. ReceivedTo(k)'
      BY <2>2, <3>2
    <3>4. DrawnBefore(k) = 0 /\ DrawnBefore(k)' = 0
      BY <1>1, <2>1 DEF DrawnBefore
    <3>5. Chain(command, moved', 0, VRAM)
      BY <2>4, <3>2, <3>4
    <3>6. command.CM = VdpEngine /\ regs.MAJ = command.args.MAJ /\ Kept(command, MMC)
      BY <3>1 DEF Working
    <3>7. Working'
      BY <1>1, <1>3, <2>1, <3>2, <3>3, <3>4, <3>5, <3>6 DEF Working
    <3>8. Progress'
      BY <1>1, <1>9, <2>3, <2>5, <3>7 DEF Progress
    <3> QED BY <1>5, <1>6, <1>7, <3>8 DEF IInv
  <2>6. CASE ~CE
    <3>1. Ended
      BY <2>1, <2>3, <2>6 DEF IInv, Progress, Straight
    <3>2. command.args \in Arguments
      BY <2>3, OperandAssumption DEF IInv, Given, OperandAssumption
    <3>3. Steps(command.CM, command.args) = 0
      BY <2>1 DEF Steps
    <3>4. Chain(command, moved', Steps(command.CM, command.args), VRAM)
      BY <2>4, <3>1, <3>3 DEF Ended
    <3>5. Size("LMCM", command.args) \in Nat
      <4>1. "LMCM" \in Blocks
        BY DEF Blocks
      <4>2. Rows("LMCM", command.args) \in Nat /\ Columns("LMCM", command.args) \in Nat
        BY <3>2, <4>1, ColumnsAre, RowsAre, SizesHold DEF Sizes
      <4> QED BY <4>2 DEF Size
    <3>6. ReceivedTo(Size("LMCM", command.args))'
      <4>1. PICK k \in Nat : k = Size("LMCM", command.args)
        BY <3>5
      <4>2. ReceivedTo(k)
        BY <2>1, <3>1, <4>1 DEF Ended
      <4>3. ReceivedTo(k)'
        BY <2>2, <4>2
      <4> QED BY <1>1, <4>1, <4>3 DEF ReceivedTo
    <3>7. Ended'
      <4>1. command'.CM = "LMCM" /\ LeftBy(command, regs)
        BY <1>1, <2>1, <3>1 DEF Ended
      <4> QED BY <1>1, <3>4, <3>6, <4>1 DEF Ended
    <3>8. Progress'
      BY <1>1, <1>9, <2>3, <2>6, <3>7 DEF Progress
    <3> QED BY <1>5, <1>6, <1>7, <3>8 DEF IInv
  <2> QED BY <2>5, <2>6
<1> QED BY <1>8, <1>9

LEMMA LoopVDPIInv ==
  ASSUME IInv, LoopVDP
  PROVE  IInv'
<1>1. /\ at = "cpu"
      /\ VdpOpsCnt' = (IF VdpOpsCnt <= 0 THEN VdpOpsCnt + Slice ELSE Slice)
      /\ CallEngine(VdpEngine, MMC, VdpOpsCnt')
      /\ VRAM' = VRAM /\ VdpEngine' = VdpEngine /\ MMC' = MMC /\ CE' = CE /\ TR' = TR /\ BD' = BD
      /\ R44' = R44 /\ regs' = regs /\ command' = command /\ moved' = moved
  BY DEF LoopVDP
<1>2. VdpOpsCnt' \in Int
  BY <1>1, EngineAssumption DEF EngineAssumption, IInv, TypeOK
<1>3. /\ local' \in Machine /\ cnt' \in Int /\ delta' \in Int
      /\ at' \in {"cpu", "engine"}
      /\ at' = "engine" => CE
      /\ at' = "cpu" => VdpEngine = NoCommand \/ VdpOpsCnt' <= 0
      /\ Current' = Current
  BY <1>1, <1>2, CalledAgain
<1>4. TypeOK'
  <2>1. /\ MMC' \in Machine /\ CE' \in BOOLEAN /\ BD' \in BOOLEAN /\ TR' \in BOOLEAN
        /\ regs' \in Registers /\ VdpEngine' \in Plotting \union Transfers \union {NoCommand}
        /\ VRAM' \in [Pixels -> Colors] /\ R44' \in Colors /\ moved' \in Seq(Colors)
    BY <1>1 DEF IInv, TypeOK
  <2> QED BY <1>2, <1>3, <2>1, Zenon DEF TypeOK
<1>5. Given'
  BY <1>1 DEF IInv, Given
<1>6. Busy'
  <2>1. NoCommand \notin Plotting
    BY EngineKinds
  <2>2. CE <=> VdpEngine # NoCommand
    BY DEF IInv, Busy
  <2> QED BY <1>1, <1>3, <2>1, <2>2 DEF Busy
<1>7. Working => Working'
  BY <1>1, <1>3 DEF Working, Straight, SentTo, ReceivedTo, DrawnBefore
<1>8. (Ended => Ended') /\ (Straight <=> Straight')
  BY <1>1 DEF Ended, ReceivedTo, Straight
<1>9. Progress'
  BY <1>1, <1>7, <1>8 DEF IInv, Progress
<1> QED BY <1>4, <1>5, <1>6, <1>9 DEF IInv

LEMMA StutterIInv ==
  ASSUME IInv, UNCHANGED vars
  PROVE  IInv'
<1>1. /\ VRAM' = VRAM /\ VdpEngine' = VdpEngine /\ MMC' = MMC /\ CE' = CE /\ TR' = TR /\ BD' = BD
      /\ R44' = R44 /\ regs' = regs /\ VdpOpsCnt' = VdpOpsCnt /\ command' = command /\ moved' = moved
      /\ local' = local /\ cnt' = cnt /\ delta' = delta /\ at' = at
  BY DEF vars, slicing
<1>2. TypeOK' /\ Given' /\ Busy'
  BY <1>1 DEF IInv, TypeOK, Given, Busy
<1>3. Current' = Current
  BY <1>1 DEF Current
<1>4. Working => Working'
  BY <1>1, <1>3 DEF Working, Straight, SentTo, ReceivedTo, DrawnBefore
<1>5. (Ended => Ended') /\ (Straight <=> Straight')
  BY <1>1 DEF Ended, ReceivedTo, Straight
<1>6. Progress'
  BY <1>1, <1>4, <1>5 DEF IInv, Progress
<1> QED BY <1>2, <1>6 DEF IInv

\* Every step of the engine, the program and the clock keeps IInv.
LEMMA NextIInv == IInv /\ [Next]_vars => IInv'
<1> SUFFICES ASSUME IInv, [Next]_vars PROVE IInv'
  OBVIOUS
<1>1. CASE Expire
  BY <1>1, ExpireIInv
<1>2. CASE Plot
  BY <1>2, PlotIInv
<1>3. CASE Transfer
  BY <1>3, TransferIInv
<1>4. CASE LoopVDP
  BY <1>4, LoopVDPIInv
<1>5. ASSUME NEW cmd \in Commands, NEW a \in Operands[cmd], VDPDraw(cmd, a) \/ Dot(cmd, a)
      PROVE  IInv'
  BY <1>5, VDPDrawIInv, DotIInv
<1>6. ASSUME NEW v \in Colors, VDPWrite(v) PROVE IInv'
  BY <1>6, VDPWriteIInv
<1>7. CASE VDPRead
  BY <1>7, VDPReadIInv
<1>8. CASE Abort
  BY <1>8, AbortIInv
<1>9. CASE Redraw
  BY <1>9, RedrawIInv
<1>10. CASE UNCHANGED vars
  BY <1>10, StutterIInv
<1> QED BY <1>1, <1>2, <1>3, <1>4, <1>5, <1>6, <1>7, <1>8, <1>9, <1>10
        DEF Next, Engine, Program

\* When CE is clear, what IInv says of an ended command is the outcome.
LEMMA IInvGives ==
  ASSUME LongAxis, IInv
  PROVE  Outcome /\ RegistersLeft
<1>1. ASSUME command.CM \in Commands, ~CE
      PROVE  Ended /\ command.args \in Arguments
  <2>1. command.args \in Arguments
    BY <1>1, OperandAssumption DEF IInv, Given, OperandAssumption
  <2>2. Straight
    BY <1>1 DEF Straight, LongAxis, IInv, Given
  <2> QED BY <1>1, <2>1, <2>2 DEF IInv, Progress
<1>2. ASSUME Done
      PROVE  /\ command.CM # "LMMC" \/ Len(moved) = Size("LMMC", command.args)
             /\ VRAM = Drawn(command, moved)
             /\ command.CM = "POINT" => R44 = Picture[At(command.args.SX, command.args.SY)]
             /\ command.CM = "SRCH" => BD = Matches(command, SearchedTo(command))
  <2>1. Ended /\ command.args \in Arguments /\ command.CM \in Commands
    BY <1>1, <1>2 DEF Done
  <2>2. Steps(command.CM, command.args) \in Nat
    <3>1. CASE command.CM \in Plotting \union Transfers
      BY <2>1, <3>1, WholeIs
    <3>2. CASE command.CM \in Dots
      BY <3>2 DEF Dots, Steps
    <3> QED BY <2>1, <3>1, <3>2, EngineKinds
  <2>3. VRAM = Drawn(command, moved)
    BY <2>1, <2>2, ChainEnds DEF Ended
  <2> QED BY <2>1, <2>3 DEF Ended
<1>3. Received
  <2> SUFFICES ASSUME command.CM = "LMCM"
               PROVE  /\ Len(moved) + (IF TR THEN 1 ELSE 0) <= Size("LMCM", command.args)
                      /\ \A i \in 1 .. Len(moved) :
                           moved[i] = Picture[Source("LMCM", command.args, i - 1)]
                      /\ at = "cpu" /\ ~CE =>
                           Len(moved) + (IF TR THEN 1 ELSE 0) = Size("LMCM", command.args)
    BY DEF Received
  <2>1. command.CM \in Commands /\ command.CM \in Blocks
    BY DEF Commands, Transfers, Blocks
  <2>2. Len(moved) \in Nat /\ TR \in BOOLEAN
    BY DEF IInv, TypeOK
  <2>3. CASE CE
    <3>1. Working /\ command.args \in Arguments
      BY <2>3, AtWork
    <3>2. PICK k \in Nat : Going(command, Current, k) /\ ReceivedTo(k)
      BY <3>1 DEF Working, Straight
    <3>3. k < Whole(command)
      BY <2>1, <3>1, <3>2, BlockGoes
    <3>4. Whole(command) = Size("LMCM", command.args) /\ Whole(command) \in Nat
      <4>1. command.CM \in Plotting \union Transfers
        BY DEF Transfers
      <4> QED BY <3>1, <4>1, WholeIs DEF Whole
    <3> QED BY <2>2, <2>3, <3>2, <3>3, <3>4 DEF ReceivedTo
  <2>4. CASE ~CE
    <3>1. ReceivedTo(Size("LMCM", command.args))
      BY <1>1, <2>1, <2>4 DEF Ended
    <3> QED BY <2>2, <3>1 DEF ReceivedTo
  <2> QED BY <2>3, <2>4
<1>4. Outcome
  BY <1>2, <1>3 DEF Outcome
<1>5. RegistersLeft
  <2> SUFFICES ASSUME Done PROVE RegistersLeft
    BY DEF RegistersLeft
  <2>1. LeftBy(command, regs) /\ command.CM \in Commands
    BY <1>1 DEF Done, Ended
  <2>2. CASE command.CM = "SRCH"
    BY <2>1, <2>2 DEF LeftBy, RegistersLeft
  <2>3. CASE command.CM = "LINE"
    BY <2>1, <2>3 DEF LeftBy, RegistersLeft
  <2>4. CASE command.CM \in Dots
    BY <2>1, <2>4 DEF LeftBy, RegistersLeft, Dots
  <2>5. CASE command.CM \in Blocks
    BY <2>1, <2>5 DEF LeftBy, RegistersLeft, Dots, Blocks
  <2> QED BY <2>1, <2>2, <2>3, <2>4, <2>5 DEF Commands, Plotting, Transfers, Blocks
<1> QED BY <1>4, <1>5

\* Every state the command engine reaches has its type: the registers are
\* numbers, every pixel a color and the operation one VDPpsetlowlevel knows.
THEOREM TypesHold == Spec => []TypeOK
<1>1. Init => IInv BY InitIInv
<1>2. IInv /\ [Next]_vars => IInv' BY NextIInv
<1>3. IInv => TypeOK BY DEF IInv
<1> QED BY <1>1, <1>2, <1>3, PTL DEF Spec

\* CE tells a program the truth in every state: it is set exactly while there
\* is a command for LoopVDP to go on with, and a command that draws never
\* waits while it has cycles to draw with.
THEOREM BusyFlag == Spec => []Busy
<1>1. Init => IInv BY InitIInv
<1>2. IInv /\ [Next]_vars => IInv' BY NextIInv
<1>3. IInv => Busy BY DEF IInv
<1> QED BY <1>1, <1>2, <1>3, PTL DEF Spec

\* When a command has ended, the picture is the one the reference draws from
\* its operands and no pixel more, however its steps fell between LoopVDP,
\* the program's transfers and the end of the cycles; a transfer has moved
\* every pixel once and in order, and POINT and SRCH answer what is there.
\* A line gives its longer side first: LineEngine moves its shorter axis by
\* at most one pixel a point.
THEOREM DrawsWhatItIsToDraw == ASSUME LongAxis PROVE Spec => []Outcome
<1>1. Init => IInv BY InitIInv
<1>2. IInv /\ [Next]_vars => IInv' BY NextIInv
<1>3. IInv => Outcome BY IInvGives
<1> QED BY <1>1, <1>2, <1>3, PTL DEF Spec

\* When a command has ended, the registers SX, SY, DY and NY are what a program
\* that draws in pieces goes on from, as the code leaves them: the rows not
\* drawn, the row after the last, the point after the line, the match.
THEOREM LeavesTheNextRow == ASSUME LongAxis PROVE Spec => []RegistersLeft
<1>1. Init => IInv BY InitIInv
<1>2. IInv /\ [Next]_vars => IInv' BY NextIInv
<1>3. IInv => RegistersLeft BY IInvGives
<1> QED BY <1>1, <1>2, <1>3, PTL DEF Spec
=============================================================================
