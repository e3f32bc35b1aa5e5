--------------------------- MODULE MCCommandEngine ---------------------------
(***************************************************************************)
(* CommandEngine on a page of 3 by 4 pixels, and what a command does       *)
(* written without slices and counters: a rectangle has rows and columns,  *)
(* a line has points, and the i-th pixel is where i says.                  *)
(***************************************************************************)
EXTENDS CommandEngine, FiniteSets, FiniteSetsExt

Rectangle(sx, sy, dx, dy, tx, ty, nx, ny, lo) ==
  [SX |-> sx, SY |-> sy, DX |-> dx, DY |-> dy, TX |-> tx, TY |-> ty,
   NX |-> nx, NY |-> ny, LO |-> lo, MAJ |-> 0, EQ |-> 0]

Line(dx, dy, tx, ty, nx, ny, maj, lo) ==
  [Rectangle(0, 0, dx, dy, tx, ty, nx, ny, lo) EXCEPT !.MAJ = maj]

Search(sx, sy, tx, eq) == [Rectangle(sx, sy, 0, 0, tx, 1, 0, 0, "IMP") EXCEPT !.EQ = eq]

Boxes ==
  { Rectangle(0, 0, 1, 1, 1, 1, 2, 2, "XOR"),        \* down and to the right, overlapping
    Rectangle(2, 3, 1, 2, -1, -1, 3, 2, "IMP"),      \* cut by the left edge
    Rectangle(0, 2, 0, 1, 1, -1, 0, 0, "XOR"),       \* as wide and as high as it goes
    Rectangle(1, 3, 0, 3, 1, 1, 3, 2, "TIMP"),       \* around the bottom of the page
    Rectangle(0, 1, 2, 3, 1, 1, 1, 3, "TNOT"),       \* one column
    Rectangle(2, 0, 4, 2, -1, 1, 2, 1, "NOT"),       \* from beyond the right edge
    Rectangle(3, 1, 0, 0, 1, -1, 3, 3, "AND") }      \* above the top of the page

MCOperands ==
  [cmd \in Commands |->
     CASE cmd = "LINE" -> { Line(0, 0, 1, 1, 3, 2, 0, "XOR"), Line(1, 3, -1, -1, 3, 1, 1, "TXOR"),
                            Line(2, 1, -1, 1, 2, 2, 0, "XOR"), Line(0, 2, 1, 1, 3, 3, 1, "OR"),
                            Line(1, 1, 1, -1, 0, 0, 0, "NOT") }
       [] cmd = "SRCH" -> { Search(0, 1, 1, 0), Search(2, 2, -1, 1), Search(1, 0, 1, 1) }
       [] OTHER -> Boxes]

MCPicture == [p \in Pixels |-> IF p \in {<<0, 0>>, <<2, 0>>, <<1, 1>>, <<0, 3>>, <<1, 3>>} THEN 1 ELSE 0]

(***************************************************************************)
(* The reference.                                                          *)
(***************************************************************************)
FromSource == {"LMMM", "YMMM", "LMCM"}
ToTarget == {"LMMV", "LMMM", "YMMM", "LMMC"}

\* How many rows, and how many columns, the command has.
Rows(cmd, a) ==
  Min({j \in 1 .. Height :
         \/ j % Height = a.NY % Height
         \/ cmd \in FromSource /\ a.SY + j * a.TY = -1
         \/ cmd \in ToTarget /\ a.DY + j * a.TY = -1})

Columns(cmd, a) ==
  Min({j \in 1 .. 2 * Width + Height :
         \/ cmd # "YMMM" /\ j = a.NX
         \/ cmd \in {"LMMM", "LMCM"} /\ Off(a.SX + j * a.TX)
         \/ cmd \in ToTarget /\ Off(a.DX + j * a.TX)})

Size(cmd, a) == Rows(cmd, a) * Columns(cmd, a)

\* The i-th pixel, from 0, of a rectangle that starts at x, y.
Place(cmd, a, x, y, i) ==
  At(x + (i % Columns(cmd, a)) * a.TX, y + (i \div Columns(cmd, a)) * a.TY)

\* How far the minor axis of a line has come at its i-th point.
Minor(a, i) == IF a.NX = 0 THEN 0 ELSE (i * a.NY - (a.NX - 1) \div 2 + a.NX - 1) \div a.NX

PointX(a, i) == a.DX + a.TX * (IF a.MAJ = 0 THEN i ELSE Minor(a, i))
PointY(a, i) == a.DY + a.TY * (IF a.MAJ = 0 THEN Minor(a, i) ELSE i)
LastPoint(a) == Min({i \in 0 .. a.NX : i = a.NX \/ Off(PointX(a, i + 1))})

\* The pixels drawn, in their order.
Steps(cmd, a) ==
  CASE cmd \in {"SRCH", "LMCM", "POINT"} -> 0
    [] cmd = "PSET" -> 1
    [] cmd = "LINE" -> LastPoint(a) + 1
    [] OTHER -> Size(cmd, a)

Source(cmd, a, i) == Place(cmd, a, IF cmd = "YMMM" THEN a.DX ELSE a.SX, a.SY, i)
Destination(cmd, a, i) ==
  CASE cmd = "LINE" -> At(PointX(a, i), PointY(a, i))
    [] cmd = "PSET" -> At(a.DX, a.DY)
    [] OTHER -> Place(cmd, a, a.DX, a.DY, i)

Drawn(c, sent) ==
  LET a == c.args
      new(screen, i) ==
        CASE c.CM \in FromSource -> screen[Source(c.CM, a, i)]
          [] c.CM = "LMMC" -> sent[i + 1]
          [] OTHER -> c.CL
      after[i \in 0 .. Steps(c.CM, a)] ==
        IF i = 0 THEN Picture
        ELSE [after[i - 1] EXCEPT
                ![Destination(c.CM, a, i - 1)] =
                  Apply(IF c.CM = "YMMM" THEN "IMP" ELSE a.LO, @, new(after[i - 1], i - 1))]
  IN  after[Steps(c.CM, a)]

Matches(c, j) ==
  (Picture[At(c.args.SX + j * c.args.TX, c.args.SY)] = c.CL) # (c.args.EQ = 1)

SearchedTo(c) ==
  Min({j \in 0 .. 2 * Width : Matches(c, j) \/ Off(c.args.SX + (j + 1) * c.args.TX)})

Done == at = "cpu" /\ ~CE /\ command.CM \in Commands

(* A program that reads a pixel when TR says so gets the rectangle's       *)
(* pixels, none twice and none left out, and all of them.                  *)
Received ==
  command.CM = "LMCM" =>
    LET a == command.args
    IN  /\ Len(moved) + (IF TR THEN 1 ELSE 0) <= Size("LMCM", a)
        /\ \A i \in 1 .. Len(moved) : moved[i] = Picture[Source("LMCM", a, i - 1)]
        /\ at = "cpu" /\ ~CE => Len(moved) + (IF TR THEN 1 ELSE 0) = Size("LMCM", a)

(***************************************************************************)
(* However its time is cut into slices, and wherever LMMC's and LMCM's     *)
(* pixels meet a spent budget, a command draws what it is to draw, each    *)
(* pixel once and in its order, a search finds the first match, and the    *)
(* program receives each pixel it reads.                                   *)
(***************************************************************************)
Outcome ==
  /\ Done => /\ command.CM # "LMMC" \/ Len(moved) = Size("LMMC", command.args)
             /\ VRAM = Drawn(command, moved)
             /\ command.CM = "POINT" => R44 = Picture[At(command.args.SX, command.args.SY)]
             /\ command.CM = "SRCH" => BD = Matches(command, SearchedTo(command))
  /\ Received

(* A program that draws in pieces goes on from what the command has left   *)
(* in the registers: the rows not drawn, and the row that comes next.  The *)
(* code does not move on from the last row of a command with NY = 0, nor   *)
(* LMCM in its source, and a line of one point moves its minor axis.       *)
RegistersLeft ==
  Done => LET a == command.args
              cmd == command.CM
              r == Rows(cmd, a)
          IN CASE cmd = "SRCH" ->
                    LET j == SearchedTo(command)
                    IN  regs.SX = a.SX + a.TX * (IF Matches(command, j) THEN j ELSE j + 1)
               [] cmd = "LINE" ->
                    a.NX # 0 => regs.DY = PointY(a, LastPoint(a) + 1) % Height
               [] cmd \in Dots -> <<regs.DY, regs.SY, regs.NY>> = <<a.DY, a.SY, a.NY>>
               [] OTHER ->
                    /\ regs.NY = (a.NY - r) % Height
                    /\ cmd \in ToTarget /\ (a.NY # 0 \/ r < Height) =>
                         regs.DY = (a.DY + r * a.TY) % Height
                    /\ cmd \in {"LMMM", "YMMM"} /\ (a.NY # 0 \/ r < Height) =>
                         regs.SY = (a.SY + r * a.TY) % Height
=============================================================================
