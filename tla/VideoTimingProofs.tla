------------------------- MODULE VideoTimingProofs -------------------------
EXTENDS VideoTiming, TLAPS

(***************************************************************************)
(* The vertical timing never leaves a frame.                               *)
(***************************************************************************)
LEMMA ActiveLinesPositive == ActiveLines \in Nat \ {0}
  BY TimingAssumption DEF ActiveLines

LEMMA LinesPositive == \A s \in VStates : LinesIn(s) \in Nat \ {0}
  BY TimingAssumption, ActiveLinesPositive DEF VStates, LinesIn

LEMMA AdvanceType ==
  ASSUME NEW t \in TimingStates
  PROVE  Advanced(t) \in TimingStates
<1>1. t \in [v_state : VStates, v_ctr : Nat] /\ t.v_ctr < LinesIn(t.v_state)
  BY DEF TimingStates
<1>2. StateAfter(t.v_state) \in VStates
  BY <1>1 DEF StateAfter, VStates
<1>3. CASE t.v_ctr + 1 = LinesIn(t.v_state)
  BY <1>2, <1>3, LinesPositive DEF Advanced, TimingStates
<1>4. CASE t.v_ctr + 1 # LinesIn(t.v_state)
  <2>1. Advanced(t) = [v_state |-> t.v_state, v_ctr |-> t.v_ctr + 1]
    BY <1>1, <1>4 DEF Advanced
  <2>2. t.v_ctr + 1 < LinesIn(t.v_state)
    BY <1>1, <1>4, LinesPositive
  <2>3. QED
    BY <1>1, <2>1, <2>2 DEF TimingStates
<1>5. QED
  BY <1>3, <1>4

LEMMA FirstLineType == FirstLine \in TimingStates
  BY LinesPositive DEF FirstLine, TimingStates, VStates
-----------------------------------------------------------------------------
(***************************************************************************)
(* Rows and repetitions: what dividing the number of an active scanline by *)
(* VerticalRepeat says of the line and of the one after it.                *)
(***************************************************************************)
LEMMA Divided ==
  \A c \in Nat, n \in Nat \ {0} :
    c % n = c - n * (c \div n) /\ c % n \in 0 .. n - 1 /\ c \div n \in Nat
<1>1. \A c \in Nat, n \in Nat : n # 0 => c % n = c - n * (c \div n)
  BY Z3
<1>2. \A c \in Nat, n \in Nat \ {0} : c % n \in 0 .. n - 1
  OBVIOUS
<1>3. \A c \in Nat, n \in Nat \ {0} : c \div n \in Nat
  OBVIOUS
<1>4. QED
  BY <1>1, <1>2, <1>3

LEMMA Multiple == \A n \in Nat \ {0}, k \in Nat \ {0} : n * k >= n
  OBVIOUS

LEMMA SameQuotient ==
  ASSUME NEW n \in Nat \ {0}, NEW p \in Nat, NEW q \in Nat,
         NEW r \in 0 .. n - 1, NEW s \in 0 .. n - 1, n * p + r = n * q + s
  PROVE  p = q /\ r = s
<1>1. ASSUME p < q PROVE FALSE
  <2>1. q - p \in Nat \ {0} /\ n * (q - p) = r - s
    BY <1>1
  <2>2. QED
    BY <2>1, Multiple
<1>2. ASSUME q < p PROVE FALSE
  <2>1. p - q \in Nat \ {0} /\ n * (p - q) = s - r
    BY <1>2
  <2>2. QED
    BY <2>1, Multiple
<1>3. QED
  BY <1>1, <1>2

LEMMA Quotient ==
  ASSUME NEW n \in Nat \ {0}, NEW q \in Nat, NEW r \in 0 .. n - 1,
         NEW c \in Nat, c = n * q + r
  PROVE  c \div n = q /\ c % n = r
<1>1. c % n = c - n * (c \div n) /\ c % n \in 0 .. n - 1 /\ c \div n \in Nat
  BY Divided
<1> DEFINE p == c \div n
           s == c % n
<1> HIDE DEF p, s
<1>2. n * p \in Nat /\ p \in Nat /\ s \in 0 .. n - 1
  BY <1>1 DEF p, s
<1>3. n * p + s = n * q + r
  BY <1>1, <1>2 DEF p, s
<1>4. QED
  BY <1>2, <1>3, SameQuotient DEF p, s

LEMMA NextQuotient ==
  ASSUME NEW c \in Nat, NEW n \in Nat \ {0}
  PROVE  /\ c % n = n - 1 => (c + 1) % n = 0 /\ (c + 1) \div n = c \div n + 1
         /\ c % n # n - 1 => (c + 1) % n = (c % n) + 1 /\ (c + 1) \div n = c \div n
<1> DEFINE q == c \div n
           r == c % n
           d == c + 1
           e == q + 1
<1>1. r = c - n * q /\ r \in 0 .. n - 1 /\ q \in Nat
  BY Divided
<1> HIDE DEF q, r, d, e
<1>2. ASSUME r = n - 1 PROVE d % n = 0 /\ d \div n = e
  <2>1. d = n * e + 0 /\ 0 \in 0 .. n - 1 /\ e \in Nat /\ d \in Nat
    BY <1>1, <1>2 DEF d, e
  <2>2. QED
    BY <2>1, Quotient
<1>3. ASSUME r # n - 1 PROVE d % n = r + 1 /\ d \div n = q
  <2>1. d = n * q + (r + 1) /\ r + 1 \in 0 .. n - 1 /\ d \in Nat
    BY <1>1, <1>3 DEF d
  <2>2. QED
    BY <1>1, <2>1, Quotient
<1>4. QED
  BY <1>2, <1>3 DEF q, r, d, e

LEMMA QuotientBound ==
  ASSUME NEW c \in Nat, NEW n \in Nat \ {0}, NEW f \in Nat \ {0}
  PROVE  /\ c < n * f => c \div n \in 0 .. f - 1
         /\ c + 1 = n * f => c % n = n - 1 /\ c \div n = f - 1
<1> DEFINE q == c \div n
           e == f - 1
           m == n - 1
<1>1. c >= n * q /\ q \in Nat
  BY Divided
<1> HIDE DEF q, e, m
<1>2. ASSUME c < n * f PROVE q \in 0 .. f - 1
  <2>1. SUFFICES ASSUME q >= f PROVE FALSE
    BY <1>1
  <2>2. q - f \in Nat /\ n * q = n * f + n * (q - f) /\ n * (q - f) >= 0
    BY <1>1, <2>1
  <2>3. QED
    BY <1>1, <1>2, <2>2
<1>3. ASSUME c + 1 = n * f PROVE c % n = m /\ q = e
  <2>1. c = n * e + m /\ m \in 0 .. n - 1 /\ e \in Nat
    BY <1>3 DEF e, m
  <2>2. QED
    BY <2>1, Quotient DEF q
<1>4. QED
  BY <1>2, <1>3 DEF q, e, m

LEMMA ActiveFacts ==
  ASSUME NEW t \in TimingStates, t.v_state = "active"
  PROVE  /\ t.v_ctr \in Nat /\ t.v_ctr < ActiveLines
         /\ RowOf(t) \in Rows
         /\ t.v_ctr % VerticalRepeat \in 0 .. VerticalRepeat - 1
         /\ t.v_ctr + 1 = ActiveLines => IsLastRepeat(t) /\ RowOf(t) = FbHeight - 1
<1>1. t.v_ctr \in Nat /\ t.v_ctr < ActiveLines
  BY DEF TimingStates, LinesIn
<1>2. VerticalRepeat \in Nat \ {0} /\ FbHeight \in Nat \ {0}
  BY TimingAssumption
<1>3. RowOf(t) \in Rows
  BY <1>1, <1>2, QuotientBound DEF RowOf, Rows, ActiveLines
<1>4. t.v_ctr % VerticalRepeat \in 0 .. VerticalRepeat - 1
  BY <1>1, <1>2, Divided
<1>5. ASSUME t.v_ctr + 1 = ActiveLines PROVE IsLastRepeat(t) /\ RowOf(t) = FbHeight - 1
  <2>1. t.v_ctr + 1 = VerticalRepeat * FbHeight
    BY <1>5 DEF ActiveLines
  <2>2. QED
    BY <1>1, <1>2, <2>1, QuotientBound DEF RowOf, IsLastRepeat
<1>6. QED
  BY <1>1, <1>3, <1>4, <1>5

LEMMA LineAfterActive ==
  ASSUME NEW t \in TimingStates, t.v_state = "active"
  PROVE  /\ Advanced(t).v_state \in {"active", "front_porch"}
         /\ Advanced(t).v_state = "active" => Advanced(t).v_ctr = t.v_ctr + 1
         /\ Advanced(t).v_state = "front_porch" =>
              /\ t.v_ctr + 1 = ActiveLines
              /\ Advanced(t).v_ctr = 0
         /\ Advanced(t).v_state = "active" /\ IsLastRepeat(t) =>
              /\ RowOf(Advanced(t)) = RowOf(t) + 1
              /\ Advanced(t).v_ctr % VerticalRepeat = 0
         /\ ~IsLastRepeat(t) =>
              /\ Advanced(t).v_state = "active"
              /\ RowOf(Advanced(t)) = RowOf(t)
              /\ Advanced(t).v_ctr % VerticalRepeat = (t.v_ctr % VerticalRepeat) + 1
<1>1. /\ t = [v_state |-> "active", v_ctr |-> t.v_ctr]
      /\ t.v_ctr \in Nat
      /\ t.v_ctr + 1 = ActiveLines => IsLastRepeat(t)
  BY ActiveFacts DEF TimingStates
<1>2. CASE t.v_ctr + 1 = ActiveLines
  <2>1. Advanced(t) = [v_state |-> "front_porch", v_ctr |-> 0]
    BY <1>1, <1>2 DEF Advanced, LinesIn, StateAfter
  <2>2. QED
    BY <1>1, <1>2, <2>1
<1>3. CASE t.v_ctr + 1 # ActiveLines
  <2>1. Advanced(t) = [v_state |-> "active", v_ctr |-> t.v_ctr + 1]
    BY <1>1, <1>3 DEF Advanced, LinesIn
  <2>2. VerticalRepeat \in Nat \ {0}
    BY TimingAssumption
  <2>3. QED
    BY <1>1, <2>1, <2>2, NextQuotient DEF RowOf, IsLastRepeat
<1>4. QED
  BY <1>2, <1>3

LEMMA LineAfterBlank ==
  ASSUME NEW t \in TimingStates, t.v_state # "active", Advanced(t).v_state = "active"
  PROVE  /\ t.v_state = "back_porch"
         /\ t.v_ctr + 1 = BackPorch
         /\ Advanced(t).v_ctr = 0
         /\ RowOf(Advanced(t)) = 0
         /\ Advanced(t).v_ctr % VerticalRepeat = 0
<1>1. t = [v_state |-> t.v_state, v_ctr |-> t.v_ctr] /\ t.v_state \in VStates
  BY DEF TimingStates
<1>2. t.v_state = "back_porch" /\ t.v_ctr + 1 = BackPorch /\ Advanced(t).v_ctr = 0
  BY <1>1 DEF Advanced, StateAfter, LinesIn, VStates
<1>3. VerticalRepeat \in Nat \ {0} /\ 0 = VerticalRepeat * 0 + 0 /\ 0 \in 0 .. VerticalRepeat - 1
  BY TimingAssumption
<1>4. QED
  BY <1>2, <1>3, Quotient DEF RowOf
=============================================================================
