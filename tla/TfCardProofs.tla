---------------------------- MODULE TfCardProofs ----------------------------
(***************************************************************************)
(* That the SD card driver puts no sector in another's place, for every    *)
(* size of card and block.  It rests on the kind of address: a card  *)
(* that takes data is of the kind disk_initialize has found it to be,      *)
(* because a card that is put in takes none before it is initialised.  And *)
(* that it leaves no stream open.                                          *)
(***************************************************************************)
EXTENDS TfCard, TLAPS

Phases ==
  {"out", "native", "idle", "tran", "single", "multi", "wsingle", "receiving"}
Cards == [kind : Kinds, phase : Phases, next : Nat, busy : BOOLEAN]

\* A card that has not been initialised since it was put in, or reset.
Apart(c) == c.phase \in {"out", "native", "idle"}

InitPcs == {"cmd0", "cmd8", "hcs", "cmd58", "probe", "v1", "mmc", "cmd16", "typed", "failed"}
ReadPcs == {"read", "rcvr", "data", "stop"}
WritePcs == {"predefine", "write", "xmit", "token"}

Types ==
  /\ card \in Cards
  /\ pc \in {"idle", "select", "done"} \union InitPcs \union ReadPcs \union WritePcs
  /\ job \in [op : {"none", "init", "read", "write", "sync"}, sector : Nat, count : Nat]
  /\ count \in Int
  /\ buff \in Seq(Int)
  /\ taken \in Seq(Nat \X Int)

\* The addresses the driver takes a card for, while it finds out and then.
Fits(c, t) == Apart(c) \/ (c.kind = "hc" <=> t = "v2block")

Addressing ==
  /\ pc \in {"cmd0", "cmd8", "hcs", "cmd58", "probe"} => ty = "none"
  /\ pc \in {"v1", "mmc", "cmd16"} => ty \in {"v1", "mmc"}
  /\ pc \in {"cmd8", "hcs"} => Apart(card)
  /\ pc \in {"probe", "v1", "mmc", "cmd16"} => Apart(card) \/ card.kind # "hc"
  /\ pc \in {"typed", "failed"} /\ ty # "none" => Fits(card, ty)
  /\ pc \notin InitPcs /\ ~NotInit => Fits(card, CardType)

\* Which call it is, how far it has come, and where the card is in a stream.
Progress ==
  /\ pc # "idle" => result = "none"
  /\ pc \in InitPcs => job.op = "init"
  /\ pc \in ReadPcs => job.op = "read" /\ ~NotInit /\ count = job.count - Len(buff)
  /\ pc \in WritePcs => job.op = "write" /\ ~NotInit /\ count = job.count - Len(taken)
  /\ pc = "select" =>
       /\ job.op \in {"write", "sync"} /\ ~NotInit
       /\ job.op = "write" => count = job.count /\ taken = <<>>
  /\ pc = "done" =>
       /\ job.op = "read" => count = job.count - Len(buff)
       /\ job.op = "write" /\ count = 0 => Len(taken) = job.count
  /\ pc = "read" => buff = <<>>
  /\ pc \in {"predefine", "write"} => taken = <<>>
  /\ pc \in {"rcvr", "data"} /\ card.phase \in {"single", "multi"} =>
       card.next = job.sector + Len(buff)
  /\ pc = "xmit" /\ card.phase \in {"wsingle", "receiving"} =>
       card.next = job.sector + Len(taken)

IInv == Types /\ Addressing /\ Progress /\ Transferred

(***************************************************************************)
(* What a card may answer.                                                 *)
(***************************************************************************)
LEMMA InFacts ==
  ASSUME card \in Cards, NEW phase \in Phases
  PROVE  /\ In(phase) \in Cards /\ In(phase).kind = card.kind
         /\ In(phase).phase = phase /\ In(phase).next = card.next
BY DEF In, Cards

\* A block has been moved.
LEMMA MovedFacts ==
  ASSUME card \in Cards, NEW phase \in Phases, NEW busy \in BOOLEAN, NEW c,
         c = [card EXCEPT !.next = @ + 1, !.busy = busy, !.phase = phase]
  PROVE  c \in Cards /\ c.kind = card.kind /\ c.phase = phase /\ c.next = card.next + 1
<1>1. c = [kind |-> card.kind, phase |-> phase, next |-> card.next + 1, busy |-> busy]
  BY DEF Cards
<1> QED BY <1>1 DEF Cards

LEMMA SentFacts ==
  ASSUME NEW cmd, NEW arg \in Nat, card \in Cards, NEW a \in Sent(cmd, arg)
  PROVE  /\ a[1] \in Cards /\ a[1].kind = card.kind /\ a[2] \in Codes
         /\ cmd = "CMD0" /\ a[2] = Idle => Apart(a[1])
         /\ cmd # "CMD0" /\ ~Apart(card) => ~Apart(a[1])
         /\ cmd \notin {"ACMD41", "CMD1"} /\ Apart(card) => Apart(a[1])
         /\ cmd = "ACMD41" /\ Apart(card) /\ a[2] # 0 => Apart(a[1])
         /\ cmd = "ACMD41" /\ Apart(card) /\ arg = 0 /\ card.kind = "hc" => Apart(a[1])
         /\ cmd = "CMD1" /\ Apart(card) /\ card.kind = "hc" => Apart(a[1])
         /\ cmd \in {"CMD17", "CMD18", "CMD24", "CMD25"} /\ a[2] = 0 =>
              ~Apart(card) /\ a[1].next = Meant(arg)
<1> USE DEF Cards, Phases, Apart, In, Codes, NoAnswer, Illegal, Idle, OutOfRange
<1>0. Meant(arg) \in Nat
  BY CardAssumption DEF Meant
<1>1. CASE a = <<card, NoAnswer>>
  BY <1>1
<1>2. CASE card.phase = "native" /\ cmd = "CMD0" /\ a \in Answers(cmd, arg)
  <2>1. a = <<In("idle"), Idle>>
    BY <1>2 DEF Answers
  <2> QED BY <1>2, <2>1
<1>3. CASE card.phase = "idle" /\ a \in WhileIdle(cmd, arg)
  BY <1>3 DEF WhileIdle, Initialises
<1>4. CASE card.phase \in {"tran", "single"} /\ a \in WhileReady(cmd, arg)
  <2>1. \/ cmd = "CMD0" /\ a = <<In("idle"), Idle>>
        \/ /\ cmd \in {"CMD17", "CMD18", "CMD24", "CMD25"}
           /\ \E phase \in {"single", "multi", "wsingle", "receiving"} : a \in Starts(phase, arg)
        \/ cmd \notin {"CMD0", "CMD17", "CMD18", "CMD24", "CMD25"}
             /\ (a = <<card, 0>> \/ a = <<card, Illegal>>)
    BY <1>4 DEF WhileReady
  <2>2. ASSUME NEW phase \in {"single", "multi", "wsingle", "receiving"}, a \in Starts(phase, arg)
        PROVE  \/ a = <<[In(phase) EXCEPT !.next = Meant(arg)], 0>>
               \/ a = <<card, OutOfRange>>
    BY <2>2 DEF Starts
  <2>3. CASE cmd = "CMD0" /\ a = <<In("idle"), Idle>>
    BY <2>3
  <2>4. ASSUME NEW phase \in {"single", "multi", "wsingle", "receiving"},
               a = <<[In(phase) EXCEPT !.next = Meant(arg)], 0>>,
               cmd \in {"CMD17", "CMD18", "CMD24", "CMD25"}
        PROVE  a[1] \in Cards /\ a[1].kind = card.kind /\ a[1].phase = phase /\ a[1].next = Meant(arg)
    BY <2>4, <1>0
  <2>5. CASE a = <<card, OutOfRange>>
    BY <2>5, <1>4
  <2>6. CASE /\ cmd \notin {"CMD0", "CMD17", "CMD18", "CMD24", "CMD25"}
             /\ a = <<card, 0>> \/ a = <<card, Illegal>>
    BY <2>6, <1>4
  <2> QED BY <1>4, <2>1, <2>2, <2>3, <2>4, <2>5, <2>6
<1>5. CASE card.phase = "multi" /\ a \in Answers(cmd, arg)
  <2>1. \/ a = <<card, Illegal>>
        \/ cmd = "CMD12" /\ (a = <<In("tran"), 0>> \/ a = <<[In("tran") EXCEPT !.busy = TRUE], 0>>)
    BY <1>5 DEF Answers
  <2>2. CASE a = <<card, Illegal>>
    BY <1>5, <2>2
  <2>3. CASE cmd = "CMD12" /\ a = <<In("tran"), 0>>
    BY <1>5, <2>3
  <2>4. CASE cmd = "CMD12" /\ a = <<[In("tran") EXCEPT !.busy = TRUE], 0>>
    <3>1. a[1] = [[card EXCEPT !.phase = "tran"] EXCEPT !.busy = TRUE] /\ a[2] = 0
      BY <2>4
    <3> QED BY <1>5, <2>4, <3>1
  <2> QED BY <2>1, <2>2, <2>3, <2>4
<1>6. a = <<card, NoAnswer>> \/ a \in Answers(cmd, arg)
  BY DEF Sent
<1>7. a \in Answers(cmd, arg) =>
        \/ a = <<card, NoAnswer>>
        \/ card.phase = "native" /\ cmd = "CMD0"
        \/ card.phase = "idle" /\ a \in WhileIdle(cmd, arg)
        \/ card.phase \in {"tran", "single"} /\ a \in WhileReady(cmd, arg)
        \/ card.phase = "multi"
  BY DEF Answers
<1> QED BY <1>1, <1>2, <1>3, <1>4, <1>5, <1>6, <1>7

LEMMA TimesBlock == \A s \in Nat, b \in Nat \ {0} : (s * b) \div b = s
  OBVIOUS

\* The driver's address is the sector, if it has the card's kind right.
LEMMA AddressFacts ==
  ASSUME Types, card.kind = "hc" <=> CardType = "v2block"
  PROVE  Address \in Nat /\ Meant(Address) = job.sector
<1>1. job.sector \in Nat /\ BlockSize \in Nat \ {0}
  BY CardAssumption DEF Types
<1>2. (job.sector * BlockSize) \div BlockSize = job.sector
  BY <1>1, TimesBlock
<1>3. job.sector * BlockSize \in Nat
  BY <1>1
<1> QED BY <1>1, <1>2, <1>3 DEF Address, Meant

(***************************************************************************)
(* disk_initialize                                                         *)
(***************************************************************************)

\* What each of its steps leaves alone.
LEMMA InitRest ==
  ASSUME IInv, pc \in InitPcs, pc' \in InitPcs, card' \in Cards,
         UNCHANGED <<job, count, buff, taken, CardType, NotInit, result>>
  PROVE  Types' /\ Progress' /\ Transferred'
<1>1. result = "none"
  BY DEF IInv, Progress, InitPcs
<1> QED BY <1>1 DEF IInv, Types, Progress, Transferred, Asked, InitPcs, ReadPcs, WritePcs

LEMMA CommandFacts ==
  ASSUME NEW at, NEW cmd, NEW arg \in Nat, NEW next, card \in Cards, Command(at, cmd, arg, next)
  PROVE  /\ pc = at
         /\ \E a \in Sent(cmd, arg) : card' = a[1] /\ pc' = next[a[2]] /\ a[2] \in Codes
         /\ card' \in Cards /\ card'.kind = card.kind
         /\ UNCHANGED <<job, taken, CardType, NotInit, result>>
BY SentFacts DEF Command

LEMMA InitSteps == IInv /\ Initialisation => IInv'
<1> SUFFICES ASSUME IInv, Initialisation PROVE IInv'
  OBVIOUS
<1> USE DEF Addressing, InitPcs
<1>0. card \in Cards /\ 0 \in Nat /\ 1 \in Nat /\ BlockSize \in Nat
  BY CardAssumption DEF IInv, Types
<1>t. ASSUME NEW at \in InitPcs, TimesOut(at) PROVE IInv'
  <2>1. Types' /\ Progress' /\ Transferred'
    BY <1>t, <1>0, InitRest DEF TimesOut
  <2> QED BY <1>t, <2>1 DEF IInv, TimesOut
<1>1. CASE ResetCard
  <2>1. PICK a \in Sent("CMD0", 0) :
          card' = a[1] /\ pc' = IF a[2] = Idle THEN "cmd8" ELSE "typed"
    BY <1>0, <1>1, CommandFacts DEF ResetCard, InitCommand, If
  <2>2. pc = "cmd0" /\ card' \in Cards /\ ty' = ty
        /\ UNCHANGED <<job, count, buff, taken, CardType, NotInit, result>>
    BY <1>0, <1>1, CommandFacts DEF ResetCard, InitCommand
  <2>3. Types' /\ Progress' /\ Transferred'
    BY <2>1, <2>2, InitRest
  <2>4. pc' = "cmd8" => Apart(card')
    BY <1>0, <2>1, SentFacts
  <2>5. Addressing'
    BY <2>1, <2>2, <2>4 DEF IInv, Apart
  <2> QED BY <2>3, <2>5 DEF IInv
<1>2. CASE AskVoltage
  <2>1. PICK yes \in {"hcs", "typed"} :
          InitCommand("cmd8", "CMD8", 0, If(Idle, yes, "probe"))
    BY <1>2 DEF AskVoltage
  <2>2. PICK a \in Sent("CMD8", 0) :
          card' = a[1] /\ pc' = IF a[2] = Idle THEN yes ELSE "probe"
    BY <1>0, <2>1, CommandFacts DEF InitCommand, If
  <2>3. pc = "cmd8" /\ card' \in Cards /\ ty' = ty
        /\ UNCHANGED <<job, count, buff, taken, CardType, NotInit, result>>
    BY <1>0, <1>2, <2>1, CommandFacts DEF AskVoltage, InitCommand
  <2>4. Types' /\ Progress' /\ Transferred'
    BY <2>2, <2>3, InitRest
  <2>5. Apart(card')
    BY <1>0, <2>2, <2>3, SentFacts DEF IInv
  <2>6. Addressing'
    BY <2>2, <2>3, <2>5 DEF IInv, Apart
  <2> QED BY <2>4, <2>6 DEF IInv
<1>3. CASE WaitHighCapacity
  <2>1. CASE TimesOut("hcs")
    BY <1>t, <2>1
  <2>2. CASE InitCommand("hcs", "ACMD41", 1, If(0, "cmd58", "hcs")) /\ ty' = ty
    <3>1. PICK a \in Sent("ACMD41", 1) :
            card' = a[1] /\ pc' = IF a[2] = 0 THEN "cmd58" ELSE "hcs"
      BY <1>0, <2>2, CommandFacts DEF InitCommand, If
    <3>2. pc = "hcs" /\ card' \in Cards
          /\ UNCHANGED <<job, count, buff, taken, CardType, NotInit, result>>
      BY <1>0, <2>2, CommandFacts DEF InitCommand
    <3>3. Types' /\ Progress' /\ Transferred'
      BY <3>1, <3>2, InitRest
    <3>4. pc' = "hcs" => Apart(card')
      BY <1>0, <3>1, <3>2, SentFacts DEF IInv
    <3>5. Addressing'
      BY <2>2, <3>1, <3>2, <3>4 DEF IInv, Apart
    <3> QED BY <3>3, <3>5 DEF IInv
  <2> QED BY <1>3, <2>1, <2>2 DEF WaitHighCapacity
<1>4. CASE AskCapacity
  <2>1. CASE TimesOut("cmd58")
    BY <1>t, <2>1
  <2>2. CASE /\ InitCommand("cmd58", "CMD58", 0, If(0, "typed", "failed"))
             /\ ty' = IF pc' = "failed" THEN "none"
                      ELSE IF card.kind = "hc" THEN "v2block" ELSE "v2"
    <3>1. PICK a \in Sent("CMD58", 0) :
            card' = a[1] /\ pc' = IF a[2] = 0 THEN "typed" ELSE "failed"
      BY <1>0, <2>2, CommandFacts DEF InitCommand, If
    <3>2. pc = "cmd58" /\ card' \in Cards /\ card'.kind = card.kind
          /\ UNCHANGED <<job, count, buff, taken, CardType, NotInit, result>>
      BY <1>0, <2>2, CommandFacts DEF InitCommand
    <3>3. Types' /\ Progress' /\ Transferred'
      BY <3>1, <3>2, InitRest
    <3>4. Addressing'
      BY <2>2, <3>1, <3>2 DEF IInv, Fits
    <3> QED BY <3>3, <3>4 DEF IInv
  <2> QED BY <1>4, <2>1, <2>2 DEF AskCapacity
<1>5. CASE ProbeOld
  <2>1. PICK a \in Sent("ACMD41", 0) :
          card' = a[1] /\ pc' = IF a[2] <= Idle THEN "v1" ELSE "mmc"
    BY <1>0, <1>5, CommandFacts DEF ProbeOld, InitCommand
  <2>2. pc = "probe" /\ card' \in Cards /\ card'.kind = card.kind /\ ty' = pc'
        /\ UNCHANGED <<job, count, buff, taken, CardType, NotInit, result>>
    BY <1>0, <1>5, CommandFacts DEF ProbeOld, InitCommand
  <2>3. Types' /\ Progress' /\ Transferred'
    BY <2>1, <2>2, InitRest
  <2>4. Apart(card') \/ card'.kind # "hc"
    BY <1>0, <2>1, <2>2, SentFacts DEF IInv
  <2>5. Addressing'
    BY <2>1, <2>2, <2>4 DEF IInv, Apart
  <2> QED BY <2>3, <2>5 DEF IInv
<1>6. CASE WaitOld
  <2>1. CASE TimesOut("v1") \/ TimesOut("mmc")
    BY <1>t, <2>1
  <2>2. ASSUME NEW at \in {"v1", "mmc"}, NEW cmd \in {"ACMD41", "CMD1"},
               InitCommand(at, cmd, 0, If(0, "cmd16", at)), ty' = ty
        PROVE  IInv'
    <3>1. PICK a \in Sent(cmd, 0) :
            card' = a[1] /\ pc' = IF a[2] = 0 THEN "cmd16" ELSE at
      BY <1>0, <2>2, CommandFacts DEF InitCommand, If
    <3>2. pc = at /\ card' \in Cards /\ card'.kind = card.kind
          /\ UNCHANGED <<job, count, buff, taken, CardType, NotInit, result>>
      BY <1>0, <2>2, CommandFacts DEF InitCommand
    <3>3. Types' /\ Progress' /\ Transferred'
      BY <2>2, <3>1, <3>2, InitRest
    <3>4. Apart(card') \/ card'.kind # "hc"
      BY <1>0, <2>2, <3>1, <3>2, SentFacts DEF IInv
    <3>5. Addressing'
      BY <2>2, <3>1, <3>2, <3>4 DEF IInv, Apart
    <3> QED BY <3>3, <3>5 DEF IInv
  <2> QED BY <1>6, <2>1, <2>2 DEF WaitOld
<1>7. CASE SetBlockLength
  <2>1. CASE TimesOut("cmd16")
    BY <1>t, <2>1
  <2>2. CASE /\ InitCommand("cmd16", "CMD16", BlockSize, If(0, "typed", "failed"))
             /\ ty' = IF pc' = "failed" THEN "none" ELSE ty
    <3>1. PICK a \in Sent("CMD16", BlockSize) :
            card' = a[1] /\ pc' = IF a[2] = 0 THEN "typed" ELSE "failed"
      BY <1>0, <2>2, CommandFacts DEF InitCommand, If
    <3>2. pc = "cmd16" /\ card' \in Cards /\ card'.kind = card.kind
          /\ UNCHANGED <<job, count, buff, taken, CardType, NotInit, result>>
      BY <1>0, <2>2, CommandFacts DEF InitCommand
    <3>3. Types' /\ Progress' /\ Transferred'
      BY <3>1, <3>2, InitRest
    <3>4. Apart(card') \/ card'.kind # "hc"
      BY <1>0, <3>1, <3>2, SentFacts DEF IInv
    <3>5. Addressing'
      BY <2>2, <3>1, <3>2, <3>4 DEF IInv, Fits, Apart
    <3> QED BY <3>3, <3>5 DEF IInv
  <2> QED BY <1>7, <2>1, <2>2 DEF SetBlockLength
<1>8. CASE Initialised
  <2>1. job' = job /\ buff' = buff /\ taken' = taken /\ count' = count /\ card' = card
        /\ pc' = "idle" /\ CardType' = ty /\ NotInit' = (ty = "none") /\ ty' = ty
        /\ pc \in {"typed", "failed"}
    BY <1>8 DEF Initialised, Return
  <2>2. Types' /\ Progress' /\ Addressing'
    BY <2>1 DEF IInv, Types, Progress, Fits, Apart, ReadPcs, WritePcs
  <2>3. job.op = "init"
    BY <2>1 DEF IInv, Progress
  <2>4. Transferred'
    BY <2>1, <2>3 DEF IInv, Transferred, Asked
  <2> QED BY <2>2, <2>4 DEF IInv
<1> QED BY <1>1, <1>2, <1>3, <1>4, <1>5, <1>6, <1>7, <1>8 DEF Initialisation

(***************************************************************************)
(* disk_read and disk_write                                                *)
(***************************************************************************)

\* The command that starts a transfer: the card is at the sector, or not in
\* a transfer at all.
LEMMA StartFacts ==
  ASSUME IInv, pc \in {"read", "write"}, NEW next,
         NEW cmd \in {"CMD17", "CMD18", "CMD24", "CMD25"},
         Command(pc, cmd, Address, If(0, next, "done"))
  PROVE  /\ card' \in Cards /\ Fits(card', CardType')
         /\ UNCHANGED <<job, taken, CardType, NotInit, result>>
         /\ pc' = next \/ pc' = "done"
         /\ pc' # "done" => card'.next = job.sector
<1>1. card \in Cards /\ ~NotInit /\ Fits(card, CardType) /\ job.sector \in Nat
  BY DEF IInv, Types, Progress, Addressing, InitPcs, ReadPcs, WritePcs
<1>2. Address \in Nat
  BY <1>1, CardAssumption DEF Address
<1>3. PICK a \in Sent(cmd, Address) :
        card' = a[1] /\ pc' = If(0, next, "done")[a[2]] /\ a[2] \in Codes
  BY <1>1, <1>2, CommandFacts
<1>4. pc' = IF a[2] = 0 THEN next ELSE "done"
  BY <1>3 DEF If
<1>5. /\ card' \in Cards /\ card'.kind = card.kind
      /\ UNCHANGED <<job, taken, CardType, NotInit, result>>
  BY <1>1, <1>2, CommandFacts
<1>6. Apart(card') <=> Apart(card)
  BY <1>1, <1>2, <1>3, SentFacts
<1>7. ASSUME a[2] = 0 PROVE card'.next = job.sector
  <2>1. ~Apart(card) /\ card'.next = Meant(Address)
    BY <1>1, <1>2, <1>3, <1>7, SentFacts
  <2> QED BY <1>1, <2>1, AddressFacts DEF Fits, IInv
<1> QED BY <1>1, <1>4, <1>5, <1>6, <1>7 DEF Fits

\* A command that starts nothing and does not initialise.
LEMMA OtherFacts ==
  ASSUME IInv, pc \in {"stop", "predefine"}, NEW cmd \in {"CMD12", "ACMD23"},
         NEW arg \in Nat, NEW next, Command(pc, cmd, arg, Always(next))
  PROVE  /\ card' \in Cards /\ Fits(card', CardType')
         /\ UNCHANGED <<job, taken, CardType, NotInit, result>>
         /\ pc' = next
<1>1. card \in Cards /\ ~NotInit /\ Fits(card, CardType)
  BY DEF IInv, Types, Progress, Addressing, InitPcs, ReadPcs, WritePcs
<1>2. PICK a \in Sent(cmd, arg) :
        card' = a[1] /\ pc' = Always(next)[a[2]] /\ a[2] \in Codes
  BY <1>1, CommandFacts
<1>3. /\ card' \in Cards /\ card'.kind = card.kind
      /\ UNCHANGED <<job, taken, CardType, NotInit, result>>
  BY <1>1, CommandFacts
<1>4. Apart(card') <=> Apart(card)
  BY <1>1, <1>2, SentFacts
<1> QED BY <1>1, <1>2, <1>3, <1>4 DEF Fits, Always

LEMMA ReadSteps == IInv /\ Reading => IInv'
<1> SUFFICES ASSUME IInv, Reading PROVE IInv'
  OBVIOUS
<1> USE DEF InitPcs, ReadPcs, WritePcs
<1>1. CASE ReadCommand
  <2>1. /\ pc = "read" /\ UNCHANGED <<count, buff, late, ty>>
        /\ \E cmd \in {"CMD17", "CMD18"} : Command(pc, cmd, Address, If(0, "rcvr", "done"))
    BY <1>1 DEF ReadCommand, Command
  <2>2. /\ card' \in Cards /\ Fits(card', CardType')
        /\ UNCHANGED <<job, taken, CardType, NotInit, result>>
        /\ pc' = "rcvr" \/ pc' = "done"
        /\ pc' # "done" => card'.next = job.sector
    BY <2>1, StartFacts
  <2>3. /\ buff = <<>> /\ result = "none" /\ job.op = "read" /\ ~NotInit /\ count = job.count - Len(buff)
        /\ job.sector \in Nat
    BY <2>1 DEF IInv, Progress, Types
  <2>4. Types' /\ Addressing'
    BY <2>1, <2>2 DEF IInv, Types, Addressing
  <2>5. Progress'
    BY <2>1, <2>2, <2>3 DEF Progress
  <2>6. Transferred'
    BY <2>1, <2>2, <2>3 DEF IInv, Transferred, Asked
  <2> QED BY <2>4, <2>5, <2>6 DEF IInv
<1>2. CASE NoBlock
  <2>1. /\ pc = "rcvr" /\ pc' \in {"done", "stop"}
        /\ UNCHANGED <<job, count, buff, taken, ty, CardType, NotInit, result>>
        /\ card' = card \/ (card.phase = "single" /\ card' = In("tran"))
    <3>1. card' \in IF card.phase = "single" THEN {card, In("tran")} ELSE {card}
      BY <1>2 DEF NoBlock
    <3>2. card' = card \/ (card.phase = "single" /\ card' = In("tran"))
      BY <3>1
    <3>3. /\ pc = "rcvr" /\ pc' \in {"done", "stop"}
          /\ UNCHANGED <<job, count, buff, taken, ty, CardType, NotInit, result>>
      BY <1>2 DEF NoBlock, AfterRead
    <3> QED BY <3>2, <3>3
  <2>a. card \in Cards /\ "tran" \in Phases
    BY DEF IInv, Types, Phases
  <2>b. /\ card' \in Cards /\ card'.kind = card.kind
        /\ Apart(card') <=> Apart(card)
    BY <2>1, <2>a, InFacts DEF Apart
  <2>2. /\ result = "none" /\ job.op = "read" /\ ~NotInit /\ count = job.count - Len(buff)
    BY <2>1 DEF IInv, Progress
  <2>3. Types' /\ Addressing'
    BY <2>1, <2>b DEF IInv, Types, Addressing, Fits
  <2>4. Progress' /\ Transferred'
    BY <2>1, <2>2 DEF IInv, Progress, Transferred, Asked
  <2> QED BY <2>3, <2>4 DEF IInv
<1>7. CASE Token
  <2>1. /\ pc = "rcvr" /\ pc' = "data"
        /\ UNCHANGED <<card, job, count, buff, taken, ty, CardType, NotInit, result>>
    BY <1>7 DEF Token
  <2>2. result = "none" /\ job.op = "read" /\ ~NotInit /\ count = job.count - Len(buff)
    BY <2>1 DEF IInv, Progress
  <2>3. Types' /\ Addressing'
    BY <2>1 DEF IInv, Types, Addressing, Fits
  <2>4. Progress' /\ Transferred'
    BY <2>1, <2>2 DEF IInv, Progress, Transferred, Asked
  <2> QED BY <2>3, <2>4 DEF IInv
<1>3. CASE Received
  <2> DEFINE sending == card.phase \in {"single", "multi"}
  <2>0. PICK block \in {Noise} \union (IF sending THEN {card.next} ELSE {}) :
          buff' = Append(buff, block)
    BY <1>3 DEF Received
  <2>1. /\ pc = "data" /\ pc' \in {"rcvr", "done", "stop"}
        /\ buff' = Append(buff, block) /\ count' = count - 1
        /\ UNCHANGED <<job, taken, ty, CardType, NotInit, result>>
        /\ block = Noise \/ (sending /\ block = card.next)
    BY <1>3, <2>0 DEF Received, AfterRead
  <2>2. /\ result = "none" /\ job.op = "read" /\ ~NotInit /\ count = job.count - Len(buff)
        /\ sending => card.next = job.sector + Len(buff)
    BY <2>1 DEF IInv, Progress
  <2>3. /\ card \in Cards /\ job.sector \in Nat /\ job.count \in Nat /\ count \in Int
        /\ buff \in Seq(Int) /\ card.next \in Nat /\ block \in Int
    BY <2>1 DEF IInv, Types, Cards, Noise
  <2>4. ASSUME sending
        PROVE  /\ card' \in Cards /\ card'.kind = card.kind /\ card'.next = card.next + 1
               /\ card'.phase \in {"tran", "single", "multi"}
    <3> DEFINE phase == IF card.phase = "single" THEN "tran" ELSE card.phase
    <3>1. card' = [card EXCEPT !.next = @ + 1, !.busy = card.busy, !.phase = phase]
      BY <1>3, <2>3, <2>4 DEF Received, Cards
    <3>2. phase \in {"tran", "single", "multi"}
      BY <2>4
    <3>3. card.busy \in BOOLEAN /\ {"tran", "single", "multi"} \subseteq Phases
      BY <2>3 DEF Cards, Phases
    <3> HIDE DEF phase
    <3>4. phase \in Phases
      BY <3>2, <3>3
    <3> DEFINE c == card'
    <3>5. c = [card EXCEPT !.next = @ + 1, !.busy = card.busy, !.phase = phase]
      BY <3>1
    <3> HIDE DEF c
    <3>6. c \in Cards /\ c.kind = card.kind /\ c.phase = phase /\ c.next = card.next + 1
      BY <2>3, <3>3, <3>4, <3>5, MovedFacts
    <3> QED BY <3>2, <3>6 DEF c
  <2>c. /\ card' \in Cards /\ card'.kind = card.kind
        /\ Apart(card') <=> Apart(card)
        /\ card'.phase \in {"single", "multi"} => sending /\ card'.next = card.next + 1
    <3>1. CASE sending
      BY <2>4, <3>1 DEF Apart
    <3>2. CASE ~sending
      <4>1. card' = card
        BY <1>3, <3>2 DEF Received
      <4> QED BY <2>3, <3>2, <4>1
    <3> QED BY <3>1, <3>2
  <2>5. /\ buff' \in Seq(Int) /\ Len(buff') = Len(buff) + 1 /\ Len(buff) \in Nat
        /\ \A i \in 1 .. Len(buff) : buff'[i] = buff[i]
        /\ buff'[Len(buff) + 1] = block
    BY <2>1, <2>3
  <2>6. Types' /\ Addressing'
    BY <2>1, <2>2, <2>3, <2>c, <2>5 DEF IInv, Types, Addressing, Fits
  <2>7. Progress'
    <3>1. count' = job.count - Len(buff')
      BY <2>1, <2>2, <2>3, <2>5
    <3>2. card'.phase \in {"single", "multi"} => card'.next = job.sector + Len(buff')
      <4>1. \A s, l \in Nat : (s + l) + 1 = s + (l + 1)
        OBVIOUS
      <4> QED BY <2>2, <2>3, <2>5, <2>c, <4>1
    <3>3. job' = job
      BY <2>1
    <3> QED BY <2>1, <2>2, <3>1, <3>2, <3>3 DEF Progress
  <2>8. \A i \in 1 .. Len(buff') : buff'[i] \in {Asked(i)', Noise}
    <3>1. \A i \in 1 .. Len(buff) : buff[i] \in {job.sector + i - 1, Noise}
      BY DEF IInv, Transferred, Asked
    <3>2. block \in {job.sector + (Len(buff) + 1) - 1, Noise}
      BY <2>1, <2>2, <2>3, <2>5
    <3>3. ASSUME NEW i \in 1 .. Len(buff')
          PROVE  buff'[i] \in {job.sector + i - 1, Noise}
      <4>1. CASE i = Len(buff) + 1
        BY <2>5, <3>2, <4>1
      <4>2. CASE i \in 1 .. Len(buff)
        BY <2>5, <3>1, <4>2
      <4> QED BY <2>5, <4>1, <4>2
    <3> QED BY <2>1, <3>3 DEF Asked
  <2>9. Transferred'
    BY <2>1, <2>2, <2>8 DEF IInv, Transferred, Asked
  <2> QED BY <2>6, <2>7, <2>9 DEF IInv
<1>4. CASE StopRead
  <2>1. /\ pc = "stop" /\ UNCHANGED <<count, buff, late, ty>>
        /\ Command(pc, "CMD12", 0, Always("done"))
    BY <1>4 DEF StopRead, Command
  <2>2. /\ card' \in Cards /\ Fits(card', CardType')
        /\ UNCHANGED <<job, taken, CardType, NotInit, result>>
        /\ pc' = "done"
    BY <2>1, OtherFacts
  <2>3. result = "none" /\ job.op = "read" /\ count = job.count - Len(buff)
    BY <2>1 DEF IInv, Progress
  <2>4. Types' /\ Addressing'
    BY <2>1, <2>2 DEF IInv, Types, Addressing
  <2>5. Progress' /\ Transferred'
    BY <2>1, <2>2, <2>3 DEF IInv, Progress, Transferred, Asked
  <2> QED BY <2>4, <2>5 DEF IInv
<1>5. CASE Done
  <2>1. /\ pc = "done" /\ pc' = "idle" /\ result' = IF count = 0 THEN "OK" ELSE "ERROR"
        /\ UNCHANGED <<card, job, count, buff, taken, late, ty, CardType, NotInit>>
    BY <1>5 DEF Done, Return
  <2>2. Types' /\ Addressing' /\ Progress'
    BY <2>1 DEF IInv, Types, Addressing, Progress
  <2>3. Transferred'
    <3>1. buff \in Seq(Int) /\ Len(buff) \in Nat /\ job.count \in Nat
      BY DEF IInv, Types
    <3> QED BY <2>1, <3>1 DEF IInv, Progress, Transferred, Asked
  <2> QED BY <2>2, <2>3 DEF IInv
<1> QED BY <1>1, <1>2, <1>3, <1>4, <1>5, <1>7 DEF Reading

LEMMA WriteSteps == IInv /\ Writing => IInv'
<1> SUFFICES ASSUME IInv, Writing PROVE IInv'
  OBVIOUS
<1> USE DEF InitPcs, ReadPcs, WritePcs
<1>1. CASE Select
  <2>1. /\ pc = "select"
        /\ UNCHANGED <<card, job, count, buff, taken, late, ty, CardType, NotInit>>
        /\ \/ /\ pc' = "idle" /\ result' \in {"ERROR", "NOTRDY"}
           \/ /\ pc' = "idle" /\ result' = "OK" /\ job.op = "sync"
           \/ /\ pc' \in {"predefine", "write"} /\ result' = result /\ job.op # "sync"
    BY <1>1 DEF Select, Return
  <2>2. /\ job.op \in {"write", "sync"} /\ ~NotInit /\ result = "none"
        /\ job.op = "write" => count = job.count /\ taken = <<>>
    BY <2>1 DEF IInv, Progress
  <2>3. Types' /\ Addressing'
    BY <2>1 DEF IInv, Types, Addressing
  <2>4. Progress'
    BY <2>1, <2>2 DEF IInv, Types, Progress
  <2>5. Transferred'
    BY <2>1, <2>2 DEF IInv, Transferred, Asked
  <2> QED BY <2>3, <2>4, <2>5 DEF IInv
<1>2. CASE Predefine
  <2>1. /\ pc = "predefine" /\ UNCHANGED <<count, buff, late, ty>>
        /\ Command(pc, "ACMD23", count, Always("write"))
    BY <1>2 DEF Predefine, Command
  <2>2. /\ result = "none" /\ job.op = "write" /\ ~NotInit /\ count = job.count - Len(taken)
        /\ taken = <<>> /\ job.count \in Nat
    BY <2>1 DEF IInv, Progress, Types
  <2>3. count \in Nat
    BY <2>2
  <2>4. /\ card' \in Cards /\ Fits(card', CardType')
        /\ UNCHANGED <<job, taken, CardType, NotInit, result>>
        /\ pc' = "write"
    BY <2>1, <2>3, OtherFacts
  <2>5. Types' /\ Addressing'
    BY <2>1, <2>4 DEF IInv, Types, Addressing
  <2>6. Progress' /\ Transferred'
    BY <2>1, <2>2, <2>4 DEF IInv, Progress, Transferred, Asked
  <2> QED BY <2>5, <2>6 DEF IInv
<1>3. CASE WriteCommand
  <2>1. /\ pc = "write" /\ UNCHANGED <<count, buff, late, ty>>
        /\ \E cmd \in {"CMD24", "CMD25"} : Command(pc, cmd, Address, If(0, "xmit", "done"))
    BY <1>3 DEF WriteCommand, Command
  <2>2. /\ card' \in Cards /\ Fits(card', CardType')
        /\ UNCHANGED <<job, taken, CardType, NotInit, result>>
        /\ pc' = "xmit" \/ pc' = "done"
        /\ pc' # "done" => card'.next = job.sector
    BY <2>1, StartFacts
  <2>3. /\ taken = <<>> /\ result = "none" /\ job.op = "write" /\ ~NotInit
        /\ count = job.count - Len(taken) /\ job.sector \in Nat /\ job.count \in Nat
    BY <2>1 DEF IInv, Progress, Types
  <2>4. Types' /\ Addressing'
    BY <2>1, <2>2 DEF IInv, Types, Addressing
  <2>5. Progress'
    BY <2>1, <2>2, <2>3 DEF Progress
  <2>6. Transferred'
    BY <2>1, <2>2, <2>3 DEF IInv, Transferred, Asked
  <2> QED BY <2>4, <2>5, <2>6 DEF IInv
<1>4. CASE Refused
  <2>1. /\ pc = "xmit" /\ pc' \in {"done", "token"}
        /\ UNCHANGED <<job, count, buff, taken, ty, CardType, NotInit, result>>
        /\ card' = card \/ (card.phase = "wsingle" /\ card' = In("tran"))
    BY <1>4 DEF Refused, AfterWrite
  <2>2. card \in Cards /\ "tran" \in Phases
    BY DEF IInv, Types, Phases
  <2>3. /\ card' \in Cards /\ card'.kind = card.kind
        /\ Apart(card') <=> Apart(card)
    BY <2>1, <2>2, InFacts DEF Apart
  <2>4. /\ result = "none" /\ job.op = "write" /\ ~NotInit /\ count = job.count - Len(taken)
        /\ Len(taken) \in Nat /\ job.count \in Nat
    BY <2>1 DEF IInv, Progress, Types
  <2>5. Types' /\ Addressing'
    BY <2>1, <2>3 DEF IInv, Types, Addressing, Fits
  <2>6. Progress' /\ Transferred'
    BY <2>1, <2>4 DEF IInv, Progress, Transferred, Asked
  <2> QED BY <2>5, <2>6 DEF IInv
<1>5. CASE Accepted
  <2>1. /\ pc = "xmit" /\ pc' \in {"xmit", "done", "token"}
        /\ card.phase \in {"wsingle", "receiving"}
        /\ taken' = Append(taken, <<card.next, job.count - count + 1>>) /\ count' = count - 1
        /\ UNCHANGED <<job, buff, ty, CardType, NotInit, result>>
    BY <1>5 DEF Accepted, AfterWrite
  <2>2. /\ result = "none" /\ job.op = "write" /\ ~NotInit /\ count = job.count - Len(taken)
        /\ card.next = job.sector + Len(taken)
    BY <2>1 DEF IInv, Progress
  <2>3. /\ card \in Cards /\ job.sector \in Nat /\ job.count \in Nat /\ count \in Int
        /\ taken \in Seq(Nat \X Int) /\ card.next \in Nat
    BY DEF IInv, Types, Cards
  <2>4. /\ card' \in Cards /\ card'.kind = card.kind /\ card'.next = card.next + 1
        /\ card'.phase \in {"tran", "receiving"}
    <3> DEFINE phase == IF card.phase = "wsingle" THEN "tran" ELSE card.phase
    <3>1. card' = [card EXCEPT !.next = @ + 1, !.busy = TRUE, !.phase = phase]
      BY <1>5, <2>3 DEF Accepted, Cards
    <3>2. phase \in {"tran", "receiving"}
      BY <2>1
    <3>3. {"tran", "receiving"} \subseteq Phases
      BY DEF Phases
    <3> HIDE DEF phase
    <3>4. phase \in Phases
      BY <3>2, <3>3
    <3> QED BY <2>3, <3>1, <3>2, <3>3, <3>4, MovedFacts
  <2>5. /\ <<card.next, job.count - count + 1>> \in Nat \X Int
        /\ <<card.next, job.count - count + 1>> = <<job.sector + Len(taken), Len(taken) + 1>>
    <3>1. Len(taken) \in Nat
      BY <2>3
    <3>2. job.count - count + 1 = Len(taken) + 1 /\ job.count - count + 1 \in Int
      BY <2>2, <2>3, <3>1
    <3> QED BY <2>2, <2>3, <3>2
  <2>6. /\ taken' \in Seq(Nat \X Int) /\ Len(taken') = Len(taken) + 1 /\ Len(taken) \in Nat
        /\ \A i \in 1 .. Len(taken) : taken'[i] = taken[i]
        /\ taken'[Len(taken) + 1] = <<job.sector + Len(taken), Len(taken) + 1>>
    BY <2>1, <2>3, <2>5
  <2>7. Types' /\ Addressing'
    <3>1. Types'
      BY <2>1, <2>3, <2>4, <2>6 DEF IInv, Types
    <3>2. Addressing'
      BY <2>1, <2>2, <2>4 DEF IInv, Addressing, Fits, Apart
    <3> QED BY <3>1, <3>2
  <2>8. Progress'
    <3>1. count' = job.count - Len(taken')
      BY <2>1, <2>2, <2>3, <2>6
    <3>2. card'.next = job.sector + Len(taken')
      <4>1. card'.next = card.next + 1 /\ card.next = job.sector + Len(taken)
        BY <2>2, <2>4
      <4>2. \A s, l \in Nat : (s + l) + 1 = s + (l + 1)
        OBVIOUS
      <4> QED BY <2>3, <2>6, <4>1, <4>2
    <3>3. job' = job /\ (count' = 0 => Len(taken') = job.count)
      BY <2>1, <2>3, <2>6, <3>1
    <3> QED BY <2>1, <2>2, <3>1, <3>2, <3>3 DEF Progress
  <2>9. \A i \in 1 .. Len(taken') : taken'[i] = <<Asked(i)', i>>
    <3>1. job' = job /\ \A i \in 1 .. Len(taken) : taken[i] = <<job.sector + i - 1, i>>
      BY <2>1 DEF IInv, Transferred, Asked
    <3>2. job.sector + (Len(taken) + 1) - 1 = job.sector + Len(taken)
      BY <2>3, <2>6
    <3>3. ASSUME NEW i \in 1 .. Len(taken') PROVE taken'[i] = <<job.sector + i - 1, i>>
      <4>1. CASE i = Len(taken) + 1
        BY <2>6, <3>2, <4>1
      <4>2. CASE i \in 1 .. Len(taken)
        BY <2>6, <3>1, <4>2
      <4> QED BY <2>6, <4>1, <4>2
    <3> QED BY <3>1, <3>3 DEF Asked
  <2>10. Transferred'
    BY <2>1, <2>2, <2>9 DEF IInv, Transferred, Asked
  <2> QED BY <2>7, <2>8, <2>10 DEF IInv
<1>6. CASE StopWrite
  <2>1. /\ pc = "token" /\ pc' = "done"
        /\ UNCHANGED <<job, buff, taken, ty, CardType, NotInit, result>>
        /\ \/ count' = 1 /\ card' = card
           \/ count' = count /\ card' = card
           \/ /\ count' = count /\ card.phase = "receiving"
              /\ card' = [In("tran") EXCEPT !.busy = TRUE]
    BY <1>6 DEF StopWrite
  <2>2. card \in Cards
    BY DEF IInv, Types
  <2>3. /\ card' \in Cards /\ card'.kind = card.kind
        /\ Apart(card') <=> Apart(card)
    <3>1. CASE card' = card
      BY <2>2, <3>1
    <3>2. CASE card.phase = "receiving" /\ card' = [In("tran") EXCEPT !.busy = TRUE]
      <4>1. In("tran") \in Cards /\ In("tran").kind = card.kind /\ In("tran").phase = "tran"
        BY <2>2, InFacts DEF Phases
      <4> QED BY <3>2, <4>1 DEF Cards, Apart
    <3> QED BY <2>1, <3>1, <3>2
  <2>4. /\ result = "none" /\ job.op = "write" /\ ~NotInit /\ count = job.count - Len(taken)
        /\ Len(taken) \in Nat /\ job.count \in Nat
    BY <2>1 DEF IInv, Progress, Types
  <2>5. Types' /\ Addressing'
    BY <2>1, <2>3 DEF IInv, Types, Addressing, Fits
  <2>6. Progress' /\ Transferred'
    BY <2>1, <2>4 DEF IInv, Progress, Transferred, Asked
  <2> QED BY <2>5, <2>6 DEF IInv
<1> QED BY <1>1, <1>2, <1>3, <1>4, <1>5, <1>6 DEF Writing

(***************************************************************************)
(* The calls, the card and the clock.                                      *)
(***************************************************************************)
LEMMA CallSteps == IInv /\ Calls => IInv'
<1> SUFFICES ASSUME IInv, Calls PROVE IInv'
  OBVIOUS
<1> USE DEF InitPcs, ReadPcs, WritePcs
<1>1. CASE disk_initialize
  <2>1. /\ pc = "idle" /\ pc' = "cmd0" /\ job' = [op |-> "init", sector |-> 0, count |-> 0]
        /\ count' = 0 /\ buff' = <<>> /\ taken' = <<>> /\ result' = "none" /\ ty' = "none"
        /\ UNCHANGED <<card, late, CardType, NotInit>>
    BY <1>1 DEF disk_initialize, Call
  <2> QED BY <2>1 DEF IInv, Types, Addressing, Progress, Transferred, Asked
<1>2. ASSUME NEW op \in {"read", "write", "sync"}, NEW sector \in Nat, NEW n \in Nat,
             NEW start, Call(op, sector, n, start), ~NotInit,
             start = IF op = "read" THEN "read" ELSE "select",
             UNCHANGED <<card, late, ty, CardType, NotInit>>
      PROVE  IInv'
  <2>1. /\ pc = "idle" /\ pc' = start /\ job' = [op |-> op, sector |-> sector, count |-> n]
        /\ count' = n /\ buff' = <<>> /\ taken' = <<>> /\ result' = "none"
    BY <1>2 DEF Call
  <2>2. job'.op = op /\ job'.count = n /\ job'.sector = sector
    BY <2>1
  <2>3. Types' /\ Addressing'
    BY <1>2, <2>1 DEF IInv, Types, Addressing
  <2>4. Progress' /\ Transferred'
    BY <1>2, <2>1, <2>2 DEF Progress, Transferred, Asked
  <2> QED BY <2>3, <2>4 DEF IInv
<1>3. CASE NotInit /\ pc = "idle" /\ Return("NOTRDY")
           /\ UNCHANGED <<card, job, count, buff, taken, late, ty, CardType, NotInit>>
  <2>1. pc = "idle" /\ pc' = "idle" /\ result' = "NOTRDY"
    BY <1>3 DEF Return
  <2> QED BY <1>3, <2>1 DEF IInv, Types, Addressing, Progress, Transferred, Asked
<1>4. CASE ctrl_sync
  BY <1>2, <1>3, <1>4 DEF ctrl_sync
<1>5. ASSUME NEW sector \in 0 .. Size - 1, NEW n \in 1 .. MaxCount,
             disk_read(sector, n) \/ disk_write(sector, n)
      PROVE  IInv'
  <2>1. sector \in Nat /\ n \in Nat
    BY CardAssumption
  <2>2. CASE disk_read(sector, n)
    BY <1>2, <1>3, <2>1, <2>2 DEF disk_read
  <2>3. CASE disk_write(sector, n)
    BY <1>2, <1>3, <2>1, <2>3 DEF disk_write
  <2> QED BY <1>5, <2>2, <2>3
<1> QED BY <1>1, <1>4, <1>5 DEF Calls

LEMMA SlotFacts ==
  ASSUME NEW c \in Slots
  PROVE  c \in Cards /\ Apart(c)
<1>1. Slots \subseteq Cards
  <2>1. {"out", "native"} \subseteq Phases /\ {0} \subseteq Nat /\ {FALSE} \subseteq BOOLEAN
    BY DEF Phases
  <2>2. ASSUME NEW P, P \subseteq Phases, NEW N, N \subseteq Nat, NEW B, B \subseteq BOOLEAN
        PROVE  [kind : Kinds, phase : P, next : N, busy : B] \subseteq Cards
    BY <2>2 DEF Cards
  <2> QED BY <2>1, <2>2 DEF Slots
<1>2. c.phase \in {"out", "native"}
  BY DEF Slots
<1> QED BY <1>1, <1>2 DEF Apart

LEMMA InitIInv == Init => IInv
<1> SUFFICES ASSUME Init PROVE IInv
  OBVIOUS
<1> USE DEF InitPcs, ReadPcs, WritePcs
<1>1. card \in Cards
  BY SlotFacts DEF Init
<1>2. /\ pc = "idle" /\ job = [op |-> "none", sector |-> 0, count |-> 0] /\ count = 0
      /\ buff = <<>> /\ taken = <<>> /\ NotInit = TRUE /\ result = "none"
  BY DEF Init
<1> QED BY <1>1, <1>2 DEF IInv, Types, Addressing, Progress, Transferred

LEMMA NextIInv == IInv /\ [Next]_vars => IInv'
<1> SUFFICES ASSUME IInv, [Next]_vars PROVE IInv'
  OBVIOUS
<1> USE DEF driver
<1>1. CASE Calls
  BY <1>1, CallSteps
<1>2. CASE Driver
  BY <1>2, InitSteps, ReadSteps, WriteSteps DEF Driver
<1>3. CASE UNCHANGED <<card, driver, taken>>
  BY <1>3 DEF IInv, Types, Addressing, Progress, Transferred, Asked
<1>4. CASE CardReady \/ Exchange
  <2>1. UNCHANGED <<driver, taken>> /\ card \in Cards
    BY <1>4 DEF CardReady, Exchange, IInv, Types
  <2>2. /\ card' \in Cards
        /\ \/ Apart(card')
           \/ card'.phase = card.phase /\ card'.kind = card.kind /\ card'.next = card.next
    <3>1. CASE CardReady
      BY <2>1, <3>1 DEF CardReady, Cards
    <3>2. CASE Exchange
      BY <3>2, SlotFacts DEF Exchange
    <3> QED BY <1>4, <3>1, <3>2
  <2>3. Types'
    BY <2>1, <2>2 DEF IInv, Types
  <2>4. Addressing'
    BY <2>1, <2>2 DEF IInv, Addressing, Fits, Apart
  <2>5. Progress'
    BY <2>1, <2>2 DEF IInv, Progress, Apart
  <2>6. Transferred'
    BY <2>1 DEF IInv, Transferred, Asked
  <2> QED BY <2>3, <2>4, <2>5, <2>6 DEF IInv
<1>5. CASE Second
  BY <1>3, <1>5 DEF Second
<1>6. CASE UNCHANGED vars
  BY <1>3, <1>6 DEF vars
<1> QED BY <1>1, <1>2, <1>4, <1>5, <1>6 DEF Next

(* disk_read and disk_write ask for the sectors they are called for, in    *)
(* their order and where they are on the card, however the card behaves    *)
(* and whatever card it is by then: a block of the buffer is the right     *)
(* sector's or was spoilt on its way, and never another sector's; RES_OK   *)
(* says that each has had its turn.  For every size of card and sector.    *)
THEOREM AskedIsTransferred == Spec => []Transferred
<1>1. IInv => Transferred
  BY DEF IInv
<1> QED BY InitIInv, NextIInv, <1>1, PTL DEF Spec

(***************************************************************************)
(* No call leaves the card in a stream.                                    *)
(***************************************************************************)
Streaming == {"multi", "wsingle", "receiving"}
StartOf == [multi |-> "CMD18", wsingle |-> "CMD24", receiving |-> "CMD25"]

\* Where the driver is while the card is in a stream.
Streams ==
  /\ job.op \in {"read", "write"} => job.count # 0
  /\ card.phase = "multi" => pc = "stop" \/ (pc \in {"rcvr", "data"} /\ job.count # 1)
  /\ card.phase = "wsingle" => pc = "xmit"
  /\ card.phase = "receiving" /\ pc = "xmit" /\ job.op = "write" => job.count # 1
  /\ card.phase = "receiving" /\ pc = "done" /\ job.op = "write" => count # 0
  /\ card.phase = "receiving" /\ pc = "idle" /\ job.op = "write" => result # "OK"

\* A card enters a stream with the command for it, and CMD12 ends the
\* driver's.
LEMMA StreamFacts ==
  ASSUME NEW cmd, NEW arg \in Nat, card \in Cards, NEW a \in Sent(cmd, arg)
  PROVE  /\ a[1].phase \in Streaming =>
              a[1].phase = card.phase \/ (cmd = StartOf[a[1].phase] /\ a[2] = 0)
         /\ cmd = "CMD12" => a[1].phase # "multi"
         /\ cmd \in {"CMD17", "CMD18", "CMD24", "CMD25"} /\ a[2] = 0 =>
              (a[1].phase \in Streaming => cmd = StartOf[a[1].phase])
<1> USE DEF NoAnswer, Illegal, Idle, OutOfRange
<1>a. ASSUME NEW phase \in Phases
      PROVE  /\ In(phase).phase = phase
             /\ [In(phase) EXCEPT !.busy = TRUE].phase = phase
             /\ [In(phase) EXCEPT !.next = Meant(arg)].phase = phase
  BY DEF In, Cards
<1>b. {"idle", "tran", "single", "multi", "wsingle", "receiving"} \subseteq Phases
  BY DEF Phases
<1>c. /\ StartOf["multi"] = "CMD18" /\ StartOf["wsingle"] = "CMD24"
      /\ StartOf["receiving"] = "CMD25"
  BY DEF StartOf
<1> USE DEF Streaming
<1>1. CASE a = <<card, NoAnswer>> /\ ~(card.phase = "multi" /\ cmd = "CMD12")
  BY <1>1
<1>2. CASE card.phase = "native" /\ cmd = "CMD0" /\ a = <<In("idle"), Idle>>
  BY <1>2, <1>a, <1>b
<1>3. CASE card.phase = "idle" /\ a \in WhileIdle(cmd, arg)
  <2>1. a[1] = card \/ a[1] = In("tran")
    BY <1>3 DEF WhileIdle, Initialises
  <2> QED BY <1>3, <1>a, <1>b, <2>1
<1>4. CASE card.phase \in {"tran", "single"} /\ a \in WhileReady(cmd, arg)
  <2>1. \/ cmd = "CMD0" /\ a = <<In("idle"), Idle>>
        \/ cmd = "CMD17" /\ a \in Starts("single", arg)
        \/ cmd = "CMD18" /\ a \in Starts("multi", arg)
        \/ cmd = "CMD24" /\ a \in Starts("wsingle", arg)
        \/ cmd = "CMD25" /\ a \in Starts("receiving", arg)
        \/ a[1] = card
    BY <1>4 DEF WhileReady
  <2>2. ASSUME NEW phase \in Phases, a \in Starts(phase, arg)
        PROVE  (a[1].phase = phase /\ a[2] = 0) \/ (a[1] = card /\ a[2] = OutOfRange)
    <3> DEFINE c == [In(phase) EXCEPT !.next = Meant(arg)]
    <3>1. a = <<c, 0>> \/ a = <<card, OutOfRange>>
      BY <2>2 DEF Starts
    <3>2. c.phase = phase
      BY <1>a
    <3> HIDE DEF c
    <3> QED BY <3>1, <3>2
  <2> QED BY <1>4, <1>a, <1>b, <1>c, <2>1, <2>2
<1>5. CASE card.phase = "multi" /\ a \in Answers(cmd, arg)
  <2> DEFINE stopped == In("tran")
             stopping == [In("tran") EXCEPT !.busy = TRUE]
  <2>1. stopped.phase = "tran" /\ stopping.phase = "tran"
    BY <1>a, <1>b
  <2>2. Answers(cmd, arg) = IF cmd = "CMD12" THEN {<<stopped, 0>>, <<stopping, 0>>}
                            ELSE {<<card, Illegal>>}
    BY <1>5 DEF Answers
  <2> HIDE DEF stopped, stopping
  <2>3. CASE cmd = "CMD12"
    <3>1. a = <<stopped, 0>> \/ a = <<stopping, 0>>
      BY <1>5, <2>2, <2>3
    <3>2. a[1].phase = "tran"
      BY <2>1, <3>1
    <3> QED BY <2>3, <3>2
  <2>4. CASE cmd # "CMD12"
    <3>1. a = <<card, 4>>
      BY <1>5, <2>2, <2>4
    <3>2. a[1] = card /\ a[2] = 4
      BY <3>1
    <3> QED BY <2>4, <3>2
  <2> QED BY <2>3, <2>4
<1>6. (a = <<card, NoAnswer>> /\ cmd # "CMD12") \/ a \in Answers(cmd, arg)
  BY DEF Sent
<1>7. a \in Answers(cmd, arg) =>
        \/ a = <<card, NoAnswer>> /\ card.phase # "multi"
        \/ card.phase = "native" /\ cmd = "CMD0" /\ a = <<In("idle"), Idle>>
        \/ card.phase = "idle" /\ a \in WhileIdle(cmd, arg)
        \/ card.phase \in {"tran", "single"} /\ a \in WhileReady(cmd, arg)
        \/ card.phase = "multi"
  BY DEF Answers
<1> QED BY <1>1, <1>2, <1>3, <1>4, <1>5, <1>6, <1>7

LEMMA QuietFacts ==
  ASSUME card \in Cards, NEW at, NEW cmd, cmd \notin {"CMD18", "CMD24", "CMD25"},
         NEW arg \in Nat, NEW next, Command(at, cmd, arg, next)
  PROVE  card'.phase = card.phase \/ card'.phase \notin Streaming
<1>1. PICK a \in Sent(cmd, arg) : card' = a[1]
  BY DEF Command
<1>2. \A p \in Streaming : StartOf[p] \in {"CMD18", "CMD24", "CMD25"}
  BY DEF StartOf, Streaming
<1> QED BY <1>1, <1>2, StreamFacts

\* The command of a read or a write: there is data to come if it is accepted.
LEMMA OpenFacts ==
  ASSUME card \in Cards, Address \in Nat, NEW next, next # "done",
         NEW cmd \in {"CMD17", "CMD18", "CMD24", "CMD25"},
         Command(pc, cmd, Address, If(0, next, "done"))
  PROVE  /\ pc' = next /\ card'.phase \in Streaming => cmd = StartOf[card'.phase]
         /\ pc' # next => card'.phase = card.phase \/ card'.phase \notin Streaming
<1>1. PICK a \in Sent(cmd, Address) :
        card' = a[1] /\ pc' = If(0, next, "done")[a[2]] /\ a[2] \in Codes
  BY SentFacts DEF Command
<1>2. pc' = IF a[2] = 0 THEN next ELSE "done"
  BY <1>1 DEF If
<1> QED BY <1>1, <1>2, StreamFacts

\* A step of disk_initialize.
Quiet ==
  /\ pc \in InitPcs /\ job' = job
  /\ card'.phase = card.phase \/ card'.phase \notin Streaming

LEMMA StreamStep == IInv /\ Streams /\ [Next]_vars => Streams'
<1> SUFFICES ASSUME IInv, Streams, [Next]_vars PROVE Streams'
  OBVIOUS
<1> USE DEF InitPcs, ReadPcs, WritePcs
<1>0. /\ card \in Cards /\ 0 \in Nat /\ 1 \in Nat /\ BlockSize \in Nat
      /\ job.count \in Nat /\ job.sector \in Nat /\ count \in Int
      /\ Address \in Nat
  BY CardAssumption DEF IInv, Types, Address
<1>s. /\ StartOf["multi"] = "CMD18" /\ StartOf["wsingle"] = "CMD24"
      /\ StartOf["receiving"] = "CMD25"
  BY DEF StartOf
<1>1. CASE Initialisation
  <2>1. ASSUME NEW at \in InitPcs,
               NEW cmd \in {"CMD0", "CMD8", "ACMD41", "CMD58", "CMD1", "CMD16"},
               NEW arg \in {0, 1, BlockSize}, NEW next, InitCommand(at, cmd, arg, next)
        PROVE  Quiet
    <3>1. Command(at, cmd, arg, next) /\ pc = at /\ job' = job
      BY <2>1 DEF InitCommand, Command
    <3> QED BY <1>0, <2>1, <3>1, QuietFacts DEF Quiet
  <2>2. ASSUME NEW at \in InitPcs, TimesOut(at) PROVE Quiet
    BY <2>2 DEF TimesOut, Quiet
  <2>3. (ResetCard \/ AskVoltage) => Quiet
    BY <2>1 DEF ResetCard, AskVoltage
  <2>4. (WaitHighCapacity \/ AskCapacity) => Quiet
    BY <2>1, <2>2 DEF WaitHighCapacity, AskCapacity
  <2>5. (ProbeOld \/ WaitOld \/ SetBlockLength) => Quiet
    BY <2>1, <2>2 DEF ProbeOld, WaitOld, SetBlockLength
  <2>6. Initialised => Quiet
    BY DEF Initialised, Quiet
  <2>7. Quiet
    BY <1>1, <2>3, <2>4, <2>5, <2>6 DEF Initialisation
  <2>8. job.op = "init"
    BY <2>7 DEF IInv, Progress, Quiet
  <2> QED BY <2>7, <2>8 DEF Streams, Streaming, Quiet
<1>2. CASE ReadCommand
  <2>1. /\ pc = "read" /\ job' = job /\ count' = count /\ job.op = "read" /\ count = job.count
    BY <1>2, <1>0 DEF ReadCommand, Command, IInv, Progress, Types
  <2>2. Command(pc, IF count = 1 THEN "CMD17" ELSE "CMD18", Address, If(0, "rcvr", "done"))
    BY <1>2 DEF ReadCommand, Command
  <2>3. pc' \in {"rcvr", "done"}
    BY <2>1, <2>2, StartFacts
  <2>4. /\ pc' = "rcvr" /\ card'.phase \in Streaming => card'.phase = "multi" /\ count # 1
        /\ pc' = "done" => card'.phase = card.phase \/ card'.phase \notin Streaming
    BY <1>0, <1>s, <2>2, OpenFacts DEF Streaming
  <2> QED BY <2>1, <2>3, <2>4 DEF Streams, Streaming
<1>3. CASE NoBlock
  <2>1. /\ pc = "rcvr" /\ pc' = AfterRead /\ UNCHANGED <<job, count, result>> /\ job.op = "read"
        /\ card'.phase = card.phase \/ card'.phase = "tran"
    BY <1>0, <1>3, InFacts DEF NoBlock, IInv, Progress, Phases
  <2> QED BY <2>1 DEF Streams, AfterRead
<1>17. CASE Token
  <2>1. pc = "rcvr" /\ pc' = "data" /\ UNCHANGED <<card, job, count, result>> /\ job.op = "read"
    BY <1>17 DEF Token, IInv, Progress
  <2> QED BY <2>1 DEF Streams
<1>4. CASE Received
  <2>1. /\ pc = "data" /\ job.op = "read" /\ pc' \in {"rcvr", AfterRead} /\ job' = job
        /\ card'.phase = card.phase \/ card'.phase = "tran"
    BY <1>0, <1>4, MovedFacts DEF Received, IInv, Progress, Phases, Cards
  <2> QED BY <2>1 DEF Streams, AfterRead
<1>5. CASE StopRead
  <2>0. pc = "stop" /\ Command(pc, "CMD12", 0, Always("done"))
    BY <1>5 DEF StopRead, Command
  <2>1. /\ job' = job /\ job.op = "read" /\ pc' = "done"
        /\ card'.phase = card.phase \/ card'.phase \notin Streaming
    <3>1. job' = job /\ pc' = "done"
      BY <1>0, <2>0, OtherFacts
    <3>2. job.op = "read"
      BY <2>0 DEF IInv, Progress
    <3> QED BY <1>0, <2>0, <3>1, <3>2, QuietFacts
  <2>2. PICK a \in Sent("CMD12", 0) : card' = a[1]
    BY <1>5 DEF StopRead, Command
  <2>3. card'.phase # "multi"
    BY <1>0, <2>2, StreamFacts
  <2> QED BY <2>0, <2>1, <2>3 DEF Streams, Streaming
<1>6. CASE Done
  BY <1>6 DEF Done, Return, Streams
<1>7. CASE Select
  <2>1. /\ pc = "select" /\ UNCHANGED <<card, job, count>> /\ job.op \in {"write", "sync"}
        /\ \/ pc' = "idle" /\ (job.op = "sync" \/ result' # "OK")
           \/ pc' \in {"predefine", "write"}
    BY <1>7 DEF Select, Return, IInv, Progress
  <2> QED BY <2>1 DEF Streams
<1>8. CASE Predefine
  <2>1. /\ pc = "predefine" /\ job' = job /\ job.op = "write" /\ pc' = "write" /\ count \in Nat
        /\ count' = count
    BY <1>0, <1>8, OtherFacts DEF Predefine, Command, IInv, Progress, Types
  <2>2. card'.phase = card.phase \/ card'.phase \notin Streaming
    BY <1>0, <1>8, <2>1, QuietFacts DEF Predefine
  <2> QED BY <2>1, <2>2 DEF Streams, Streaming
<1>9. CASE WriteCommand
  <2>1. /\ pc = "write" /\ job' = job /\ count' = count /\ job.op = "write" /\ count = job.count
    BY <1>9, <1>0 DEF WriteCommand, Command, IInv, Progress, Types
  <2>2. Command(pc, IF count = 1 THEN "CMD24" ELSE "CMD25", Address, If(0, "xmit", "done"))
    BY <1>9 DEF WriteCommand, Command
  <2>3. pc' \in {"xmit", "done"}
    BY <2>1, <2>2, StartFacts
  <2>4. /\ pc' = "xmit" /\ card'.phase \in Streaming =>
             card'.phase = "wsingle" \/ (card'.phase = "receiving" /\ count # 1)
        /\ pc' = "done" => card'.phase = card.phase \/ card'.phase \notin Streaming
    BY <1>0, <1>s, <2>2, OpenFacts DEF Streaming
  <2> QED BY <2>1, <2>3, <2>4 DEF Streams, Streaming
<1>10. CASE Refused
  <2>1. /\ pc = "xmit" /\ job' = job /\ job.op = "write" /\ pc' = AfterWrite
        /\ card'.phase = IF card.phase = "wsingle" THEN "tran" ELSE card.phase
    BY <1>0, <1>10, InFacts DEF Refused, IInv, Progress, Phases
  <2> QED BY <2>1 DEF Streams, AfterWrite
<1>11. CASE Accepted
  <2>1. /\ pc = "xmit" /\ job' = job /\ job.op = "write" /\ pc' \in {"xmit", AfterWrite}
        /\ card'.phase = IF card.phase = "wsingle" THEN "tran" ELSE card.phase
    BY <1>0, <1>11, MovedFacts DEF Accepted, IInv, Progress, Phases, Cards
  <2> QED BY <2>1 DEF Streams, AfterWrite
<1>12. CASE StopWrite
  <2>1. /\ pc = "token" /\ job' = job /\ job.op = "write" /\ pc' = "done"
        /\ IF card.busy THEN count' = 1 /\ card' = card
           ELSE card'.phase = IF card.phase = "receiving" THEN "tran" ELSE card.phase
    <3>1. [In("tran") EXCEPT !.busy = TRUE].phase = "tran"
      BY <1>0, InFacts DEF Cards, Phases
    <3> QED BY <1>12, <3>1 DEF StopWrite, IInv, Progress
  <2> QED BY <2>1 DEF Streams
<1>13. CASE Calls
  <2>1. card' = card /\ pc = "idle"
    BY <1>13 DEF Calls, disk_initialize, disk_read, disk_write, ctrl_sync, Call
  <2>2. \/ job' = job /\ pc' = "idle" /\ result' = "NOTRDY"
        \/ /\ pc' \in {"cmd0", "read", "select"}
           /\ job'.op \in {"read", "write"} => job'.count # 0
    <3>1. CASE disk_initialize \/ ctrl_sync
      BY <3>1 DEF disk_initialize, ctrl_sync, Call, Return
    <3>2. ASSUME NEW sector \in 0 .. Size - 1, NEW n \in 1 .. MaxCount,
                 disk_read(sector, n) \/ disk_write(sector, n)
          PROVE  <2>2!:
      <4>1. n # 0
        OBVIOUS
      <4> QED BY <3>2, <4>1 DEF disk_read, disk_write, Call, Return
    <3> QED BY <1>13, <3>1, <3>2 DEF Calls
  <2> QED BY <2>1, <2>2 DEF Streams
<1>14. CASE CardReady
  <2>1. card'.phase = card.phase /\ UNCHANGED driver
    BY <1>0, <1>14 DEF CardReady, Cards
  <2> QED BY <2>1 DEF Streams, driver
<1>15. CASE Exchange
  <2>1. card'.phase \in {"out", "native"} /\ UNCHANGED driver
    BY <1>15 DEF Exchange, Slots
  <2> QED BY <2>1 DEF Streams, driver
<1>16. CASE Second \/ UNCHANGED vars
  BY <1>16 DEF Second, vars, driver, Streams
<1> QED BY <1>1, <1>2, <1>3, <1>4, <1>5, <1>6, <1>7, <1>8, <1>9, <1>10, <1>11, <1>12,
           <1>13, <1>14, <1>15, <1>16, <1>17 DEF Next, Driver, Reading, Writing

(* No call leaves the card in the middle of a stream, however it answered, *)
(* but a write whose stop token the card was too busy for, and that fails. *)
THEOREM StreamsAreClosed == Spec => []Closed
<1>1. Init => Streams
  BY DEF Init, Slots, Streams
<1>2. Streams => Closed
  BY DEF Streams, Closed
<1> QED BY InitIInv, NextIInv, StreamStep, <1>1, <1>2, PTL DEF Spec
=============================================================================
