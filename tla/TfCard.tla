------------------------------- MODULE TfCard -------------------------------
(***************************************************************************)
(* The SD card driver (tf_card.c) and a card that keeps to the standard:   *)
(* it answers a command within ten bytes, but it may be pulled out and     *)
(* exchanged at any moment, stay busy or send its data later than the      *)
(* driver waits, refuse a block, or take too long to initialise.  Bits of  *)
(* a block it sends may be spoilt; those of commands, answers and written  *)
(* blocks are not.  Every step of the driver is one command, one block     *)
(* written, or the token or the bytes of one read, and a wait for the card *)
(* ends when it is ready or, at any time before, with the timeout.         *)
(***************************************************************************)
EXTENDS Integers, Sequences

CONSTANTS
  Kinds,      \* which of "mmc", "v1", "v2" and "hc" cards there are
  Size,       \* sectors of a card
  BlockSize,  \* 512
  MaxCount    \* sectors of a transfer

ASSUME CardAssumption ==
  /\ Kinds \subseteq {"mmc", "v1", "v2", "hc"}
  /\ Size \in Nat \ {0} /\ BlockSize \in Nat \ {0, 1} /\ MaxCount \in Nat \ {0}

VARIABLES
  card,       \* [kind, phase, next: the sector it has come to, busy]
  pc,         \* where the driver is; "idle" between two calls
  job,        \* the call's operation and arguments
  count,      \* the blocks left
  buff,       \* the blocks read, each by its sector, or Noise
  taken,      \* the blocks cards have accepted in this call, and where
  late,       \* the second of disk_initialize is over
  ty,         \* its local of that name
  CardType,
  NotInit,    \* Stat & STA_NOINIT
  result      \* what the last call returned

driver == <<pc, job, count, buff, ty, CardType, NotInit, result>>
vars == <<card, driver, taken, late>>

NoAnswer == 255
Illegal == 4
Idle == 1
OutOfRange == 64
Codes == {0, Idle, Illegal, Idle + Illegal, OutOfRange, NoAnswer}

\* A block with bytes that are not the card's.
Noise == -1

(***************************************************************************)
(* The card.                                                               *)
(***************************************************************************)
Slots == [kind : Kinds, phase : {"out", "native"}, next : {0}, busy : {FALSE}]

In(phase) == [card EXCEPT !.phase = phase]

\* The sector an argument means to the card: bytes, or blocks on an "hc".
Meant(arg) == IF card.kind = "hc" THEN arg ELSE arg \div BlockSize
Valid(arg) == Meant(arg) < Size /\ (card.kind = "hc" \/ arg % BlockSize = 0)

Starts(phase, arg) ==
  IF Valid(arg) THEN {<<[In(phase) EXCEPT !.next = Meant(arg)], 0>>} ELSE {<<card, OutOfRange>>}

\* A card that initialises is ready now, or not yet.
Initialises == {<<card, Idle>>, <<In("tran"), 0>>}

WhileIdle(cmd, arg) ==
  CASE cmd = "CMD0" -> {<<card, Idle>>}
    [] cmd = "CMD8" -> {<<card, IF card.kind \in {"v2", "hc"} THEN Idle ELSE Idle + Illegal>>}
    [] cmd = "ACMD41" -> CASE card.kind = "mmc" -> {<<card, Idle + Illegal>>}
                           [] card.kind = "hc" /\ arg = 0 -> {<<card, Idle>>}
                           [] OTHER -> Initialises
    [] cmd = "CMD1" /\ card.kind = "mmc" -> Initialises
    [] cmd = "CMD58" -> {<<card, Idle>>}
    [] OTHER -> {<<card, Idle + Illegal>>}

WhileReady(cmd, arg) ==
  CASE cmd = "CMD0" -> {<<In("idle"), Idle>>}
    [] cmd = "CMD17" -> Starts("single", arg)
    [] cmd = "CMD18" -> Starts("multi", arg)
    [] cmd = "CMD24" -> Starts("wsingle", arg)
    [] cmd = "CMD25" -> Starts("receiving", arg)
    [] cmd \in {"CMD16", "CMD58"} -> {<<card, 0>>}
    [] cmd \in {"ACMD41", "ACMD23"} /\ card.kind # "mmc" -> {<<card, 0>>}
    [] cmd = "CMD1" /\ card.kind = "mmc" -> {<<card, 0>>}
    [] OTHER -> {<<card, Illegal>>}

\* What card and answer a command leads to.  A block that the driver has not
\* waited for is dropped with the next command; a card that waits for the
\* driver's block takes a command for noise.
Answers(cmd, arg) ==
  CASE card.phase = "native" /\ cmd = "CMD0" -> {<<In("idle"), Idle>>}
    [] card.phase = "idle" -> WhileIdle(cmd, arg)
    [] card.phase \in {"tran", "single"} -> WhileReady(cmd, arg)
    [] card.phase = "multi" ->
         IF cmd = "CMD12" THEN {<<In("tran"), 0>>, <<[In("tran") EXCEPT !.busy = TRUE], 0>>}
         ELSE {<<card, Illegal>>}
    [] OTHER -> {<<card, NoAnswer>>}

\* send_cmd: all but CMD12 wait for the card first, and give up.
Sent(cmd, arg) ==
  IF card.busy /\ cmd # "CMD12" THEN {<<card, NoAnswer>>} ELSE Answers(cmd, arg)

\* The card has done what kept it busy.
CardReady ==
  /\ card.busy
  /\ card' = [card EXCEPT !.busy = FALSE]
  /\ UNCHANGED <<driver, taken, late>>

\* The card is pulled out, and perhaps another one put in.
Exchange ==
  /\ card' \in Slots
  /\ UNCHANGED <<driver, taken, late>>

(***************************************************************************)
(* disk_initialize                                                         *)
(***************************************************************************)
Init ==
  /\ card \in Slots
  /\ pc = "idle"
  /\ job = [op |-> "none", sector |-> 0, count |-> 0]
  /\ count = 0
  /\ buff = <<>> /\ taken = <<>>
  /\ late = FALSE
  /\ ty = "none" /\ CardType = "none"
  /\ NotInit = TRUE
  /\ result = "none"

\* A call of the driver, and its return.
Call(op, sector, n, start) ==
  /\ pc = "idle"
  /\ pc' = start
  /\ job' = [op |-> op, sector |-> sector, count |-> n]
  /\ count' = n
  /\ buff' = <<>> /\ taken' = <<>>
  /\ result' = "none"

Return(res) ==
  /\ pc' = "idle"
  /\ result' = res

disk_initialize ==
  /\ Call("init", 0, 0, "cmd0")
  /\ ty' = "none"
  /\ UNCHANGED <<card, late, CardType, NotInit>>

\* Where a call goes on: to yes if the answer is code, else to no.
If(code, yes, no) == [r \in Codes |-> IF r = code THEN yes ELSE no]
Always(next) == [r \in Codes |-> next]

\* One command of a call: next says where each answer leads.
Command(at, cmd, arg, next) ==
  /\ pc = at
  /\ \E a \in Sent(cmd, arg) : card' = a[1] /\ pc' = next[a[2]]
  /\ UNCHANGED <<job, taken, CardType, NotInit, result>>

InitCommand(at, cmd, arg, next) ==
  /\ Command(at, cmd, arg, next)
  /\ UNCHANGED <<count, buff>>

ResetCard ==
  /\ InitCommand("cmd0", "CMD0", 0, If(Idle, "cmd8", "typed"))
  /\ late' = FALSE
  /\ UNCHANGED ty

\* A card that answers CMD8 may still not do with this voltage.
AskVoltage ==
  /\ \E yes \in {"hcs", "typed"} :
       InitCommand("cmd8", "CMD8", 0, If(Idle, yes, "probe"))
  /\ UNCHANGED <<late, ty>>

TimesOut(at) ==
  /\ pc = at /\ late
  /\ pc' = "typed" /\ ty' = "none"
  /\ UNCHANGED <<card, job, count, buff, taken, late, CardType, NotInit, result>>

\* Mutant: the card is given as long as it takes.
WaitHighCapacity_Forever ==
  /\ InitCommand("hcs", "ACMD41", 1, If(0, "cmd58", "hcs"))
  /\ UNCHANGED <<late, ty>>

WaitHighCapacity ==
  \/ TimesOut("hcs")
  \/ /\ ~late
     /\ InitCommand("hcs", "ACMD41", 1, If(0, "cmd58", "hcs"))
     /\ UNCHANGED <<late, ty>>

\* Mutant: a card that knows CMD8 is taken for one with block addresses.
AskCapacity_Always ==
  \/ TimesOut("cmd58")
  \/ /\ ~late
     /\ InitCommand("cmd58", "CMD58", 0, If(0, "typed", "failed"))
     /\ ty' = IF pc' = "failed" THEN "none" ELSE "v2block"
     /\ UNCHANGED late

AskCapacity ==
  \/ TimesOut("cmd58")
  \/ /\ ~late
     /\ InitCommand("cmd58", "CMD58", 0, If(0, "typed", "failed"))
     /\ ty' = IF pc' = "failed" THEN "none" ELSE IF card.kind = "hc" THEN "v2block" ELSE "v2"
     /\ UNCHANGED late

ProbeOld ==
  /\ InitCommand("probe", "ACMD41", 0, [r \in Codes |-> IF r <= Idle THEN "v1" ELSE "mmc"])
  /\ ty' = pc'
  /\ UNCHANGED late

WaitOld ==
  \/ TimesOut("v1") \/ TimesOut("mmc")
  \/ /\ ~late
     /\ \/ InitCommand("v1", "ACMD41", 0, If(0, "cmd16", "v1"))
        \/ InitCommand("mmc", "CMD1", 0, If(0, "cmd16", "mmc"))
     /\ UNCHANGED <<late, ty>>

SetBlockLength ==
  \/ TimesOut("cmd16")
  \/ /\ ~late
     /\ InitCommand("cmd16", "CMD16", BlockSize, If(0, "typed", "failed"))
     /\ ty' = IF pc' = "failed" THEN "none" ELSE ty
     /\ UNCHANGED late

Initialised ==
  /\ pc \in {"typed", "failed"}
  /\ CardType' = ty
  /\ NotInit' = (ty = "none")
  /\ Return(IF ty = "none" THEN "NOTRDY" ELSE "OK")
  /\ UNCHANGED <<card, job, count, buff, taken, late, ty>>

\* The second that disk_initialize grants the card.
Second ==
  /\ ~late
  /\ late' = TRUE
  /\ UNCHANGED <<card, driver, taken>>

Initialisation ==
  \/ ResetCard \/ AskVoltage \/ WaitHighCapacity \/ AskCapacity
  \/ ProbeOld \/ WaitOld \/ SetBlockLength \/ Initialised

(***************************************************************************)
(* disk_read.  Sector numbers become byte addresses for the older cards.   *)
(***************************************************************************)
Address == IF CardType = "v2block" THEN job.sector ELSE job.sector * BlockSize

disk_read(sector, n) ==
  /\ IF NotInit
     THEN pc = "idle" /\ Return("NOTRDY") /\ UNCHANGED <<job, count, buff, taken>>
     ELSE Call("read", sector, n, "read")
  /\ UNCHANGED <<card, late, ty, CardType, NotInit>>

ReadCommand ==
  /\ Command("read", IF count = 1 THEN "CMD17" ELSE "CMD18", Address, If(0, "rcvr", "done"))
  /\ UNCHANGED <<count, buff, late, ty>>

\* After its last block, and when a block does not come, a stream is stopped.
AfterRead == IF job.count = 1 THEN "done" ELSE "stop"

\* rcvr_datablock: an error token, or nothing within 200 ms.
NoBlock ==
  /\ pc = "rcvr"
  /\ card' \in IF card.phase = "single" THEN {card, In("tran")} ELSE {card}
  /\ pc' = AfterRead
  /\ UNCHANGED <<job, count, buff, taken, late, ty, CardType, NotInit, result>>

\* Its other way out of the wait: the token of a block.
Token ==
  /\ pc = "rcvr" /\ card.phase \in {"single", "multi"}
  /\ card.next < Size
  /\ pc' = "data"
  /\ UNCHANGED <<card, job, count, buff, taken, late, ty, CardType, NotInit, result>>

\* The block's bytes and its CRC, which is not looked at: without the card
\* that sent the token they are no sector's, and with it they may be spoilt.
Received ==
  LET sending == card.phase \in {"single", "multi"}
  IN  /\ pc = "data"
      /\ \E block \in {Noise} \union (IF sending THEN {card.next} ELSE {}) :
           buff' = Append(buff, block)
      /\ card' = IF sending
                 THEN [card EXCEPT !.next = @ + 1,
                                   !.phase = IF @ = "single" THEN "tran" ELSE @]
                 ELSE card
      /\ count' = count - 1
      /\ pc' = IF count = 1 THEN AfterRead ELSE "rcvr"
      /\ UNCHANGED <<job, taken, late, ty, CardType, NotInit, result>>

\* Mutant: a stream that has failed is not stopped.
StopRead_IfDone ==
  /\ IF count = 0
     THEN Command("stop", "CMD12", 0, Always("done"))
     ELSE /\ pc = "stop" /\ pc' = "done"
          /\ UNCHANGED <<card, job, taken, CardType, NotInit, result>>
  /\ UNCHANGED <<count, buff, late, ty>>

StopRead ==
  /\ Command("stop", "CMD12", 0, Always("done"))
  /\ UNCHANGED <<count, buff, late, ty>>

Done ==
  /\ pc = "done"
  /\ Return(IF count = 0 THEN "OK" ELSE "ERROR")
  /\ UNCHANGED <<card, job, count, buff, taken, late, ty, CardType, NotInit>>

Reading == ReadCommand \/ NoBlock \/ Token \/ Received \/ StopRead \/ Done

(***************************************************************************)
(* disk_write, and the CTRL_SYNC of disk_ioctl, which waits for the card.  *)
(***************************************************************************)
disk_write(sector, n) ==
  /\ IF NotInit
     THEN pc = "idle" /\ Return("NOTRDY") /\ UNCHANGED <<job, count, buff, taken>>
     ELSE Call("write", sector, n, "select")
  /\ UNCHANGED <<card, late, ty, CardType, NotInit>>

ctrl_sync ==
  /\ IF NotInit
     THEN pc = "idle" /\ Return("NOTRDY") /\ UNCHANGED <<job, count, buff, taken>>
     ELSE Call("sync", 0, 0, "select")
  /\ UNCHANGED <<card, late, ty, CardType, NotInit>>

Select ==
  /\ pc = "select"
  /\ CASE card.busy -> Return(IF job.op = "sync" THEN "ERROR" ELSE "NOTRDY")
       [] ~card.busy /\ job.op = "sync" -> Return("OK")
       [] OTHER ->
            /\ pc' = IF count > 1 /\ CardType # "mmc" THEN "predefine" ELSE "write"
            /\ UNCHANGED result
  /\ UNCHANGED <<card, job, count, buff, taken, late, ty, CardType, NotInit>>

\* The answer to ACMD23 is not looked at.
Predefine ==
  /\ Command("predefine", "ACMD23", count, Always("write"))
  /\ UNCHANGED <<count, buff, late, ty>>

WriteCommand ==
  /\ Command("write", IF count = 1 THEN "CMD24" ELSE "CMD25", Address, If(0, "xmit", "done"))
  /\ UNCHANGED <<count, buff, late, ty>>

AfterWrite == IF job.count = 1 THEN "done" ELSE "token"

\* xmit_datablock: the card is not ready in time, or does not take the block.
Refused ==
  /\ pc = "xmit"
  /\ card' = IF card.phase = "wsingle" THEN In("tran") ELSE card
  /\ pc' = AfterWrite
  /\ UNCHANGED <<job, count, buff, taken, late, ty, CardType, NotInit, result>>

Accepted ==
  /\ pc = "xmit" /\ card.phase \in {"wsingle", "receiving"}
  /\ ~card.busy /\ card.next < Size
  /\ taken' = Append(taken, <<card.next, job.count - count + 1>>)
  /\ card' = [card EXCEPT !.next = @ + 1, !.busy = TRUE,
                          !.phase = IF @ = "wsingle" THEN "tran" ELSE @]
  /\ count' = count - 1
  /\ pc' = IF count = 1 THEN AfterWrite ELSE "xmit"
  /\ UNCHANGED <<job, buff, late, ty, CardType, NotInit, result>>

\* The stop token is sent when the card is ready; if it stays busy the call
\* fails, and the card goes on waiting for blocks.
StopWrite ==
  /\ pc = "token"
  /\ pc' = "done"
  /\ IF card.busy
     THEN count' = 1 /\ UNCHANGED card
     ELSE /\ card' = IF card.phase = "receiving" THEN [In("tran") EXCEPT !.busy = TRUE] ELSE card
          /\ UNCHANGED count
  /\ UNCHANGED <<job, buff, taken, late, ty, CardType, NotInit, result>>

Writing == Select \/ Predefine \/ WriteCommand \/ Refused \/ Accepted \/ StopWrite

(***************************************************************************)
(* The specification                                                       *)
(***************************************************************************)
Calls ==
  \/ disk_initialize \/ ctrl_sync
  \/ \E sector \in 0 .. Size - 1, n \in 1 .. MaxCount :
       disk_read(sector, n) \/ disk_write(sector, n)

Driver == Initialisation \/ Reading \/ Writing

Next == Calls \/ Driver \/ Second \/ CardReady \/ Exchange

Spec == Init /\ [][Next]_vars

\* The driver runs, and time passes; the card need not do anything.
FairSpec == Spec /\ WF_vars(Driver) /\ WF_vars(Second)

Asked(i) == job.sector + i - 1

(* However the card fails, and even if it is exchanged for one with other  *)
(* addresses, no block of the buffer is another sector's than the one that *)
(* was asked for, without a hole, and a card gets each block of a write at *)
(* its sector and in order; RES_OK says that each has had its turn.  It    *)
(* does not say that a block that was begun has come whole, for the code   *)
(* looks at nothing after the token: it may be Noise.                      *)
Transferred ==
  /\ \A i \in 1 .. Len(buff) : buff[i] \in {Asked(i), Noise}
  /\ \A i \in 1 .. Len(taken) : taken[i] = <<Asked(i), i>>
  /\ result = "OK" =>
       /\ job.op = "read" => Len(buff) = job.count
       /\ job.op = "write" => Len(taken) = job.count

(* A call does not leave the card in the middle of a stream, in which it   *)
(* takes the next command for data or refuses it; only a card that is busy *)
(* for too long before the stop token is, and then the write has failed.   *)
Closed ==
  pc = "idle" =>
    /\ card.phase \notin {"multi", "wsingle"}
    /\ card.phase = "receiving" /\ job.op = "write" => result # "OK"

(* Every call returns, with a card that never answers too.                 *)
Returns == pc # "idle" ~> pc = "idle"
=============================================================================
