------------------------ MODULE ControlRegisterFile ------------------------
(***************************************************************************)
(* axi_ip/Control_register_file.v: the AXI4-Lite slave that holds the four *)
(* configuration registers, with a master that drives each channel with    *)
(* any delay and keeps VALID and its payload until READY.                  *)
(*                                                                         *)
(* The value of a write is its number: a register holds the number of the  *)
(* last write to it.  Writes are full words; the status fields of register *)
(* 0 are wires from GEMM_top and left out.                                 *)
(***************************************************************************)
EXTENDS Integers

CONSTANTS
  Registers,    \* register addresses; register 0 has the clear bit
  Writes,       \* writes the master issues
  Reads,        \* reads the master issues
  Outstanding   \* read addresses the master may have waiting for data

ASSUME RegistersAssumption ==
  /\ 0 \in Registers
  /\ Writes \in Nat /\ Reads \in Nat /\ Outstanding \in Nat \ {0}

VARIABLES
  \* the slave
  awready, aw_en, awaddr, wready, bvalid, arready, araddr, rvalid, rdata,
  slv_reg,
  \* the master's channels
  aw,      \* [valid, addr]
  w,       \* [valid, clear]: clear is WDATA[16]
  ar,      \* [valid, addr]
  \* history: handshakes on each channel
  aw_done, w_done, b_done, ar_done, r_done,
  addr_of,     \* the address of each write
  clears,      \* clear bits written to register 0
  pulses,      \* clocks with o_job_start_clear
  read_floor   \* the register's value the pending read must at least show

slaveVars == <<awready, aw_en, awaddr, wready, bvalid, arready, araddr, rvalid,
               rdata, slv_reg>>
writeVars == <<aw, w, aw_done, w_done, b_done, addr_of, clears, pulses>>
readVars == <<ar, ar_done, r_done, read_floor>>
vars == <<slaveVars, writeVars, readVars>>

Idle == [valid |-> FALSE, addr |-> 0]
Idles == [valid |-> FALSE, clear |-> FALSE]

Init ==
  /\ awready = FALSE /\ aw_en = TRUE /\ awaddr = 0 /\ wready = FALSE
  /\ bvalid = FALSE /\ arready = FALSE /\ araddr = 0 /\ rvalid = FALSE /\ rdata = 0
  /\ slv_reg = [r \in Registers |-> 0]
  /\ aw = Idle /\ w = Idles /\ ar = Idle
  /\ aw_done = 0 /\ w_done = 0 /\ b_done = 0 /\ ar_done = 0 /\ r_done = 0
  /\ addr_of = [i \in 1..Writes |-> 0]
  /\ clears = 0 /\ pulses = 0 /\ read_floor = 0

-----------------------------------------------------------------------------
(* The slave *)

\* An address and its data are on the bus and no write is being answered.
StartWrite == ~awready /\ aw.valid /\ w.valid /\ aw_en

slv_reg_wren == wready /\ w.valid /\ awready /\ aw.valid

\* Mutant: the address on the bus a clock later is used instead of the latched one.
NextAwaddrLate == IF awready THEN aw.addr ELSE awaddr

NextAwaddr == IF StartWrite THEN aw.addr ELSE awaddr

\* Mutant: a write starts although the last one has not been answered.
NextAwEnAlways(bready) == TRUE

\* Mutant: writes are not admitted again after the first.
NextAwEnOnce(bready) == aw_en /\ ~StartWrite

NextAwEn(bready) == IF StartWrite THEN FALSE ELSE aw_en \/ (bready /\ bvalid)

\* Mutant: the response is not withdrawn when it has been taken.
NextBvalidStuck(bready) == bvalid \/ slv_reg_wren

NextBvalid(bready) == IF slv_reg_wren /\ ~bvalid THEN TRUE ELSE bvalid /\ ~bready

NextSlvReg ==
  IF slv_reg_wren THEN [slv_reg EXCEPT ![awaddr] = w_done + 1] ELSE slv_reg

\* Mutant: the pulse lasts as long as the data is on the bus.
JobStartClearLong == w.valid /\ aw.valid /\ aw.addr = 0 /\ w.clear

\* o_job_start_clear
JobStartClear == slv_reg_wren /\ awaddr = 0 /\ w.clear

\* Mutant: the data is offered before the address has been accepted.
slv_reg_rdenEarly == ar.valid /\ ~rvalid

slv_reg_rden == arready /\ ar.valid /\ ~rvalid

\* Mutant: the response is dropped when the master is not ready at once.
NextRvalidPulse(rready) == slv_reg_rden

NextRvalid(rready) == slv_reg_rden \/ (rvalid /\ ~rready)

\* Mutant: the address is latched a clock late.
NextAraddrLate == IF arready /\ ar.valid THEN ar.addr ELSE araddr

NextAraddr == IF ~arready /\ ar.valid THEN ar.addr ELSE araddr

NextRdata == IF slv_reg_rden THEN slv_reg[araddr] ELSE rdata

SlaveClock(bready, rready) ==
  /\ awready' = StartWrite
  /\ aw_en' = NextAwEn(bready)
  /\ awaddr' = NextAwaddr
  /\ wready' = (~wready /\ aw.valid /\ w.valid /\ aw_en)
  /\ slv_reg' = NextSlvReg
  /\ bvalid' = NextBvalid(bready)
  /\ arready' = (~arready /\ ar.valid)
  /\ araddr' = NextAraddr
  /\ rvalid' = NextRvalid(rready)
  /\ rdata' = NextRdata

-----------------------------------------------------------------------------
(* The master: a channel that is not waiting may offer its next request.   *)

AwAccept == aw.valid /\ awready
WAccept == w.valid /\ wready
ArAccept == ar.valid /\ arready

Count(n, handshake) == IF handshake THEN n + 1 ELSE n

OfferAw ==
  IF aw.valid /\ ~awready THEN aw' = aw
  ELSE \/ aw' = Idle
       \/ /\ Count(aw_done, AwAccept) < Writes
          /\ aw' \in [valid : {TRUE}, addr : Registers]

OfferW ==
  IF w.valid /\ ~wready THEN w' = w
  ELSE \/ w' = Idles
       \/ /\ Count(w_done, WAccept) < Writes
          /\ w' \in [valid : {TRUE}, clear : BOOLEAN]

\* Reads whose address the master has offered and whose data it has not taken.
Pending(rready) == ar_done + (IF ArAccept THEN 1 ELSE 0)
                     - (r_done + (IF rvalid /\ rready THEN 1 ELSE 0))

OfferAr(rready) ==
  IF ar.valid /\ ~arready THEN ar' = ar /\ UNCHANGED read_floor
  ELSE \/ ar' = Idle /\ UNCHANGED read_floor
       \/ /\ Count(ar_done, ArAccept) < Reads
          /\ Pending(rready) < Outstanding
          /\ ar' \in [valid : {TRUE}, addr : Registers]
          /\ read_floor' = slv_reg[ar'.addr]

Clock(bready, rready) ==
  /\ SlaveClock(bready, rready)
  /\ OfferAw /\ OfferW /\ OfferAr(rready)
  /\ aw_done' = Count(aw_done, AwAccept)
  /\ w_done' = Count(w_done, WAccept)
  /\ b_done' = Count(b_done, bvalid /\ bready)
  /\ ar_done' = Count(ar_done, ArAccept)
  /\ r_done' = Count(r_done, rvalid /\ rready)
  /\ addr_of' = IF AwAccept THEN [addr_of EXCEPT ![aw_done + 1] = aw.addr] ELSE addr_of
  /\ clears' = Count(clears, AwAccept /\ aw.addr = 0 /\ w.clear)
  /\ pulses' = Count(pulses, JobStartClear)

Next == \E bready, rready \in BOOLEAN : Clock(bready, rready)

Spec == Init /\ [][Next]_vars

OfferClock(ch) == Next /\ ch'.valid
TakeClock == Clock(TRUE, TRUE)

\* The clock runs, the master goes on with what it began and takes responses.
FairSpec == Spec /\ WF_vars(Next) /\ WF_vars(TakeClock)
                 /\ WF_vars(OfferClock(aw)) /\ WF_vars(OfferClock(w))

-----------------------------------------------------------------------------
(* Properties *)

TypeOK ==
  /\ {awready, aw_en, wready, bvalid, arready, rvalid} \subseteq BOOLEAN
  /\ awaddr \in Registers /\ araddr \in Registers /\ rdata \in 0..Writes
  /\ slv_reg \in [Registers -> 0..Writes]
  /\ aw \in [valid : BOOLEAN, addr : Registers]
  /\ w \in [valid : BOOLEAN, clear : BOOLEAN]
  /\ ar \in [valid : BOOLEAN, addr : Registers]
  /\ {aw_done, w_done, b_done} \subseteq 0..Writes
  /\ ar_done \in 0..Reads /\ r_done \in 0..Reads
  /\ addr_of \in [1..Writes -> Registers]
  /\ clears \in 0..Writes /\ pulses \in Nat /\ read_floor \in 0..Writes

\* k is the last of the first n writes that went to register r, 0 if none did.
IsLastWrite(k, r, n) == /\ k \in 0..n
                        /\ k > 0 => addr_of[k] = r
                        /\ \A j \in k+1..n : addr_of[j] # r

(* Address and data of a write are paired although each comes with its own *)
(* delay, every accepted write is in the register file, the last one to a  *)
(* register on top, and no other register is touched (awready, wready,     *)
(* awaddr, slv_reg_wren).                                                  *)
WritesLand ==
  /\ aw_done = w_done
  /\ \A r \in Registers : IsLastWrite(slv_reg[r], r, w_done)

(* Every accepted write is answered once, and the next is accepted only    *)
(* after the answer has been taken (aw_en, bvalid).                        *)
OneResponsePerWrite == w_done = b_done + (IF bvalid THEN 1 ELSE 0)

(* Each write of the clear bit gives one pulse of o_job_start_clear, and   *)
(* nothing else does.                                                      *)
ClearPulsesOnce == pulses = clears

(* A read returns no value older than what the register held when the read *)
(* was offered: the readback of gemm_configure sees its own writes.        *)
ReadsAreFresh == rvalid /\ Outstanding = 1 => rdata >= read_floor

(* A response stays, unchanged, until it is taken.                         *)
ResponsesHeld ==
  [][/\ bvalid /\ b_done' = b_done => bvalid'
     /\ rvalid /\ r_done' = r_done => rvalid' /\ rdata' = rdata]_vars

(* All writes are answered.                                                *)
EveryWriteAnswered == <>(b_done = Writes)

(* Control_register_file.v, comment on axi_rvalid: "axi_rvalid is asserted *)
(* for one S_AXI_ACLK clock cycle when both S_AXI_ARVALID and axi_arready  *)
(* are asserted": a read address that has been accepted has its data       *)
(* offered.  It is not when the data of an earlier read is still waiting.  *)
EveryReadAnswered == ar_done = r_done + (IF rvalid THEN 1 ELSE 0)

-----------------------------------------------------------------------------
(* The inductive strengthening: where a write is in its life.              *)

WriteTypes ==
  /\ awready \in BOOLEAN /\ aw_en \in BOOLEAN /\ wready \in BOOLEAN /\ bvalid \in BOOLEAN
  /\ aw \in [valid : BOOLEAN, addr : Registers]
  /\ w \in [valid : BOOLEAN, clear : BOOLEAN]
  /\ awaddr \in Registers
  /\ slv_reg \in [Registers -> Nat]
  /\ addr_of \in [1..Writes -> Registers]
  /\ aw_done \in Nat /\ w_done \in Nat /\ b_done \in Nat
  /\ clears \in Nat /\ pulses \in Nat

WriteLife ==
  /\ wready = awready
  /\ awready => aw.valid /\ w.valid /\ awaddr = aw.addr
  /\ aw_en <=> ~awready /\ ~bvalid
  /\ ~(awready /\ bvalid)
  /\ aw.valid => aw_done < Writes

IInv == WriteTypes /\ WriteLife /\ WritesLand /\ OneResponsePerWrite /\ ClearPulsesOnce
=============================================================================
