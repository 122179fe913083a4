--------------------- MODULE ControlRegisterFileProofs ---------------------
(***************************************************************************)
(* The write side of the register file, for any registers, any number of   *)
(* writes and any delays of the master, whatever it reads meanwhile.  One  *)
(* write is in the slave at a time: it waits for both channels, is         *)
(* accepted on one clock, and is answered.                                 *)
(***************************************************************************)
EXTENDS ControlRegisterFile, TLAPS

LEMMA InitIInv == Init => IInv
<1> SUFFICES ASSUME Init PROVE IInv
  OBVIOUS
<1>1. WriteTypes
  BY RegistersAssumption DEF Init, WriteTypes, Idle, Idles
<1>2. WriteLife
  BY DEF Init, WriteLife, Idle
<1>4. OneResponsePerWrite /\ ClearPulsesOnce
  BY DEF Init, OneResponsePerWrite, ClearPulsesOnce
<1>3. WritesLand
  BY DEF Init, WritesLand, IsLastWrite
<1> QED
  BY <1>1, <1>2, <1>3, <1>4 DEF IInv

(* Both channels accept on the clock of slv_reg_wren and on no other.      *)
LEMMA AcceptTogether ==
  ASSUME IInv
  PROVE  /\ AwAccept <=> awready
         /\ WAccept <=> awready
         /\ slv_reg_wren <=> awready
         /\ StartWrite => ~awready /\ ~bvalid /\ aw_en
  BY DEF IInv, WriteTypes, WriteLife, AwAccept, WAccept, slv_reg_wren, StartWrite

LEMMA OfferedWithinBound ==
  ASSUME IInv, NEW bready, NEW rready, Clock(bready, rready)
  PROVE  /\ aw' \in [valid : BOOLEAN, addr : Registers]
         /\ w' \in [valid : BOOLEAN, clear : BOOLEAN]
         /\ aw'.valid => aw_done' < Writes
<1>1. OfferAw /\ OfferW /\ aw_done' = Count(aw_done, AwAccept)
  BY DEF Clock
<1>2. Idle \in [valid : BOOLEAN, addr : Registers] /\ ~Idle.valid
  BY RegistersAssumption DEF Idle
<1>3. /\ aw \in [valid : BOOLEAN, addr : Registers]
      /\ w \in [valid : BOOLEAN, clear : BOOLEAN]
  BY DEF IInv, WriteTypes
<1>4. \/ aw' = aw /\ aw.valid /\ ~awready
      \/ aw' = Idle
      \/ aw' \in [valid : {TRUE}, addr : Registers] /\ Count(aw_done, AwAccept) < Writes
  BY <1>1 DEF OfferAw
<1>5. aw' \in [valid : BOOLEAN, addr : Registers]
  <2>1. ASSUME NEW x \in [valid : {TRUE}, addr : Registers]
        PROVE  x \in [valid : BOOLEAN, addr : Registers]
    OBVIOUS
  <2> QED
    BY <1>2, <1>3, <1>4, <2>1
<1>6. w' \in [valid : BOOLEAN, clear : BOOLEAN]
  <2>1. w' = w \/ w' = Idles \/ w' \in [valid : {TRUE}, clear : BOOLEAN]
    BY <1>1 DEF OfferW
  <2>2. Idles \in [valid : BOOLEAN, clear : BOOLEAN]
    BY DEF Idles
  <2>3. ASSUME NEW x \in [valid : {TRUE}, clear : BOOLEAN]
        PROVE  x \in [valid : BOOLEAN, clear : BOOLEAN]
    OBVIOUS
  <2> QED
    BY <1>3, <2>1, <2>2, <2>3
<1>7. ASSUME aw'.valid PROVE aw_done' < Writes
  <2>1. CASE aw' = aw /\ aw.valid /\ ~awready
    <3>1. ~AwAccept
      BY <2>1 DEF AwAccept
    <3>2. aw_done' = aw_done
      BY <1>1, <3>1 DEF Count
    <3> QED
      BY <2>1, <3>2 DEF IInv, WriteLife
  <2>2. CASE aw' = Idle
    BY <1>2, <1>7, <2>2
  <2>3. CASE Count(aw_done, AwAccept) < Writes
    BY <1>1, <2>3
  <2> QED
    BY <1>4, <2>1, <2>2, <2>3
<1> QED
  BY <1>5, <1>6, <1>7

LEMMA ClockWriteTypes ==
  ASSUME IInv, NEW bready \in BOOLEAN, NEW rready, Clock(bready, rready)
  PROVE  WriteTypes'
<1>1. /\ aw' \in [valid : BOOLEAN, addr : Registers]
      /\ w' \in [valid : BOOLEAN, clear : BOOLEAN]
  BY OfferedWithinBound
<1>2. awready' \in BOOLEAN /\ aw_en' \in BOOLEAN /\ wready' \in BOOLEAN /\ bvalid' \in BOOLEAN
  BY DEF Clock, SlaveClock, StartWrite, NextAwEn, NextBvalid, slv_reg_wren, IInv, WriteTypes
<1>3. aw_done' \in Nat /\ w_done' \in Nat /\ b_done' \in Nat /\ clears' \in Nat /\ pulses' \in Nat
  <2>1. ASSUME NEW n \in Nat, NEW h PROVE Count(n, h) \in Nat
    BY DEF Count
  <2> QED
    BY <2>1 DEF Clock, IInv, WriteTypes
<1>4. awaddr' \in Registers
  BY DEF Clock, SlaveClock, NextAwaddr, IInv, WriteTypes
<1>5. slv_reg' \in [Registers -> Nat]
  BY DEF Clock, SlaveClock, NextSlvReg, IInv, WriteTypes
<1>6. addr_of' \in [1..Writes -> Registers]
  BY DEF Clock, IInv, WriteTypes
<1> QED
  BY <1>1, <1>2, <1>3, <1>4, <1>5, <1>6 DEF WriteTypes

LEMMA ClockWriteLife ==
  ASSUME IInv, NEW bready \in BOOLEAN, NEW rready, Clock(bready, rready)
  PROVE  WriteLife'
<1>1. /\ awready' = StartWrite
      /\ wready' = (~wready /\ aw.valid /\ w.valid /\ aw_en)
      /\ aw_en' = NextAwEn(bready)
      /\ awaddr' = NextAwaddr
      /\ bvalid' = NextBvalid(bready)
      /\ OfferAw /\ OfferW
  BY DEF Clock, SlaveClock
<1>2. wready' = awready'
  BY <1>1 DEF StartWrite, IInv, WriteLife
<1>3. awready' => aw'.valid /\ w'.valid /\ awaddr' = aw'.addr
  BY <1>1, AcceptTogether DEF StartWrite, NextAwaddr, OfferAw, OfferW, IInv, WriteLife
<1>4. /\ aw_en' <=> ~awready' /\ ~bvalid'
      /\ ~(awready' /\ bvalid')
  <2>1. CASE awready
    BY <1>1, <2>1, AcceptTogether DEF NextAwEn, NextBvalid, IInv, WriteLife
  <2>2. CASE ~awready
    BY <1>1, <2>2, AcceptTogether DEF NextAwEn, NextBvalid, IInv, WriteLife
  <2> QED
    BY <2>1, <2>2 DEF IInv, WriteTypes
<1>5. aw'.valid => aw_done' < Writes
  BY OfferedWithinBound
<1> QED
  BY <1>2, <1>3, <1>4, <1>5 DEF WriteLife

LEMMA ClockWritesLand ==
  ASSUME IInv, NEW bready, NEW rready, Clock(bready, rready)
  PROVE  WritesLand'
<1>1. /\ aw_done' = IF awready THEN aw_done + 1 ELSE aw_done
      /\ w_done' = IF awready THEN w_done + 1 ELSE w_done
      /\ slv_reg' = IF awready THEN [slv_reg EXCEPT ![awaddr] = w_done + 1] ELSE slv_reg
      /\ addr_of' = IF awready THEN [addr_of EXCEPT ![aw_done + 1] = aw.addr] ELSE addr_of
  BY AcceptTogether DEF Clock, SlaveClock, Count, NextSlvReg
<1>2. aw_done = w_done /\ w_done \in Nat /\ aw_done' = w_done'
  BY <1>1 DEF IInv, WritesLand, WriteTypes
<1>3. CASE awready
  <2>1. awaddr = aw.addr /\ w_done + 1 \in 1..Writes /\ awaddr \in Registers
    BY <1>2, <1>3, RegistersAssumption DEF IInv, WriteLife, WriteTypes
  <2>2. /\ slv_reg' = [slv_reg EXCEPT ![awaddr] = w_done + 1]
        /\ addr_of' = [addr_of EXCEPT ![w_done + 1] = awaddr]
        /\ w_done' = w_done + 1
    BY <1>1, <1>2, <1>3, <2>1
  <2>3. addr_of'[w_done + 1] = awaddr /\ \A i \in 1..w_done : addr_of'[i] = addr_of[i]
    BY <1>2, <2>1, <2>2 DEF IInv, WriteTypes
  <2>4. ASSUME NEW r \in Registers PROVE IsLastWrite(slv_reg[r], r, w_done)'
    <3>1. CASE r = awaddr
      <4>1. slv_reg'[r] = w_done + 1
        BY <2>1, <2>2, <3>1 DEF IInv, WriteTypes
      <4> QED
        BY <1>2, <2>2, <2>3, <3>1, <4>1 DEF IsLastWrite
    <3>2. CASE r # awaddr
      <4>1. slv_reg'[r] = slv_reg[r] /\ IsLastWrite(slv_reg[r], r, w_done)
        BY <2>2, <2>4, <3>2 DEF IInv, WriteTypes, WritesLand
      <4>2. slv_reg[r] \in 0..w_done
        BY <4>1 DEF IsLastWrite
      <4>3. slv_reg[r] > 0 => addr_of'[slv_reg[r]] = r
        BY <2>3, <4>1, <4>2, <1>2 DEF IsLastWrite
      <4>4. \A j \in slv_reg[r]+1..w_done+1 : addr_of'[j] # r
        BY <1>2, <2>3, <3>2, <4>1, <4>2 DEF IsLastWrite
      <4> QED
        BY <1>2, <2>2, <4>1, <4>2, <4>3, <4>4 DEF IsLastWrite
    <3> QED
      BY <3>1, <3>2
  <2> QED
    BY <1>2, <2>4 DEF WritesLand
<1>4. CASE ~awready
  BY <1>1, <1>4 DEF IInv, WritesLand, IsLastWrite
<1> QED
  BY <1>3, <1>4

LEMMA ClockResponses ==
  ASSUME IInv, NEW bready \in BOOLEAN, NEW rready, Clock(bready, rready)
  PROVE  OneResponsePerWrite' /\ ClearPulsesOnce'
<1>1. /\ w_done' = IF awready THEN w_done + 1 ELSE w_done
      /\ b_done' = IF bvalid /\ bready THEN b_done + 1 ELSE b_done
      /\ bvalid' = IF awready /\ ~bvalid THEN TRUE ELSE bvalid /\ ~bready
  BY AcceptTogether DEF Clock, SlaveClock, Count, NextBvalid
<1>2. w_done \in Nat /\ b_done \in Nat /\ bvalid \in BOOLEAN /\ awready \in BOOLEAN
  BY DEF IInv, WriteTypes
<1>3. ~(awready /\ bvalid) /\ w_done = b_done + (IF bvalid THEN 1 ELSE 0)
  BY DEF IInv, WriteLife, OneResponsePerWrite
<1>4. OneResponsePerWrite'
  <2>1. CASE awready
    BY <1>1, <1>2, <1>3, <2>1 DEF OneResponsePerWrite
  <2>2. CASE ~awready /\ bvalid /\ bready
    BY <1>1, <1>2, <1>3, <2>2 DEF OneResponsePerWrite
  <2>3. CASE ~awready /\ ~(bvalid /\ bready)
    BY <1>1, <1>2, <1>3, <2>3 DEF OneResponsePerWrite
  <2> QED
    BY <2>1, <2>2, <2>3
<1>5. ClearPulsesOnce'
  <2>1. (AwAccept /\ aw.addr = 0 /\ w.clear) <=> JobStartClear
    BY AcceptTogether DEF JobStartClear, IInv, WriteLife
  <2> QED
    BY <2>1 DEF Clock, Count, IInv, ClearPulsesOnce
<1> QED
  BY <1>4, <1>5

LEMMA NextIInv == IInv /\ [Next]_vars => IInv'
<1> SUFFICES ASSUME IInv, [Next]_vars PROVE IInv'
  OBVIOUS
<1>1. CASE Next
  BY <1>1, ClockWriteTypes, ClockWriteLife, ClockWritesLand, ClockResponses DEF Next, IInv
<1>2. CASE UNCHANGED vars
  BY <1>2 DEF vars, slaveVars, writeVars, IInv, WriteTypes, WriteLife, WritesLand, IsLastWrite,
              OneResponsePerWrite, ClearPulsesOnce
<1> QED
  BY <1>1, <1>2

(* Every register holds the last write the master addressed to it (awready,*)
(* wready, axi_awaddr and slv_reg_wren).                                   *)
THEOREM RegistersHoldWrites == Spec => []WritesLand
<1>1. IInv => WritesLand
  BY DEF IInv
<1> QED
  BY <1>1, InitIInv, NextIInv, PTL DEF Spec

(* Every write has one answer (aw_en and axi_bvalid).                      *)
THEOREM WritesAnsweredOnce == Spec => []OneResponsePerWrite
<1>1. IInv => OneResponsePerWrite
  BY DEF IInv
<1> QED
  BY <1>1, InitIInv, NextIInv, PTL DEF Spec

(* Every write of the clear bit is one pulse (o_job_start_clear).          *)
THEOREM ClearIsOnePulse == Spec => []ClearPulsesOnce
<1>1. IInv => ClearPulsesOnce
  BY DEF IInv
<1> QED
  BY <1>1, InitIInv, NextIInv, PTL DEF Spec

(* The strengthening itself: where every write is in its life.             *)
THEOREM WritesInOrder == Spec => []IInv
  BY InitIInv, NextIInv, PTL DEF Spec

-----------------------------------------------------------------------------
(* The read side.  A master that waits for the data of one read before it  *)
(* offers the next never has an address and data in the slave at once, and *)
(* a register only ever gets newer.                                        *)

ReadInv ==
  /\ ar \in [valid : BOOLEAN, addr : Registers] /\ araddr \in Registers
  /\ arready \in BOOLEAN /\ rvalid \in BOOLEAN
  /\ read_floor \in Nat /\ rdata \in Nat /\ ar_done \in Nat /\ r_done \in Nat
  /\ arready => ar.valid /\ araddr = ar.addr
  /\ ar.valid => ~rvalid /\ read_floor <= slv_reg[ar.addr]
  /\ rvalid => rdata >= read_floor
  /\ EveryReadAnswered

LEMMA InitReadInv == Init => ReadInv
<1> SUFFICES ASSUME Init PROVE ReadInv
  OBVIOUS
<1>1. ar \in [valid : BOOLEAN, addr : Registers] /\ ~ar.valid
  BY RegistersAssumption DEF Init, Idle
<1>2. /\ araddr = 0 /\ arready = FALSE /\ rvalid = FALSE
      /\ read_floor = 0 /\ rdata = 0 /\ ar_done = 0 /\ r_done = 0
  BY DEF Init
<1>3. EveryReadAnswered
  BY <1>2 DEF EveryReadAnswered
<1> QED
  BY <1>1, <1>2, <1>3, RegistersAssumption DEF ReadInv

LEMMA RegistersGetNewer ==
  ASSUME IInv, NEW bready, NEW rready, Clock(bready, rready), NEW r \in Registers
  PROVE  slv_reg[r] \in Nat /\ slv_reg'[r] \in Nat /\ slv_reg[r] <= slv_reg'[r]
<1>1. slv_reg \in [Registers -> Nat] /\ w_done \in Nat /\ slv_reg[r] \in 0..w_done
  BY DEF IInv, WriteTypes, WritesLand, IsLastWrite
<1>2. slv_reg' = slv_reg \/ slv_reg' = [slv_reg EXCEPT ![awaddr] = w_done + 1]
  BY DEF Clock, SlaveClock, NextSlvReg
<1> QED
  BY <1>1, <1>2

\* What a clock does to the data phase.
LEMMA DataPhase ==
  ASSUME IInv, ReadInv, NEW bready, NEW rready \in BOOLEAN, Clock(bready, rready)
  PROVE  /\ slv_reg_rden <=> ArAccept
         /\ ArAccept <=> arready
         /\ arready => ~rvalid
         /\ rvalid' = (arready \/ (rvalid /\ ~rready))
         /\ rdata' = IF arready THEN slv_reg[ar.addr] ELSE rdata
         /\ ar_done' = IF arready THEN ar_done + 1 ELSE ar_done
         /\ r_done' = IF rvalid /\ rready THEN r_done + 1 ELSE r_done
         /\ Pending(rready) = (IF arready \/ (rvalid /\ ~rready) THEN 1 ELSE 0)
<1>1. /\ slv_reg_rden <=> ArAccept
      /\ ArAccept <=> arready
      /\ arready => ~rvalid
  BY DEF ReadInv, slv_reg_rden, ArAccept
<1>2. /\ rvalid' = (arready \/ (rvalid /\ ~rready))
      /\ ar_done' = IF arready THEN ar_done + 1 ELSE ar_done
      /\ r_done' = IF rvalid /\ rready THEN r_done + 1 ELSE r_done
  BY <1>1 DEF Clock, SlaveClock, NextRvalid, Count
<1>3. rdata' = IF arready THEN slv_reg[ar.addr] ELSE rdata
  BY <1>1 DEF Clock, SlaveClock, NextRdata, ReadInv
<1>4. Pending(rready) = (IF arready \/ (rvalid /\ ~rready) THEN 1 ELSE 0)
  BY <1>1 DEF Pending, ReadInv, EveryReadAnswered
<1> QED
  BY <1>1, <1>2, <1>3, <1>4

\* And to the address channel of a master that waits for each read.
LEMMA AddressPhase ==
  ASSUME Outstanding = 1, IInv, ReadInv, NEW bready, NEW rready \in BOOLEAN,
         Clock(bready, rready)
  PROVE  \/ ar' = ar /\ ar.valid /\ ~arready /\ read_floor' = read_floor
         \/ ar' = Idle /\ read_floor' = read_floor
         \/ /\ ar' \in [valid : {TRUE}, addr : Registers]
            /\ ~arready /\ ~rvalid' /\ read_floor' = slv_reg[ar'.addr]
<1>1. OfferAr(rready)
  BY DEF Clock
<1>2. CASE ar.valid /\ ~arready
  BY <1>1, <1>2 DEF OfferAr
<1>3. CASE ~(ar.valid /\ ~arready)
  <2>1. Pending(rready) < Outstanding => ~arready /\ ~rvalid'
    BY DataPhase DEF ReadInv
  <2> QED
    BY <1>1, <1>3, <2>1 DEF OfferAr
<1> QED
  BY <1>2, <1>3

LEMMA NextReadInv ==
  ASSUME Outstanding = 1
  PROVE  IInv /\ ReadInv /\ [Next]_vars => ReadInv'
<1> SUFFICES ASSUME IInv, ReadInv, [Next]_vars PROVE ReadInv'
  OBVIOUS
<1>1. ASSUME NEW bready \in BOOLEAN, NEW rready \in BOOLEAN, Clock(bready, rready)
      PROVE  ReadInv'
  <2> USE <1>1
  <2> DEFINE Offer == [valid : {TRUE}, addr : Registers]
  <2>1. \A r \in Registers :
          slv_reg[r] \in Nat /\ slv_reg'[r] \in Nat /\ slv_reg[r] <= slv_reg'[r]
    BY RegistersGetNewer
  <2>2. Idle \in [valid : BOOLEAN, addr : Registers] /\ ~Idle.valid
    BY RegistersAssumption DEF Idle
  <2>3. ASSUME NEW x \in Offer
        PROVE  x \in [valid : BOOLEAN, addr : Registers] /\ x.valid /\ x.addr \in Registers
    OBVIOUS
  <2>4. ar' \in [valid : BOOLEAN, addr : Registers] /\ read_floor' \in Nat
    BY <2>1, <2>2, <2>3, AddressPhase DEF ReadInv
  <2>5. arready' = (~arready /\ ar.valid) /\ araddr' = IF ~arready /\ ar.valid THEN ar.addr ELSE araddr
    BY DEF Clock, SlaveClock, NextAraddr
  <2>6. /\ araddr' \in Registers /\ arready' \in BOOLEAN
        /\ arready' => ar'.valid /\ araddr' = ar'.addr
    <3>1. arready' => ar' = ar
      BY <2>5 DEF Clock, OfferAr
    <3> QED
      BY <2>5, <3>1 DEF ReadInv
  <2>7. rvalid' \in BOOLEAN /\ rdata' \in Nat /\ ar_done' \in Nat /\ r_done' \in Nat
    BY <2>1, DataPhase DEF ReadInv
  <2>8. ar'.valid => ~rvalid' /\ read_floor' <= slv_reg'[ar'.addr]
    <3>1. CASE ar' = ar /\ ar.valid /\ ~arready /\ read_floor' = read_floor
      <4>1. ~rvalid' /\ ar.addr \in Registers
        BY <3>1, DataPhase DEF ReadInv
      <4> QED
        BY <2>1, <3>1, <4>1 DEF ReadInv
    <3>2. CASE ar' = Idle /\ read_floor' = read_floor
      BY <2>2, <3>2
    <3>3. CASE ar' \in Offer /\ ~rvalid' /\ read_floor' = slv_reg[ar'.addr]
      BY <2>1, <2>3, <3>3
    <3> QED
      BY <3>1, <3>2, <3>3, AddressPhase
  <2>9. rvalid' => rdata' >= read_floor'
    <3>1. rvalid' => read_floor' = read_floor
      BY AddressPhase
    <3>2. CASE arready
      BY <2>1, <3>1, <3>2, DataPhase DEF ReadInv
    <3>3. CASE ~arready
      BY <3>1, <3>3, DataPhase DEF ReadInv
    <3> QED
      BY <3>2, <3>3
  <2>10. EveryReadAnswered'
    BY DataPhase DEF ReadInv, EveryReadAnswered
  <2> QED
    BY <2>4, <2>6, <2>7, <2>8, <2>9, <2>10 DEF ReadInv
<1>2. CASE UNCHANGED vars
  BY <1>2 DEF vars, slaveVars, readVars, ReadInv, EveryReadAnswered
<1> QED
  BY <1>1, <1>2 DEF Next

(* A master that waits for each read is given no value older than the      *)
(* register had when it offered the read (axi_arready, axi_rvalid).        *)
THEOREM SingleReadsAreFresh ==
  ASSUME Outstanding = 1
  PROVE  Spec => []ReadsAreFresh
<1>1. ReadInv => ReadsAreFresh
  BY DEF ReadInv, ReadsAreFresh
<1> QED
  BY <1>1, InitIInv, NextIInv, InitReadInv, NextReadInv, PTL DEF Spec

(* And each address it had accepted has its data offered (slv_reg_rden).   *)
THEOREM SingleReadsAnswered ==
  ASSUME Outstanding = 1
  PROVE  Spec => []EveryReadAnswered
<1>1. ReadInv => EveryReadAnswered
  BY DEF ReadInv
<1> QED
  BY <1>1, InitIInv, NextIInv, InitReadInv, NextReadInv, PTL DEF Spec

-----------------------------------------------------------------------------
(* The responses, whatever the master's delays.                            *)

LEMMA ClockHoldsResponses ==
  ASSUME bvalid \in BOOLEAN, rvalid \in BOOLEAN, b_done \in Nat, r_done \in Nat,
         NEW bready \in BOOLEAN, NEW rready \in BOOLEAN, Clock(bready, rready)
  PROVE  /\ rvalid' \in BOOLEAN /\ r_done' \in Nat
         /\ bvalid /\ b_done' = b_done => bvalid'
         /\ rvalid /\ r_done' = r_done => rvalid' /\ rdata' = rdata
<1>1. /\ bvalid' = NextBvalid(bready) /\ b_done' = Count(b_done, bvalid /\ bready)
      /\ rvalid' = NextRvalid(rready) /\ r_done' = Count(r_done, rvalid /\ rready)
      /\ rdata' = NextRdata
  BY DEF Clock, SlaveClock
<1>2. rvalid' \in BOOLEAN /\ r_done' \in Nat
  BY <1>1 DEF NextRvalid, slv_reg_rden, Count
<1>3. bvalid /\ b_done' = b_done => bvalid'
  <2>1. bready => b_done' = b_done + 1 \/ ~bvalid
    BY <1>1 DEF Count
  <2>2. b_done + 1 # b_done
    OBVIOUS
  <2>3. bvalid /\ ~bready => NextBvalid(bready)
    BY DEF NextBvalid
  <2>. QED
    BY <1>1, <2>1, <2>2, <2>3
<1>4. rvalid /\ r_done' = r_done => rvalid' /\ rdata' = rdata
  <2>1. rready => r_done' = r_done + 1 \/ ~rvalid
    BY <1>1 DEF Count
  <2>2. r_done + 1 # r_done
    OBVIOUS
  <2>3. rvalid /\ ~rready => NextRvalid(rready)
    BY DEF NextRvalid
  <2>4. rvalid => NextRdata = rdata
    BY DEF NextRdata, slv_reg_rden
  <2>. QED
    BY <1>1, <2>1, <2>2, <2>3, <2>4
<1> QED
  BY <1>2, <1>3, <1>4

(* A response of either kind stays, unchanged, until the master takes it,  *)
(* also when the master has several reads waiting (axi_bvalid, axi_rvalid, *)
(* axi_rdata).                                                             *)
THEOREM ResponsesAreHeld == Spec => ResponsesHeld
<1>. DEFINE TakenType == rvalid \in BOOLEAN /\ r_done \in Nat
            Held == /\ bvalid /\ b_done' = b_done => bvalid'
                    /\ rvalid /\ r_done' = r_done => rvalid' /\ rdata' = rdata
<1>1. Init => TakenType
  <2>. SUFFICES ASSUME Init PROVE TakenType
    OBVIOUS
  <2>1. rvalid = FALSE /\ r_done = 0
    BY DEF Init
  <2>. QED
    BY <2>1
<1>2. IInv /\ TakenType /\ [Next]_vars => TakenType' /\ [Held]_vars
  <2>. SUFFICES ASSUME IInv, TakenType, [Next]_vars
                PROVE  TakenType' /\ [Held]_vars
    OBVIOUS
  <2>1. CASE UNCHANGED vars
    BY <2>1 DEF vars, slaveVars, readVars
  <2>2. CASE Next
    BY <2>2, ClockHoldsResponses DEF Next, IInv, WriteTypes
  <2>. QED
    BY <2>1, <2>2
<1>. HIDE DEF TakenType
<1>3. Spec => [][Held]_vars
  BY <1>1, <1>2, InitIInv, NextIInv, PTL DEF Spec
<1>. QED
  BY <1>3 DEF ResponsesHeld

-----------------------------------------------------------------------------
(* Types.  No channel has more handshakes than the master has requests:    *)
(* what is offered is within the bound, and what is answered was accepted. *)

ReadTypes ==
  /\ ar \in [valid : BOOLEAN, addr : Registers] /\ araddr \in Registers
  /\ arready \in BOOLEAN /\ rvalid \in BOOLEAN
  /\ rdata \in 0..Writes /\ read_floor \in 0..Writes
  /\ ar_done \in 0..Reads /\ r_done \in Nat
  /\ ar.valid => ar_done < Reads
  /\ r_done + (IF rvalid THEN 1 ELSE 0) <= ar_done

WriteBounds == aw_done <= Writes /\ clears <= aw_done

TypeInv == IInv /\ ReadTypes /\ WriteBounds

\* What the register file holds is the number of a write.
LEMMA HeldIsWrite ==
  ASSUME IInv, WriteBounds, NEW r \in Registers
  PROVE  slv_reg[r] \in 0..Writes
<1>1. slv_reg[r] \in 0..w_done /\ aw_done = w_done
  BY DEF IInv, WritesLand, IsLastWrite
<1>2. w_done \in Nat /\ w_done <= Writes
  BY <1>1 DEF WriteBounds, IInv, WriteTypes
<1> QED
  BY <1>1, <1>2, RegistersAssumption

LEMMA InitTypeInv == Init => TypeInv
<1> SUFFICES ASSUME Init PROVE TypeInv
  OBVIOUS
<1>1. ar = [valid |-> FALSE, addr |-> 0]
  BY DEF Init, Idle
<1>2. ar \in [valid : BOOLEAN, addr : Registers] /\ ~ar.valid
  BY <1>1, RegistersAssumption
<1>3. /\ arready \in BOOLEAN /\ rvalid \in BOOLEAN /\ ~rvalid
      /\ araddr \in Registers
  BY RegistersAssumption DEF Init
<1>5. /\ rdata \in 0..Writes /\ read_floor \in 0..Writes
      /\ ar_done \in 0..Reads /\ r_done \in Nat /\ r_done + 0 <= ar_done
  BY RegistersAssumption DEF Init
<1>6. ReadTypes
  BY <1>2, <1>3, <1>5 DEF ReadTypes
<1>4. WriteBounds
  BY RegistersAssumption DEF Init, WriteBounds
<1> QED
  BY <1>4, <1>6, InitIInv DEF TypeInv

LEMMA ClockWriteBounds ==
  ASSUME TypeInv, NEW bready, NEW rready, Clock(bready, rready)
  PROVE  WriteBounds'
<1>1. /\ aw_done \in Nat /\ clears \in Nat /\ aw_done <= Writes /\ clears <= aw_done
      /\ aw.valid => aw_done < Writes
      /\ Writes \in Nat
  BY RegistersAssumption DEF TypeInv, IInv, WriteTypes, WriteLife, WriteBounds
<1>2. /\ aw_done' = IF AwAccept THEN aw_done + 1 ELSE aw_done
      /\ clears' = IF AwAccept /\ aw.addr = 0 /\ w.clear THEN clears + 1 ELSE clears
  BY DEF Clock, Count
<1>3. AwAccept => aw.valid
  BY DEF AwAccept
<1> QED
  BY <1>1, <1>2, <1>3 DEF WriteBounds

LEMMA ClockReadTypes ==
  ASSUME TypeInv, NEW bready \in BOOLEAN, NEW rready \in BOOLEAN, Clock(bready, rready)
  PROVE  ReadTypes'
<1> DEFINE taken == rvalid /\ rready
<1>1. /\ arready' = (~arready /\ ar.valid) /\ araddr' = NextAraddr
      /\ rvalid' = NextRvalid(rready) /\ rdata' = NextRdata
      /\ ar_done' = IF ArAccept THEN ar_done + 1 ELSE ar_done
      /\ r_done' = IF taken THEN r_done + 1 ELSE r_done
      /\ OfferAr(rready)
  BY DEF Clock, SlaveClock, Count
<1>2. /\ ar \in [valid : BOOLEAN, addr : Registers] /\ araddr \in Registers
      /\ arready \in BOOLEAN /\ rvalid \in BOOLEAN
      /\ rdata \in 0..Writes /\ read_floor \in 0..Writes
      /\ ar_done \in 0..Reads /\ r_done \in Nat
      /\ ar.valid => ar_done < Reads
      /\ r_done + (IF rvalid THEN 1 ELSE 0) <= ar_done
      /\ Reads \in Nat /\ Writes \in Nat
  BY RegistersAssumption DEF TypeInv, ReadTypes
<1>3. \A r \in Registers : slv_reg[r] \in 0..Writes
  BY HeldIsWrite DEF TypeInv
<1>4. /\ arready' \in BOOLEAN /\ rvalid' \in BOOLEAN
      /\ araddr' \in Registers /\ rdata' \in 0..Writes
  <2>1. arready' \in BOOLEAN
    BY <1>1, <1>2
  <2>2. rvalid' \in BOOLEAN
    BY <1>1, <1>2 DEF NextRvalid, slv_reg_rden
  <2>3. araddr' \in Registers
    BY <1>1, <1>2 DEF NextAraddr
  <2>4. rdata' \in 0..Writes
    BY <1>1, <1>2, <1>3 DEF NextRdata
  <2> QED
    BY <2>1, <2>2, <2>3, <2>4
<1>5. ArAccept <=> ar.valid /\ arready
  BY DEF ArAccept
<1>6. ar_done' \in 0..Reads /\ r_done' \in Nat
  BY <1>1, <1>2, <1>5
<1>7. \/ ar' = ar /\ read_floor' = read_floor /\ ar.valid /\ ~arready
      \/ ar' = [valid |-> FALSE, addr |-> 0] /\ read_floor' = read_floor
      \/ /\ Count(ar_done, ArAccept) < Reads
         /\ ar' \in [valid : {TRUE}, addr : Registers] /\ read_floor' = slv_reg[ar'.addr]
  BY <1>1 DEF OfferAr, Idle
<1>8. /\ ar' \in [valid : BOOLEAN, addr : Registers] /\ read_floor' \in 0..Writes
      /\ ar'.valid => ar_done' < Reads
  <2>1. CASE ar' = ar /\ read_floor' = read_floor /\ ar.valid /\ ~arready
    BY <2>1, <1>1, <1>2, <1>5
  <2>2. CASE ar' = [valid |-> FALSE, addr |-> 0] /\ read_floor' = read_floor
    BY <2>2, <1>2, RegistersAssumption
  <2>3. CASE /\ Count(ar_done, ArAccept) < Reads
             /\ ar' \in [valid : {TRUE}, addr : Registers] /\ read_floor' = slv_reg[ar'.addr]
    <3>1. ar' \in [valid : BOOLEAN, addr : Registers] /\ ar'.addr \in Registers
      BY <2>3
    <3>2. ar_done' < Reads
      BY <2>3, <1>1 DEF Count
    <3> QED
      BY <2>3, <1>3, <3>1, <3>2
  <2> QED
    BY <1>7, <2>1, <2>2, <2>3
<1>9. r_done' + (IF rvalid' THEN 1 ELSE 0) <= ar_done'
  <2>1. rvalid' <=> (arready /\ ar.valid /\ ~rvalid) \/ (rvalid /\ ~rready)
    BY <1>1 DEF NextRvalid, slv_reg_rden
  <2> QED
    BY <1>1, <1>2, <1>5, <2>1
<1> QED
  BY <1>4, <1>6, <1>8, <1>9 DEF ReadTypes

LEMMA NextTypeInv == TypeInv /\ [Next]_vars => TypeInv'
<1> SUFFICES ASSUME TypeInv, [Next]_vars PROVE TypeInv'
  OBVIOUS
<1>1. IInv'
  BY NextIInv DEF TypeInv
<1>2. CASE Next
  BY <1>1, <1>2, ClockWriteBounds, ClockReadTypes DEF Next, TypeInv
<1>3. CASE UNCHANGED vars
  BY <1>1, <1>3 DEF vars, slaveVars, writeVars, readVars, TypeInv, ReadTypes, WriteBounds
<1> QED
  BY <1>2, <1>3

(* Every register shows one of the master's writes, every address is a     *)
(* register's, and no channel has more handshakes than requests, whatever  *)
(* the delays (S_AXI_* handshakes, slv_reg0..3).                           *)
THEOREM RegisterFileTypeCorrect == Spec => []TypeOK
<1>1. TypeInv => TypeOK
  <2> SUFFICES ASSUME TypeInv PROVE TypeOK
    OBVIOUS
  <2>1. WriteTypes /\ aw_done = w_done /\ OneResponsePerWrite
    BY DEF TypeInv, IInv, WritesLand
  <2>2. aw_done \in 0..Writes /\ w_done \in 0..Writes /\ b_done \in 0..Writes /\ clears \in 0..Writes
    BY <2>1, RegistersAssumption DEF WriteTypes, OneResponsePerWrite, WriteBounds, TypeInv
  <2>3. slv_reg \in [Registers -> 0..Writes]
    BY <2>1, HeldIsWrite DEF WriteTypes, TypeInv
  <2>4. /\ ReadTypes /\ r_done \in 0..Reads
    BY RegistersAssumption DEF TypeInv, ReadTypes
  <2>5. {awready, aw_en, wready, bvalid, arready, rvalid} \subseteq BOOLEAN
    BY <2>1, <2>4 DEF WriteTypes, ReadTypes
  <2> QED
    BY <2>1, <2>2, <2>3, <2>4, <2>5 DEF WriteTypes, ReadTypes, TypeOK
<1> QED
  BY <1>1, InitTypeInv, NextTypeInv, PTL DEF Spec

=============================================================================
