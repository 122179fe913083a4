------------------------- MODULE DmaBufDriverProofs -------------------------
(***************************************************************************)
(* The buffer driver for any number of processes, loads and any sizes: the *)
(* allocated memory is exactly what the three regions name, and what a     *)
(* process got from a loaded module outlives its use of it.                *)
(***************************************************************************)
EXTENDS DmaBufDriver, TLAPS

RegionRecords == [vaddr : Nat, size : Nat]
Answers == [kind : {"old", "ex"}, live : BOOLEAN, phys : [Regions -> Nat],
            size : [Regions -> Nat]]
Questions == [kind : {"old", "ex"}, live : BOOLEAN, phys : [Regions -> Nat]]

FileStates == {"closed", "open", "left behind"}

Types ==
  /\ pc \in {"unloaded", "register", "size", "alloc", "live", "free", "exit"}
  /\ step \in 1..4 /\ (pc \in {"size", "alloc"} => step <= 3)
  /\ allocs \in Nat
  /\ region \in [Regions -> RegionRecords]
  /\ file \in [Users -> FileStates]

\* The allocated memory is that of the regions, and each has its own.
MemoryIsRegions ==
  /\ \A r \in Regions : region[r].vaddr <= allocs
  /\ memory = {region[r] : r \in {q \in Regions : region[q].vaddr # 0}}
  /\ \A r, q \in Regions : r # q /\ region[r].vaddr # 0 => region[r].vaddr # region[q].vaddr

\* How far gemm_init or gemm_exit has got with the regions.
Progress ==
  /\ pc \in {"unloaded", "register"} => \A r \in Regions : region[r] = NoRegion
  /\ pc \in {"size", "alloc"} =>
       \A i \in 1..3 : i > step => region[AllocOrder[i]] = NoRegion
  /\ pc = "size" => region[AllocOrder[step]] = NoRegion
  /\ pc = "alloc" => region[AllocOrder[step]] = [vaddr |-> 0, size |-> BufSize[AllocOrder[step]]]
  /\ pc \in {"size", "alloc"} =>
       \A i \in 1..3 : i < step => region[AllocOrder[i]].vaddr # 0
  /\ pc = "live" => \A r \in Regions : region[r].vaddr # 0
  /\ pc \in {"free", "exit"} =>
       \A i \in 1..3 : i < step => region[FreeOrder[i]] = NoRegion
  /\ pc # "alloc" => \A r \in Regions : region[r].vaddr = 0 => region[r] = NoRegion
  /\ \A r \in Regions : region[r].vaddr # 0 => region[r].size > 0

Mappings == [vaddr : Nat, pages : Nat, live : BOOLEAN]

UserTypes ==
  /\ mapping \in [Users -> Mappings]
  /\ ioctl \in [Users -> Questions \cup {NotCalled}]
  /\ info \in [Users -> Answers \cup {NotCalled}]

\* What processes hold of a module they found loaded is the loaded module's.
MappingHeld(u) ==
  mapping[u].live =>
    /\ file[u] = "open" /\ pc = "live"
    /\ \E r \in Regions : /\ mapping[u].vaddr = region[r].vaddr
                          /\ mapping[u].pages <= region[r].size

IoctlHeld(u) ==
  ioctl[u] # NotCalled /\ ioctl[u].live =>
    /\ file[u] = "open" /\ pc = "live"
    /\ \A r \in Regions : ioctl[u].phys[r] = region[r].vaddr

InfoHeld(u) ==
  /\ file[u] = "closed" => info[u] = NotCalled
  /\ file[u] = "open" /\ info[u] # NotCalled /\ info[u].live =>
       /\ pc = "live"
       /\ \A r \in Regions : /\ info[u].phys[r] = region[r].vaddr
                             /\ info[u].size[r] \in 1..region[r].size

HeldByUsers == UserTypes /\ \A u \in Users : MappingHeld(u) /\ IoctlHeld(u) /\ InfoHeld(u)

DriverInv == Types /\ MemoryIsRegions /\ Progress

LEMMA Distinguish ==
  /\ NotCalled \notin Answers /\ NotCalled \notin Questions
  /\ NoMapping.live = FALSE /\ NoRegion \in RegionRecords
  BY DEF NotCalled, Answers, Questions, NoMapping, NoRegion, RegionRecords

LEMMA Orders ==
  /\ AllocOrder \in [1..3 -> Regions] /\ FreeOrder \in [1..3 -> Regions]
  /\ \A r \in Regions : \E i \in 1..3 : r = AllocOrder[i]
  /\ \A r \in Regions : \E i \in 1..3 : r = FreeOrder[i]
  /\ \A i, j \in 1..3 : i # j => AllocOrder[i] # AllocOrder[j]
  /\ \A i, j \in 1..3 : i # j => FreeOrder[i] # FreeOrder[j]
<1>1. /\ AllocOrder[1] = "a" /\ AllocOrder[2] = "b" /\ AllocOrder[3] = "c"
      /\ FreeOrder[1] = "c" /\ FreeOrder[2] = "b" /\ FreeOrder[3] = "a"
      /\ AllocOrder \in [1..3 -> Regions] /\ FreeOrder \in [1..3 -> Regions]
  BY DEF AllocOrder, FreeOrder, Regions
<1>2. \A i \in 1..3 : i = 1 \/ i = 2 \/ i = 3
  OBVIOUS
<1> QED
  BY <1>1, <1>2 DEF Regions

LEMMA InitDriverInv == Init => DriverInv /\ HeldByUsers
<1> SUFFICES ASSUME Init PROVE DriverInv /\ HeldByUsers
  OBVIOUS
<1>1. \A r \in Regions : region[r] = NoRegion /\ region[r].vaddr = 0
  BY DEF Init, NoRegion
<1>2. Types
  BY <1>1, Distinguish DEF Init, Types, FileStates
<1>3. MemoryIsRegions
  BY <1>1 DEF Init, MemoryIsRegions
<1>4. Progress
  BY <1>1, Orders DEF Init, Progress
<1>5. HeldByUsers
  <2>1. NoMapping \in Mappings
    BY DEF NoMapping, Mappings
  <2>2. UserTypes
    BY <2>1 DEF Init, UserTypes
  <2> QED
    BY <2>2, Distinguish DEF Init, HeldByUsers, MappingHeld, IoctlHeld, InfoHeld
<1> QED
  BY <1>2, <1>3, <1>4, <1>5 DEF DriverInv

-----------------------------------------------------------------------------
(* Loading and unloading *)

LEMMA EnterSizeInv == ASSUME DriverInv, EnterSize PROVE DriverInv'
<1> DEFINE r == AllocOrder[step]
<1>0. pc = "size" /\ step \in 1..3
  <2>1. pc = "size"
    BY DEF EnterSize
  <2> QED
    BY <2>1 DEF DriverInv, Types
<1>1. /\ pc = "size" /\ pc' = "alloc" /\ step \in 1..3
      /\ step' = step /\ allocs' = allocs /\ memory' = memory /\ file' = file
      /\ r \in Regions /\ BufSize[r] \in Nat /\ region[r] = NoRegion
      /\ region' = [region EXCEPT ![r].size = BufSize[r]]
  <2>1. r \in Regions
    BY <1>0, Orders
  <2>2. BufSize[r] \in Nat
    BY <2>1, DriverAssumption
  <2>3. region[r] = NoRegion
    BY <1>0 DEF DriverInv, Progress
  <2> QED
    BY <1>0, <2>1, <2>2, <2>3 DEF EnterSize, userVars
<1> HIDE DEF r
<1>2. /\ region'[r] = [vaddr |-> 0, size |-> BufSize[r]]
      /\ \A q \in Regions \ {r} : region'[q] = region[q]
      /\ region' \in [Regions -> RegionRecords]
  <2>1. region \in [Regions -> RegionRecords]
    BY DEF DriverInv, Types
  <2> QED
    BY <1>1, <2>1 DEF RegionRecords, NoRegion
<1>4. \A q \in Regions : /\ region'[q].vaddr = region[q].vaddr
                         /\ region[q].vaddr # 0 => region'[q] = region[q]
  BY <1>1, <1>2 DEF NoRegion
<1>3. Types'
  BY <1>1, <1>2, <1>4 DEF DriverInv, Types
<1>5. MemoryIsRegions'
  BY <1>1, <1>4 DEF DriverInv, MemoryIsRegions
<1>6. Progress'
  BY <1>1, <1>2, <1>4, Orders DEF DriverInv, Progress, r
<1> QED
  BY <1>3, <1>5, <1>6 DEF DriverInv

LEMMA AllocInv == ASSUME DriverInv, Alloc PROVE DriverInv'
<1> DEFINE r == AllocOrder[step]
<1>0. pc = "alloc" /\ step \in 1..3
  <2>1. pc = "alloc"
    BY DEF Alloc
  <2> QED
    BY <2>1 DEF DriverInv, Types
<1>1. /\ pc = "alloc" /\ file' = file /\ step \in 1..3 /\ r \in Regions
      /\ region[r] = [vaddr |-> 0, size |-> BufSize[r]] /\ BufSize[r] \in Nat \ {0}
  <2>1. r \in Regions
    BY <1>0, Orders
  <2>2. BufSize[r] \in Nat \ {0}
    BY <2>1, DriverAssumption
  <2>3. region[r] = [vaddr |-> 0, size |-> BufSize[r]]
    BY <1>0 DEF DriverInv, Progress
  <2> QED
    BY <1>0, <2>1, <2>2, <2>3 DEF Alloc, userVars
<1>2. CASE /\ allocs' = allocs + 1
           /\ memory' = memory \cup {[vaddr |-> allocs', size |-> region[r].size]}
           /\ region' = [region EXCEPT ![r].vaddr = allocs']
           /\ IF step < 3 THEN step' = step + 1 /\ pc' = "size" ELSE Goto("live")
  <2>0. region \in [Regions -> RegionRecords] /\ allocs \in Nat
        /\ \A q \in Regions : region[q].vaddr <= allocs /\ region[q].vaddr \in Nat
    <3>1. region \in [Regions -> RegionRecords] /\ allocs \in Nat
      BY DEF DriverInv, Types
    <3> QED
      BY <3>1 DEF DriverInv, MemoryIsRegions, RegionRecords
  <2>1. /\ region'[r] = [vaddr |-> allocs + 1, size |-> BufSize[r]]
        /\ \A q \in Regions \ {r} : region'[q] = region[q]
        /\ region' \in [Regions -> RegionRecords]
    BY <1>1, <1>2, <2>0 DEF RegionRecords
  <2>2. memory' = memory \cup {region'[r]}
    BY <1>1, <1>2, <2>1
  <2>3. \/ step < 3 /\ step' = step + 1 /\ pc' = "size"
        \/ step = 3 /\ step' = 1 /\ pc' = "live"
    BY <1>1, <1>2 DEF Goto
  <2> HIDE DEF r
  <2>4. Types'
    <3>2. step' \in 1..4 /\ (pc' \in {"size", "alloc"} => step' <= 3)
          /\ pc' \in {"size", "live"} /\ allocs' \in Nat
      BY <1>1, <1>2, <2>0, <2>3
    <3> QED
      BY <1>1, <2>1, <3>2 DEF DriverInv, Types
  <2>5. \A q \in Regions \ {r} : region[q].vaddr # allocs + 1
    BY <2>0
  <2>6. MemoryIsRegions'
    <3>1. {q \in Regions : region'[q].vaddr # 0} = {q \in Regions : region[q].vaddr # 0} \cup {r}
      BY <1>1, <2>0, <2>1
    <3>2. r \notin {q \in Regions : region[q].vaddr # 0}
      BY <1>1
    <3>3. memory' = {region'[q] : q \in {p \in Regions : region'[p].vaddr # 0}}
      BY <1>1, <2>1, <2>2, <3>1, <3>2 DEF DriverInv, MemoryIsRegions
    <3> QED
      BY <1>1, <1>2, <2>0, <2>1, <2>5, <3>3 DEF DriverInv, MemoryIsRegions
  <2>7. Progress'
    <3>1. \A i \in 1..3 : i # step => region'[AllocOrder[i]] = region[AllocOrder[i]]
      BY <1>1, <2>1, Orders DEF r
    <3>2. \A i \in 1..3 : i <= step => region'[AllocOrder[i]].vaddr # 0
      <4>1. region'[AllocOrder[step]].vaddr # 0
        BY <2>0, <2>1 DEF r
      <4>2. \A i \in 1..3 : i < step => region[AllocOrder[i]].vaddr # 0
        BY <1>1 DEF DriverInv, Progress
      <4> QED
        BY <1>1, <3>1, <4>1, <4>2
    <3>3. \A i \in 1..3 : i > step => region'[AllocOrder[i]] = NoRegion
      BY <1>1, <3>1, Orders DEF DriverInv, Progress
    <3>4. \A q \in Regions : /\ region'[q].vaddr = 0 => region'[q] = NoRegion
                             /\ region'[q].vaddr # 0 => region'[q].size > 0
      <4>1. ASSUME NEW q \in Regions
            PROVE  /\ region'[q].vaddr = 0 => region'[q] = NoRegion
                   /\ region'[q].vaddr # 0 => region'[q].size > 0
        <5>1. PICK i \in 1..3 : q = AllocOrder[i]
          BY Orders
        <5>2. CASE q = r
          BY <1>1, <2>0, <2>1, <5>2
        <5>3. CASE q # r
          <6>1. region'[q] = region[q]
            BY <2>1, <5>3
          <6>2. region[q].vaddr # 0 => region[q].size > 0
            BY DEF DriverInv, Progress
          <6>3. region'[q].vaddr = 0 => i > step
            BY <1>1, <3>2, <5>1
          <6> QED
            BY <3>3, <5>1, <6>1, <6>2, <6>3
        <5> QED
          BY <5>2, <5>3
      <4> QED
        BY <4>1
    <3>5. step = 3 => \A q \in Regions : region'[q].vaddr # 0
      BY <3>2, Orders
    <3>6. CASE step < 3 /\ step' = step + 1 /\ pc' = "size"
      <4>1. AllocOrder' = AllocOrder /\ FreeOrder' = FreeOrder
        BY DEF AllocOrder, FreeOrder
      <4> QED
        BY <1>1, <3>2, <3>3, <3>4, <3>6, <4>1 DEF Progress
    <3>7. CASE step = 3 /\ step' = 1 /\ pc' = "live"
      BY <3>4, <3>5, <3>7 DEF Progress
    <3> QED
      BY <2>3, <3>6, <3>7
  <2> QED
    BY <2>4, <2>6, <2>7 DEF DriverInv
<1>3. CASE /\ region' = [region EXCEPT ![r] = AfterAllocFailure]
           /\ Goto("free")
           /\ UNCHANGED <<memory, allocs>>
  <2>1. /\ region'[r] = NoRegion /\ NoRegion.vaddr = 0
        /\ \A q \in Regions \ {r} : region'[q] = region[q]
        /\ region' \in [Regions -> RegionRecords] /\ pc' = "free" /\ step' = 1
    <3>1. region \in [Regions -> RegionRecords]
      BY DEF DriverInv, Types
    <3> QED
      BY <1>1, <1>3, <3>1, Distinguish DEF AfterAllocFailure, Goto, NoRegion
  <2>2. \A q \in Regions : /\ region'[q].vaddr = region[q].vaddr
                           /\ region[q].vaddr # 0 => region'[q] = region[q]
    BY <1>1, <2>1
  <2>3. \A q \in Regions : region'[q].vaddr = 0 => region'[q] = NoRegion
    <3>1. ASSUME NEW q \in Regions, q # r, region[q].vaddr = 0 PROVE region[q] = NoRegion
      <4>1. PICK i \in 1..3 : q = AllocOrder[i]
        BY Orders
      <4> QED
        BY <1>1, <3>1, <4>1 DEF DriverInv, Progress
    <3> QED
      BY <2>1, <2>2, <3>1
  <2> HIDE DEF r
  <2>4. Types'
    BY <1>1, <1>3, <2>1, <2>2 DEF DriverInv, Types
  <2>6. MemoryIsRegions'
    BY <1>1, <1>3, <2>2 DEF DriverInv, MemoryIsRegions
  <2>5. Progress'
    BY <1>1, <2>1, <2>2, <2>3 DEF DriverInv, Progress
  <2> QED
    BY <2>4, <2>5, <2>6 DEF DriverInv
<1> QED
  BY <1>2, <1>3 DEF Alloc

LEMMA FreeRegionInv == ASSUME DriverInv, FreeRegion PROVE DriverInv'
<1> DEFINE r == FreeOrder[step]
<1>0. pc \in {"free", "exit"} /\ step \in 1..3
  <2>1. pc \in {"free", "exit"} /\ step <= 3
    BY DEF FreeRegion
  <2> QED
    BY <2>1 DEF DriverInv, Types
<1>1. /\ pc \in {"free", "exit"} /\ pc' = pc /\ allocs' = allocs /\ file' = file
      /\ step \in 1..3 /\ step' = step + 1 /\ r \in Regions
  BY <1>0, Orders DEF FreeRegion, userVars
<1>2. /\ region'[r] = NoRegion /\ NoRegion.vaddr = 0
      /\ \A q \in Regions \ {r} : region'[q] = region[q]
      /\ region' \in [Regions -> RegionRecords]
      /\ memory' = {m \in memory : m.vaddr # region[r].vaddr \/ region[r].vaddr = 0}
  <2>1. CASE region[r].vaddr # 0
    BY <1>1, <2>1, Distinguish DEF FreeRegion, DriverInv, Types, NoRegion
  <2>2. CASE region[r].vaddr = 0
    <3>1. region[r] = NoRegion
      BY <1>1, <2>2 DEF DriverInv, Progress
    <3> QED
      BY <1>1, <2>2, <3>1 DEF FreeRegion, DriverInv, Types, NoRegion
  <2> QED
    BY <2>1, <2>2
<1>3. Types'
  BY <1>1, <1>2 DEF DriverInv, Types
<1>4. MemoryIsRegions'
  <2>1. {q \in Regions : region'[q].vaddr # 0} = {q \in Regions : region[q].vaddr # 0} \ {r}
    BY <1>1, <1>2
  <2>2. memory' = {region'[q] : q \in {p \in Regions : region'[p].vaddr # 0}}
    BY <1>1, <1>2, <2>1 DEF DriverInv, MemoryIsRegions
  <2>3. allocs \in Nat
    BY DEF DriverInv, Types
  <2>4. \A q \in Regions : region'[q].vaddr <= allocs'
    BY <1>1, <1>2, <2>3 DEF DriverInv, MemoryIsRegions
  <2> QED
    BY <1>2, <2>2, <2>4 DEF DriverInv, MemoryIsRegions
<1>5. Progress'
  <2>1. \A i \in 1..3 : i # step => region'[FreeOrder[i]] = region[FreeOrder[i]]
    BY <1>1, <1>2, Orders
  <2>2. \A i \in 1..3 : i < step + 1 => region'[FreeOrder[i]] = NoRegion
    BY <1>1, <1>2, <2>1, Orders DEF DriverInv, Progress
  <2>3. FreeOrder' = FreeOrder
    BY DEF FreeOrder
  <2>4. \A q \in Regions : /\ region'[q].vaddr = 0 => region'[q] = NoRegion
                           /\ region'[q].vaddr # 0 => region'[q].size > 0
    BY <1>1, <1>2 DEF DriverInv, Progress
  <2> QED
    BY <1>1, <2>2, <2>3, <2>4 DEF Progress
<1> QED
  BY <1>3, <1>4, <1>5 DEF DriverInv

\* The steps that change no region.
LEMMA LoadStepInv ==
  ASSUME DriverInv, Insmod \/ Register \/ Rmmod \/ Deregister
  PROVE  DriverInv'
<1>1. region' = region /\ memory' = memory /\ allocs' = allocs
  BY DEF Insmod, Register, Rmmod, Deregister, memVars
<1>2. \/ pc' \in {"unloaded", "register"} /\ step' = 1 /\ \A r \in Regions : region[r] = NoRegion
      \/ pc = "register" /\ pc' = "size" /\ step' = 1
      \/ pc = "live" /\ pc' = "exit" /\ step' = 1
  <2>1. ASSUME pc \in {"free", "exit"}, step = 4, NEW r \in Regions PROVE region[r] = NoRegion
    BY <2>1, Orders DEF DriverInv, Progress
  <2> QED
    BY <2>1 DEF Insmod, Register, Rmmod, Deregister, Goto, DriverInv, Progress
<1>3. file' \in [Users -> FileStates]
  <2>1. file \in [Users -> FileStates]
    BY DEF DriverInv, Types
  <2> QED
    BY <2>1 DEF Insmod, Register, Rmmod, Deregister, userVars, FileStates
<1>4. Types' /\ MemoryIsRegions'
  <2>1. Types'
    BY <1>1, <1>2, <1>3 DEF DriverInv, Types
  <2> QED
    BY <1>1, <2>1 DEF DriverInv, MemoryIsRegions
<1>5. Progress'
  BY <1>1, <1>2, Orders DEF DriverInv, Progress, NoRegion
<1> QED
  BY <1>4, <1>5 DEF DriverInv

LEMMA UserStepInv == ASSUME DriverInv, NEW u \in Users, User(u) PROVE DriverInv'
<1>1. /\ pc' = pc /\ step' = step /\ region' = region /\ memory' = memory
      /\ allocs' = allocs
  BY DEF User, Open, Close, IoctlAddresses, IoctlSizes, Munmap, Mmap, loadVars, memVars
<1>2. file' \in [Users -> FileStates]
  <2>1. file \in [Users -> FileStates]
    BY DEF DriverInv, Types
  <2> QED
    BY <2>1 DEF User, Open, Close, IoctlAddresses, IoctlSizes, Munmap, Mmap, FileStates
<1> QED
  BY <1>1, <1>2 DEF DriverInv, Types, MemoryIsRegions, Progress

LEMMA NextDriverInv == DriverInv /\ [Next]_vars => DriverInv'
<1> SUFFICES ASSUME DriverInv, [Next]_vars PROVE DriverInv'
  OBVIOUS
<1>1. CASE UNCHANGED vars
  BY <1>1 DEF vars, loadVars, memVars, userVars, DriverInv, Types, MemoryIsRegions, Progress
<1> QED
  BY <1>1, EnterSizeInv, AllocInv, FreeRegionInv, LoadStepInv, UserStepInv DEF Next

(* No coherent memory is lost, whichever allocation of whichever load      *)
(* fails, and none is left when the module is not loaded (gemm_init,       *)
(* gemm_exit, free_region).                                                *)
THEOREM DriverLeaksNothing == Spec => []NothingLeaks
<1>1. DriverInv => NothingLeaks
  <2> SUFFICES ASSUME DriverInv PROVE NothingLeaks
    OBVIOUS
  <2>1. {m.vaddr : m \in memory} = {region[r].vaddr : r \in Regions} \ {0}
    BY DEF DriverInv, MemoryIsRegions
  <2>2. pc = "unloaded" => memory = {} /\ region = [r \in Regions |-> NoRegion]
    <3>1. region \in [Regions -> RegionRecords]
      BY DEF DriverInv, Types
    <3> QED
      BY <3>1 DEF DriverInv, MemoryIsRegions, Progress, NoRegion
  <2> QED
    BY <2>1, <2>2 DEF NothingLeaks
<1> QED
  BY <1>1, InitDriverInv, NextDriverInv, PTL DEF Spec

-----------------------------------------------------------------------------
(* Processes *)

LEMMA NothingLive ==
  ASSUME HeldByUsers, pc # "live" \/ Unused, NEW u \in Users
  PROVE  /\ ~mapping[u].live
         /\ ~(ioctl[u] # NotCalled /\ ioctl[u].live)
         /\ ~(file[u] = "open" /\ info[u] # NotCalled /\ info[u].live)
  BY DEF HeldByUsers, MappingHeld, IoctlHeld, InfoHeld, Unused

LEMMA LoadStepHeld ==
  ASSUME DriverInv, HeldByUsers,
         Insmod \/ Register \/ EnterSize \/ Alloc \/ Rmmod \/ FreeRegion \/ Deregister
  PROVE  HeldByUsers'
<1>1. pc # "live" \/ Unused
  BY DEF Insmod, Register, EnterSize, Alloc, Rmmod, FreeRegion, Deregister
<1>2. mapping' = mapping /\ ioctl' = ioctl /\ info' = info
  BY DEF Insmod, Register, EnterSize, Alloc, Rmmod, FreeRegion, Deregister, userVars
<1>3. \A u \in Users : /\ file'[u] = "open" => file[u] = "open"
                       /\ file'[u] = "closed" => file[u] = "closed"
  <2>1. \/ file' = file
        \/ file' = [u \in Users |-> IF file[u] = "open" THEN "left behind" ELSE file[u]]
    BY DEF Insmod, Register, EnterSize, Alloc, Rmmod, FreeRegion, Deregister, userVars
  <2> QED
    BY <2>1
<1>4. UserTypes'
  BY <1>2 DEF HeldByUsers, UserTypes
<1>5. ASSUME NEW u \in Users PROVE MappingHeld(u)' /\ IoctlHeld(u)' /\ InfoHeld(u)'
  <2>1. file[u] = "closed" => info[u] = NotCalled
    BY DEF HeldByUsers, InfoHeld
  <2> QED
    BY <1>1, <1>2, <1>3, <2>1, NothingLive DEF MappingHeld, IoctlHeld, InfoHeld, NotCalled
<1> QED
  BY <1>4, <1>5 DEF HeldByUsers

LEMMA SmallestOfThree ==
  ASSUME NEW x \in Nat, NEW y \in Nat, NEW z \in Nat
  PROVE  \E m \in {x, y, z} : m <= x /\ m <= y /\ m <= z
<1>1. CASE x <= y /\ x <= z
  BY <1>1
<1>2. CASE y <= x /\ y <= z
  BY <1>2
<1>3. CASE z <= x /\ z <= y
  BY <1>3
<1> QED
  BY <1>1, <1>2, <1>3

LEMMA OldSizeFits ==
  ASSUME DriverInv
  PROVE  /\ OldSize \in Nat /\ \A r \in Regions : region[r].size \in Nat
         /\ \A r \in Regions : OldSize <= region[r].size
         /\ pc = "live" => OldSize > 0 /\ \A r \in Regions : region[r].size > 0
<1> DEFINE S == {region[q].size : q \in Regions}
<1>1. \A q \in Regions : region[q].size \in Nat
  <2>1. region \in [Regions -> RegionRecords]
    BY DEF DriverInv, Types
  <2> QED
    BY <2>1 DEF RegionRecords
<1>5. pc = "live" => \A q \in Regions : region[q].size > 0
  BY DEF DriverInv, Progress
<1>2. S = {region["a"].size, region["b"].size, region["c"].size}
  BY DEF Regions
<1>3. \E x \in S : \A y \in S : x <= y
  <2>1. "a" \in Regions /\ "b" \in Regions /\ "c" \in Regions
    BY DEF Regions
  <2> HIDE DEF S
  <2> QED
    BY <1>1, <1>2, <2>1, SmallestOfThree
<1>4. OldSize \in S /\ \A y \in S : OldSize <= y
  BY <1>3 DEF OldSize, Min
<1>6. PICK q \in Regions : OldSize = region[q].size
  BY <1>4
<1> QED
  BY <1>1, <1>4, <1>5, <1>6

\* A process does not disturb another.
LEMMA OtherUsersHeld ==
  ASSUME DriverInv, HeldByUsers, NEW u \in Users, User(u), NEW v \in Users \ {u}
  PROVE  MappingHeld(v)' /\ IoctlHeld(v)' /\ InfoHeld(v)'
<1>1. pc' = pc /\ region' = region
  BY DEF User, Open, Close, IoctlAddresses, IoctlSizes, Munmap, Mmap, loadVars, memVars
<1>2. /\ file'[v] = file[v] /\ mapping'[v] = mapping[v]
      /\ ioctl'[v] = ioctl[v] /\ info'[v] = info[v]
  <2>1. /\ DOMAIN file = Users /\ DOMAIN mapping = Users
        /\ DOMAIN ioctl = Users /\ DOMAIN info = Users
    BY DEF DriverInv, Types, HeldByUsers, UserTypes
  <2> QED
    BY <2>1 DEF User, Open, Close, IoctlAddresses, IoctlSizes, Munmap, Mmap
<1> QED
  BY <1>1, <1>2 DEF HeldByUsers, MappingHeld, IoctlHeld, InfoHeld, NotCalled

LEMMA UserStepHeld ==
  ASSUME DriverInv, HeldByUsers, NEW u \in Users, User(u)
  PROVE  HeldByUsers'
<1>1. pc' = pc /\ region' = region
  BY DEF User, Open, Close, IoctlAddresses, IoctlSizes, Munmap, Mmap, loadVars, memVars
<1>2. /\ UserTypes /\ file \in [Users -> FileStates] /\ region \in [Regions -> RegionRecords]
      /\ MappingHeld(u) /\ IoctlHeld(u) /\ InfoHeld(u)
      /\ ioctl[u] \in Questions \cup {NotCalled} /\ info[u] \in Answers \cup {NotCalled}
  BY DEF DriverInv, Types, HeldByUsers, UserTypes
<1>3. CASE Open(u)
  <2>1. /\ file'[u] = "open" /\ info[u] = NotCalled
        /\ mapping' = mapping /\ ioctl' = ioctl /\ info' = info
    BY <1>2, <1>3 DEF Open, InfoHeld
  <2>2. UserTypes'
    BY <1>2, <2>1 DEF UserTypes
  <2>3. MappingHeld(u)' /\ IoctlHeld(u)' /\ InfoHeld(u)'
    BY <1>1, <1>2, <2>1 DEF MappingHeld, IoctlHeld, InfoHeld, NotCalled
  <2> QED
    BY <2>2, <2>3, OtherUsersHeld DEF HeldByUsers
<1>4. CASE Close(u)
  <2>1. /\ file'[u] = "closed" /\ mapping' = mapping /\ ioctl' = ioctl
        /\ info' = [info EXCEPT ![u] = NotCalled]
        /\ mapping[u] = NoMapping /\ ioctl[u] = NotCalled
    BY <1>2, <1>4 DEF Close
  <2>2. UserTypes'
    BY <1>2, <2>1 DEF UserTypes
  <2>3. MappingHeld(u)' /\ IoctlHeld(u)' /\ InfoHeld(u)'
    <3>1. ~mapping'[u].live /\ ioctl'[u] = NotCalled /\ NotCalled' = NotCalled
      BY <2>1, Distinguish DEF NotCalled
    <3>2. info'[u] = NotCalled
      BY <1>2, <2>1 DEF UserTypes
    <3> QED
      BY <2>1, <3>1, <3>2 DEF MappingHeld, IoctlHeld, InfoHeld
  <2> QED
    BY <2>2, <2>3, OtherUsersHeld DEF HeldByUsers
<1>5. CASE IoctlAddresses(u)
  <2>1. PICK kind \in {"old", "ex"} :
          ioctl' = [ioctl EXCEPT ![u] = [kind |-> kind, live |-> pc = "live",
                                         phys |-> [r \in Regions |-> region[r].vaddr]]]
    BY <1>5 DEF IoctlAddresses
  <2> DEFINE q == [kind |-> kind, live |-> pc = "live",
                   phys |-> [r \in Regions |-> region[r].vaddr]]
  <2>2. q \in Questions /\ (q.live <=> pc = "live") /\ \A r \in Regions : q.phys[r] = region[r].vaddr
    BY <1>2 DEF Questions, RegionRecords
  <2>3. ioctl'[u] = q /\ ioctl' \in [Users -> Questions \cup {NotCalled}]
    BY <1>2, <2>1, <2>2 DEF UserTypes
  <2> HIDE DEF q
  <2>4. file[u] = "open" /\ file' = file /\ info' = info /\ mapping' = mapping
    BY <1>5 DEF IoctlAddresses
  <2>5. UserTypes'
    BY <1>2, <2>3, <2>4 DEF UserTypes
  <2>6. MappingHeld(u)' /\ InfoHeld(u)'
    BY <1>1, <1>2, <2>4 DEF MappingHeld, InfoHeld, NotCalled
  <2>7. IoctlHeld(u)'
    BY <1>1, <2>2, <2>3, <2>4 DEF IoctlHeld
  <2> QED
    BY <2>5, <2>6, <2>7, OtherUsersHeld DEF HeldByUsers
<1>6. CASE IoctlSizes(u)
  <2> DEFINE a == [kind |-> ioctl[u].kind, live |-> ioctl[u].live, phys |-> ioctl[u].phys,
                   size |-> [r \in Regions |-> IF ioctl[u].kind = "old"
                                               THEN OldSize ELSE region[r].size]]
  <2>1. /\ file[u] = "open" /\ file' = file /\ mapping' = mapping /\ ioctl[u] \in Questions
        /\ info' = [info EXCEPT ![u] = a] /\ ioctl' = [ioctl EXCEPT ![u] = NotCalled]
    BY <1>2, <1>6 DEF IoctlSizes
  <2>2. /\ a.live = ioctl[u].live /\ a.phys = ioctl[u].phys
        /\ \A r \in Regions : a.size[r] = OldSize \/ a.size[r] = region[r].size
    OBVIOUS
  <2>3. a \in Answers
    <3>1. [r \in Regions |-> IF ioctl[u].kind = "old" THEN OldSize ELSE region[r].size]
            \in [Regions -> Nat]
      <4>1. \A r \in Regions : OldSize \in Nat /\ region[r].size \in Nat
        BY OldSizeFits
      <4> QED
        BY <4>1
    <3> QED
      BY <2>1, <3>1 DEF Answers, Questions
  <2> HIDE DEF a
  <2>4. /\ info'[u] = a /\ ioctl'[u] = NotCalled
        /\ info' \in [Users -> Answers \cup {NotCalled}]
        /\ ioctl' \in [Users -> Questions \cup {NotCalled}]
    BY <1>2, <2>1, <2>3 DEF UserTypes
  <2>5. UserTypes'
    BY <1>2, <2>1, <2>4 DEF UserTypes
  <2>6. MappingHeld(u)' /\ IoctlHeld(u)'
    BY <1>1, <1>2, <2>1, <2>4 DEF MappingHeld, IoctlHeld, NotCalled
  <2>7. InfoHeld(u)'
    <3>1. CASE a.live
      <4>1. pc = "live" /\ \A r \in Regions : ioctl[u].phys[r] = region[r].vaddr
        BY <1>2, <2>1, <2>2, <3>1, Distinguish DEF IoctlHeld
      <4>2. \A r \in Regions : a.size[r] \in 1..region[r].size
        BY <2>2, <4>1, OldSizeFits
      <4> QED
        BY <1>1, <2>1, <2>2, <2>4, <4>1, <4>2 DEF InfoHeld
    <3>2. CASE ~a.live
      BY <2>1, <2>4, <3>2 DEF InfoHeld
    <3> QED
      BY <3>1, <3>2
  <2> QED
    BY <2>5, <2>6, <2>7, OtherUsersHeld DEF HeldByUsers
<1>7. CASE Munmap(u)
  <2>1. /\ mapping' = [mapping EXCEPT ![u] = NoMapping] /\ file' = file
        /\ ioctl' = ioctl /\ info' = info
    BY <1>7 DEF Munmap
  <2>2. NoMapping \in Mappings /\ ~NoMapping.live
    BY DEF Mappings, NoMapping
  <2>3. UserTypes' /\ mapping'[u] = NoMapping
    BY <1>2, <2>1, <2>2 DEF UserTypes
  <2>4. MappingHeld(u)' /\ IoctlHeld(u)' /\ InfoHeld(u)'
    BY <1>1, <1>2, <2>1, <2>2, <2>3 DEF MappingHeld, IoctlHeld, InfoHeld, NotCalled
  <2> QED
    BY <2>3, <2>4, OtherUsersHeld DEF HeldByUsers
<1>8. ASSUME NEW r \in Regions, NEW pages \in 1..Max({BufSize[q] : q \in Regions}),
             Mmap(u, r, pages)
      PROVE  HeldByUsers'
  <2>0. pages \in Nat
    OBVIOUS
  <2> DEFINE m == [vaddr |-> region[r].vaddr, pages |-> pages, live |-> pc = "live"]
  <2>1. /\ mapping' = [mapping EXCEPT ![u] = m] /\ file' = file /\ file[u] = "open"
        /\ ioctl' = ioctl /\ info' = info /\ pages <= region[r].size
    BY <1>8 DEF Mmap
  <2>2. /\ m \in Mappings /\ (m.live <=> pc = "live")
        /\ m.vaddr = region[r].vaddr /\ m.pages = pages
    BY <1>2, <2>0 DEF Mappings, RegionRecords
  <2> HIDE DEF m
  <2>3. UserTypes' /\ mapping'[u] = m
    BY <1>2, <2>1, <2>2 DEF UserTypes
  <2>4. MappingHeld(u)' /\ IoctlHeld(u)' /\ InfoHeld(u)'
    BY <1>1, <1>2, <2>1, <2>2, <2>3 DEF MappingHeld, IoctlHeld, InfoHeld, NotCalled
  <2> QED
    BY <2>3, <2>4, OtherUsersHeld DEF HeldByUsers
<1> QED
  BY <1>3, <1>4, <1>5, <1>6, <1>7, <1>8 DEF User

LEMMA NextHeld == DriverInv /\ HeldByUsers /\ [Next]_vars => HeldByUsers'
<1> SUFFICES ASSUME DriverInv, HeldByUsers, [Next]_vars PROVE HeldByUsers'
  OBVIOUS
<1>1. CASE UNCHANGED vars
  BY <1>1 DEF vars, loadVars, memVars, userVars, HeldByUsers, UserTypes, MappingHeld,
              IoctlHeld, InfoHeld, NotCalled
<1> QED
  BY <1>1, LoadStepHeld, UserStepHeld DEF Next

\* In a loaded module every region has its memory.
LEMMA LoadedIsBacked ==
  ASSUME DriverInv, pc = "live", NEW r \in Regions
  PROVE  region[r] \in memory
  BY DEF DriverInv, MemoryIsRegions, Progress

(* What a process mapped once the module was loaded stays backed by memory *)
(* for as long as it is mapped: its file keeps the module from being       *)
(* unloaded (file_operations.owner, gemm_mmap, gemm_exit).                 *)
THEOREM MappingsAreBacked == Spec => []MappingsStayBacked
<1>1. DriverInv /\ HeldByUsers => MappingsStayBacked
  <2> SUFFICES ASSUME DriverInv, HeldByUsers, NEW u \in Users, mapping[u].live
               PROVE  \E m \in memory : m.vaddr = mapping[u].vaddr /\ m.size >= mapping[u].pages
    BY DEF MappingsStayBacked
  <2>1. /\ pc = "live" /\ mapping[u].pages \in Nat
        /\ \E r \in Regions : mapping[u].vaddr = region[r].vaddr /\ mapping[u].pages <= region[r].size
    BY DEF HeldByUsers, MappingHeld, UserTypes, Mappings
  <2>2. PICK r \in Regions : mapping[u].vaddr = region[r].vaddr /\ mapping[u].pages <= region[r].size
    BY <2>1
  <2>3. region[r].size \in Nat
    BY OldSizeFits
  <2> QED
    BY <2>1, <2>2, <2>3, LoadedIsBacked
<1> QED
  BY <1>1, InitDriverInv, NextDriverInv, NextHeld, PTL DEF Spec

(* An ioctl begun once the module was loaded returns addresses of memory   *)
(* that is allocated as long as its file is open, and sizes that fit it    *)
(* (gemm_ioctl, the old call with one size and the one with three).        *)
THEOREM AnswersAreTrue == Spec => []InfoIsTrue
<1>1. DriverInv /\ HeldByUsers => InfoIsTrue
  <2> SUFFICES ASSUME DriverInv, HeldByUsers, NEW u \in Users,
                      file[u] = "open", info[u] # NotCalled, info[u].live, NEW r \in Regions
               PROVE  \E m \in memory : m.vaddr = info[u].phys[r] /\ info[u].size[r] \in 1..m.size
    BY DEF InfoIsTrue
  <2>1. pc = "live" /\ info[u].phys[r] = region[r].vaddr /\ info[u].size[r] \in 1..region[r].size
    BY DEF HeldByUsers, InfoHeld
  <2> QED
    BY <2>1, LoadedIsBacked
<1> QED
  BY <1>1, InitDriverInv, NextDriverInv, NextHeld, PTL DEF Spec

-----------------------------------------------------------------------------
(* Types *)

LoadTypes == loads \in 0..MaxLoads /\ registered \in BOOLEAN

LEMMA InitLoadTypes == Init => LoadTypes
<1> SUFFICES ASSUME Init PROVE LoadTypes
  OBVIOUS
<1>1. loads \in 0..MaxLoads
  BY DriverAssumption DEF Init
<1>2. registered \in BOOLEAN
  BY DEF Init
<1> QED
  BY <1>1, <1>2 DEF LoadTypes

LEMMA NextLoadTypes == LoadTypes /\ [Next]_vars => LoadTypes'
<1> SUFFICES ASSUME LoadTypes, [Next]_vars PROVE LoadTypes'
  OBVIOUS
<1>1. CASE Insmod
  BY <1>1, DriverAssumption DEF Insmod, LoadTypes
<1>2. CASE Register \/ Deregister
  BY <1>2 DEF Register, Deregister, LoadTypes
<1>3. CASE EnterSize \/ Alloc \/ Rmmod \/ FreeRegion
  BY <1>3 DEF EnterSize, Alloc, Rmmod, FreeRegion, LoadTypes
<1>4. ASSUME NEW u \in Users, User(u) PROVE LoadTypes'
  BY <1>4 DEF User, Open, Close, IoctlAddresses, IoctlSizes, Mmap, Munmap, loadVars, LoadTypes
<1>5. CASE UNCHANGED vars
  BY <1>5 DEF vars, loadVars, LoadTypes
<1> QED
  BY <1>1, <1>2, <1>3, <1>4, <1>5 DEF Next

(* Regions, memory, files and what each process holds keep their types:    *)
(* every allocation has an address given out before and not NULL, and the  *)
(* module is loaded no more often than MaxLoads (gemm_init, gemm_exit,     *)
(* gemm_ioctl, gemm_mmap).                                                 *)
THEOREM DriverTypeCorrect == Spec => []TypeOK
<1>1. DriverInv /\ HeldByUsers /\ LoadTypes => TypeOK
  <2> SUFFICES ASSUME DriverInv, HeldByUsers, LoadTypes PROVE TypeOK
    OBVIOUS
  <2>1. /\ pc \in {"unloaded", "register", "size", "alloc", "live", "free", "exit"}
        /\ step \in 1..4 /\ allocs \in Nat
        /\ region \in [Regions -> RegionRecords]
        /\ file \in [Users -> {"closed", "open", "left behind"}]
    BY DEF DriverInv, Types, FileStates
  <2>2. \A r \in Regions : /\ region[r] \in RegionRecords
                           /\ region[r].vaddr \in 0..allocs
                           /\ region[r] \in [vaddr : 0..allocs, size : Nat]
    <3> TAKE r \in Regions
    <3>1. region[r] \in RegionRecords /\ region[r].vaddr <= allocs
      BY <2>1 DEF DriverInv, MemoryIsRegions
    <3>0. allocs \in Nat /\ region[r].vaddr \in Nat
      BY <3>1, <2>1 DEF RegionRecords
    <3>2. region[r].vaddr \in 0..allocs
      <4> DEFINE v == region[r].vaddr
      <4> HIDE DEF v
      <4>1. v \in Nat /\ v <= allocs /\ allocs \in Nat
        BY <3>0, <3>1 DEF v
      <4>2. v \in 0..allocs
        BY <4>1
      <4> QED
        BY <4>2 DEF v
    <3>3. region[r] \in [vaddr : 0..allocs, size : Nat]
      BY <3>1, <3>2 DEF RegionRecords
    <3> QED
      BY <3>1, <3>2, <3>3
  <2>3. region \in [Regions -> [vaddr : 0..allocs, size : Nat]]
    BY <2>1, <2>2
  <2>4. memory \subseteq [vaddr : 1..allocs, size : Nat]
    <3> SUFFICES ASSUME NEW m \in memory PROVE m \in [vaddr : 1..allocs, size : Nat]
      OBVIOUS
    <3>1. PICK r \in Regions : m = region[r] /\ region[r].vaddr # 0
      BY DEF DriverInv, MemoryIsRegions
    <3>2. m.vaddr \in 1..allocs
      <4>1. region[r].vaddr \in 0..allocs /\ allocs \in Nat
        BY <2>1, <2>2
      <4>2. \A v \in 0..allocs : v # 0 => v \in 1..allocs
        BY <4>1
      <4> QED
        BY <3>1, <4>1, <4>2
    <3> QED
      BY <2>2, <3>1, <3>2 DEF RegionRecords
  <2>5. mapping \in [Users -> [vaddr : Nat, pages : Nat, live : BOOLEAN]]
    BY DEF HeldByUsers, UserTypes, Mappings
  <2>6. \A u \in Users : {ioctl[u].kind, info[u].kind} \subseteq {"none", "old", "ex"}
    <3> TAKE u \in Users
    <3>1. ioctl[u] \in Questions \cup {NotCalled} /\ info[u] \in Answers \cup {NotCalled}
      BY DEF HeldByUsers, UserTypes
    <3>2. ioctl[u].kind \in {"none", "old", "ex"}
      BY <3>1 DEF Questions, NotCalled
    <3>3. info[u].kind \in {"none", "old", "ex"}
      BY <3>1 DEF Answers, NotCalled
    <3> QED
      BY <3>2, <3>3
  <2> QED
    BY <2>1, <2>3, <2>4, <2>5, <2>6 DEF LoadTypes, TypeOK
<1> QED
  BY <1>1, InitDriverInv, NextDriverInv, NextHeld, InitLoadTypes, NextLoadTypes, PTL DEF Spec

=============================================================================
