--------------------------- MODULE DmaBufDriver ---------------------------
(***************************************************************************)
(* The kernel module that hands out the DMA buffers                        *)
(* (linux/ubuntu/kernel_for_dma_buf.c): loading registers a device and     *)
(* then allocates three regions one by one, undoing everything if one      *)
(* fails; unloading frees them and deregisters the device.  Processes open *)
(* the device, ask for the regions (ioctl) and map them (mmap), at any     *)
(* time the device exists, which is also while it loads.                   *)
(*                                                                         *)
(* A file keeps the module from being unloaded (file_operations.owner),    *)
(* but nothing keeps a load from failing.  An address stands for the       *)
(* allocation that returned it; 0 is NULL.                                 *)
(***************************************************************************)
EXTENDS Integers, FiniteSetsExt

CONSTANTS
  Users,       \* processes, each with one file and one mapping
  BufSize,     \* GEMM_A_BUF_SIZE, GEMM_B_BUF_SIZE, GEMM_C_BUF_SIZE in pages
  MaxLoads     \* times the module is loaded

Regions == {"a", "b", "c"}

ASSUME DriverAssumption ==
  /\ BufSize \in [Regions -> Nat \ {0}]
  /\ MaxLoads \in Nat

VARIABLES
  pc, step,    \* where gemm_init or gemm_exit is
  loads,
  registered,  \* the device node exists
  region,      \* g_a, g_b, g_c
  memory,      \* coherent memory that is allocated, and its size
  allocs,      \* allocations so far
  file,        \* of each user: closed, open, or left behind by a failed load
  ioctl,       \* the ioctl a user is in, and what it has read
  info,        \* what the last ioctl of a user returned
  mapping      \* the mapping of a user

loadVars == <<pc, step, loads, registered>>
memVars == <<region, memory, allocs>>
userVars == <<file, ioctl, info, mapping>>
vars == <<loadVars, memVars, userVars>>

NoRegion == [vaddr |-> 0, size |-> 0]
NotCalled == [kind |-> "none"]
NoMapping == [vaddr |-> 0, pages |-> 0, live |-> FALSE]

Init ==
  /\ pc = "unloaded" /\ step = 1 /\ loads = 0 /\ registered = FALSE
  /\ region = [r \in Regions |-> NoRegion]
  /\ memory = {} /\ allocs = 0
  /\ file = [u \in Users |-> "closed"]
  /\ ioctl = [u \in Users |-> NotCalled]
  /\ info = [u \in Users |-> NotCalled]
  /\ mapping = [u \in Users |-> NoMapping]

Goto(label) == pc' = label /\ step' = 1

-----------------------------------------------------------------------------
(* gemm_init and gemm_exit *)

Insmod ==
  /\ pc = "unloaded" /\ loads < MaxLoads
  /\ loads' = loads + 1 /\ Goto("register")
  /\ UNCHANGED <<registered, memVars, userVars>>

\* misc_register: from here on the device can be opened.
Register ==
  /\ pc = "register"
  /\ \/ registered' = TRUE /\ Goto("size")
     \/ registered' = FALSE /\ Goto("unloaded")
  /\ UNCHANGED <<loads, memVars, userVars>>

AllocOrder == <<"a", "b", "c">>

\* alloc_region, first half: the size is entered before there is memory.
EnterSize ==
  LET r == AllocOrder[step] IN
  /\ pc = "size"
  /\ region' = [region EXCEPT ![r].size = BufSize[r]]
  /\ pc' = "alloc"
  /\ UNCHANGED <<step, loads, registered, memory, allocs, userVars>>

\* Mutant: the error code is entered as the size.
ErrorAsSize == [vaddr |-> 0, size |-> -12]

\* A region whose allocation failed.
AfterAllocFailure == NoRegion

\* alloc_region, second half.
Alloc ==
  LET r == AllocOrder[step] IN
  /\ pc = "alloc"
  /\ \/ /\ allocs' = allocs + 1
        /\ memory' = memory \cup {[vaddr |-> allocs', size |-> region[r].size]}
        /\ region' = [region EXCEPT ![r].vaddr = allocs']
        /\ IF step < 3 THEN step' = step + 1 /\ pc' = "size" ELSE Goto("live")
     \/ /\ region' = [region EXCEPT ![r] = AfterAllocFailure]
        /\ Goto("free")
        /\ UNCHANGED <<memory, allocs>>
  /\ UNCHANGED <<loads, registered, userVars>>

\* Mutant: file_operations without an owner; open files do not count.
UnusedWithoutOwner == TRUE

\* No file refers to the module.
Unused == \A u \in Users : file[u] # "open"

Rmmod ==
  /\ pc = "live" /\ Unused
  /\ Goto("exit")
  /\ UNCHANGED <<loads, registered, memVars, userVars>>

\* Mutant: the first region is forgotten.
FreeOrderWithoutFirst == <<"c", "b", "b">>

FreeOrder == <<"c", "b", "a">>

\* free_region, of whichever regions were allocated.
FreeRegion ==
  LET r == FreeOrder[step] IN
  /\ pc \in {"free", "exit"} /\ step <= 3
  /\ IF region[r].vaddr # 0
     THEN /\ memory' = {m \in memory : m.vaddr # region[r].vaddr}
          /\ region' = [region EXCEPT ![r] = NoRegion]
     ELSE UNCHANGED <<memory, region>>
  /\ step' = step + 1
  /\ UNCHANGED <<pc, loads, registered, allocs, userVars>>

\* misc_deregister; a file opened during a load that failed is left behind.
Deregister ==
  /\ pc \in {"free", "exit"} /\ step = 4
  /\ registered' = FALSE
  /\ Goto("unloaded")
  /\ file' = [u \in Users |-> IF file[u] = "open" THEN "left behind" ELSE file[u]]
  /\ UNCHANGED <<loads, memVars, ioctl, info, mapping>>

-----------------------------------------------------------------------------
(* Processes *)

\* gemm_open; the kernel refuses it only while the module is being unloaded.
Open(u) ==
  /\ registered /\ pc # "exit" /\ file[u] = "closed"
  /\ file' = [file EXCEPT ![u] = "open"]
  /\ UNCHANGED <<loadVars, memVars, ioctl, info, mapping>>

\* gemm_release, when neither the descriptor nor the mapping is left.
Close(u) ==
  /\ file[u] = "open" /\ ioctl[u] = NotCalled /\ mapping[u] = NoMapping
  /\ file' = [file EXCEPT ![u] = "closed"]
  /\ info' = [info EXCEPT ![u] = NotCalled]
  /\ UNCHANGED <<loadVars, memVars, ioctl, mapping>>

\* gemm_ioctl reads the three addresses,
IoctlAddresses(u) ==
  /\ file[u] = "open" /\ ioctl[u] = NotCalled
  /\ \E kind \in {"old", "ex"} :
       ioctl' = [ioctl EXCEPT ![u] = [kind |-> kind, live |-> pc = "live",
                                      phys |-> [r \in Regions |-> region[r].vaddr]]]
  /\ UNCHANGED <<loadVars, memVars, file, info, mapping>>

\* Mutant: the old call returns the size of the weight buffer for all three.
OldSizeOfWeights == region["b"].size

\* The one size of the old call.
OldSize == Min({region[r].size : r \in Regions})

\* and then the sizes; the old call has one for all three.
IoctlSizes(u) ==
  /\ file[u] = "open" /\ ioctl[u] # NotCalled
  /\ info' = [info EXCEPT ![u] =
                [kind |-> ioctl[u].kind, live |-> ioctl[u].live, phys |-> ioctl[u].phys,
                 size |-> [r \in Regions |-> IF ioctl[u].kind = "old"
                                             THEN OldSize ELSE region[r].size]]]
  /\ ioctl' = [ioctl EXCEPT ![u] = NotCalled]
  /\ UNCHANGED <<loadVars, memVars, file, mapping>>

\* gemm_mmap of the first pages of region r, refused beyond its size.
Mmap(u, r, pages) ==
  /\ file[u] = "open" /\ mapping[u] = NoMapping
  /\ pages > 0 /\ pages <= region[r].size
  /\ mapping' = [mapping EXCEPT ![u] = [vaddr |-> region[r].vaddr, pages |-> pages,
                                        live |-> pc = "live"]]
  /\ UNCHANGED <<loadVars, memVars, file, ioctl, info>>

Munmap(u) ==
  /\ file[u] = "open" /\ mapping[u] # NoMapping
  /\ mapping' = [mapping EXCEPT ![u] = NoMapping]
  /\ UNCHANGED <<loadVars, memVars, file, ioctl, info>>

-----------------------------------------------------------------------------
User(u) ==
  \/ Open(u) \/ Close(u) \/ IoctlAddresses(u) \/ IoctlSizes(u) \/ Munmap(u)
  \/ \E r \in Regions, pages \in 1..Max({BufSize[q] : q \in Regions}) : Mmap(u, r, pages)

Next ==
  \/ Insmod \/ Register \/ EnterSize \/ Alloc \/ Rmmod \/ FreeRegion \/ Deregister
  \/ \E u \in Users : User(u)

Spec == Init /\ [][Next]_vars

-----------------------------------------------------------------------------
(* Properties *)

TypeOK ==
  /\ pc \in {"unloaded", "register", "size", "alloc", "live", "free", "exit"}
  /\ step \in 1..4 /\ loads \in 0..MaxLoads /\ registered \in BOOLEAN
  /\ allocs \in Nat
  /\ region \in [Regions -> [vaddr : 0..allocs, size : Nat]]
  /\ memory \subseteq [vaddr : 1..allocs, size : Nat]
  /\ file \in [Users -> {"closed", "open", "left behind"}]
  /\ mapping \in [Users -> [vaddr : Nat, pages : Nat, live : BOOLEAN]]
  /\ \A u \in Users : {ioctl[u].kind, info[u].kind} \subseteq {"none", "old", "ex"}

(* The allocated memory is that of the three regions and no other: none is *)
(* left when the module is unloaded or could not be loaded, whichever      *)
(* allocation failed, and the next load starts as the first did            *)
(* (gemm_init, gemm_exit).                                                 *)
NothingLeaks ==
  /\ {m.vaddr : m \in memory} = {region[r].vaddr : r \in Regions} \ {0}
  /\ pc = "unloaded" => memory = {} /\ region = [r \in Regions |-> NoRegion]

(* What was mapped once the module was loaded stays backed by memory of at *)
(* least that size for as long as it is mapped (mmap, gemm_exit).          *)
MappingsStayBacked ==
  \A u \in Users : mapping[u].live =>
    \E m \in memory : m.vaddr = mapping[u].vaddr /\ m.size >= mapping[u].pages

(* An ioctl begun once the module was loaded returns, while its file is    *)
(* open, addresses of memory that is allocated and sizes no larger than it *)
(* (docs/linux-llama-integration.md, "valid DMA/physical addresses").      *)
InfoIsTrue ==
  \A u \in Users : file[u] = "open" /\ info[u] # NotCalled /\ info[u].live =>
    \A r \in Regions :
      \E m \in memory : m.vaddr = info[u].phys[r] /\ info[u].size[r] \in 1..m.size
=============================================================================
