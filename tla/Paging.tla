------------------------------- MODULE Paging -------------------------------
(***************************************************************************)
(* The four-level page tables of kernel/src/Paging/paging.c, built from    *)
(* frames of the allocator in Pmm.                                         *)
(*                                                                         *)
(* MapPage is split at its calls of KiPmmAlloc and before the invlpg; the  *)
(* rest of the system - one CPU, no thread switch - makes no call before   *)
(* it has returned.  UnmapPage makes no call and is one step.  The root    *)
(* table is a static variable, not a frame; every other table is read and  *)
(* written at its physical address (HhdmBase is never set).                *)
(*                                                                         *)
(* External to src/: the processor, which may cache a translation it       *)
(* finds in the tables at any moment, and the callers: no code in src/     *)
(* calls MapPage or UnmapPage yet.  A second user of the allocator writes  *)
(* over the frames it takes and gives them back, so that a frame is full   *)
(* of junk when it becomes a table.                                        *)
(***************************************************************************)
EXTENDS Pmm, Sequences

CONSTANTS
  Pages,     \* virtual pages: their four 9-bit table indexes
  Targets,   \* frame numbers pages are mapped to
  Memory     \* all frame numbers of the machine

TableIndices == UNION {{v[k] : k \in 1 .. 4} : v \in Pages}

ASSUME PagesAssumption == Pages \subseteq [1 .. 4 -> 0 .. 511]
ASSUME MemoryAssumption ==
  /\ Memory \subseteq Nat /\ 0 \in Memory /\ Targets \subseteq Memory
  /\ \A a \in BootArgs : 0 .. (a.total_mem_bytes \div PageSize - 1) \subseteq Memory

VARIABLES
  pml4,       \* __pml4_ins
  mem,        \* what each frame holds, read as a table
  tlb,        \* translations the processor has cached
  data,       \* frames of the other user of the allocator
  pc,         \* MapPage's next step
  virt, phys, \* its arguments, and
  table,      \* the frame of the table it has reached: <<>> and Absent
              \* when it is not running
  exhausted   \* history: a KiPmmAlloc made by MapPage found no free frame

allocator  == <<status, bitmap, fields, free_pages, ret>>
arguments  == <<virt, phys>>
pagingVars == <<allocator, pml4, mem, tlb, data, pc, arguments, table, exhausted>>

Absent == -1                                \* an entry without PAGE_PRESENT
Zeroed == [i \in TableIndices |-> Absent]   \* a frame after memset
Junk   == [i \in TableIndices |-> 0]        \* what data looks like as a table

FrameAt(addr) == (addr - endKernelAligned_) \div PageSize

-----------------------------------------------------------------------------
(* The walk of the tables, by the processor and by UnmapPage.              *)
EntryOf(t, i) == IF t = Absent THEN Absent ELSE mem[t][i]

PtOf(v) == EntryOf(EntryOf(pml4[v[1]], v[2]), v[3])
Walk(v) == EntryOf(PtOf(v), v[4])

-----------------------------------------------------------------------------
PagingInit ==
  /\ Init
  /\ pml4 = Zeroed
  /\ mem = [f \in Memory |-> Junk]
  /\ tlb = [v \in Pages |-> Absent]
  /\ data = {}
  /\ pc = "idle"
  /\ virt = <<>> /\ phys = Absent /\ table = Absent
  /\ exhausted = FALSE

Boot(a) ==
  /\ KiPmmInit(a)
  /\ UNCHANGED <<pml4, mem, tlb, data, pc, arguments, table, exhausted>>

CallMapPage(v, p) ==
  /\ pc = "idle" /\ status = "ready"
  /\ virt' = v /\ phys' = p
  /\ pc' = "pdpt"
  /\ UNCHANGED <<allocator, pml4, mem, tlb, data, table, exhausted>>

(* KiPmmAlloc and memset; the caller stores the entry.  The test "Must be  *)
(* aligned" refuses no frame, because the base of the frames is 0, and     *)
(* does not refuse NULL: without a free frame the table is frame 0.        *)
NewTable(f) ==
  /\ KiPmmAlloc
  /\ f = FrameAt(ret')
  /\ exhausted' = (exhausted \/ FreeFrames = {})

MapPagePdpt ==
  /\ pc = "pdpt"
  /\ \/ /\ pml4[virt[1]] # Absent
        /\ table' = pml4[virt[1]]
        /\ UNCHANGED <<allocator, pml4, mem, exhausted>>
     \/ /\ pml4[virt[1]] = Absent
        /\ \E f \in Memory : /\ NewTable(f)
                             /\ mem'   = [mem EXCEPT ![f] = Zeroed]
                             /\ pml4'  = [pml4 EXCEPT ![virt[1]] = f]
                             /\ table' = f
  /\ pc' = "pdt"
  /\ UNCHANGED <<tlb, data, arguments>>

(* Mutant of Descend: no memset of the new table.                          *)
DescendUncleared(k) ==
  /\ \/ /\ mem[table][virt[k]] # Absent
        /\ table' = mem[table][virt[k]]
        /\ UNCHANGED <<allocator, mem, exhausted>>
     \/ /\ mem[table][virt[k]] = Absent
        /\ \E f \in Memory : /\ NewTable(f)
                             /\ mem'   = [mem EXCEPT ![table][virt[k]] = f]
                             /\ table' = f
  /\ UNCHANGED <<pml4, tlb, data, arguments>>

(* Mutant of Descend: the new table is not linked into its parent.         *)
DescendUnlinked(k) ==
  /\ \/ /\ mem[table][virt[k]] # Absent
        /\ table' = mem[table][virt[k]]
        /\ UNCHANGED <<allocator, mem, exhausted>>
     \/ /\ mem[table][virt[k]] = Absent
        /\ \E f \in Memory : /\ NewTable(f)
                             /\ mem'   = [mem EXCEPT ![f] = Zeroed]
                             /\ table' = f
  /\ UNCHANGED <<pml4, tlb, data, arguments>>

(* The entry of virt in the table reached so far, k = 2 in the Pdpt and 3  *)
(* in the Pdt, leads to the next table or gets a new one.                  *)
Descend(k) ==
  /\ \/ /\ mem[table][virt[k]] # Absent
        /\ table' = mem[table][virt[k]]
        /\ UNCHANGED <<allocator, mem, exhausted>>
     \/ /\ mem[table][virt[k]] = Absent
        /\ \E f \in Memory : /\ NewTable(f)
                             /\ mem'   = [mem EXCEPT ![f] = Zeroed,
                                                     ![table][virt[k]] = f]
                             /\ table' = f
  /\ UNCHANGED <<pml4, tlb, data, arguments>>

MapPagePdt == pc = "pdt" /\ Descend(2) /\ pc' = "pt"
MapPagePt  == pc = "pt"  /\ Descend(3) /\ pc' = "entry"

MapPageEntry ==
  /\ pc = "entry"
  /\ mem' = [mem EXCEPT ![table][virt[4]] = phys]
  /\ pc' = "invlpg"
  /\ UNCHANGED <<allocator, pml4, tlb, data, arguments, table, exhausted>>

MapPageInvlpg ==
  /\ pc = "invlpg"
  /\ tlb' = [tlb EXCEPT ![virt] = Absent]
  /\ pc' = "idle"
  /\ virt' = <<>> /\ phys' = Absent /\ table' = Absent
  /\ UNCHANGED <<allocator, pml4, mem, data, exhausted>>

(* Mutants of UnmapPage: no invlpg; the table given back, still linked.    *)
UnmapPageNoInvlpg(v) ==
  /\ pc = "idle"
  /\ \/ PtOf(v) = Absent /\ UNCHANGED mem
     \/ /\ PtOf(v) # Absent
        /\ mem' = [mem EXCEPT ![PtOf(v)][v[4]] = Absent]
  /\ UNCHANGED <<allocator, pml4, tlb, data, pc, arguments, table, exhausted>>

UnmapPageFreesTable(v) ==
  /\ pc = "idle"
  /\ PtOf(v) # Absent
  /\ mem' = [mem EXCEPT ![PtOf(v)][v[4]] = Absent]
  /\ tlb' = [tlb EXCEPT ![v] = Absent]
  /\ KiPmmFree(FrameAddr(PtOf(v)))
  /\ UNCHANGED <<pml4, data, pc, arguments, table, exhausted>>

(* The parameter phys is not used; no table is given back.                 *)
UnmapPage(v) ==
  /\ pc = "idle"
  /\ \/ PtOf(v) = Absent /\ UNCHANGED <<mem, tlb>>
     \/ /\ PtOf(v) # Absent
        /\ mem' = [mem EXCEPT ![PtOf(v)][v[4]] = Absent]
        /\ tlb' = [tlb EXCEPT ![v] = Absent]
  /\ UNCHANGED <<allocator, pml4, data, pc, arguments, table, exhausted>>

-----------------------------------------------------------------------------
(* The processor and the other user of the allocator.                      *)

CacheTranslation(v) ==
  /\ Walk(v) # Absent
  /\ tlb' = [tlb EXCEPT ![v] = Walk(v)]
  /\ UNCHANGED <<allocator, pml4, mem, data, pc, arguments, table, exhausted>>

TakeData ==
  /\ pc = "idle"
  /\ KiPmmAlloc
  /\ \/ ret' = NULL /\ UNCHANGED <<data, mem>>
     \/ /\ ret' # NULL
        /\ data' = data \cup {FrameAt(ret')}
        /\ mem'  = [mem EXCEPT ![FrameAt(ret')] = Junk]
  /\ UNCHANGED <<pml4, tlb, pc, arguments, table, exhausted>>

GiveData(f) ==
  /\ pc = "idle"
  /\ KiPmmFree(FrameAddr(f))
  /\ data' = data \ {f}
  /\ UNCHANGED <<pml4, mem, tlb, pc, arguments, table, exhausted>>

PagingNext ==
  \/ \E a \in BootArgs : Boot(a)
  \/ \E v \in Pages, p \in Targets : CallMapPage(v, p)
  \/ MapPagePdpt \/ MapPagePdt \/ MapPagePt \/ MapPageEntry \/ MapPageInvlpg
  \/ \E v \in Pages : UnmapPage(v) \/ CacheTranslation(v)
  \/ TakeData
  \/ \E f \in data : GiveData(f)

PagingSpec == PagingInit /\ [][PagingNext]_pagingVars

-----------------------------------------------------------------------------
(* The tables of each level, as (parent, index) pairs with what they hold. *)
Pdpts == {i \in TableIndices : pml4[i] # Absent}
Pdts  == {d \in TableIndices \X TableIndices :
            d[1] \in Pdpts /\ mem[pml4[d[1]]][d[2]] # Absent}
Pts   == {t \in TableIndices \X TableIndices \X TableIndices :
            /\ <<t[1], t[2]>> \in Pdts
            /\ mem[mem[pml4[t[1]]][t[2]]][t[3]] # Absent}

Tables ==
  {pml4[i] : i \in Pdpts} \cup {mem[pml4[d[1]]][d[2]] : d \in Pdts}
    \cup {mem[mem[pml4[t[1]]][t[2]]][t[3]] : t \in Pts}

(* The tables form a tree of frames the allocator has marked and nobody    *)
(* else has: no two entries lead to the same table.                        *)
TablesFormTree ==
  ~exhausted =>
    /\ Cardinality(Tables) = Cardinality(Pdpts) + Cardinality(Pdts) + Cardinality(Pts)
    /\ Tables \subseteq bitmap
    /\ Tables \cap data = {}

(* Every marked frame is a table or data; frame 0, which reads as a        *)
(* failure to everyone but MapPage, may have been lost.                    *)
EveryFrameAccounted ==
  ~exhausted => bitmap \ (Tables \cup data) \subseteq {0}

(* Between calls the processor has cached only what the tables say.        *)
TlbCoherent ==
  (pc = "idle" /\ ~exhausted) => \A v \in Pages : tlb[v] \in {Absent, Walk(v)}

(* The tables implement a map from pages to pages: a MapPage step changes  *)
(* the translation of its page only, when it stores the last entry, and    *)
(* frames recycled from other users never show through.                    *)
Space == INSTANCE AddressSpace WITH space <- [v \in Pages |-> Walk(v)]

IsAddressSpace == Space!SpaceSpec
=============================================================================
