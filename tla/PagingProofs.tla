---------------------------- MODULE PagingProofs ----------------------------
(***************************************************************************)
(* Proofs about Paging, for every set of pages and targets and every size  *)
(* of memory: the tables stay a tree, no frame gets lost, the processor's  *)
(* cache agrees with the tables between calls, and the tables implement    *)
(* the map of AddressSpace.                                                *)
(*                                                                         *)
(* The invariant names the tables of each level by what leads to them: the *)
(* entries of the level above.  The levels are disjoint and no two entries *)
(* are the same, so that storing into one table changes one path, and a    *)
(* frame that is free, or somebody else's, is on none.                     *)
(***************************************************************************)
EXTENDS Paging, PmmProofs

(* What the tables S of a memory m lead to, and that no two entries of     *)
(* them lead to the same.                                                  *)
Entries(m, S) == {m[t][i] : t \in S, i \in TableIndices} \ {Absent}

Distinct(m, S) ==
  \A t, u \in S : \A i, j \in TableIndices :
    m[t][i] = m[u][j] /\ m[t][i] # Absent => t = u /\ i = j

(* The tables of each level.                                               *)
Level1 == {pml4[i] : i \in TableIndices} \ {Absent}
Level2 == Entries(mem, Level1)
Level3 == Entries(mem, Level2)
AllTables == Level1 \cup Level2 \cup Level3

EntryTypes ==
  /\ pml4 \in [TableIndices -> Memory \cup {Absent}]
  /\ mem \in [Memory -> [TableIndices -> Memory \cup {Absent}]]
  /\ tlb \in [Pages -> Memory \cup {Absent}]

Tree ==
  /\ Level1 \cap Level2 = {} /\ Level1 \cap Level3 = {} /\ Level2 \cap Level3 = {}
  /\ \A i, j \in TableIndices : pml4[i] = pml4[j] /\ pml4[i] # Absent => i = j
  /\ Distinct(mem, Level1) /\ Distinct(mem, Level2)
  /\ Entries(mem, Level3) \subseteq Targets

Accounted ==
  /\ bitmap \subseteq Memory
  /\ AllTables \subseteq bitmap \ data
  /\ data \subseteq bitmap \ {0}
  /\ bitmap \subseteq AllTables \cup data \cup {0}

Structure == EntryTypes /\ Tree /\ Accounted

(* What MapPage has reached, and that only the translation it has just     *)
(* stored may be stale in the processor.                                   *)
Reached ==
  /\ pc \in {"idle", "pdpt", "pdt", "pt", "entry", "invlpg"}
  /\ pc # "idle" => status = "ready" /\ virt \in Pages /\ phys \in Targets
  /\ pc = "pdt" => table = pml4[virt[1]] /\ table # Absent
  /\ pc = "pt" => table = EntryOf(pml4[virt[1]], virt[2]) /\ table # Absent
  /\ pc \in {"entry", "invlpg"} => table = PtOf(virt) /\ table # Absent

Coherent ==
  \A v \in Pages : \/ tlb[v] \in {Absent, Walk(v)}
                   \/ pc = "invlpg" /\ v = virt

Early == status # "ready" => pc = "idle" /\ pml4 = Zeroed /\ data = {}

TablesInv == Structure /\ Reached /\ Coherent /\ Early

(* Whatever happens to the tables after a failed allocation.               *)
Always ==
  /\ AllocInv
  /\ endKernelAligned_ = 0
  /\ Frames \subseteq Memory
  /\ exhausted \in BOOLEAN

PagingInv == Always /\ (~exhausted => TablesInv)

-----------------------------------------------------------------------------
(* Constants.                                                              *)
LEMMA Constants ==
  /\ Absent \notin Memory /\ 0 \in Memory /\ Targets \subseteq Memory
  /\ Memory \subseteq Nat
  /\ \A v \in Pages : \A k \in 1 .. 4 : v[k] \in TableIndices
  /\ Zeroed \in [TableIndices -> Memory \cup {Absent}]
  /\ Junk \in [TableIndices -> Memory \cup {Absent}]
<1>1. /\ Absent \notin Memory /\ 0 \in Memory /\ Targets \subseteq Memory
      /\ Memory \subseteq Nat
  BY MemoryAssumption DEF Absent
<1>2. \A v \in Pages : \A k \in 1 .. 4 : v[k] \in TableIndices BY DEF TableIndices
<1>3. /\ Zeroed \in [TableIndices -> Memory \cup {Absent}]
      /\ Junk \in [TableIndices -> Memory \cup {Absent}]
  BY <1>1 DEF Zeroed, Junk
<1> QED BY <1>1, <1>2, <1>3

(* Two pages with the same indexes are the same.                           *)
LEMMA SamePage ==
  ASSUME NEW v \in Pages, NEW w \in Pages,
         v[1] = w[1], v[2] = w[2], v[3] = w[3], v[4] = w[4]
  PROVE  v = w
<1>1. PICK I, R : I = 1 .. 4 /\ R = 0 .. 511 OBVIOUS
<1>2. v \in [I -> R] /\ w \in [I -> R]
  <2>1. Pages \subseteq [I -> R] BY <1>1, PagesAssumption
  <2> QED BY <2>1
<1>3. \A k \in I : v[k] = w[k] BY <1>1
<1> QED BY <1>2, <1>3

-----------------------------------------------------------------------------
(* Stores into memory, seen from a level of the tables.                    *)

(* Tables that keep their contents keep what they lead to.                 *)
LEMMA SameEntries ==
  ASSUME NEW m, NEW n, NEW S, \A t \in S : n[t] = m[t]
  PROVE  /\ Entries(n, S) = Entries(m, S)
         /\ Distinct(m, S) => Distinct(n, S)
BY DEF Entries, Distinct

(* An empty table leads nowhere.                                           *)
LEMMA ZeroedEntries ==
  ASSUME NEW m, NEW n, NEW S, NEW f, n[f] = Zeroed, f \notin S,
         \A t \in S : n[t] = m[t]
  PROVE  /\ Entries(n, S \cup {f}) = Entries(m, S)
         /\ Distinct(m, S) => Distinct(n, S \cup {f})
<1>1. \A i \in TableIndices : n[f][i] = Absent BY DEF Zeroed
<1> QED BY <1>1 DEF Entries, Distinct

(* Linking a new table into a level adds it to the next.                   *)
LEMMA LinkedEntries ==
  ASSUME NEW m, NEW n, NEW S, NEW t \in S, NEW i \in TableIndices, NEW f,
         m[t] \in [TableIndices -> Memory \cup {Absent}], m[t][i] = Absent,
         n[t] = [m[t] EXCEPT ![i] = f], f # Absent,
         \A u \in S \ {t} : n[u] = m[u]
  PROVE  /\ Entries(n, S) = Entries(m, S) \cup {f}
         /\ Distinct(m, S) /\ f \notin Entries(m, S) => Distinct(n, S)
<1>1. \A j \in TableIndices : n[t][j] = IF j = i THEN f ELSE m[t][j] OBVIOUS
<1>2. Entries(n, S) = Entries(m, S) \cup {f}
  <2>1. Entries(n, S) \subseteq Entries(m, S) \cup {f} BY <1>1 DEF Entries
  <2>2. ASSUME NEW e \in Entries(m, S) PROVE e \in Entries(n, S)
    <3>1. PICK u \in S, j \in TableIndices : e = m[u][j] BY DEF Entries
    <3>2. e # Absent BY DEF Entries
    <3>3. n[u][j] = e BY <1>1, <3>1, <3>2
    <3> QED BY <3>2, <3>3 DEF Entries
  <2>3. f \in Entries(n, S) BY <1>1 DEF Entries
  <2> QED BY <2>1, <2>2, <2>3
<1>3. ASSUME Distinct(m, S), f \notin Entries(m, S) PROVE Distinct(n, S)
  <2> SUFFICES ASSUME NEW u \in S, NEW w \in S, NEW j \in TableIndices, NEW k \in TableIndices,
                      n[u][j] = n[w][k], n[u][j] # Absent
               PROVE  u = w /\ j = k
    BY DEF Distinct
  <2>1. \A x \in S, l \in TableIndices :
          n[x][l] = IF x = t /\ l = i THEN f ELSE m[x][l]
    BY <1>1
  <2>2. \A x \in S, l \in TableIndices : m[x][l] # f BY <1>3 DEF Entries
  <2>3. CASE u = t /\ j = i BY <2>1, <2>2, <2>3
  <2>4. CASE ~(u = t /\ j = i)
    <3>1. ~(w = t /\ k = i) BY <2>1, <2>2, <2>4
    <3>2. n[u][j] = m[u][j] /\ n[w][k] = m[w][k] BY <2>1, <2>4, <3>1
    <3>3. m[u][j] = m[w][k] /\ m[u][j] # Absent BY <3>2
    <3>4. \A x, y \in S : \A p, q \in TableIndices :
            m[x][p] = m[y][q] /\ m[x][p] # Absent => x = y /\ p = q
      BY <1>3 DEF Distinct
    <3> QED BY <3>3, <3>4
  <2> QED BY <2>3, <2>4
<1> QED BY <1>2, <1>3

-----------------------------------------------------------------------------
(* The path to a page.                                                     *)

(* A step of the walk stays on its level or ends.                          *)
LEMMA StepDown ==
  ASSUME NEW S, NEW t \in S \cup {Absent}, NEW i \in TableIndices
  PROVE  EntryOf(t, i) \in Entries(mem, S) \cup {Absent}
BY DEF EntryOf, Entries

LEMMA Path ==
  ASSUME NEW v \in Pages
  PROVE  /\ pml4[v[1]] \in Level1 \cup {Absent}
         /\ EntryOf(pml4[v[1]], v[2]) \in Level2 \cup {Absent}
         /\ PtOf(v) \in Level3 \cup {Absent}
         /\ Walk(v) \in Entries(mem, Level3) \cup {Absent}
<1>1. /\ v[1] \in TableIndices /\ v[2] \in TableIndices
      /\ v[3] \in TableIndices /\ v[4] \in TableIndices
  BY Constants
<1>2. pml4[v[1]] \in Level1 \cup {Absent} BY <1>1 DEF Level1
<1>3. EntryOf(pml4[v[1]], v[2]) \in Level2 \cup {Absent}
  BY <1>1, <1>2, StepDown DEF Level2
<1>4. PtOf(v) \in Level3 \cup {Absent} BY <1>1, <1>3, StepDown DEF Level3, PtOf
<1>5. Walk(v) \in Entries(mem, Level3) \cup {Absent}
  BY <1>1, <1>4, StepDown DEF Walk
<1> QED BY <1>2, <1>3, <1>4, <1>5

(* Two entries that lead to the same table are the same.                   *)
LEMMA SameEntry ==
  ASSUME NEW S, Distinct(mem, S), NEW a \in S \cup {Absent}, NEW b \in S \cup {Absent},
         NEW p \in TableIndices, NEW q \in TableIndices,
         EntryOf(a, p) = EntryOf(b, q), EntryOf(a, p) # Absent
  PROVE  a = b /\ p = q
<1>1. \A x, y \in S : \A k, l \in TableIndices :
        mem[x][k] = mem[y][l] /\ mem[x][k] # Absent => x = y /\ k = l
  BY DEF Distinct
<1>2. a # Absent /\ b # Absent BY DEF EntryOf
<1>3. mem[a][p] = mem[b][q] /\ mem[a][p] # Absent BY <1>2 DEF EntryOf
<1> QED BY <1>1, <1>2, <1>3

(* Only pages whose first three indexes agree share their last table.      *)
LEMMA OwnPath ==
  ASSUME Tree, NEW v \in Pages, NEW w \in Pages,
         PtOf(v) = PtOf(w), PtOf(v) # Absent
  PROVE  v[1] = w[1] /\ v[2] = w[2] /\ v[3] = w[3]
<1> DEFINE Pdt(x) == EntryOf(pml4[x[1]], x[2])
<1>1. /\ v[1] \in TableIndices /\ v[2] \in TableIndices /\ v[3] \in TableIndices
      /\ w[1] \in TableIndices /\ w[2] \in TableIndices /\ w[3] \in TableIndices
  BY Constants
<1>2. /\ pml4[v[1]] \in Level1 \cup {Absent} /\ pml4[w[1]] \in Level1 \cup {Absent}
      /\ Pdt(v) \in Level2 \cup {Absent} /\ Pdt(w) \in Level2 \cup {Absent}
  BY Path
<1>3. Distinct(mem, Level1) /\ Distinct(mem, Level2) BY DEF Tree
<1>4. Pdt(v) = Pdt(w) /\ v[3] = w[3]
  <2>1. EntryOf(Pdt(v), v[3]) = EntryOf(Pdt(w), w[3]) /\ EntryOf(Pdt(v), v[3]) # Absent
    BY DEF PtOf
  <2> HIDE DEF Pdt
  <2> QED BY <1>1, <1>2, <1>3, <2>1, SameEntry
<1>5. Pdt(v) # Absent BY DEF PtOf, EntryOf
<1>6. pml4[v[1]] = pml4[w[1]] /\ v[2] = w[2]
  <2>1. EntryOf(pml4[v[1]], v[2]) = EntryOf(pml4[w[1]], w[2])
        /\ EntryOf(pml4[v[1]], v[2]) # Absent
    BY <1>4, <1>5
  <2>2. PICK t, u : t = pml4[v[1]] /\ u = pml4[w[1]] OBVIOUS
  <2>3. t \in Level1 \cup {Absent} /\ u \in Level1 \cup {Absent} BY <2>2, Path
  <2>4. EntryOf(t, v[2]) = EntryOf(u, w[2]) /\ EntryOf(t, v[2]) # Absent BY <2>1, <2>2
  <2>5. t = u /\ v[2] = w[2] BY <1>1, <1>3, <2>3, <2>4, SameEntry
  <2> QED BY <2>2, <2>5
<1>7. pml4[v[1]] # Absent BY <1>5 DEF EntryOf
<1> QED BY <1>1, <1>4, <1>6, <1>7 DEF Tree

(* Translations depend on the tables only.                                 *)
LEMMA SameWalks ==
  ASSUME pml4' = pml4, \A t \in AllTables : mem'[t] = mem[t]
  PROVE  \A v \in Pages : PtOf(v)' = PtOf(v) /\ Walk(v)' = Walk(v)
<1> SUFFICES ASSUME NEW v \in Pages PROVE PtOf(v)' = PtOf(v) /\ Walk(v)' = Walk(v)
  OBVIOUS
<1> DEFINE Pdt == EntryOf(pml4[v[1]], v[2])
<1>1. \A t \in AllTables \cup {Absent} : \A i : EntryOf(t, i)' = EntryOf(t, i)
  BY DEF EntryOf
<1>2. /\ pml4[v[1]] \in AllTables \cup {Absent}
      /\ Pdt \in AllTables \cup {Absent}
      /\ PtOf(v) \in AllTables \cup {Absent}
  BY Path DEF AllTables
<1>3. Pdt' = Pdt BY <1>1, <1>2 DEF EntryOf
<1>4. PtOf(v)' = PtOf(v) BY <1>1, <1>2, <1>3 DEF PtOf, EntryOf
<1>5. Walk(v)' = Walk(v) BY <1>1, <1>2, <1>4 DEF Walk, EntryOf
<1> QED BY <1>4, <1>5

-----------------------------------------------------------------------------
(* How the tables change.  A new table takes a frame that was free, so it  *)
(* is on no level yet and nobody's data.                                   *)
FreshTable(f) ==
  /\ f \in Memory /\ f \notin bitmap
  /\ bitmap' = bitmap \cup {f}
  /\ UNCHANGED <<data, tlb>>

LEMMA FreshFrame ==
  ASSUME Structure, NEW f, FreshTable(f)
  PROVE  f \notin AllTables /\ f \notin data /\ f # Absent
BY Constants DEF Structure, Accounted, FreshTable

(* The frames stay accounted for when a level gets the new table.          *)
LEMMA FreshAccounted ==
  ASSUME Structure, NEW f, FreshTable(f), AllTables' = AllTables \cup {f}
  PROVE  Accounted'
<1>1. f \notin AllTables /\ f \notin data BY FreshFrame
<1>2. \/ f = 0 \/ f # 0 OBVIOUS
<1> QED BY <1>1 DEF Structure, Accounted, FreshTable

(* The first store of a new table clears it.                               *)
LEMMA ClearMemory ==
  ASSUME Structure, NEW f, FreshTable(f), mem' = [mem EXCEPT ![f] = Zeroed]
  PROVE  /\ mem' \in [Memory -> [TableIndices -> Memory \cup {Absent}]]
         /\ mem'[f] = Zeroed
         /\ \A t \in AllTables : mem'[t] = mem[t]
<1>1. f \notin AllTables BY FreshFrame
<1>2. f \in Memory BY DEF FreshTable
<1>3. /\ mem' \in [Memory -> [TableIndices -> Memory \cup {Absent}]]
      /\ mem'[f] = Zeroed
      /\ \A t \in Memory \ {f} : mem'[t] = mem[t]
  BY <1>2, Constants DEF Structure, EntryTypes
<1>4. AllTables \subseteq Memory \ {f} BY <1>1 DEF Structure, Accounted
<1> QED BY <1>3, <1>4

LEMMA LinkPdpt ==
  ASSUME Structure, NEW f, FreshTable(f), NEW i \in TableIndices,
         pml4[i] = Absent, pml4' = [pml4 EXCEPT ![i] = f],
         mem' \in [Memory -> [TableIndices -> Memory \cup {Absent}]],
         mem'[f] = Zeroed, \A t \in AllTables : mem'[t] = mem[t]
  PROVE  Structure'
<1>1. f \notin AllTables /\ f # Absent BY FreshFrame
<1>2. f \in Memory BY DEF FreshTable
<1>3. EntryTypes' BY <1>2 DEF Structure, EntryTypes, FreshTable
<1>4. \A j \in TableIndices : pml4'[j] = IF j = i THEN f ELSE pml4[j]
  BY DEF Structure, EntryTypes
<1>5. Level1' = Level1 \cup {f} BY <1>1, <1>4 DEF Level1
<1>6. /\ Entries(mem', Level1') = Level2
      /\ Distinct(mem, Level1) => Distinct(mem', Level1')
  <2>1. \A t \in Level1 : mem'[t] = mem[t] BY DEF AllTables
  <2>2. f \notin Level1 BY <1>1 DEF AllTables
  <2>3. /\ Entries(mem', Level1 \cup {f}) = Entries(mem, Level1)
        /\ Distinct(mem, Level1) => Distinct(mem', Level1 \cup {f})
    BY <2>1, <2>2, ZeroedEntries
  <2> QED BY <1>5, <2>3 DEF Level2
<1>7. Level2' = Level2 BY <1>6 DEF Level2
<1>8. /\ Entries(mem', Level2') = Level3
      /\ Distinct(mem, Level2) => Distinct(mem', Level2')
  <2>1. \A t \in Level2 : mem'[t] = mem[t] BY DEF AllTables
  <2> QED BY <1>7, <2>1, SameEntries DEF Level3
<1>9. Level3' = Level3 BY <1>8 DEF Level3
<1>10. Entries(mem', Level3') = Entries(mem, Level3)
  <2>1. \A t \in Level3 : mem'[t] = mem[t] BY DEF AllTables
  <2> QED BY <1>9, <2>1, SameEntries
<1>11. Tree'
  <2>1. \A j, k \in TableIndices : pml4'[j] = pml4'[k] /\ pml4'[j] # Absent => j = k
    <3>1. \A j \in TableIndices : pml4[j] # f BY <1>1 DEF AllTables, Level1
    <3> QED BY <1>4, <3>1 DEF Structure, Tree
  <2>2. Distinct(mem', Level1') /\ Distinct(mem', Level2')
    BY <1>6, <1>8 DEF Structure, Tree
  <2>3. Entries(mem', Level3') \subseteq Targets BY <1>10 DEF Structure, Tree
  <2>4. /\ Level1' \cap Level2' = {} /\ Level1' \cap Level3' = {}
        /\ Level2' \cap Level3' = {}
    BY <1>1, <1>5, <1>7, <1>9 DEF Structure, Tree, AllTables
  <2> QED BY <2>1, <2>2, <2>3, <2>4 DEF Tree
<1>12. AllTables' = AllTables \cup {f} BY <1>5, <1>7, <1>9 DEF AllTables
<1> QED BY <1>3, <1>11, <1>12, FreshAccounted DEF Structure

(* Linking into a table reached earlier: what the store does to memory.    *)
LEMMA LinkMemory ==
  ASSUME Structure, NEW f, FreshTable(f), NEW t \in AllTables, NEW i \in TableIndices,
         mem' = [mem EXCEPT ![f] = Zeroed, ![t][i] = f]
  PROVE  /\ EntryTypes' \/ pml4' # pml4
         /\ t # f /\ f \notin AllTables /\ f # Absent
         /\ mem[t] \in [TableIndices -> Memory \cup {Absent}]
         /\ mem'[f] = Zeroed
         /\ mem'[t] = [mem[t] EXCEPT ![i] = f]
         /\ \A u \in AllTables \ {t} : mem'[u] = mem[u]
<1>1. f \notin AllTables /\ f # Absent BY FreshFrame
<1>2. f \in Memory BY DEF FreshTable
<1>3. AllTables \subseteq Memory \ {f}
  BY <1>1 DEF Structure, Accounted
<1>4. t \in Memory /\ t # f BY <1>3
<1>5. mem \in [Memory -> [TableIndices -> Memory \cup {Absent}]]
  BY DEF Structure, EntryTypes
<1> DEFINE cleared == [mem EXCEPT ![f] = Zeroed]
<1>6. /\ cleared \in [Memory -> [TableIndices -> Memory \cup {Absent}]]
      /\ cleared[t] = mem[t] /\ cleared[f] = Zeroed
      /\ \A u \in Memory \ {f} : cleared[u] = mem[u]
  BY <1>2, <1>4, <1>5, Constants
<1>7. mem' = [cleared EXCEPT ![t] = [cleared[t] EXCEPT ![i] = f]] OBVIOUS
<1> HIDE DEF cleared
<1>8. /\ mem'[t] = [mem[t] EXCEPT ![i] = f]
      /\ mem'[f] = Zeroed
      /\ \A u \in Memory \ {t, f} : mem'[u] = mem[u]
  BY <1>2, <1>4, <1>6, <1>7
<1>9. mem[t] \in [TableIndices -> Memory \cup {Absent}] BY <1>4, <1>5
<1>10. [mem[t] EXCEPT ![i] = f] \in [TableIndices -> Memory \cup {Absent}] BY <1>2, <1>9
<1>11. mem' \in [Memory -> [TableIndices -> Memory \cup {Absent}]]
  BY <1>4, <1>6, <1>7, <1>10
<1>12. pml4' = pml4 => EntryTypes' BY <1>11 DEF Structure, EntryTypes, FreshTable
<1> QED BY <1>1, <1>3, <1>4, <1>8, <1>9, <1>12

(* A table linked into one of the first level is a new one of the second.  *)
LEMMA LinkPdt ==
  ASSUME Structure, NEW f, FreshTable(f), NEW t \in Level1, NEW i \in TableIndices,
         mem[t] \in [TableIndices -> Memory \cup {Absent}], mem[t][i] = Absent,
         EntryTypes', pml4' = pml4, mem'[f] = Zeroed,
         mem'[t] = [mem[t] EXCEPT ![i] = f],
         \A u \in AllTables \ {t} : mem'[u] = mem[u]
  PROVE  Structure'
<1>1. f \notin AllTables /\ f # Absent BY FreshFrame
<1>2. Tree BY DEF Structure
<1>3. Level1' = Level1 BY DEF Level1
<1>4. /\ Entries(mem', Level1) = Level2 \cup {f}
      /\ Distinct(mem', Level1)
  <2>1. \A u \in Level1 \ {t} : mem'[u] = mem[u] BY DEF AllTables
  <2>2. f \notin Entries(mem, Level1) BY <1>1 DEF AllTables, Level2
  <2>3. Distinct(mem, Level1) BY <1>2 DEF Tree
  <2>4. /\ Entries(mem', Level1) = Entries(mem, Level1) \cup {f}
        /\ Distinct(mem, Level1) /\ f \notin Entries(mem, Level1)
             => Distinct(mem', Level1)
    BY <1>1, <2>1, LinkedEntries
  <2> QED BY <2>2, <2>3, <2>4 DEF Level2
<1>5. Level2' = Level2 \cup {f} BY <1>3, <1>4 DEF Level2
<1>6. /\ Entries(mem', Level2 \cup {f}) = Level3
      /\ Distinct(mem', Level2 \cup {f})
  <2>1. t \notin Level2 BY <1>2 DEF Tree
  <2>2. \A u \in Level2 : mem'[u] = mem[u] BY <2>1 DEF AllTables
  <2>3. f \notin Level2 BY <1>1 DEF AllTables
  <2>4. /\ Entries(mem', Level2 \cup {f}) = Entries(mem, Level2)
        /\ Distinct(mem, Level2) => Distinct(mem', Level2 \cup {f})
    BY <2>2, <2>3, ZeroedEntries
  <2> QED BY <1>2, <2>4 DEF Level3, Tree
<1>7. Level3' = Level3 BY <1>5, <1>6 DEF Level3
<1>8. Entries(mem', Level3) = Entries(mem, Level3)
  <2>1. t \notin Level3 BY <1>2 DEF Tree
  <2>2. \A u \in Level3 : mem'[u] = mem[u] BY <2>1 DEF AllTables
  <2> QED BY <2>2, SameEntries
<1>9. Tree'
  <2>1. \A j, k \in TableIndices : pml4'[j] = pml4'[k] /\ pml4'[j] # Absent => j = k
    BY <1>2 DEF Tree
  <2>2. Distinct(mem', Level1') /\ Distinct(mem', Level2')
    BY <1>3, <1>4, <1>5, <1>6
  <2>3. Entries(mem', Level3') \subseteq Targets BY <1>2, <1>7, <1>8 DEF Tree
  <2>4. /\ Level1' \cap Level2' = {} /\ Level1' \cap Level3' = {}
        /\ Level2' \cap Level3' = {}
    BY <1>1, <1>2, <1>3, <1>5, <1>7 DEF Tree, AllTables
  <2> QED BY <2>1, <2>2, <2>3, <2>4 DEF Tree
<1>10. AllTables' = AllTables \cup {f} BY <1>3, <1>5, <1>7 DEF AllTables
<1> QED BY <1>9, <1>10, FreshAccounted DEF Structure

(* A table linked into one of the second level is a new one of the third.  *)
LEMMA LinkPt ==
  ASSUME Structure, NEW f, FreshTable(f), NEW t \in Level2, NEW i \in TableIndices,
         mem[t] \in [TableIndices -> Memory \cup {Absent}], mem[t][i] = Absent,
         EntryTypes', pml4' = pml4, mem'[f] = Zeroed,
         mem'[t] = [mem[t] EXCEPT ![i] = f],
         \A u \in AllTables \ {t} : mem'[u] = mem[u]
  PROVE  Structure'
<1>1. f \notin AllTables /\ f # Absent BY FreshFrame
<1>2. Tree BY DEF Structure
<1>3. Level1' = Level1 BY DEF Level1
<1>4. /\ Entries(mem', Level1) = Level2
      /\ Distinct(mem', Level1)
  <2>1. t \notin Level1 BY <1>2 DEF Tree
  <2>2. \A u \in Level1 : mem'[u] = mem[u] BY <2>1 DEF AllTables
  <2>3. /\ Entries(mem', Level1) = Entries(mem, Level1)
        /\ Distinct(mem, Level1) => Distinct(mem', Level1)
    BY <2>2, SameEntries
  <2> QED BY <1>2, <2>3 DEF Level2, Tree
<1>5. Level2' = Level2 BY <1>3, <1>4 DEF Level2
<1>6. /\ Entries(mem', Level2) = Level3 \cup {f}
      /\ Distinct(mem', Level2)
  <2>1. \A u \in Level2 \ {t} : mem'[u] = mem[u] BY DEF AllTables
  <2>2. f \notin Entries(mem, Level2) BY <1>1 DEF AllTables, Level3
  <2>3. Distinct(mem, Level2) BY <1>2 DEF Tree
  <2>4. /\ Entries(mem', Level2) = Entries(mem, Level2) \cup {f}
        /\ Distinct(mem, Level2) /\ f \notin Entries(mem, Level2)
             => Distinct(mem', Level2)
    BY <1>1, <2>1, LinkedEntries
  <2> QED BY <2>2, <2>3, <2>4 DEF Level3
<1>7. Level3' = Level3 \cup {f} BY <1>5, <1>6 DEF Level3
<1>8. Entries(mem', Level3 \cup {f}) = Entries(mem, Level3)
  <2>1. t \notin Level3 BY <1>2 DEF Tree
  <2>2. \A u \in Level3 : mem'[u] = mem[u] BY <2>1 DEF AllTables
  <2>3. f \notin Level3 BY <1>1 DEF AllTables
  <2> QED BY <2>2, <2>3, ZeroedEntries
<1>9. Tree'
  <2>1. \A j, k \in TableIndices : pml4'[j] = pml4'[k] /\ pml4'[j] # Absent => j = k
    BY <1>2 DEF Tree
  <2>2. Distinct(mem', Level1') /\ Distinct(mem', Level2')
    BY <1>3, <1>4, <1>5, <1>6
  <2>3. Entries(mem', Level3') \subseteq Targets BY <1>2, <1>7, <1>8 DEF Tree
  <2>4. /\ Level1' \cap Level2' = {} /\ Level1' \cap Level3' = {}
        /\ Level2' \cap Level3' = {}
    BY <1>1, <1>2, <1>3, <1>5, <1>7 DEF Tree, AllTables
  <2> QED BY <2>1, <2>2, <2>3, <2>4 DEF Tree
<1>10. AllTables' = AllTables \cup {f} BY <1>3, <1>5, <1>7 DEF AllTables
<1> QED BY <1>9, <1>10, FreshAccounted DEF Structure

(* Stores outside the first two levels, of targets if into the third,      *)
(* change no table.                                                        *)
LEMMA SameTables ==
  ASSUME Tree, pml4' = pml4,
         \A t \in Level1 \cup Level2 : mem'[t] = mem[t],
         Entries(mem', Level3) \subseteq Targets
  PROVE  Tree' /\ AllTables' = AllTables
<1>1. Level1' = Level1 BY DEF Level1
<1>2. /\ Entries(mem', Level1) = Entries(mem, Level1)
      /\ Distinct(mem, Level1) => Distinct(mem', Level1)
  <2>1. \A t \in Level1 : mem'[t] = mem[t] OBVIOUS
  <2> QED BY <2>1, SameEntries
<1>3. Level2' = Level2 BY <1>1, <1>2 DEF Level2
<1>4. /\ Entries(mem', Level2) = Entries(mem, Level2)
      /\ Distinct(mem, Level2) => Distinct(mem', Level2)
  <2>1. \A t \in Level2 : mem'[t] = mem[t] OBVIOUS
  <2> QED BY <2>1, SameEntries
<1>5. Level3' = Level3 BY <1>3, <1>4 DEF Level3
<1>6. AllTables' = AllTables BY <1>1, <1>3, <1>5 DEF AllTables
<1> QED BY <1>1, <1>2, <1>3, <1>4, <1>5, <1>6 DEF Tree

-----------------------------------------------------------------------------
(* What the stores do to translations.  The walk of page v, step by step.  *)
Pdpt(v) == pml4[v[1]]
Pdt(v)  == EntryOf(Pdpt(v), v[2])

LEMMA WalkSteps ==
  ASSUME NEW v \in Pages
  PROVE  /\ Pdt(v)' = IF Pdpt(v)' = Absent THEN Absent ELSE mem'[Pdpt(v)'][v[2]]
         /\ PtOf(v)' = IF Pdt(v)' = Absent THEN Absent ELSE mem'[Pdt(v)'][v[3]]
         /\ Walk(v)' = IF PtOf(v)' = Absent THEN Absent ELSE mem'[PtOf(v)'][v[4]]
         /\ Pdt(v) = IF Pdpt(v) = Absent THEN Absent ELSE mem[Pdpt(v)][v[2]]
         /\ PtOf(v) = IF Pdt(v) = Absent THEN Absent ELSE mem[Pdt(v)][v[3]]
         /\ Walk(v) = IF PtOf(v) = Absent THEN Absent ELSE mem[PtOf(v)][v[4]]
BY DEF Pdpt, Pdt, PtOf, Walk, EntryOf

LEMMA OnLevels ==
  ASSUME NEW v \in Pages
  PROVE  /\ Pdpt(v) \in Level1 \cup {Absent}
         /\ Pdt(v) \in Level2 \cup {Absent}
         /\ PtOf(v) \in Level3 \cup {Absent}
         /\ Walk(v) \in Entries(mem, Level3) \cup {Absent}
         /\ v[1] \in TableIndices /\ v[2] \in TableIndices
         /\ v[3] \in TableIndices /\ v[4] \in TableIndices
BY Path, Constants DEF Pdpt, Pdt

(* A new table translates nothing until something is stored in it.         *)
LEMMA LinkPdptWalks ==
  ASSUME NEW f, f # Absent, NEW i \in TableIndices,
         pml4 \in [TableIndices -> Memory \cup {Absent}],
         pml4[i] = Absent, pml4' = [pml4 EXCEPT ![i] = f],
         mem'[f] = Zeroed, \A t \in AllTables : mem'[t] = mem[t],
         NEW v \in Pages
  PROVE  Walk(v)' = Walk(v)
<1>1. \A j \in TableIndices : mem'[f][j] = Absent BY DEF Zeroed
<1>2. CASE v[1] = i
  <2>1. Pdpt(v) = Absent /\ Pdpt(v)' = f BY <1>2, OnLevels DEF Pdpt
  <2>2. Walk(v) = Absent BY <2>1, WalkSteps
  <2>3. Pdt(v)' = Absent BY <1>1, <2>1, WalkSteps, OnLevels
  <2> QED BY <2>2, <2>3, WalkSteps
<1>3. CASE v[1] # i
  <2>1. Pdpt(v)' = Pdpt(v) BY <1>3, OnLevels DEF Pdpt
  <2>2. Pdt(v)' = Pdt(v) BY <2>1, WalkSteps, OnLevels DEF AllTables
  <2>3. PtOf(v)' = PtOf(v) BY <2>2, WalkSteps, OnLevels DEF AllTables
  <2> QED BY <2>3, WalkSteps, OnLevels DEF AllTables
<1> QED BY <1>2, <1>3

LEMMA LinkPdtWalks ==
  ASSUME Tree, NEW f, f # Absent, NEW t \in Level1, NEW i \in TableIndices,
         mem[t] \in [TableIndices -> Memory \cup {Absent}], mem[t][i] = Absent,
         pml4' = pml4, mem'[f] = Zeroed,
         mem'[t] = [mem[t] EXCEPT ![i] = f],
         \A u \in AllTables \ {t} : mem'[u] = mem[u],
         NEW v \in Pages
  PROVE  Walk(v)' = Walk(v)
<1>1. \A j \in TableIndices : mem'[f][j] = Absent BY DEF Zeroed
<1>2. Pdpt(v)' = Pdpt(v) BY DEF Pdpt
<1>3. t # Absent /\ t \notin Level2 /\ t \notin Level3 BY DEF Tree, Level1
<1>4. CASE Pdpt(v) = t /\ v[2] = i
  <2>1. Pdt(v) = Absent BY <1>3, <1>4, WalkSteps
  <2>2. Walk(v) = Absent BY <2>1, WalkSteps
  <2>3. Pdt(v)' = f BY <1>2, <1>3, <1>4, WalkSteps
  <2>4. PtOf(v)' = Absent BY <1>1, <2>3, WalkSteps, OnLevels
  <2> QED BY <2>2, <2>4, WalkSteps
<1>5. CASE ~(Pdpt(v) = t /\ v[2] = i)
  <2>1. Pdpt(v) # Absent => mem'[Pdpt(v)][v[2]] = mem[Pdpt(v)][v[2]]
    BY <1>5, OnLevels DEF AllTables
  <2>2. Pdt(v)' = Pdt(v) BY <1>2, <2>1, WalkSteps
  <2>3. PtOf(v)' = PtOf(v) BY <1>3, <2>2, WalkSteps, OnLevels DEF AllTables
  <2> QED BY <1>3, <2>3, WalkSteps, OnLevels DEF AllTables
<1> QED BY <1>4, <1>5

LEMMA LinkPtWalks ==
  ASSUME Tree, NEW f, f # Absent, NEW t \in Level2, NEW i \in TableIndices,
         mem[t] \in [TableIndices -> Memory \cup {Absent}], mem[t][i] = Absent,
         pml4' = pml4, mem'[f] = Zeroed,
         mem'[t] = [mem[t] EXCEPT ![i] = f],
         \A u \in AllTables \ {t} : mem'[u] = mem[u],
         NEW v \in Pages
  PROVE  Walk(v)' = Walk(v)
<1>1. \A j \in TableIndices : mem'[f][j] = Absent BY DEF Zeroed
<1>2. Pdpt(v)' = Pdpt(v) BY DEF Pdpt
<1>3. t # Absent /\ t \notin Level1 /\ t \notin Level3
  BY DEF Tree, Level2, Entries
<1>4. Pdt(v)' = Pdt(v) BY <1>2, <1>3, WalkSteps, OnLevels DEF AllTables
<1>5. CASE Pdt(v) = t /\ v[3] = i
  <2>1. PtOf(v) = Absent BY <1>3, <1>5, WalkSteps
  <2>2. Walk(v) = Absent BY <2>1, WalkSteps
  <2>3. PtOf(v)' = f BY <1>3, <1>4, <1>5, WalkSteps
  <2>4. Walk(v)' = Absent BY <1>1, <2>3, WalkSteps, OnLevels
  <2> QED BY <2>2, <2>4
<1>6. CASE ~(Pdt(v) = t /\ v[3] = i)
  <2>1. Pdt(v) # Absent => mem'[Pdt(v)][v[3]] = mem[Pdt(v)][v[3]]
    BY <1>6, OnLevels DEF AllTables
  <2>2. PtOf(v)' = PtOf(v) BY <1>4, <2>1, WalkSteps
  <2> QED BY <1>3, <2>2, WalkSteps, OnLevels DEF AllTables
<1> QED BY <1>5, <1>6

(* A store into a last table changes the translation of its page only.     *)
LEMMA StoreLeaf ==
  ASSUME Structure, NEW v \in Pages, PtOf(v) # Absent, NEW x \in Targets \cup {Absent},
         mem' = [mem EXCEPT ![PtOf(v)][v[4]] = x],
         UNCHANGED <<pml4, bitmap, data>>, tlb' \in [Pages -> Memory \cup {Absent}]
  PROVE  /\ Structure'
         /\ \A w \in Pages : /\ PtOf(w)' = PtOf(w)
                             /\ Walk(w)' = IF w = v THEN x ELSE Walk(w)
<1> DEFINE t == PtOf(v)
<1>1. t \in Level3 BY OnLevels
<1>2. Tree BY DEF Structure
<1>3. t \in AllTables /\ t \notin Level1 /\ t \notin Level2
  BY <1>1, <1>2 DEF Tree, AllTables
<1>4. t \in Memory BY <1>3 DEF Structure, Accounted
<1>5. v[4] \in TableIndices BY OnLevels
<1>6. mem \in [Memory -> [TableIndices -> Memory \cup {Absent}]]
  BY DEF Structure, EntryTypes
<1>7. x \in Memory \cup {Absent} BY Constants
<1> HIDE DEF t
<1>8. /\ mem' \in [Memory -> [TableIndices -> Memory \cup {Absent}]]
      /\ mem'[t] = [mem[t] EXCEPT ![v[4]] = x]
      /\ \A u \in Memory \ {t} : mem'[u] = mem[u]
  BY <1>4, <1>5, <1>6, <1>7 DEF t
<1>9. mem[t] \in [TableIndices -> Memory \cup {Absent}] BY <1>4, <1>6
<1>10. \A j \in TableIndices : mem'[t][j] = IF j = v[4] THEN x ELSE mem[t][j]
  BY <1>5, <1>8, <1>9
<1>11. \A u \in AllTables \ {t} : mem'[u] = mem[u]
  BY <1>8 DEF Structure, Accounted
<1>12. \A u \in Level1 \cup Level2 : mem'[u] = mem[u]
  BY <1>3, <1>11 DEF AllTables
<1>13. Entries(mem', Level3) \subseteq Targets
  <2> SUFFICES ASSUME NEW u \in Level3, NEW j \in TableIndices, mem'[u][j] # Absent
               PROVE  mem'[u][j] \in Targets
    BY DEF Entries
  <2>1. mem[u][j] \in Targets \cup {Absent} BY <1>2 DEF Tree, Entries
  <2>2. mem'[u][j] \in {mem[u][j], x}
    BY <1>10, <1>11 DEF AllTables
  <2> QED BY <2>1, <2>2
<1>14. Tree' /\ AllTables' = AllTables
  BY <1>2, <1>12, <1>13, SameTables
<1>15. EntryTypes' BY <1>8 DEF Structure, EntryTypes
<1>16. Accounted' BY <1>14 DEF Structure, Accounted
<1>17. ASSUME NEW w \in Pages
       PROVE  /\ PtOf(w)' = PtOf(w)
              /\ Walk(w)' = IF w = v THEN x ELSE Walk(w)
  <2>1. Pdpt(w)' = Pdpt(w) BY DEF Pdpt
  <2>2. Pdt(w)' = Pdt(w) BY <1>12, <2>1, WalkSteps, OnLevels
  <2>3. PtOf(w)' = PtOf(w) BY <1>12, <2>2, WalkSteps, OnLevels
  <2>4. CASE w = v BY <1>5, <1>10, <2>3, <2>4, WalkSteps DEF t
  <2>5. CASE w # v /\ PtOf(w) = t
    <3>1. w[1] = v[1] /\ w[2] = v[2] /\ w[3] = v[3] BY <1>2, <2>5, OwnPath DEF t
    <3>2. w[4] # v[4] BY <2>5, <3>1, SamePage
    <3>3. mem'[t][w[4]] = mem[t][w[4]] BY <1>10, <3>2, OnLevels
    <3> QED BY <2>3, <2>5, <3>3, WalkSteps
  <2>6. CASE w # v /\ PtOf(w) # t
    BY <1>11, <2>3, <2>6, WalkSteps, OnLevels DEF AllTables
  <2> QED BY <2>3, <2>4, <2>5, <2>6
<1> QED BY <1>14, <1>15, <1>16, <1>17 DEF Structure

-----------------------------------------------------------------------------
(* The allocator under the page tables.                                    *)
LEMMA DivMult ==
  ASSUME NEW i \in Nat
  PROVE  (i * PageSize) \div PageSize = i
BY PageSizeAssumption

LEMMA AddrOfFrame ==
  ASSUME Always, NEW i \in Frames
  PROVE  /\ i \in Nat /\ i \in Memory
         /\ FrameAt(FrameAddr(i)) = i
         /\ FrameNamed(FrameAddr(i)) = {i}
<1>1. i \in Nat /\ i \in Memory BY DEF Always, AllocInv, TypeOK, Frames
<1>2. i * PageSize \in Nat BY <1>1, PageSizeAssumption
<1>3. FrameAddr(i) = i * PageSize BY <1>2 DEF FrameAddr, Always
<1>4. FrameAt(FrameAddr(i)) = i BY <1>1, <1>2, <1>3, DivMult DEF FrameAt, Always
<1>5. FrameNamed(FrameAddr(i)) = {i}
  BY <1>1, <1>2, <1>3, DivMult DEF FrameNamed, Always
<1> QED BY <1>1, <1>4, <1>5

LEMMA AlwaysInit == PagingInit => Always
<1> SUFFICES ASSUME PagingInit PROVE Always OBVIOUS
<1>1. Init BY DEF PagingInit
<1>2. AllocInv BY <1>1, InitInv
<1>3. Frames \subseteq Memory BY <1>1 DEF Init, Frames
<1> QED BY <1>1, <1>2, <1>3 DEF Always, Init, PagingInit

LEMMA AlwaysStep == Always /\ [PagingNext]_pagingVars => Always'
<1> SUFFICES ASSUME Always, [PagingNext]_pagingVars PROVE Always' OBVIOUS
<1>1. AllocInv /\ endKernelAligned_ = 0 /\ Frames \subseteq Memory /\ exhausted \in BOOLEAN
  BY DEF Always
<1>2. ASSUME NEW a \in BootArgs, Boot(a) PROVE Always'
  <2>1. KiPmmInit(a) /\ exhausted' = exhausted BY <1>2 DEF Boot
  <2>2. AllocInv' BY <1>1, <2>1, KiPmmInitInv
  <2>3. Frames' \subseteq Memory BY <2>1, MemoryAssumption DEF KiPmmInit, Frames
  <2> QED BY <1>1, <2>1, <2>2, <2>3 DEF Always, KiPmmInit
<1>3. ASSUME AllocInv', UNCHANGED fields, exhausted' \in BOOLEAN PROVE Always'
  BY <1>1, <1>3 DEF Always, fields, Frames
<1>4. ASSUME KiPmmAlloc, exhausted' \in BOOLEAN PROVE Always'
  BY <1>1, <1>3, <1>4, KiPmmAllocInv DEF KiPmmAlloc
<1>5. ASSUME UNCHANGED allocator, exhausted' \in BOOLEAN PROVE Always'
  <2>1. UNCHANGED vars BY <1>5 DEF allocator, vars, fields
  <2> QED BY <1>1, <1>3, <1>5, <2>1, StutterInv DEF vars, fields
<1>6. ASSUME NEW f, NewTable(f) PROVE Always'
  BY <1>1, <1>4, <1>6 DEF NewTable
<1>7. CASE MapPagePdpt BY <1>1, <1>5, <1>6, <1>7 DEF MapPagePdpt
<1>8. CASE MapPagePdt \/ MapPagePt
  BY <1>1, <1>5, <1>6, <1>8 DEF MapPagePdt, MapPagePt, Descend
<1>9. CASE \/ \E v \in Pages, p \in Targets : CallMapPage(v, p)
           \/ MapPageEntry \/ MapPageInvlpg
           \/ \E v \in Pages : UnmapPage(v) \/ CacheTranslation(v)
           \/ UNCHANGED pagingVars
  <2>1. UNCHANGED <<allocator, exhausted>>
    BY <1>9 DEF CallMapPage, MapPageEntry, MapPageInvlpg, UnmapPage, CacheTranslation,
                pagingVars
  <2> QED BY <1>1, <1>5, <2>1
<1>10. CASE TakeData BY <1>1, <1>4, <1>10 DEF TakeData
<1>11. ASSUME NEW f \in data, GiveData(f) PROVE Always'
  <2>1. KiPmmFree(FrameAddr(f)) /\ exhausted' = exhausted BY <1>11 DEF GiveData
  <2>2. AllocInv' BY <1>1, <2>1, KiPmmFreeInv
  <2> QED BY <1>1, <1>3, <2>1, <2>2 DEF KiPmmFree
<1> QED BY <1>2, <1>7, <1>8, <1>9, <1>10, <1>11 DEF PagingNext

(* While there is memory, a new table is a frame that was free.            *)
LEMMA NewTableFresh ==
  ASSUME Always, NEW f, NewTable(f), ~exhausted', UNCHANGED <<data, tlb>>
  PROVE  FreshTable(f) /\ status' = status
<1>1. KiPmmAlloc /\ FreeFrames # {} /\ f = FrameAt(ret') BY DEF NewTable
<1>2. PICK i \in FreeFrames : Mark({i}) /\ ret' = FrameAddr(i) BY <1>1 DEF KiPmmAlloc
<1>3. i \in Frames /\ i \notin bitmap BY DEF FreeFrames
<1>4. f = i /\ i \in Memory BY <1>1, <1>2, <1>3, AddrOfFrame
<1> QED BY <1>1, <1>2, <1>3, <1>4 DEF FreshTable, Mark, KiPmmAlloc

-----------------------------------------------------------------------------
(* The actions, while there is memory.  Each keeps the invariant, and each *)
(* but two keeps every translation.                                        *)
WalksKept == \A v \in Pages : Walk(v)' = Walk(v)

(* What a step that leaves the tables alone has to show of the rest.       *)
LEMMA CoherentKept ==
  ASSUME Coherent, pc # "invlpg", tlb' = tlb, WalksKept
  PROVE  Coherent'
BY DEF Coherent, WalksKept

LEMMA SameStructure ==
  ASSUME Structure, UNCHANGED <<pml4, mem, tlb, bitmap, data>>
  PROVE  /\ Structure' /\ WalksKept
         /\ \A v \in Pages : Pdpt(v)' = Pdpt(v) /\ Pdt(v)' = Pdt(v) /\ PtOf(v)' = PtOf(v)
<1>1. /\ Level1' = Level1 /\ Level2' = Level2 /\ Level3' = Level3
      /\ AllTables' = AllTables
  BY DEF Level1, Level2, Level3, AllTables
<1>2. Structure' BY <1>1 DEF Structure, EntryTypes, Tree, Accounted
<1>3. WalksKept
      /\ \A v \in Pages : Pdpt(v)' = Pdpt(v) /\ Pdt(v)' = Pdt(v) /\ PtOf(v)' = PtOf(v)
  BY DEF WalksKept, Walk, PtOf, EntryOf, Pdpt, Pdt
<1> QED BY <1>2, <1>3

LEMMA MapPagePdptStep ==
  ASSUME Always, TablesInv, MapPagePdpt, ~exhausted'
  PROVE  TablesInv' /\ WalksKept
<1>1. Structure /\ Reached /\ Coherent BY DEF TablesInv
<1>2. /\ pc = "pdpt" /\ pc' = "pdt" /\ UNCHANGED <<tlb, data, virt, phys>>
  BY DEF MapPagePdpt, arguments
<1>3. status = "ready" /\ virt \in Pages /\ phys \in Targets BY <1>1, <1>2 DEF Reached
<1>4. virt[1] \in TableIndices BY <1>3, OnLevels
<1>5. /\ Structure' /\ WalksKept
      /\ status' = status
      /\ table' = pml4'[virt[1]] /\ table' # Absent
  <2>1. CASE pml4[virt[1]] # Absent
    <3>1. table' = pml4[virt[1]] /\ UNCHANGED <<allocator, pml4, mem>>
      BY <2>1 DEF MapPagePdpt
    <3> QED BY <1>1, <1>2, <2>1, <3>1, SameStructure DEF allocator
  <2>2. CASE pml4[virt[1]] = Absent
    <3>1. PICK f \in Memory : /\ NewTable(f)
                              /\ mem'   = [mem EXCEPT ![f] = Zeroed]
                              /\ pml4'  = [pml4 EXCEPT ![virt[1]] = f]
                              /\ table' = f
      BY <2>2 DEF MapPagePdpt
    <3>2. FreshTable(f) /\ status' = status BY <1>2, <3>1, NewTableFresh
    <3>3. /\ mem' \in [Memory -> [TableIndices -> Memory \cup {Absent}]]
          /\ mem'[f] = Zeroed /\ \A t \in AllTables : mem'[t] = mem[t]
      BY <1>1, <3>1, <3>2, ClearMemory
    <3>4. f # Absent BY Constants
    <3>5. pml4 \in [TableIndices -> Memory \cup {Absent}]
      BY <1>1 DEF Structure, EntryTypes
    <3>6. Structure' BY <1>1, <1>4, <2>2, <3>1, <3>2, <3>3, LinkPdpt
    <3>7. WalksKept
      BY <1>4, <2>2, <3>1, <3>3, <3>4, <3>5, LinkPdptWalks DEF WalksKept
    <3>8. pml4'[virt[1]] = f BY <1>4, <3>1, <3>5
    <3> QED BY <3>1, <3>2, <3>4, <3>6, <3>7, <3>8
  <2> QED BY <2>1, <2>2
<1>6. Reached' BY <1>2, <1>3, <1>5 DEF Reached
<1>7. Coherent' BY <1>1, <1>2, <1>5, CoherentKept
<1>8. Early' BY <1>3, <1>5 DEF Early
<1> QED BY <1>5, <1>6, <1>7, <1>8 DEF TablesInv

LEMMA MapPagePdtStep ==
  ASSUME Always, TablesInv, MapPagePdt, ~exhausted'
  PROVE  TablesInv' /\ WalksKept
<1>1. Structure /\ Reached /\ Coherent /\ Tree BY DEF TablesInv, Structure
<1>2. /\ pc = "pdt" /\ pc' = "pt" /\ UNCHANGED <<pml4, tlb, data, virt, phys>>
      /\ Descend(2)
  BY DEF MapPagePdt, Descend, arguments
<1>3. /\ status = "ready" /\ virt \in Pages /\ phys \in Targets
      /\ table = Pdpt(virt) /\ table # Absent
  BY <1>1, <1>2 DEF Reached, Pdpt
<1>4. table \in Level1 /\ table \in AllTables BY <1>3, OnLevels DEF AllTables
<1>5. virt[2] \in TableIndices BY <1>3, OnLevels
<1>6. Pdpt(virt)' = table BY <1>2, <1>3 DEF Pdpt
<1>7. /\ Structure' /\ WalksKept
      /\ status' = status
      /\ table' = mem'[table][virt[2]] /\ table' # Absent
  <2>1. CASE mem[table][virt[2]] # Absent
    <3>1. table' = mem[table][virt[2]] /\ UNCHANGED <<allocator, mem>>
      BY <1>2, <2>1 DEF Descend
    <3> QED BY <1>1, <1>2, <2>1, <3>1, SameStructure DEF allocator
  <2>2. CASE mem[table][virt[2]] = Absent
    <3>1. PICK f \in Memory : /\ NewTable(f)
                              /\ mem' = [mem EXCEPT ![f] = Zeroed, ![table][virt[2]] = f]
                              /\ table' = f
      BY <1>2, <2>2 DEF Descend
    <3>2. FreshTable(f) /\ status' = status BY <1>2, <3>1, NewTableFresh
    <3>3. /\ EntryTypes' /\ f # Absent
          /\ mem[table] \in [TableIndices -> Memory \cup {Absent}]
          /\ mem'[f] = Zeroed
          /\ mem'[table] = [mem[table] EXCEPT ![virt[2]] = f]
          /\ \A u \in AllTables \ {table} : mem'[u] = mem[u]
      BY <1>1, <1>2, <1>4, <1>5, <3>1, <3>2, LinkMemory
    <3>4. Structure' BY <1>1, <1>2, <1>4, <1>5, <2>2, <3>2, <3>3, LinkPdt
    <3>5. WalksKept
      BY <1>1, <1>2, <1>4, <1>5, <2>2, <3>3, LinkPdtWalks DEF WalksKept
    <3>6. mem'[table][virt[2]] = f BY <1>5, <3>3
    <3> QED BY <3>1, <3>2, <3>3, <3>4, <3>5, <3>6
  <2> QED BY <2>1, <2>2
<1>8. Reached'
  <2>1. table' = EntryOf(pml4[virt[1]], virt[2])'
    BY <1>2, <1>3, <1>7 DEF EntryOf, Pdpt
  <2> QED BY <1>2, <1>3, <1>7, <2>1 DEF Reached
<1>9. Coherent' BY <1>1, <1>2, <1>7, CoherentKept
<1>10. Early' BY <1>3, <1>7 DEF Early
<1> QED BY <1>7, <1>8, <1>9, <1>10 DEF TablesInv

LEMMA MapPagePtStep ==
  ASSUME Always, TablesInv, MapPagePt, ~exhausted'
  PROVE  TablesInv' /\ WalksKept
<1>1. Structure /\ Reached /\ Coherent /\ Tree BY DEF TablesInv, Structure
<1>2. /\ pc = "pt" /\ pc' = "entry" /\ UNCHANGED <<pml4, tlb, data, virt, phys>>
      /\ Descend(3)
  BY DEF MapPagePt, Descend, arguments
<1>3. /\ status = "ready" /\ virt \in Pages /\ phys \in Targets
      /\ table = Pdt(virt) /\ table # Absent
  BY <1>1, <1>2 DEF Reached, Pdpt, Pdt
<1>4. table \in Level2 /\ table \in AllTables /\ table \notin Level1
  BY <1>1, <1>3, OnLevels DEF AllTables, Tree
<1>5. virt[3] \in TableIndices BY <1>3, OnLevels
<1>6. /\ Structure' /\ WalksKept
      /\ status' = status
      /\ table' = mem'[table][virt[3]] /\ table' # Absent
      /\ \A u \in Level1 : mem'[u] = mem[u]
  <2>1. CASE mem[table][virt[3]] # Absent
    <3>1. table' = mem[table][virt[3]] /\ UNCHANGED <<allocator, mem>>
      BY <1>2, <2>1 DEF Descend
    <3> QED BY <1>1, <1>2, <2>1, <3>1, SameStructure DEF allocator
  <2>2. CASE mem[table][virt[3]] = Absent
    <3>1. PICK f \in Memory : /\ NewTable(f)
                              /\ mem' = [mem EXCEPT ![f] = Zeroed, ![table][virt[3]] = f]
                              /\ table' = f
      BY <1>2, <2>2 DEF Descend
    <3>2. FreshTable(f) /\ status' = status BY <1>2, <3>1, NewTableFresh
    <3>3. /\ EntryTypes' /\ f # Absent
          /\ mem[table] \in [TableIndices -> Memory \cup {Absent}]
          /\ mem'[f] = Zeroed
          /\ mem'[table] = [mem[table] EXCEPT ![virt[3]] = f]
          /\ \A u \in AllTables \ {table} : mem'[u] = mem[u]
      BY <1>1, <1>2, <1>4, <1>5, <3>1, <3>2, LinkMemory
    <3>4. Structure' BY <1>1, <1>2, <1>4, <1>5, <2>2, <3>2, <3>3, LinkPt
    <3>5. WalksKept
      BY <1>1, <1>2, <1>4, <1>5, <2>2, <3>3, LinkPtWalks DEF WalksKept
    <3>6. mem'[table][virt[3]] = f BY <1>5, <3>3
    <3>7. \A u \in Level1 : mem'[u] = mem[u] BY <1>4, <3>3 DEF AllTables
    <3> QED BY <3>1, <3>2, <3>3, <3>4, <3>5, <3>6, <3>7
  <2> QED BY <2>1, <2>2
<1>7. Pdt(virt)' = table
  <2>1. Pdpt(virt)' = Pdpt(virt) BY <1>2 DEF Pdpt
  <2>2. Pdpt(virt) # Absent => mem'[Pdpt(virt)] = mem[Pdpt(virt)]
    BY <1>3, <1>6, OnLevels
  <2> QED BY <1>2, <1>3, <2>1, <2>2 DEF Pdt, Pdpt, EntryOf
<1>8. Reached'
  <2>1. table' = PtOf(virt)'
    BY <1>2, <1>3, <1>6, <1>7 DEF PtOf, EntryOf, Pdt, Pdpt
  <2> QED BY <1>2, <1>3, <1>6, <2>1 DEF Reached
<1>9. Coherent' BY <1>1, <1>2, <1>6, CoherentKept
<1>10. Early' BY <1>3, <1>6 DEF Early
<1> QED BY <1>6, <1>8, <1>9, <1>10 DEF TablesInv

(* MapPage's last store changes the translation of virt, and of no other   *)
(* page: the processor's translation of virt may be stale until invlpg.    *)
LEMMA MapPageEntryStep ==
  ASSUME TablesInv, MapPageEntry
  PROVE  /\ TablesInv'
         /\ virt \in Pages /\ phys \in Targets
         /\ \A v \in Pages : Walk(v)' = IF v = virt THEN phys ELSE Walk(v)
<1>1. Structure /\ Reached /\ Coherent BY DEF TablesInv
<1>2. /\ pc = "entry" /\ pc' = "invlpg"
      /\ UNCHANGED <<status, pml4, tlb, bitmap, data, virt, phys, table>>
      /\ mem' = [mem EXCEPT ![table][virt[4]] = phys]
  BY DEF MapPageEntry, arguments, allocator
<1>3. /\ status = "ready" /\ virt \in Pages /\ phys \in Targets
      /\ table = PtOf(virt) /\ table # Absent
  BY <1>1, <1>2 DEF Reached
<1>4. tlb' \in [Pages -> Memory \cup {Absent}] BY <1>1, <1>2 DEF Structure, EntryTypes
<1>5. /\ Structure'
      /\ \A v \in Pages : /\ PtOf(v)' = PtOf(v)
                          /\ Walk(v)' = IF v = virt THEN phys ELSE Walk(v)
  <2>1. phys \in Targets \cup {Absent} BY <1>3
  <2>2. mem' = [mem EXCEPT ![PtOf(virt)][virt[4]] = phys] BY <1>2, <1>3
  <2>3. PtOf(virt) # Absent BY <1>3
  <2>4. UNCHANGED <<pml4, bitmap, data>> BY <1>2
  <2> QED BY <1>1, <1>3, <1>4, <2>1, <2>2, <2>3, <2>4, StoreLeaf
<1>6. Reached'
  <2>1. PICK v \in Pages : v = virt BY <1>3
  <2>2. PtOf(virt)' = PtOf(v)' BY <1>2, <2>1 DEF PtOf, EntryOf
  <2>3. PtOf(v)' = PtOf(v) BY <1>5
  <2>4. table' = PtOf(virt)' BY <1>2, <1>3, <2>1, <2>2, <2>3
  <2> QED BY <1>2, <1>3, <2>4 DEF Reached
<1>7. Coherent' BY <1>1, <1>2, <1>5 DEF Coherent
<1>8. Early' BY <1>2, <1>3 DEF Early
<1> QED BY <1>3, <1>5, <1>6, <1>7, <1>8 DEF TablesInv

LEMMA UnmapPageStep ==
  ASSUME TablesInv, NEW v \in Pages, UnmapPage(v)
  PROVE  /\ TablesInv'
         /\ \A w \in Pages : Walk(w)' = IF w = v THEN Absent ELSE Walk(w)
<1>1. Structure /\ Reached /\ Coherent /\ Early BY DEF TablesInv
<1>2. /\ pc = "idle" /\ pc' = "idle"
      /\ UNCHANGED <<status, pml4, bitmap, data>>
  BY DEF UnmapPage, allocator
<1>3. Reached' /\ Early' BY <1>1, <1>2 DEF Reached, Early
<1>4. CASE PtOf(v) = Absent
  <2>1. UNCHANGED <<mem, tlb>> BY <1>4 DEF UnmapPage
  <2>2. Structure' /\ WalksKept BY <1>1, <1>2, <2>1, SameStructure
  <2>3. Coherent' BY <1>1, <1>2, <2>1, <2>2, CoherentKept
  <2>4. Walk(v) = Absent BY <1>4, WalkSteps
  <2> QED BY <1>3, <2>2, <2>3, <2>4 DEF TablesInv, WalksKept
<1>5. CASE PtOf(v) # Absent
  <2>1. /\ mem' = [mem EXCEPT ![PtOf(v)][v[4]] = Absent]
        /\ tlb' = [tlb EXCEPT ![v] = Absent]
    BY <1>5 DEF UnmapPage
  <2>2. /\ tlb \in [Pages -> Memory \cup {Absent}]
        /\ tlb' \in [Pages -> Memory \cup {Absent}]
    BY <1>1, <2>1 DEF Structure, EntryTypes
  <2>3. /\ Structure'
        /\ \A w \in Pages : /\ PtOf(w)' = PtOf(w)
                            /\ Walk(w)' = IF w = v THEN Absent ELSE Walk(w)
    BY <1>1, <1>2, <1>5, <2>1, <2>2, StoreLeaf
  <2>4. Coherent' BY <1>1, <1>2, <2>1, <2>2, <2>3 DEF Coherent
  <2> QED BY <1>3, <2>3, <2>4 DEF TablesInv
<1> QED BY <1>4, <1>5

LEMMA BootStep ==
  ASSUME TablesInv, NEW a \in BootArgs, Boot(a)
  PROVE  TablesInv' /\ WalksKept
<1>1. Structure /\ Reached /\ Coherent /\ Early BY DEF TablesInv
<1>2. /\ status = "static" /\ bitmap' = {}
      /\ UNCHANGED <<pml4, mem, tlb, data, pc, virt, phys, table>>
  BY DEF Boot, KiPmmInit, arguments
<1>3. pc = "idle" /\ pml4 = Zeroed /\ data = {} BY <1>1, <1>2 DEF Early
<1>4. /\ Level1' = Level1 /\ Level2' = Level2 /\ Level3' = Level3
      /\ AllTables' = AllTables
  BY <1>2 DEF Level1, Level2, Level3, AllTables
<1>5. AllTables = {}
  <2>1. Level1 = {} BY <1>3 DEF Level1, Zeroed
  <2>2. Level2 = {} BY <2>1 DEF Level2, Entries
  <2>3. Level3 = {} BY <2>2 DEF Level3, Entries
  <2> QED BY <2>1, <2>2, <2>3 DEF AllTables
<1>6. Accounted' BY <1>2, <1>3, <1>4, <1>5 DEF Accounted
<1>7. Structure' BY <1>1, <1>2, <1>4, <1>6 DEF Structure, EntryTypes, Tree
<1>8. WalksKept BY <1>2 DEF WalksKept, Walk, PtOf, EntryOf
<1>9. Coherent' BY <1>1, <1>2, <1>3, <1>8, CoherentKept
<1>10. Reached' /\ Early' BY <1>1, <1>2, <1>3 DEF Reached, Early
<1> QED BY <1>7, <1>8, <1>9, <1>10 DEF TablesInv

LEMMA CallMapPageStep ==
  ASSUME TablesInv, NEW v \in Pages, NEW p \in Targets, CallMapPage(v, p)
  PROVE  TablesInv' /\ WalksKept
<1>1. Structure /\ Reached /\ Coherent BY DEF TablesInv
<1>2. /\ pc = "idle" /\ status = "ready" /\ virt' = v /\ phys' = p /\ pc' = "pdpt"
      /\ UNCHANGED <<status, pml4, mem, tlb, bitmap, data>>
  BY DEF CallMapPage, allocator
<1>3. Structure' /\ WalksKept BY <1>1, <1>2, SameStructure
<1>4. Coherent' BY <1>1, <1>2, <1>3, CoherentKept
<1>5. Reached' /\ Early' BY <1>2 DEF Reached, Early
<1> QED BY <1>3, <1>4, <1>5 DEF TablesInv

LEMMA MapPageInvlpgStep ==
  ASSUME TablesInv, MapPageInvlpg
  PROVE  TablesInv' /\ WalksKept
<1>1. Structure /\ Reached /\ Coherent BY DEF TablesInv
<1>2. /\ pc = "invlpg" /\ pc' = "idle" /\ tlb' = [tlb EXCEPT ![virt] = Absent]
      /\ UNCHANGED <<status, pml4, mem, bitmap, data>>
  BY DEF MapPageInvlpg, allocator
<1>3. status = "ready" /\ virt \in Pages BY <1>1, <1>2 DEF Reached
<1>4. /\ tlb \in [Pages -> Memory \cup {Absent}]
      /\ tlb' \in [Pages -> Memory \cup {Absent}]
  BY <1>1, <1>2 DEF Structure, EntryTypes
<1>5. /\ Level1' = Level1 /\ Level2' = Level2 /\ Level3' = Level3
      /\ AllTables' = AllTables
  BY <1>2 DEF Level1, Level2, Level3, AllTables
<1>6. Structure' BY <1>1, <1>2, <1>4, <1>5 DEF Structure, EntryTypes, Tree, Accounted
<1>7. WalksKept BY <1>2 DEF WalksKept, Walk, PtOf, EntryOf
<1>8. Coherent' BY <1>1, <1>2, <1>3, <1>4, <1>7 DEF Coherent, WalksKept
<1>9. Reached' /\ Early' BY <1>2, <1>3 DEF Reached, Early
<1> QED BY <1>6, <1>7, <1>8, <1>9 DEF TablesInv

LEMMA CacheTranslationStep ==
  ASSUME TablesInv, NEW v \in Pages, CacheTranslation(v)
  PROVE  TablesInv' /\ WalksKept
<1>1. Structure /\ Reached /\ Coherent /\ Early BY DEF TablesInv
<1>2. /\ tlb' = [tlb EXCEPT ![v] = Walk(v)]
      /\ UNCHANGED <<status, pml4, mem, bitmap, data, pc, virt, phys, table>>
  BY DEF CacheTranslation, allocator, arguments
<1>3. Walk(v) \in Memory \cup {Absent}
  BY <1>1, OnLevels, Constants DEF Structure, Tree
<1>4. /\ tlb \in [Pages -> Memory \cup {Absent}]
      /\ tlb' \in [Pages -> Memory \cup {Absent}]
  BY <1>1, <1>2, <1>3 DEF Structure, EntryTypes
<1>5. /\ Level1' = Level1 /\ Level2' = Level2 /\ Level3' = Level3
      /\ AllTables' = AllTables
  BY <1>2 DEF Level1, Level2, Level3, AllTables
<1>6. Structure' BY <1>1, <1>2, <1>4, <1>5 DEF Structure, EntryTypes, Tree, Accounted
<1>7. WalksKept BY <1>2 DEF WalksKept, Walk, PtOf, EntryOf
<1>8. Coherent' BY <1>1, <1>2, <1>4, <1>7 DEF Coherent, WalksKept
<1>9. Reached' /\ Early' BY <1>1, <1>2 DEF Reached, Early, PtOf, EntryOf
<1> QED BY <1>6, <1>7, <1>8, <1>9 DEF TablesInv

(* The other user takes frames that are in no table: its junk shows in no  *)
(* translation.                                                            *)
LEMMA TakeDataStep ==
  ASSUME Always, TablesInv, TakeData
  PROVE  TablesInv' /\ WalksKept
<1>1. Structure /\ Reached /\ Coherent /\ Early /\ Tree BY DEF TablesInv, Structure
<1>2. /\ pc = "idle" /\ KiPmmAlloc /\ status' = status
      /\ UNCHANGED <<pml4, tlb, pc, virt, phys, table>>
  BY DEF TakeData, KiPmmAlloc, arguments
<1>3. status = "ready" BY <1>2 DEF KiPmmAlloc
<1>4. Reached' /\ Early' BY <1>2, <1>3 DEF Reached, Early
<1>5. EntryTypes /\ Accounted BY <1>1 DEF Structure
<1>6. SUFFICES Structure' /\ WalksKept
  BY <1>1, <1>2, <1>4, <1>6, CoherentKept DEF TablesInv
<1>7. CASE UNCHANGED <<bitmap, data, mem>>
  BY <1>1, <1>2, <1>7, SameStructure
<1>8. ASSUME NEW i \in FreeFrames, Mark({i}), ret' = FrameAddr(i)
      PROVE  Structure' /\ WalksKept
  <2>1. i \in Frames /\ i \notin bitmap /\ bitmap' = bitmap \cup {i}
    BY <1>8 DEF FreeFrames, Mark
  <2>2. i \in Memory /\ FrameAt(ret') = i BY <1>8, <2>1, AddrOfFrame
  <2>3. i \notin AllTables BY <1>5, <2>1 DEF Accounted
  <2>4. CASE ret' = NULL
    <3>1. i = 0 BY <1>8, <2>1, <2>4, NullIsFrame0 DEF Always, AllocInv
    <3>2. UNCHANGED <<data, mem>> BY <2>4 DEF TakeData
    <3>3. /\ Level1' = Level1 /\ Level2' = Level2 /\ Level3' = Level3
          /\ AllTables' = AllTables
      BY <1>2, <3>2 DEF Level1, Level2, Level3, AllTables
    <3>4. Accounted' BY <1>5, <2>1, <2>2, <2>3, <3>1, <3>2, <3>3 DEF Accounted
    <3>5. Structure' BY <1>1, <1>2, <3>2, <3>3, <3>4 DEF Structure, EntryTypes, Tree
    <3>6. WalksKept BY <1>2, <3>2 DEF WalksKept, Walk, PtOf, EntryOf
    <3> QED BY <3>5, <3>6
  <2>5. CASE ret' # NULL
    <3>1. data' = data \cup {i} /\ mem' = [mem EXCEPT ![i] = Junk]
      BY <2>2, <2>5 DEF TakeData
    <3>2. /\ mem' \in [Memory -> [TableIndices -> Memory \cup {Absent}]]
          /\ \A t \in Memory \ {i} : mem'[t] = mem[t]
      BY <1>5, <2>2, <3>1, Constants DEF EntryTypes
    <3>3. \A t \in AllTables : mem'[t] = mem[t]
      BY <1>5, <2>3, <3>2 DEF Accounted
    <3>4. Entries(mem', Level3) \subseteq Targets
      <4>1. \A t \in Level3 : mem'[t] = mem[t] BY <3>3 DEF AllTables
      <4>2. Entries(mem', Level3) = Entries(mem, Level3) BY <4>1, SameEntries
      <4> QED BY <1>1, <4>2 DEF Tree
    <3>5. \A t \in Level1 \cup Level2 : mem'[t] = mem[t] BY <3>3 DEF AllTables
    <3>6. pml4' = pml4 BY <1>2
    <3>7. Tree' /\ AllTables' = AllTables BY <1>1, <3>4, <3>5, <3>6, SameTables
    <3>8. i # 0
      <4>1. SUFFICES ASSUME i = 0 PROVE ret' = NULL BY <2>5
      <4>2. FrameAddr(0) = 0 BY PageSizeAssumption DEF FrameAddr, Always
      <4> QED BY <1>8, <4>1, <4>2 DEF NULL
    <3>9. Accounted' BY <1>5, <2>1, <2>2, <2>3, <3>1, <3>7, <3>8 DEF Accounted
    <3>10. EntryTypes' BY <1>2, <1>5, <3>2 DEF EntryTypes
    <3>11. WalksKept BY <3>3, <3>6, SameWalks DEF WalksKept
    <3> QED BY <3>7, <3>9, <3>10, <3>11 DEF Structure
  <2> QED BY <2>4, <2>5
<1>9. CASE ret' = NULL /\ UNCHANGED <<bitmap, free_pages>>
  BY <1>7, <1>9 DEF TakeData
<1> QED BY <1>2, <1>8, <1>9 DEF KiPmmAlloc

LEMMA GiveDataStep ==
  ASSUME Always, TablesInv, NEW f \in data, GiveData(f)
  PROVE  TablesInv' /\ WalksKept
<1>1. Structure /\ Reached /\ Coherent /\ Early /\ Accounted BY DEF TablesInv, Structure
<1>2. /\ pc = "idle" /\ KiPmmFree(FrameAddr(f)) /\ status' = status /\ data' = data \ {f}
      /\ UNCHANGED <<pml4, mem, tlb, pc, virt, phys, table>>
  BY DEF GiveData, KiPmmFree, arguments
<1>3. status = "ready" BY <1>2 DEF KiPmmFree
<1>4. f \in Frames BY <1>1 DEF Accounted, Always, AllocInv, TypeOK
<1>5. bitmap' = bitmap \ {f} BY <1>2, <1>4, AddrOfFrame DEF KiPmmFree, Unmark
<1>6. /\ Level1' = Level1 /\ Level2' = Level2 /\ Level3' = Level3
      /\ AllTables' = AllTables
  BY <1>2 DEF Level1, Level2, Level3, AllTables
<1>7. Accounted' BY <1>1, <1>2, <1>5, <1>6 DEF Accounted
<1>8. Structure' BY <1>1, <1>2, <1>6, <1>7 DEF Structure, EntryTypes, Tree
<1>9. WalksKept BY <1>2 DEF WalksKept, Walk, PtOf, EntryOf
<1>10. Coherent' BY <1>1, <1>2, <1>9, CoherentKept
<1>11. Reached' /\ Early' BY <1>2, <1>3 DEF Reached, Early
<1> QED BY <1>8, <1>9, <1>10, <1>11 DEF TablesInv

-----------------------------------------------------------------------------
(* Before KiPmmInit there are no tables.                                   *)
LEMMA TablesInit == PagingInit => TablesInv
<1> SUFFICES ASSUME PagingInit PROVE TablesInv OBVIOUS
<1>1. /\ pml4 = Zeroed /\ mem = [f \in Memory |-> Junk] /\ tlb = [v \in Pages |-> Absent]
      /\ data = {} /\ pc = "idle" /\ status = "static" /\ bitmap = {}
  BY DEF PagingInit, Init
<1>2. EntryTypes BY <1>1, Constants DEF EntryTypes
<1>3. Level1 = {} BY <1>1 DEF Level1, Zeroed
<1>4. Level2 = {} BY <1>3 DEF Level2, Entries
<1>5. Level3 = {} BY <1>4 DEF Level3, Entries
<1>6. \A j \in TableIndices : pml4[j] = Absent BY <1>1 DEF Zeroed
<1>7. Tree BY <1>3, <1>4, <1>5, <1>6 DEF Tree, Distinct, Entries
<1>8. Accounted BY <1>1, <1>3, <1>4, <1>5 DEF Accounted, AllTables
<1>9. Reached /\ Coherent /\ Early BY <1>1 DEF Reached, Coherent, Early
<1> QED BY <1>2, <1>7, <1>8, <1>9 DEF TablesInv, Structure

(* A step maps to the map of AddressSpace: it keeps every translation or   *)
(* changes that of one page.                                               *)
OnePage ==
  \E v \in Pages, x \in Targets \cup {Absent} :
    \A w \in Pages : Walk(w)' = IF w = v THEN x ELSE Walk(w)

LEMMA TablesStep ==
  ASSUME PagingInv, [PagingNext]_pagingVars, ~exhausted'
  PROVE  /\ ~exhausted /\ exhausted' = exhausted
         /\ TablesInv' /\ (WalksKept \/ OnePage)
<1>1. Always BY DEF PagingInv
<1>2. ~exhausted /\ exhausted' = exhausted
  <2>1. exhausted \in BOOLEAN BY <1>1 DEF Always
  <2>2. exhausted' = exhausted
    BY <2>1 DEF PagingNext, Boot, CallMapPage, MapPagePdpt, MapPagePdt, MapPagePt, Descend,
       NewTable, MapPageEntry, MapPageInvlpg, UnmapPage, CacheTranslation, TakeData, GiveData,
       pagingVars
  <2> QED BY <2>2
<1>3. TablesInv BY <1>2 DEF PagingInv
<1> SUFFICES TablesInv' /\ (WalksKept \/ OnePage) BY <1>2
<1>4. ASSUME NEW a \in BootArgs, Boot(a) PROVE TablesInv' /\ WalksKept
  BY <1>3, <1>4, BootStep
<1>5. ASSUME NEW v \in Pages, NEW p \in Targets, CallMapPage(v, p)
      PROVE  TablesInv' /\ WalksKept
  BY <1>3, <1>5, CallMapPageStep
<1>6. CASE MapPagePdpt BY <1>1, <1>3, <1>6, MapPagePdptStep
<1>7. CASE MapPagePdt BY <1>1, <1>3, <1>7, MapPagePdtStep
<1>8. CASE MapPagePt BY <1>1, <1>3, <1>8, MapPagePtStep
<1>9. CASE MapPageEntry
  <2>1. /\ TablesInv'
        /\ virt \in Pages /\ phys \in Targets
        /\ \A v \in Pages : Walk(v)' = IF v = virt THEN phys ELSE Walk(v)
    BY <1>3, <1>9, MapPageEntryStep
  <2> QED BY <2>1 DEF OnePage
<1>10. CASE MapPageInvlpg BY <1>3, <1>10, MapPageInvlpgStep
<1>11. ASSUME NEW v \in Pages, UnmapPage(v) PROVE TablesInv' /\ OnePage
  <2>1. /\ TablesInv'
        /\ \A w \in Pages : Walk(w)' = IF w = v THEN Absent ELSE Walk(w)
    BY <1>3, <1>11, UnmapPageStep
  <2> QED BY <2>1 DEF OnePage
<1>12. ASSUME NEW v \in Pages, CacheTranslation(v) PROVE TablesInv' /\ WalksKept
  BY <1>3, <1>12, CacheTranslationStep
<1>13. CASE TakeData BY <1>1, <1>3, <1>13, TakeDataStep
<1>14. ASSUME NEW f \in data, GiveData(f) PROVE TablesInv' /\ WalksKept
  BY <1>1, <1>3, <1>14, GiveDataStep
<1>15. CASE UNCHANGED pagingVars
  <2>1. UNCHANGED <<status, bitmap, pml4, mem, tlb, data, pc, virt, phys, table>>
    BY <1>15 DEF pagingVars, allocator, arguments
  <2>2. Structure /\ Reached /\ Coherent /\ Early BY <1>3 DEF TablesInv
  <2>3. Structure' /\ WalksKept BY <2>1, <2>2, SameStructure
  <2>4. Coherent' BY <2>1, <2>2, <2>3 DEF Coherent, WalksKept
  <2>5. Reached' /\ Early' BY <2>1, <2>2 DEF Reached, Early, PtOf, EntryOf
  <2> QED BY <2>3, <2>4, <2>5 DEF TablesInv
<1> QED BY <1>2, <1>4, <1>5, <1>6, <1>7, <1>8, <1>9, <1>10, <1>11, <1>12, <1>13, <1>14, <1>15
        DEF PagingNext

(* The inductive invariant of the page tables over the allocator.          *)
THEOREM PagingInvariant == PagingSpec => []PagingInv
<1>1. PagingInit => PagingInv BY AlwaysInit, TablesInit DEF PagingInv
<1>2. PagingInv /\ [PagingNext]_pagingVars => PagingInv'
  <2> SUFFICES ASSUME PagingInv, [PagingNext]_pagingVars PROVE PagingInv' OBVIOUS
  <2>1. Always' BY AlwaysStep DEF PagingInv
  <2>2. ~exhausted' => TablesInv' BY TablesStep
  <2> QED BY <2>1, <2>2 DEF PagingInv
<1> QED BY <1>1, <1>2, PTL DEF PagingSpec

-----------------------------------------------------------------------------
(* Until memory runs out, the processor caches between calls only what the *)
(* tables say: every store that changes a translation is followed by its   *)
(* invlpg before MapPage or UnmapPage returns.                             *)
THEOREM CacheIsCoherent == PagingSpec => []TlbCoherent
<1>1. PagingInv => TlbCoherent BY DEF PagingInv, TablesInv, Coherent, TlbCoherent
<1> QED BY <1>1, PagingInvariant, PTL

(* The tables, as the levels.                                              *)
LEMMA TablesAreLevels ==
  /\ Level1 = {pml4[i] : i \in Pdpts}
  /\ Level2 = {mem[pml4[d[1]]][d[2]] : d \in Pdts}
  /\ Level3 = {mem[mem[pml4[t[1]]][t[2]]][t[3]] : t \in Pts}
  /\ Tables = AllTables
<1>1. Level1 = {pml4[i] : i \in Pdpts} BY DEF Level1, Pdpts
<1>2. Level2 = {mem[pml4[d[1]]][d[2]] : d \in Pdts}
  <2>1. ASSUME NEW e \in Level2 PROVE \E d \in Pdts : e = mem[pml4[d[1]]][d[2]]
    <3>1. PICK i \in Pdpts, j \in TableIndices : e = mem[pml4[i]][j]
      BY <1>1 DEF Level2, Entries
    <3>2. e # Absent BY DEF Level2, Entries
    <3>3. <<i, j>> \in Pdts BY <3>1, <3>2 DEF Pdts, Pdpts
    <3> QED BY <3>1, <3>3
  <2>2. ASSUME NEW d \in Pdts PROVE mem[pml4[d[1]]][d[2]] \in Level2
    <3>1. /\ d[1] \in Pdpts /\ d[2] \in TableIndices
          /\ mem[pml4[d[1]]][d[2]] # Absent
      BY DEF Pdts
    <3> QED BY <1>1, <3>1 DEF Level2, Entries
  <2> QED BY <2>1, <2>2
<1>3. Level3 = {mem[mem[pml4[t[1]]][t[2]]][t[3]] : t \in Pts}
  <2>1. ASSUME NEW e \in Level3 PROVE \E t \in Pts : e = mem[mem[pml4[t[1]]][t[2]]][t[3]]
    <3>1. PICK d \in Pdts, k \in TableIndices : e = mem[mem[pml4[d[1]]][d[2]]][k]
      BY <1>2 DEF Level3, Entries
    <3>2. e # Absent BY DEF Level3, Entries
    <3>3. d[1] \in TableIndices /\ d[2] \in TableIndices /\ d = <<d[1], d[2]>>
      BY DEF Pdts
    <3>4. <<d[1], d[2], k>> \in Pts BY <3>1, <3>2, <3>3 DEF Pts
    <3> QED BY <3>1, <3>4
  <2>2. ASSUME NEW t \in Pts PROVE mem[mem[pml4[t[1]]][t[2]]][t[3]] \in Level3
    <3>1. /\ <<t[1], t[2]>> \in Pdts /\ t[3] \in TableIndices
          /\ mem[mem[pml4[t[1]]][t[2]]][t[3]] # Absent
      BY DEF Pts
    <3>2. PICK d : d = <<t[1], t[2]>> OBVIOUS
    <3>3. d[1] = t[1] /\ d[2] = t[2] BY <3>2
    <3>4. mem[pml4[d[1]]][d[2]] \in Level2
      <4>1. \A e \in Pdts : mem[pml4[e[1]]][e[2]] \in Level2 BY <1>2
      <4> QED BY <3>1, <3>2, <4>1
    <3>5. PICK x, k : x = mem[pml4[t[1]]][t[2]] /\ k = t[3] OBVIOUS
    <3>6. x \in Level2 /\ k \in TableIndices /\ mem[x][k] # Absent
      BY <3>1, <3>3, <3>4, <3>5
    <3>7. mem[x][k] \in Level3 BY <3>6 DEF Level3, Entries
    <3> QED BY <3>5, <3>7
  <2> QED BY <2>1, <2>2
<1> QED BY <1>1, <1>2, <1>3 DEF Tables, AllTables

(* What an entry of the second level holds, by its two indices.            *)
LEMMA EntryOfPdts ==
  ASSUME NEW i, NEW j, <<i, j>> \in Pdts
  PROVE  mem[pml4[i]][j] \in Level2
<1>1. PICK d : d = <<i, j>> OBVIOUS
<1>2. d[1] = i /\ d[2] = j BY <1>1
<1>3. \A e \in Pdts : mem[pml4[e[1]]][e[2]] \in Level2 BY TablesAreLevels
<1>4. mem[pml4[d[1]]][d[2]] \in Level2 BY <1>1, <1>3
<1> QED BY <1>2, <1>4

(* Until memory runs out, every marked frame but frame 0 is a table or     *)
(* somebody's: MapPage and UnmapPage lose no memory.                       *)
THEOREM NoFrameLost == PagingSpec => []EveryFrameAccounted
<1>1. PagingInv => EveryFrameAccounted
  BY TablesAreLevels DEF PagingInv, TablesInv, Structure, Accounted, EveryFrameAccounted
<1> QED BY <1>1, PagingInvariant, PTL

-----------------------------------------------------------------------------
(* The entries and the tables they lead to are as many as each other.      *)
LEMMA CardinalityOfImage ==
  ASSUME NEW S, IsFiniteSet(S), NEW T, NEW g \in [S -> T],
         \A a, b \in S : g[a] = g[b] => a = b,
         \A e \in T : \E a \in S : g[a] = e
  PROVE  IsFiniteSet(T) /\ Cardinality(T) = Cardinality(S)
<1>1. g \in Bijection(S, T)
  BY DEF Bijection, Injection, Surjection, IsInjective
<1>2. ExistsBijection(S, T) BY <1>1 DEF ExistsBijection
<1> QED BY <1>2, FS_Bijection

LEMMA DisjointUnion ==
  ASSUME NEW S, NEW T, IsFiniteSet(S), IsFiniteSet(T), S \cap T = {}
  PROVE  /\ IsFiniteSet(S \cup T)
         /\ Cardinality(S \cup T) = Cardinality(S) + Cardinality(T)
<1>1. /\ IsFiniteSet(S \cup T)
      /\ Cardinality(S \cup T) = Cardinality(S) + Cardinality(T) - Cardinality(S \cap T)
  BY FS_Union
<1>2. Cardinality(S \cap T) = 0 BY FS_EmptySet
<1>3. Cardinality(S) \in Nat /\ Cardinality(T) \in Nat BY FS_CardinalityType
<1> QED BY <1>1, <1>2, <1>3

LEMMA FiniteIndexes ==
  /\ IsFiniteSet(Pdpts) /\ IsFiniteSet(Pdts) /\ IsFiniteSet(Pts)
<1>1. IsFiniteSet(TableIndices)
  <2>1. TableIndices \subseteq 0 .. 511 BY PagesAssumption DEF TableIndices
  <2>2. PICK z, m : z = 0 /\ m = 511 OBVIOUS
  <2>3. z \in Int /\ m \in Int BY <2>2
  <2>4. IsFiniteSet(z .. m) BY <2>3, FS_Interval
  <2>5. TableIndices \subseteq z .. m BY <2>1, <2>2
  <2> QED BY <2>4, <2>5, FS_Subset
<1>2. IsFiniteSet(Pdpts)
  <2>1. Pdpts \subseteq TableIndices BY DEF Pdpts
  <2> QED BY <1>1, <2>1, FS_Subset
<1>3. IsFiniteSet(Pdts)
  <2>1. Pdts \subseteq TableIndices \X TableIndices BY DEF Pdts
  <2>2. IsFiniteSet(TableIndices \X TableIndices) BY <1>1, FS_Product
  <2> QED BY <2>1, <2>2, FS_Subset
<1>4. IsFiniteSet(Pts)
  <2> DEFINE g == [t \in Pts |-> <<<<t[1], t[2]>>, t[3]>>]
  <2>1. IsFiniteSet(Pdts \X TableIndices) BY <1>1, <1>3, FS_Product
  <2>2. /\ g \in [Pts -> Pdts \X TableIndices]
        /\ \A a, b \in Pts : g[a] = g[b] => a = b
    <3>1. ASSUME NEW t \in Pts
          PROVE  /\ <<t[1], t[2]>> \in Pdts /\ t[3] \in TableIndices
                 /\ t = <<t[1], t[2], t[3]>>
      BY DEF Pts
    <3>2. \A t \in Pts : g[t] = <<<<t[1], t[2]>>, t[3]>> OBVIOUS
    <3>3. g \in [Pts -> Pdts \X TableIndices] BY <3>1
    <3>4. ASSUME NEW a \in Pts, NEW b \in Pts, g[a] = g[b] PROVE a = b
      <4>1. <<<<a[1], a[2]>>, a[3]>> = <<<<b[1], b[2]>>, b[3]>> BY <3>2, <3>4
      <4>2. a[1] = b[1] /\ a[2] = b[2] /\ a[3] = b[3] BY <4>1
      <4> HIDE DEF g
      <4> QED BY <3>1, <4>2, Zenon
    <3> HIDE DEF g
    <3> QED BY <3>3, <3>4, Zenon
  <2> HIDE DEF g
  <2>3. g \in Injection(Pts, Pdts \X TableIndices)
    <3>1. PICK T : T = Pdts \X TableIndices BY Zenon
    <3>2. g \in [Pts -> T] /\ \A a, b \in Pts : g[a] = g[b] => a = b BY <2>2, <3>1
    <3>3. g \in Injection(Pts, T) BY <3>2 DEF Injection, IsInjective
    <3> QED BY <3>1, <3>3
  <2> QED BY <2>1, <2>3, FS_Injection
<1> QED BY <1>2, <1>3, <1>4

LEMMA TreeCounts ==
  ASSUME Structure
  PROVE  Cardinality(Tables) = Cardinality(Pdpts) + Cardinality(Pdts) + Cardinality(Pts)
<1>1. Tree BY DEF Structure
<1>2. IsFiniteSet(Level1) /\ Cardinality(Level1) = Cardinality(Pdpts)
  <2> DEFINE g == [i \in Pdpts |-> pml4[i]]
  <2>1. g \in [Pdpts -> Level1] BY TablesAreLevels
  <2>2. \A a, b \in Pdpts : g[a] = g[b] => a = b BY <1>1 DEF Tree, Pdpts
  <2>3. \A e \in Level1 : \E a \in Pdpts : g[a] = e BY TablesAreLevels
  <2> HIDE DEF g
  <2> QED BY <2>1, <2>2, <2>3, FiniteIndexes, CardinalityOfImage
<1>3. IsFiniteSet(Level2) /\ Cardinality(Level2) = Cardinality(Pdts)
  <2> DEFINE g == [d \in Pdts |-> mem[pml4[d[1]]][d[2]]]
  <2>1. g \in [Pdts -> Level2] BY TablesAreLevels
  <2>2. ASSUME NEW a \in Pdts, NEW b \in Pdts, g[a] = g[b] PROVE a = b
    <3>1. /\ a[1] \in Pdpts /\ a[2] \in TableIndices /\ a = <<a[1], a[2]>>
          /\ b[1] \in Pdpts /\ b[2] \in TableIndices /\ b = <<b[1], b[2]>>
          /\ mem[pml4[a[1]]][a[2]] # Absent
      BY DEF Pdts, Pdpts
    <3>2. pml4[a[1]] \in Level1 /\ pml4[b[1]] \in Level1 BY <3>1, TablesAreLevels
    <3>3. \A x, y \in Level1 : \A k, l \in TableIndices :
            mem[x][k] = mem[y][l] /\ mem[x][k] # Absent => x = y /\ k = l
      BY <1>1 DEF Tree, Distinct
    <3>4. mem[pml4[a[1]]][a[2]] = mem[pml4[b[1]]][b[2]] BY <2>2
    <3>5. pml4[a[1]] = pml4[b[1]] /\ a[2] = b[2] BY <3>1, <3>2, <3>3, <3>4
    <3>6. a[1] = b[1] BY <1>1, <3>1, <3>5 DEF Tree, Pdpts
    <3> QED BY <3>1, <3>5, <3>6
  <2>3. \A e \in Level2 : \E a \in Pdts : g[a] = e BY TablesAreLevels
  <2> HIDE DEF g
  <2> QED BY <2>1, <2>2, <2>3, FiniteIndexes, CardinalityOfImage
<1>4. IsFiniteSet(Level3) /\ Cardinality(Level3) = Cardinality(Pts)
  <2> DEFINE Table(t) == mem[pml4[t[1]]][t[2]]
             g == [t \in Pts |-> mem[Table(t)][t[3]]]
  <2>1. g \in [Pts -> Level3] BY TablesAreLevels, Zenon
  <2>2. ASSUME NEW a \in Pts, NEW b \in Pts, g[a] = g[b] PROVE a = b
    <3>1. /\ <<a[1], a[2]>> \in Pdts /\ a[3] \in TableIndices /\ a = <<a[1], a[2], a[3]>>
          /\ <<b[1], b[2]>> \in Pdts /\ b[3] \in TableIndices /\ b = <<b[1], b[2], b[3]>>
          /\ mem[Table(a)][a[3]] # Absent
      <4>1. /\ <<a[1], a[2]>> \in Pdts /\ a[3] \in TableIndices
            /\ a = <<a[1], a[2], a[3]>>
        BY DEF Pts
      <4>2. /\ <<b[1], b[2]>> \in Pdts /\ b[3] \in TableIndices
            /\ b = <<b[1], b[2], b[3]>>
        BY DEF Pts
      <4>3. mem[Table(a)][a[3]] # Absent BY DEF Pts
      <4> QED BY <4>1, <4>2, <4>3
    <3>2. /\ a[1] \in Pdpts /\ a[2] \in TableIndices
          /\ b[1] \in Pdpts /\ b[2] \in TableIndices
          /\ Table(a) # Absent
      BY <3>1 DEF Pdts, Pdpts
    <3>3. Table(a) \in Level2 /\ Table(b) \in Level2 BY <3>1, EntryOfPdts
    <3>4. \A x, y \in Level2 : \A k, l \in TableIndices :
            mem[x][k] = mem[y][l] /\ mem[x][k] # Absent => x = y /\ k = l
      BY <1>1 DEF Tree, Distinct
    <3>5. mem[Table(a)][a[3]] = mem[Table(b)][b[3]] BY <2>2
    <3>6. Table(a) = Table(b) /\ a[3] = b[3]
      <4> HIDE DEF Table
      <4> QED BY <3>1, <3>3, <3>4, <3>5
    <3>7. pml4[a[1]] \in Level1 /\ pml4[b[1]] \in Level1 BY <3>2, TablesAreLevels
    <3>8. \A x, y \in Level1 : \A k, l \in TableIndices :
            mem[x][k] = mem[y][l] /\ mem[x][k] # Absent => x = y /\ k = l
      BY <1>1 DEF Tree, Distinct
    <3>9. pml4[a[1]] = pml4[b[1]] /\ a[2] = b[2] BY <3>2, <3>6, <3>7, <3>8
    <3>10. a[1] = b[1] BY <1>1, <3>2, <3>9 DEF Tree, Pdpts
    <3>11. a = <<a[1], a[2], a[3]>> /\ b = <<b[1], b[2], b[3]>> BY <3>1
    <3> QED BY <3>6, <3>9, <3>10, <3>11, Zenon
  <2>3. \A e \in Level3 : \E a \in Pts : g[a] = e BY TablesAreLevels
  <2> HIDE DEF g
  <2>4. \A a, b \in Pts : g[a] = g[b] => a = b BY <2>2
  <2>5. IsFiniteSet(Pts) BY FiniteIndexes
  <2> QED BY <2>1, <2>3, <2>4, <2>5, CardinalityOfImage, Zenon
<1>5. /\ Level1 \cap Level2 = {} /\ (Level1 \cup Level2) \cap Level3 = {}
  BY <1>1 DEF Tree
<1>6. /\ IsFiniteSet(Level1 \cup Level2)
      /\ Cardinality(Level1 \cup Level2) = Cardinality(Level1) + Cardinality(Level2)
  BY <1>2, <1>3, <1>5, DisjointUnion
<1>7. Cardinality((Level1 \cup Level2) \cup Level3)
        = Cardinality(Level1 \cup Level2) + Cardinality(Level3)
  BY <1>4, <1>5, <1>6, DisjointUnion
<1> QED BY <1>2, <1>3, <1>4, <1>6, <1>7, TablesAreLevels, Zenon DEF AllTables

(* Until memory runs out, the tables form a tree of frames that are marked *)
(* and nobody else's: no entry leads where another does.                   *)
THEOREM TablesAreATree == PagingSpec => []TablesFormTree
<1>1. PagingInv => TablesFormTree
  BY TreeCounts, TablesAreLevels
     DEF PagingInv, TablesInv, Structure, Accounted, TablesFormTree
<1> QED BY <1>1, PagingInvariant, PTL

-----------------------------------------------------------------------------
(* Until memory runs out, the page tables are a map from pages to pages.   *)
LEMMA SpaceStep ==
  ASSUME PagingInv, [PagingNext]_pagingVars
  PROVE  [Space!SpaceNext]_<<[v \in Pages |-> Walk(v)], exhausted>>
<1> DEFINE space == [v \in Pages |-> Walk(v)]
<1>1. CASE exhausted' BY <1>1 DEF Space!SpaceNext
<1>2. CASE ~exhausted'
  <2>1. ~exhausted /\ exhausted' = exhausted /\ (WalksKept \/ OnePage)
    BY <1>2, TablesStep
  <2>2. CASE WalksKept
    <3>1. space' = space BY <2>2 DEF WalksKept
    <3> QED BY <2>1, <3>1
  <2>3. CASE OnePage
    <3>1. PICK v \in Pages, x \in Targets \cup {Absent} :
            \A w \in Pages : Walk(w)' = IF w = v THEN x ELSE Walk(w)
      BY <2>3 DEF OnePage
    <3>2. space' = [space EXCEPT ![v] = x] BY <3>1
    <3> QED BY <1>2, <2>1, <3>2 DEF Space!SpaceNext, Space!Map, Space!Unmap
  <2> QED BY <2>1, <2>2, <2>3
<1> QED BY <1>1, <1>2

(* MapPage and UnmapPage implement the map of AddressSpace, over frames    *)
(* recycled from other users and for every way pages share tables.         *)
THEOREM TablesImplementMap == PagingSpec => IsAddressSpace
<1>1. PagingInit => Space!SpaceInit
  <2> SUFFICES ASSUME PagingInit
               PROVE  [v \in Pages |-> Walk(v)] = [v \in Pages |-> Absent] /\ exhausted = FALSE
    BY DEF Space!SpaceInit
  <2>1. \A v \in Pages : Pdpt(v) = Absent
    BY OnLevels DEF PagingInit, Zeroed, Pdpt
  <2>2. \A v \in Pages : Walk(v) = Absent BY <2>1, WalkSteps
  <2> QED BY <2>2 DEF PagingInit
<1> QED BY <1>1, SpaceStep, PagingInvariant, PTL
        DEF PagingSpec, IsAddressSpace, Space!SpaceSpec
=============================================================================
