------------------------------ MODULE PageInit ------------------------------
(***************************************************************************)
(* kernel/x8664-page.c: arch_init_mem_region builds the bit tree of free   *)
(* pages from the memory map of the BIOS.  It places the tree behind the   *)
(* pages the kernel was started in, sets the bit of every page of usable   *)
(* memory, and then clears those of the first pages: the kernel's own and  *)
(* the tree's.  One entry of the map or one page is handled per step.      *)
(*                                                                         *)
(* Addresses are counted in units smaller than a page, so that a map can   *)
(* have entries that are not aligned.                                      *)
(***************************************************************************)
EXTENDS BittreeOps, Sequences

CONSTANTS
  PageUnits,        \* units in a page
  WordUnits,        \* units in a word of the tree
  StartPages,       \* num_startup_2MB_page * 512
  Maps              \* the memory maps the BIOS can report

\* An entry of type 1 is usable memory.
ASSUME PageAssumption ==
  /\ PageUnits \in Nat \ {0}
  /\ WordUnits \in 1..PageUnits
  /\ StartPages \in Nat
  /\ Maps \subseteq Seq([type : {1, 2}, addr : Nat, len : Nat])

VARIABLES
  pc,
  map,              \* e820_table
  i, j,             \* the entry and the page being handled
  max,              \* max, in pages
  tree_bits         \* the words of the tree

memVars == <<pc, map, i, j, max, tree_bits>>

\* Mutant: the type of an entry is not looked at.
UsableAny(e) == TRUE

Usable(e) == e.type = 1
End(e) == e.addr + e.len
AllocStart == StartPages * PageUnits
Largest(S) == IF S = {} THEN 0 ELSE Max(S)

Entries == {map[k] : k \in DOMAIN map}
free_bits == Layout(max)
TreePages == CeilDiv(Size(max) * WordUnits, PageUnits)
Free == BitsOf(free_bits, tree_bits, max)

MemTypeOK ==
  /\ pc \in {"scan", "entry", "pages", "reserve", "done", "fatal"}
  /\ map \in Maps
  /\ i \in 1..(Len(map) + 1)
  /\ j \in Nat
  /\ max \in Nat
  /\ pc \in {"entry", "pages", "reserve", "done"} =>
       tree_bits \in [0..(Size(max) - 1) -> SUBSET (0..(WordBits - 1))]

MemInit ==
  /\ pc = "scan"
  /\ map \in Maps
  /\ i = 1
  /\ j = 0
  /\ max = 0
  /\ tree_bits = <<>>

\* The first loop over the map, up to the memset of the tree: the end of
\* memory, and whether the tree can be placed at AllocStart.
Scan ==
  /\ pc = "scan"
  /\ IF \E e \in Entries : Usable(e) /\ AllocStart \in e.addr..(End(e) - 1)
     THEN /\ max' = Largest({End(e) : e \in {f \in Entries : Usable(f)}})
                      \div PageUnits
          /\ tree_bits' = Zeros(max')
          /\ pc' = "entry"
     ELSE pc' = "fatal" /\ UNCHANGED <<max, tree_bits>>
  /\ UNCHANGED <<map, i, j>>

\* The second loop: the entries that are not usable are skipped, the ones
\* that are not aligned to a page are fatal.
Aligned(e) == e.addr % PageUnits = 0 /\ End(e) % PageUnits = 0

Entry ==
  /\ pc = "entry"
  /\ i <= Len(map)
  /\ IF Usable(map[i])
     THEN /\ j' = map[i].addr \div PageUnits
          /\ pc' = IF Aligned(map[i]) THEN "pages" ELSE "fatal"
          /\ UNCHANGED i
     ELSE i' = i + 1 /\ UNCHANGED <<pc, j>>
  /\ UNCHANGED <<map, max, tree_bits>>

SetPage ==
  /\ pc = "pages"
  /\ IF j < End(map[i]) \div PageUnits
     THEN /\ tree_bits' = SetBit(free_bits, tree_bits, j)
          /\ j' = j + 1
          /\ UNCHANGED <<pc, i>>
     ELSE i' = i + 1 /\ pc' = "entry" /\ UNCHANGED <<j, tree_bits>>
  /\ UNCHANGED <<map, max>>

EndOfMap ==
  /\ pc = "entry"
  /\ i > Len(map)
  /\ j' = 0
  /\ pc' = "reserve"
  /\ UNCHANGED <<map, i, max, tree_bits>>

Reserved == StartPages + TreePages

\* The third loop.  The code does not check that memory goes on behind the
\* tree: a page from max on has no word in it, and the model says nothing of
\* what is then found and cleared.
Reserve ==
  /\ pc = "reserve"
  /\ IF j < Reserved
     THEN /\ tree_bits' = IF TestBit(free_bits, tree_bits, j)
                          THEN ClearBit(free_bits, tree_bits, j)
                          ELSE tree_bits
          /\ j' = j + 1
          /\ UNCHANGED pc
     ELSE pc' = "done" /\ UNCHANGED <<j, tree_bits>>
  /\ UNCHANGED <<map, i, max>>

MemNext == Scan \/ Entry \/ SetPage \/ EndOfMap \/ Reserve

MemSpec == MemInit /\ [][MemNext]_memVars

-----------------------------------------------------------------------------
(* Properties.                                                             *)

UsablePages ==
  {k \in 0..(max - 1) :
     \E e \in Entries :
       /\ e.type = 1
       /\ e.addr <= k * PageUnits
       /\ (k + 1) * PageUnits <= e.addr + e.len}

\* If memory goes on behind the tree, every free page is a page of usable
\* memory, and every usable page behind the reserved ones is free.
FreeIsUsable ==
  pc = "done" /\ Reserved <= max =>
    /\ Free \subseteq UsablePages
    /\ UsablePages \ (0..(Reserved - 1)) \subseteq Free

\* "reserve first page + tree bits" (x8664-page.c:107).
ReservedIsNotFree == pc = "done" => Free \cap 0..(Reserved - 1) = {}

=============================================================================
