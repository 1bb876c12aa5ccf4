-------------------------------- MODULE Mmu --------------------------------
(***************************************************************************)
(* Sv39 address translation: the page-table walk, the direct-mapped        *)
(* translation cache each Runner keeps in front of it, and the table of    *)
(* remembered page-table pages by which a guest store flushes that cache.  *)
(*                                                                         *)
(* Physical pages go by page number.  Memory is the page-table pages only; *)
(* a page that is not in Tables is outside RAM or holds no valid PTE, and  *)
(* a walk that reaches it faults either way.  A PTE is the set of its flag *)
(* bits and its PPN.  A virtual page is the function of its VPN fields, a  *)
(* translated page the PPN of the leaf with the VPN fields that a          *)
(* superpage passes through.                                               *)
(*                                                                         *)
(* Abstracted: page offsets, PTE bits the walk ignores (G, RSW), hit and   *)
(* miss counters; the canonical-address check, which refuses an address    *)
(* before any of this state is read.                                       *)
(***************************************************************************)
EXTENDS Naturals, Sequences

CONSTANTS
  Harts,
  Tables,       \* page numbers of RAM pages that hold page tables
  Ppns,         \* page numbers a PTE or satp can name
  Roots,        \* those the guest writes to satp
  Aligned,      \* Aligned[i]: page numbers legal for a superpage leaf at level i
  Levels,       \* SV39_LEVELS
  Idx,          \* values of a VPN field
  VPages,       \* virtual pages the guest uses
  SetOf, Sets,  \* translate_cache_index, translate_cache_sets
  SlotOf, Slots,\* known_page_table_index, known_page_table_sets
  Writes,       \* <<table, index, PTE>> a store may put in memory
  Contexts,     \* [priv, sum, mxr] data and fetches are translated under
  NullPpn,      \* page number 0
  NoTable, NoEntry,
  Fault         \* translate_fault_sentinel

ASSUME ShapeAssumption ==
  /\ Levels \in Nat \ {0}
  /\ Tables \subseteq Ppns /\ Roots \subseteq Ppns /\ NullPpn \in Ppns \ Tables /\ NoTable \notin Ppns
  /\ VPages \subseteq [0..(Levels - 1) -> Idx]
  /\ SetOf \in [VPages -> Sets] /\ SlotOf \in [Tables -> Slots]
  /\ Aligned \in [1..(Levels - 1) -> SUBSET Ppns]

Flags == {"V", "R", "W", "X", "U", "A", "D", "RES"}   \* RES: any of bits 63:54
Ptes == [flags : SUBSET Flags, ppn : Ppns]
Invalid == [flags |-> {}, ppn |-> NullPpn]
Accesses == {"Fetch", "Load", "Store"}

ASSUME ArgsAssumption ==
  /\ Writes \subseteq Tables \X Idx \X Ptes
  /\ Contexts \subseteq [priv : {"U", "S"}, sum : BOOLEAN, mxr : BOOLEAN]

VARIABLES
  mem,     \* mem[t][i]: PTE i of table page t
  root,    \* root[h]: satp.PPN of hart h, in Sv39 mode
  ctx,     \* ctx[h]: effective privilege and mstatus.SUM, MXR of hart h
  tlb,     \* tlb[h][s]: set s of the translation cache of hart h
  known,   \* known[h][s]: the page-table page hart h remembers in slot s
  stale    \* history: another writer changed a table since h's last flush

vars == <<mem, root, ctx, tlb, known, stale>>

Keys == [v : VPages, acc : Accesses, root : Ppns, priv : {"U", "S"},
         sum : BOOLEAN, mxr : BOOLEAN]
KeyOf(h, v, acc) ==
  [v |-> v, acc |-> acc, root |-> root[h], priv |-> ctx[h].priv,
   sum |-> ctx[h].sum, mxr |-> ctx[h].mxr]

-----------------------------------------------------------------------------
\* The walk

IsLeaf(e) == e.flags \cap {"R", "X"} # {}

\* Valid, no reserved bit set, not W without R, no D, A or U in a pointer.
WellFormed(e) ==
  /\ "V" \in e.flags /\ "RES" \notin e.flags
  /\ "W" \in e.flags => "R" \in e.flags
  /\ IsLeaf(e) \/ e.flags \cap {"D", "A", "U"} = {}

\* The table pages a walk of v reads, root first, as record_page_table_walk
\* and sv39_translate both read them.
Path(m, v, start) ==
  LET from[i \in 0..(Levels - 1)] ==
        [a \in Ppns |->
           IF a \notin Tables THEN << >>
           ELSE LET e == m[a][v[i]]
                IN IF WellFormed(e) /\ ~IsLeaf(e) /\ i > 0
                   THEN <<a>> \o from[i - 1][e.ppn] ELSE <<a>>]
  IN from[Levels - 1][start]

\* The PTE at which the walk stops after n tables, and its level.
LevelAfter(n) == Levels - n
LastPte(m, v, path) == m[path[Len(path)]][v[LevelAfter(Len(path))]]

\* The walk ended at a leaf: not in a pointer out of RAM or at level 0, nor in
\* a malformed PTE.
ReachesLeaf(m, v, path) ==
  path # << >> /\ LET e == LastPte(m, v, path) IN WellFormed(e) /\ IsLeaf(e)

Permits(e, k) ==
  /\ CASE k.acc = "Fetch" -> "X" \in e.flags
       [] k.acc = "Load"  -> "R" \in e.flags \/ (k.mxr /\ "X" \in e.flags)
       [] k.acc = "Store" -> "W" \in e.flags
  /\ IF k.priv = "U" THEN "U" \in e.flags
     ELSE "U" \in e.flags => k.acc # "Fetch" /\ k.sum

\* sv39_translate without its side effect: the translated page, or Fault.
Translate(m, k) ==
  LET path == Path(m, k.v, k.root)
      i == LevelAfter(Len(path))
      e == LastPte(m, k.v, path)
  IN IF /\ ReachesLeaf(m, k.v, path) /\ Permits(e, k)
        /\ i > 0 => e.ppn \in Aligned[i]
     THEN [ppn |-> e.ppn, sub |-> [l \in 0..(i - 1) |-> k.v[l]]]
     ELSE Fault

MarksOf(acc) == IF acc = "Store" THEN {"A", "D"} ELSE {"A"}

\* The hardware-managed A and D update of the leaf.
Marked(m, k) ==
  LET path == Path(m, k.v, k.root)
      n == Len(path)
  IN [m EXCEPT ![path[n]][k.v[LevelAfter(n)]].flags = @ \cup MarksOf(k.acc)]

-----------------------------------------------------------------------------
\* The translation cache

\* Mutant: the tag leaves MXR out.
Hit_AnyMxr(h, k) ==
  LET e == tlb[h][SetOf[k.v]]
  IN e # NoEntry /\ e.key = [k EXCEPT !.mxr = e.key.mxr]

\* Mutant: it leaves the kind of access out.
Hit_AnyAccess(h, k) ==
  LET e == tlb[h][SetOf[k.v]]
  IN e # NoEntry /\ e.key = [k EXCEPT !.acc = e.key.acc]

Hit(h, k) ==
  LET e == tlb[h][SetOf[k.v]]
  IN e # NoEntry /\ e.key = k

\* What an access of hart h to key k gets from translate_cached.
Answer(h, k) == IF Hit(h, k) THEN tlb[h][SetOf[k.v]].pa ELSE Translate(mem, k)

Flushed(t, h) == [t EXCEPT ![h] = [s \in Sets |-> NoEntry]]

\* Mutant: only the leaf's table is remembered.
Remembered_LeafOnly(k, path) ==
  IF path = << >> THEN k ELSE [k EXCEPT ![SlotOf[path[Len(path)]]] = path[Len(path)]]

\* remember_page_table_page for each page of the walk, in order: a later page
\* takes the slot of an earlier one with the same index.
Remembered(k, path) ==
  [s \in Slots |->
     LET hits == {n \in DOMAIN path : SlotOf[path[n]] = s}
     IN IF hits = {} THEN k[s]
        ELSE path[CHOOSE n \in hits : \A j \in hits : j <= n]]

\* Mutant: a fault is cached like a translation.
Access_CachesFaults(h, v, acc) ==
  LET k == KeyOf(h, v, acc)
      pa == Translate(mem, k)
  IN /\ ~Hit(h, k)
     /\ known' = [known EXCEPT ![h] = Remembered(@, Path(mem, v, root[h]))]
     /\ mem' = IF pa = Fault THEN mem ELSE Marked(mem, k)
     /\ tlb' = [tlb EXCEPT ![h][SetOf[v]] = [key |-> k, pa |-> pa]]
     /\ UNCHANGED <<root, ctx, stale>>

Access(h, v, acc) ==
  LET k == KeyOf(h, v, acc)
      pa == Translate(mem, k)
  IN /\ ~Hit(h, k)     \* a hit changes counters only
     /\ known' = [known EXCEPT ![h] = Remembered(@, Path(mem, v, root[h]))]
     /\ IF pa = Fault THEN UNCHANGED <<mem, tlb>>
        ELSE /\ mem' = Marked(mem, k)
             /\ tlb' = [tlb EXCEPT ![h][SetOf[v]] = [key |-> k, pa |-> pa]]
     /\ UNCHANGED <<root, ctx, stale>>

Written(w) == [mem EXCEPT ![w[1]][w[2]] = w[3]]

\* phy_store_u*: a guest store by hart h into RAM.
Store(h, w) ==
  /\ mem' = Written(w)
  /\ tlb' = IF known[h][SlotOf[w[1]]] = w[1] THEN Flushed(tlb, h) ELSE tlb
  /\ stale' = [o \in Harts |-> stale[o] \/ o # h]
  /\ UNCHANGED <<root, ctx, known>>

\* virtio DMA writes RAM behind every translation cache, and so does load_dtb,
\* which, unlike the other writes of the host, flushes nothing.
DeviceStore(w) ==
  /\ mem' = Written(w)
  /\ stale' = [o \in Harts |-> TRUE]
  /\ UNCHANGED <<root, ctx, tlb, known>>

\* write_memory_bytes, load_program: the host writes through one Runner.
HostStore(h, w) ==
  /\ mem' = Written(w)
  /\ tlb' = Flushed(tlb, h)
  /\ stale' = [o \in Harts |-> o # h]
  /\ UNCHANGED <<root, ctx, known>>

SfenceVma(h) ==
  /\ tlb' = Flushed(tlb, h)
  /\ stale' = [stale EXCEPT ![h] = FALSE]
  /\ UNCHANGED <<mem, root, ctx, known>>

WriteSatp(h, p) ==
  /\ root' = [root EXCEPT ![h] = p]
  /\ tlb' = Flushed(tlb, h)
  /\ stale' = [stale EXCEPT ![h] = FALSE]
  /\ UNCHANGED <<mem, ctx, known>>

\* A trap, a return or an mstatus write changes what accesses are checked as.
SetContext(h, c) ==
  /\ ctx' = [ctx EXCEPT ![h] = c]
  /\ UNCHANGED <<mem, root, tlb, known, stale>>

Next ==
  \/ \E w \in Writes : DeviceStore(w)
  \/ \E h \in Harts :
       \/ \E v \in VPages, acc \in Accesses : Access(h, v, acc)
       \/ \E w \in Writes : Store(h, w) \/ HostStore(h, w)
       \/ SfenceVma(h)
       \/ \E p \in Roots : WriteSatp(h, p)
       \/ \E c \in Contexts : SetContext(h, c)

Init ==
  /\ mem = [t \in Tables |-> [i \in Idx |-> Invalid]]
  /\ root \in [Harts -> Tables]
  /\ ctx \in [Harts -> Contexts]
  /\ tlb = [h \in Harts |-> [s \in Sets |-> NoEntry]]
  /\ known = [h \in Harts |-> [s \in Slots |-> NoTable]]
  /\ stale = [h \in Harts |-> FALSE]

Spec == Init /\ [][Next]_vars

-----------------------------------------------------------------------------
\* Properties

Pages == [ppn : Ppns, sub : UNION {[0..(i - 1) -> Idx] : i \in 0..(Levels - 1)}]

\* mem keeps no malformed record, a cached translation is a page and sits in
\* the set its virtual page indexes.
TypeOK ==
  /\ mem \in [Tables -> [Idx -> Ptes]]
  /\ root \in [Harts -> Ppns]
  /\ ctx \in [Harts -> Contexts]
  /\ DOMAIN tlb = Harts
  /\ \A h \in Harts, s \in Sets : LET e == tlb[h][s] IN
       e # NoEntry => e.key \in Keys /\ e.pa \in Pages /\ SetOf[e.key.v] = s
  /\ \A h \in Harts, s \in Slots :
       known[h][s] # NoTable => known[h][s] \in Tables /\ SlotOf[known[h][s]] = s
  /\ stale \in [Harts -> BOOLEAN]

Entries(h) == {tlb[h][s] : s \in Sets} \ {NoEntry}

\* A hart's own page-table stores are visible to its next access without a
\* fence, as are other writers' after its next SFENCE.VMA or satp write: every
\* cached translation is what a walk would find now.
CachedMatchesWalk ==
  \A h \in Harts : ~stale[h] => \A e \in Entries(h) : Translate(mem, e.key) = e.pa

\* The cache never hides an A or D update: whatever access it answers, the
\* leaf is already marked for that kind of access, also after software cleared
\* the bits to sample them.
HitsAreMarked ==
  \A h \in Harts : ~stale[h] =>
    \A v \in VPages, acc \in Accesses :
      Hit(h, KeyOf(h, v, acc)) =>
        LET flags == LastPte(mem, v, Path(mem, v, root[h])).flags
        IN "A" \in flags /\ (acc = "Store" => "D" \in flags)

\* No access gets more, less or other than the page tables, the privilege and
\* SUM and MXR of this moment give, whatever context filled the cache.
AnswersAreCurrent ==
  \A h \in Harts : ~stale[h] =>
    \A v \in VPages, acc \in Accesses :
      LET k == KeyOf(h, v, acc) IN Answer(h, k) = Translate(mem, k)

=============================================================================
