------------------------------- MODULE BmHeap -------------------------------
(***************************************************************************)
(* The heap of a real-time core: src/real_time/baremetal/memory            *)
(* (bm_fscmem.c, bm_mem.c).  Segregated free lists over one region: list i *)
(* holds the free blocks whose size has its highest bit at i, a bitmap     *)
(* says which lists may be non-empty, and blocks carry boundary tags.      *)
(* bm_memory_alloc and bm_memory_free run with interrupts closed on the    *)
(* core that owns the region, so each is one step.                         *)
(***************************************************************************)
EXTENDS Integers, Sequences, SequencesExt, FiniteSets

CONSTANTS RegionSize,  \* bytes of g_memory_region (MEM_FSC_PT_SIZE)
          WordBits,    \* width of unsigned int, which alloc_size wraps at
          Sizes,       \* sizes callers ask for
          Aligns       \* alignments callers ask for

HeadSize  == 32              \* sizeof(struct tag_memory_ctrl_fsc)
TailSize  == 4               \* FSC_MEM_TAIL_SIZE
SizeAlign == 8               \* FSC_MEM_SIZE_ALIGN
MinSize   == HeadSize + SizeAlign
LastIdx   == WordBits - 1    \* FSC_MEM_LAST_IDX
MaxVal    == 2^LastIdx - SizeAlign
Idx       == 0..(LastIdx - 1)

ASSUME SizeAssumption ==
    /\ RegionSize \in MinSize..MaxVal /\ RegionSize % 4 = 0
    /\ WordBits \in Nat /\ WordBits > 6
    /\ Sizes \subseteq 0..(2^WordBits - 1)
    /\ Aligns \subseteq {2^p : p \in 2..14}
    /\ \A align \in Aligns : align + MinSize <= 2^WordBits  \* 2^14 and 2^32 in the code

(* The end mark: a header of size 0 that counts as used. *)
Top == RegionSize - HeadSize

VARIABLES hdr,      \* hdr[a]: the block header at address a, where one is
          lists,    \* lists[i]: the free list of class i, head first
          bitmap,   \* classes whose bit is set in g_memory_bit_amp
          smashed,  \* blocks whose tail magic has been overwritten
          live,     \* allocations in use: what the caller was given
          freed,    \* history: blocks freed whose memory was not given out again
          lost      \* history: allocations bm_memory_free refused

vars == <<hdr, lists, bitmap, smashed, live, freed, lost>>

AlignUp(n, a) == ((n + a - 1) \div a) * a

(* FSC_MEM_SZ2IDX: the position of the highest bit. *)
SizeIdx(n) == CHOOSE i \in 0..LastIdx : 2^i <= n /\ n < 2^(i + 1)

(* The size asked for, rounded and with head, tail and alignment room; an   *)
(* unsigned int.                                                            *)
AllocSize(size, align) ==
    (AlignUp(size, SizeAlign) + (align - SizeAlign) + HeadSize + TailSize) % 2^WordBits

(* Mutant: the check for a wrapped alloc_size is missing. *)
AcceptableWrapped(size, n) == size # 0 /\ n < MaxVal - HeadSize - TailSize

(* Sizes bm_memory_alloc_inner_fs turns away before it searches. *)
Acceptable(size, n) == /\ size # 0
                       /\ n >= size
                       /\ n < MaxVal - HeadSize - TailSize

(* Mutant: the block cut off does not record the free block before it. *)
HeaderNoPrev(size, prev, used) == [size |-> size, prev_size |-> 0, used |-> used]

(* A block header: next is FSC_MEM_MAGIC_USED or a list link. *)
Header(size, prev, used) == [size |-> size, prev_size |-> prev, used |-> used]

(* Mutant: the header of a merged block is not cleared. *)
WithoutKept(f, S) == f

(* memset_s of the headers at S. *)
Without(f, S) == [a \in DOMAIN f \ S |-> f[a]]
With(f, a, h) == [b \in DOMAIN f \cup {a} |-> IF b = a THEN h ELSE f[b]]

-----------------------------------------------------------------------------
(* bm_memory_init_fsc *)
Init == /\ hdr = With([a \in {0} |-> Header(Top, 0, FALSE)], Top, Header(0, 0, TRUE))
        /\ lists = [i \in Idx |-> IF i = SizeIdx(Top) THEN <<0>> ELSE <<>>]
        /\ bitmap = {SizeIdx(Top)}
        /\ smashed = {} /\ live = {} /\ freed = {} /\ lost = {}

(* Mutant: a block is not unlinked. *)
DeleteNot(ls, b) == ls

(* bm_memory_delete_fsc: unlink b from whatever list it is in. *)
Delete(ls, b) == [i \in Idx |-> RemoveFirst(ls[i], b)]

(* Mutant: the new head is not linked to the rest of its list. *)
InsertAlone(ls, b, size) == [ls EXCEPT ![SizeIdx(size)] = <<b>>]

(* bm_memory_insert_fsc: b becomes the head of the list of its size. *)
Insert(ls, b, size) == [ls EXCEPT ![SizeIdx(size)] = <<b>> \o @]

(* Mutant: the search starts one class too high. *)
HitsHigh(n) == {i \in bitmap : i > SizeIdx(n) + 1 /\ lists[i] # <<>>}

(* bm_memory_search_fsc: the classes above the size's own whose bit is set  *)
(* and whose list is not empty; the first of them wins, and the own class   *)
(* is searched only if there is none.                                       *)
Hits(n) == {i \in bitmap : i > SizeIdx(n) /\ lists[i] # <<>>}

FoundIdx(n) == IF Hits(n) = {} THEN SizeIdx(n) ELSE Min(Hits(n))

(* search_useable_fsc: the places in the list whose block may be returned.  *)
(* A class above the own is not looked into: its first block is taken.      *)
Fits(n) == {k \in DOMAIN lists[FoundIdx(n)] :
              Hits(n) = {} => hdr[lists[FoundIdx(n)][k]].size >= n}

(* The block returned: the first of them. *)
Found(n) == lists[FoundIdx(n)][Min(Fits(n))]

(* Empty classes met on the way lose their bit. *)
Searched(n) == bitmap \ {i \in bitmap : /\ i > SizeIdx(n) /\ lists[i] = <<>>
                                        /\ \A j \in Hits(n) : i < j}

(* The address returned: aligned, behind the header. *)
UseAddr(b, align) == AlignUp(b + HeadSize, align)

(* bm_memory_alloc_inner_fs: the block found is cut at its end when the     *)
(* rest is worth keeping, and given out whole otherwise.                    *)
Alloc(size, align) ==
    LET n == AllocSize(size, align) IN
    /\ Acceptable(size, n)
    /\ Fits(n) # {}
    /\ LET f     == Found(n)
           split == hdr[f].size >= n + MinSize
           rest  == hdr[f].size - n
           b     == IF split THEN f + rest ELSE f
           bsize == IF split THEN n ELSE hdr[f].size
           cut   == IF split THEN With(hdr, f, [hdr[f] EXCEPT !.size = rest]) ELSE hdr
           mine  == Header(bsize, IF split THEN rest ELSE hdr[f].prev_size, TRUE)
           moved == split /\ FoundIdx(n) # SizeIdx(rest)
           p     == UseAddr(b, align)
       IN
       /\ hdr' = [With(cut, b, mine) EXCEPT ![b + bsize].prev_size = 0]
       /\ lists' = CASE ~split -> Delete(lists, f)
                     [] moved  -> Insert(Delete(lists, f), f, rest)
                     [] OTHER  -> lists
       /\ bitmap' = Searched(n) \cup (IF moved THEN {SizeIdx(rest)} ELSE {})
       /\ smashed' = smashed \ {b}
       /\ live' = live \cup {[ptr |-> p, size |-> size, blk |-> b]}
       /\ freed' = {a \in freed : a + HeadSize <= b \/ b + bsize <= a}
       /\ UNCHANGED lost

(* No block is large enough: NULL, but the search has cleared bits. *)
AllocFails(size, align) ==
    LET n == AllocSize(size, align) IN
    /\ Acceptable(size, n)
    /\ Fits(n) = {}
    /\ bitmap' = Searched(n)
    /\ UNCHANGED <<hdr, lists, smashed, live, freed, lost>>

(* The caller uses the bytes it asked for, and no others; what they cover   *)
(* of the block's tail magic is gone.                                       *)
Use(l) ==
    /\ l.ptr + l.size > l.blk + hdr[l.blk].size - TailSize
    /\ smashed' = smashed \cup {l.blk}
    /\ UNCHANGED <<hdr, lists, bitmap, live, freed, lost>>

(* bm_memory_free_fsc refuses: the header or the tail is damaged.           *)
FreeRefused(l) ==
    /\ ~hdr[l.blk].used \/ l.blk \in smashed
    /\ live' = live \ {l}
    /\ lost' = lost \cup {l.blk}
    /\ UNCHANGED <<hdr, lists, bitmap, smashed, freed>>

(* bm_memory_free_fsc: merge with a free successor, then with a free        *)
(* predecessor, zero the headers swallowed, insert the whole.               *)
MergeNext(b) == ~hdr[b + hdr[b].size].used

(* Mutant: the free block in front is not merged. *)
MergePrevNever(b) == FALSE

MergePrev(b) == hdr[b].prev_size # 0

Free(l) ==
    LET b     == l.blk
        nb    == b + hdr[b].size
        size1 == hdr[b].size + IF MergeNext(b) THEN hdr[nb].size ELSE 0
        pb    == b - hdr[b].prev_size
        whole == IF MergePrev(b) THEN pb ELSE b
        size2 == IF MergePrev(b) THEN hdr[pb].size + size1 ELSE size1
        gone  == (IF MergeNext(b) THEN {nb} ELSE {}) \cup (IF MergePrev(b) THEN {b} ELSE {})
        keep  == Without(hdr, gone)
    IN
    /\ hdr[b].used
    /\ b \notin smashed
    /\ hdr' = [With(keep, whole, Header(size2, keep[whole].prev_size, FALSE))
                 EXCEPT ![whole + size2].prev_size = size2]
    /\ lists' = LET l1 == IF MergeNext(b) THEN Delete(lists, nb) ELSE lists
                    l2 == IF MergePrev(b) THEN Delete(l1, pb) ELSE l1
                IN  Insert(l2, whole, size2)
    /\ bitmap' = bitmap \cup {SizeIdx(size2)}
    /\ live' = live \ {l}
    /\ freed' = freed \cup {b}
    /\ UNCHANGED <<smashed, lost>>

Next == \/ \E size \in Sizes, align \in Aligns : Alloc(size, align) \/ AllocFails(size, align)
        \/ \E l \in live : Use(l) \/ Free(l) \/ FreeRefused(l)

Spec == Init /\ [][Next]_vars

-----------------------------------------------------------------------------
Blocks == DOMAIN hdr
FreeBlocks == {b \in Blocks : ~hdr[b].used}

(* Every variable has the type the code gives it. *)
TypeOK == /\ Blocks \subseteq 0..Top
          /\ \A b \in Blocks : hdr[b] \in [size : 0..Top, prev_size : 0..Top, used : BOOLEAN]
          /\ lists \in [Idx -> Seq(Blocks)]
          /\ bitmap \subseteq Idx
          /\ smashed \subseteq Blocks
          /\ \A l \in live : l.blk \in Blocks
          /\ freed \subseteq 0..Top /\ lost \subseteq 0..Top

(* The headers tile the region: each block ends where the next header is,   *)
(* and there are no other headers left over from merged blocks.             *)
Tiling == \A b \in Blocks :
             IF b = Top THEN hdr[b].size = 0 /\ hdr[b].used
             ELSE LET e == b + hdr[b].size IN
                  e \in Blocks /\ \A c \in Blocks : b < c => e <= c

(* The boundary tag: prev_size is the size of the block in front when that  *)
(* one is free and 0 otherwise, through every order of splits and merges    *)
(* (the end mark, which is never freed, starts without one).                *)
BoundaryTags == \A b \in Blocks \ {Top} :
                   LET e == b + hdr[b].size IN
                   e # Top => hdr[e].prev_size = IF hdr[b].used THEN 0 ELSE hdr[b].size

(* Merging is complete: two neighbours are never both free; so an empty     *)
(* heap is one block again.                                                 *)
Coalesced == /\ \A b \in FreeBlocks : hdr[b + hdr[b].size].used
             /\ live = {} /\ lost = {} => Blocks = {0, Top}

(* Every free block is linked exactly once, in the list of its size, and    *)
(* no list holds a used block.                                              *)
ListsMatch == /\ \A b \in FreeBlocks : b \in Range(lists[SizeIdx(hdr[b].size)])
              /\ \A i \in Idx : /\ IsInjective(lists[i])
                                /\ \A b \in Range(lists[i]) : b \in FreeBlocks /\ SizeIdx(hdr[b].size) = i

(* The search is complete and sound: an allocation fails only if no free    *)
(* block is large enough - the lazily cleared bitmap never hides a list -   *)
(* and the block taken is free and large enough, though the first block of  *)
(* a higher class is taken without a look at its size.                      *)
SearchComplete == \A size \in Sizes, align \in Aligns :
    LET n == AllocSize(size, align) IN
    Acceptable(size, n) =>
       IF \E b \in FreeBlocks : hdr[b].size >= n
       THEN Fits(n) # {} /\ Found(n) \in FreeBlocks /\ hdr[Found(n)].size >= n
       ELSE Fits(n) = {}

(* What callers were given: areas behind a header, inside their own used    *)
(* block, so that no two allocations and no header share a byte.            *)
AreasDisjoint ==
    /\ \A l \in live : /\ hdr[l.blk].used
                       /\ l.ptr >= l.blk + HeadSize
                       /\ l.ptr + l.size <= l.blk + hdr[l.blk].size
    /\ \A l, k \in live : l # k => l.blk # k.blk

(* A second free of memory that was not given out again is recognised: the  *)
(* header found there is not that of a used block.                          *)
DoubleFreeSeen == \A b \in freed : b \in Blocks => ~hdr[b].used

(* The doc of ERRNO_MEM_OVERWRITE: the error means that the caller used     *)
(* more than it asked for.  Callers here never do.                          *)
NoFalseOverwrite == smashed = {}
=============================================================================
