------------------------------- MODULE Arena -------------------------------
(***************************************************************************)
(* Arena (workex-core/src/arena.rs): the bump allocator of a request.      *)
(*                                                                         *)
(* Addresses are numbers.  A chunk is the memory that the system allocator *)
(* gave for a Box<[u8]>: at any address, as bytes need no alignment, that  *)
(* does not overlap another chunk.  An allocation is asked for by its      *)
(* layout; alloc_raw is a recursion, each round of which is a step: it     *)
(* fits, it grows the arena, or the growth hits the cap and panics.  The   *)
(* ghost live holds the regions returned since the last reset.             *)
(*                                                                         *)
(* alloc, alloc_slice, alloc_bytes and alloc_str differ in the layout they *)
(* ask for; of an empty slice or string they ask for nothing.              *)
(***************************************************************************)
EXTENDS Integers, Sequences

CONSTANTS
  InitialSize,    (* initial_size                                          *)
  MaxArenaSize,   (* MAX_ARENA_SIZE: 128 MB in the code                    *)
  Layouts,        (* the layouts asked for                                 *)
  Addresses,      (* where the system allocator may place a chunk          *)
  MaxLive,        (* bound: allocations between two resets                 *)
  NoLayout

(* The alignments of Rust types up to a cache line.  The size of a type,   *)
(* and so of a slice, is a multiple of its alignment.                      *)
Alignments == {1, 2, 4, 8, 16, 32, 64}

ASSUME ArenaAssumption ==
  /\ InitialSize \in Nat \ {0}
  /\ MaxArenaSize \in Nat /\ InitialSize <= MaxArenaSize
  /\ Layouts \subseteq [size : Nat, align : Alignments]
  /\ \A l \in Layouts : l.size % l.align = 0
  /\ Addresses \subseteq Nat
  /\ MaxLive \in Nat
  /\ NoLayout \notin Layouts

VARIABLES
  chunks,           (* Vec<Box<[u8]>>: where each chunk is and its length  *)
  current,          (* the bump pointer                                    *)
  remaining,        (* bytes remaining in the active chunk                 *)
  next_chunk_size,
  layout,           (* the allocation under way, or NoLayout               *)
  live, growths     (* ghosts: regions returned, chunks this one added     *)

arenaVars == <<chunks, current, remaining, next_chunk_size, layout, live, growths>>

Max2(m, n) == IF m >= n THEN m ELSE n

First == chunks[1]
Last == chunks[Len(chunks)]
End(c) == c.addr + c.len

(* A chunk of n bytes at b: the system allocator finds it free.            *)
Free(b, n) == \A i \in 1 .. Len(chunks) : b + n <= chunks[i].addr \/ End(chunks[i]) <= b

(* total_capacity: the bytes of all chunks.                                *)
Capacity ==
  LET sum[i \in 0 .. Len(chunks)] == IF i = 0 THEN 0 ELSE sum[i - 1] + chunks[i].len
  IN  sum[Len(chunks)]

(* (addr + align - 1) & !(align - 1)                                       *)
AlignUp(addr, align) == ((addr + align - 1) \div align) * align

Aligned == AlignUp(current, layout.align)
TotalNeeded == (Aligned - current) + layout.size

-----------------------------------------------------------------------------
ArenaInit ==
  /\ \E b \in Addresses : chunks = << [addr |-> b, len |-> InitialSize] >> /\ current = b
  /\ remaining = InitialSize
  /\ next_chunk_size = InitialSize * 2
  /\ layout = NoLayout
  /\ live = <<>>
  /\ growths = 0

(* alloc and its kind: a layout is asked for.                              *)
Alloc(l) ==
  /\ layout = NoLayout
  /\ Len(live) < MaxLive
  /\ layout' = l
  /\ growths' = 0
  /\ UNCHANGED <<chunks, current, remaining, next_chunk_size, live>>

(* Mutant: the padding is not subtracted from the remaining bytes.         *)
FitForgetsPadding ==
  /\ layout # NoLayout
  /\ TotalNeeded <= remaining
  /\ current' = Aligned + layout.size
  /\ remaining' = remaining - layout.size
  /\ live' = Append(live, [addr |-> Aligned, size |-> layout.size])
  /\ layout' = NoLayout
  /\ UNCHANGED <<chunks, next_chunk_size, growths>>

(* alloc_raw, when the padded allocation fits into the active chunk.       *)
Fit ==
  /\ layout # NoLayout
  /\ TotalNeeded <= remaining
  /\ current' = Aligned + layout.size
  /\ remaining' = remaining - TotalNeeded
  /\ live' = Append(live, [addr |-> Aligned, size |-> layout.size])
  /\ layout' = NoLayout
  /\ UNCHANGED <<chunks, next_chunk_size, growths>>

(* Mutant: a chunk of no more than the bytes needed.                       *)
NewSizeExact == TotalNeeded

(* grow: the size of the new chunk, and whether the cap admits it.         *)
NewSize == Max2(next_chunk_size, TotalNeeded)
AdmittedByCap(n) == Capacity + n <= MaxArenaSize

(* alloc_raw, when it does not fit: a chunk is added and the next round    *)
(* tries again, with the padding that the new chunk needs.                 *)
Grow ==
  /\ layout # NoLayout
  /\ TotalNeeded > remaining
  /\ AdmittedByCap(NewSize)
  /\ \E b \in Addresses :
       /\ Free(b, NewSize)
       /\ chunks' = Append(chunks, [addr |-> b, len |-> NewSize])
       /\ current' = b
  /\ remaining' = NewSize
  /\ next_chunk_size' = NewSize * 2
  /\ growths' = growths + 1
  /\ UNCHANGED <<layout, live>>

(* The assertion of grow fails, before anything is changed; chunks that    *)
(* earlier rounds added stay.                                              *)
Panic ==
  /\ layout # NoLayout
  /\ TotalNeeded > remaining
  /\ ~AdmittedByCap(NewSize)
  /\ layout' = NoLayout
  /\ UNCHANGED <<chunks, current, remaining, next_chunk_size, live, growths>>

(* Mutant: the pointer goes back, the remaining bytes do not.              *)
ResetPointerOnly ==
  /\ layout = NoLayout
  /\ current' = First.addr
  /\ remaining' = remaining
  /\ chunks' = << First >>
  /\ next_chunk_size' = IF Len(chunks) > 1 THEN First.len * 2 ELSE next_chunk_size
  /\ live' = <<>>
  /\ UNCHANGED <<layout, growths>>

(* Mutant: the chunks are freed, the size of the next one is kept.         *)
ResetKeepsNextSize ==
  /\ layout = NoLayout
  /\ current' = First.addr
  /\ remaining' = First.len
  /\ chunks' = << First >>
  /\ live' = <<>>
  /\ UNCHANGED <<next_chunk_size, layout, growths>>

Reset ==
  /\ layout = NoLayout
  /\ current' = First.addr
  /\ remaining' = First.len
  /\ chunks' = << First >>
  /\ next_chunk_size' = IF Len(chunks) > 1 THEN First.len * 2 ELSE next_chunk_size
  /\ live' = <<>>
  /\ UNCHANGED <<layout, growths>>

ArenaNext == (\E l \in Layouts : Alloc(l)) \/ Fit \/ Grow \/ Panic \/ Reset

ArenaSpec == ArenaInit /\ [][ArenaNext]_arenaVars

-----------------------------------------------------------------------------
Chunks == [addr : Nat, len : Nat]
Regions == [addr : Nat, size : Nat]

ArenaTypeOK ==
  /\ chunks \in Seq(Chunks) /\ chunks # <<>>
  /\ current \in Nat /\ remaining \in Nat /\ next_chunk_size \in Nat
  /\ layout \in Layouts \cup {NoLayout}
  /\ live \in Seq(Regions)
  /\ growths \in Nat

(* The pointer and the remaining bytes, bumped separately, agree on where  *)
(* the active chunk ends, whatever padding alignment took: ptr.add never   *)
(* leaves the chunk.                                                       *)
BumpExact == current >= Last.addr /\ current + remaining = End(Last)

(* Every region returned since the last reset lies in a chunk the arena    *)
(* still owns, and no two of them overlap: no two live references alias    *)
(* and none dangles, over any growth.                                      *)
InSomeChunk(r) ==
  \E i \in 1 .. Len(chunks) : chunks[i].addr <= r.addr /\ r.addr + r.size <= End(chunks[i])

Apart(r, s) == r.addr + r.size <= s.addr \/ s.addr + s.size <= r.addr

LiveDisjoint ==
  /\ \A k \in 1 .. Len(live) : InSomeChunk(live[k])
  /\ \A j, k \in 1 .. Len(live) : j # k => Apart(live[j], live[k])

(* The comment in alloc_raw has a retry fit after one growth.  The new     *)
(* chunk may need more padding than the old one, for which grow was asked, *)
(* so a second one may be needed; never a third for a value that takes     *)
(* space, as its size is a multiple of its alignment and chunks double.    *)
TwoGrowthsSuffice ==
  layout # NoLayout /\ growths >= 2 /\ layout.size > 0 => TotalNeeded <= remaining

(* Chunks at least double, so their number stays logarithmic in the memory *)
(* a request takes; and what a request took is forgotten at the reset, as  *)
(* its comment promises ("keeps memory bounded after request spikes"): the *)
(* first chunk is the one the arena was created with, and growth goes on   *)
(* from the last chunk owned, never from one that a reset freed.           *)
GrowthDoubles ==
  /\ First.len = InitialSize
  /\ \A i \in 1 .. Len(chunks) - 1 : chunks[i + 1].len >= 2 * chunks[i].len
  /\ next_chunk_size = 2 * Last.len
=============================================================================
