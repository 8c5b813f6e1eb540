------------------------- MODULE AesdCircularBuffer -------------------------
(***************************************************************************)
(* The data structure of aesd-char-driver/aesd-circular-buffer.[ch]: a     *)
(* ring of MaxOps entries, each the address and the size of one write,     *)
(* with the slot to fill next (in_offs), the slot to read first            *)
(* (out_offs) and a flag that tells a full ring from an empty one.         *)
(*                                                                         *)
(* The module has no state of its own: a buffer is a record, and the       *)
(* functions of the C file are operators on it.  Callers hold the lock, as *)
(* the comments of the C file require, so each is one atomic step of them. *)
(***************************************************************************)
EXTENDS Integers, Sequences

CONSTANTS
  MaxOps,   \* AESDCHAR_MAX_WRITE_OPERATIONS_SUPPORTED (10 in the header)
  Blocks,   \* the addresses kmalloc can return
  NULL      \* the null pointer

ASSUME BufferAssumption ==
  /\ MaxOps \in Nat \ {0}
  /\ NULL \notin Blocks

-----------------------------------------------------------------------------
Slots == 0 .. MaxOps - 1

NoEntry == [buffptr |-> NULL, size |-> 0]

EntryType == [buffptr : Blocks \cup {NULL}, size : Nat]

BufferType ==
  [entry : [Slots -> EntryType], in_offs : Slots, out_offs : Slots,
   full : BOOLEAN]

(* aesd_circular_buffer_init: memset to zero. *)
CircularBufferInit ==
  [entry |-> [i \in Slots |-> NoEntry],
   in_offs |-> 0, out_offs |-> 0, full |-> FALSE]

(* Mutant: the index is advanced without wrapping. *)
SlotAfterNoWrap(i) == i + 1

(* The slot after slot i; every index of the C code advances this way. *)
SlotAfter(i) == (i + 1) % MaxOps

(* The k-th slot in reading order, the oldest entry being number 0. *)
NthSlot(buffer, k) == (buffer.out_offs + k) % MaxOps

-----------------------------------------------------------------------------
(* Mutants: a full ring is overwritten without advancing out_offs; the     *)
(* block freed is the one out_offs has advanced to; no block is freed.     *)
AddEntryKeepOldest(buffer, add_entry) ==
  [entry    |-> [buffer.entry EXCEPT ![buffer.in_offs] = add_entry],
   in_offs  |-> SlotAfter(buffer.in_offs),
   out_offs |-> buffer.out_offs,
   full     |-> buffer.full \/ SlotAfter(buffer.in_offs) = buffer.out_offs]

EvictedAfterAdvance(buffer) ==
  IF buffer.full THEN {buffer.entry[SlotAfter(buffer.out_offs)].buffptr} ELSE {}

EvictedNone(buffer) == {}

(***************************************************************************)
(* aesd_circular_buffer_add_entry.  A full ring first gives up its oldest  *)
(* entry: out_offs advances and the block is freed (Evicted names it; the  *)
(* driver, which owns the heap, does the freeing in the same step).        *)
(***************************************************************************)
AddEntry(buffer, add_entry) ==
  LET out == IF buffer.full THEN SlotAfter(buffer.out_offs)
                            ELSE buffer.out_offs
  IN  [entry    |-> [buffer.entry EXCEPT ![buffer.in_offs] = add_entry],
       in_offs  |-> SlotAfter(buffer.in_offs),
       out_offs |-> out,
       full     |-> buffer.full \/ SlotAfter(buffer.in_offs) = out]

Evicted(buffer) ==
  IF buffer.full THEN {buffer.entry[buffer.in_offs].buffptr} ELSE {}

(***************************************************************************)
(* Before(buffer)[k] is the number of bytes held by the first k slots in   *)
(* reading order: the running total (current_offset, total_size) of the    *)
(* three loops of the driver that walk the ring from out_offs.             *)
(***************************************************************************)
Before(buffer) ==
  LET bytes[k \in 0 .. MaxOps] ==
        IF k = 0 THEN 0
        ELSE bytes[k-1] + buffer.entry[NthSlot(buffer, k-1)].size
  IN  bytes

(* Mutant: the loop starts from slot 0. *)
SizesUpToFromZero(buffer, stop) ==
  Before([buffer EXCEPT !.out_offs = 0])[stop]

(***************************************************************************)
(* The loop "for (c = out_offs; c != stop; c = (c+1) % MaxOps)" of the     *)
(* driver, which totals the sizes of the slots before stop.  It does not   *)
(* run at all when stop = out_offs.                                        *)
(***************************************************************************)
SizesUpTo(buffer, stop) == Before(buffer)[(stop - buffer.out_offs) % MaxOps]

(***************************************************************************)
(* aesd_circular_buffer_find_entry_offset_for_fpos: the first slot in      *)
(* reading order whose bytes include char_offset, and the place in it.     *)
(* All MaxOps slots are tried: the ones never written have size 0.  The    *)
(* difference char_offset - current_offset is unsigned, so it is below     *)
(* size only when it is also not negative.                                 *)
(***************************************************************************)
NotFound == [slot |-> -1, offset |-> 0]

(* Mutants: the search starts from slot 0; the byte after an entry's last  *)
(* counts as its own.                                                      *)
FindEntryFromZero(buffer, char_offset) ==
  LET before == Before([buffer EXCEPT !.out_offs = 0])
      hits   == {k \in Slots : char_offset - before[k]
                                 \in 0 .. buffer.entry[k].size - 1}
  IN  IF hits = {} THEN NotFound
      ELSE LET k == CHOOSE k \in hits : TRUE
           IN  [slot |-> k, offset |-> char_offset - before[k]]

FindEntryOneTooMany(buffer, char_offset) ==
  LET before == Before(buffer)
      hits   == {k \in Slots : char_offset - before[k]
                                 \in 0 .. buffer.entry[NthSlot(buffer, k)].size}
  IN  IF hits = {} THEN NotFound
      ELSE LET k == CHOOSE k \in hits : \A j \in hits : k <= j
           IN  [slot |-> NthSlot(buffer, k), offset |-> char_offset - before[k]]

FindEntry(buffer, char_offset) ==
  LET before  == Before(buffer)
      Size(k) == buffer.entry[NthSlot(buffer, k)].size
      hits    == {k \in 0 .. MaxOps - 1 :
                    char_offset - before[k] \in 0 .. Size(k) - 1}
      first   == CHOOSE k \in hits : \A j \in hits : k <= j
  IN  IF hits = {} THEN NotFound
      ELSE [slot   |-> NthSlot(buffer, first),
            offset |-> char_offset - before[first]]

-----------------------------------------------------------------------------
Occupied(buffer, i) == buffer.entry[i].buffptr # NULL

(* The number of entries a reader can reach. *)
Count(buffer) ==
  IF buffer.full THEN MaxOps ELSE (buffer.in_offs - buffer.out_offs) % MaxOps

(***************************************************************************)
(* What in_offs, out_offs and full say about the slots.  The flag is never *)
(* cleared: until the ring has filled once out_offs stays 0 and the slots  *)
(* below in_offs are the written ones; afterwards in_offs = out_offs.      *)
(* Every user of the ring that treats in_offs = out_offs as "empty", or    *)
(* that stops at in_offs, depends on this relation.                        *)
(***************************************************************************)
WellFormed(buffer) ==
  /\ buffer \in BufferType
  /\ \A i \in Slots : ~Occupied(buffer, i) => buffer.entry[i] = NoEntry
  /\ IF buffer.full
     THEN /\ buffer.in_offs = buffer.out_offs
          /\ \A i \in Slots : Occupied(buffer, i)
     ELSE /\ buffer.out_offs = 0
          /\ \A i \in Slots : Occupied(buffer, i) <=> i < buffer.in_offs
=============================================================================
