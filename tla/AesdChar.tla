------------------------------ MODULE AesdChar ------------------------------
(***************************************************************************)
(* The file operations of the driver (aesd-char-driver/main.c): open,      *)
(* release, read, write, llseek and unlocked_ioctl, called by any number   *)
(* of open files at once, from the moment aesd_init_module has run.        *)
(*                                                                         *)
(* The calls that sleep with dev->lock held (the copies to and from user   *)
(* space) are split at the copy: other files run in between, as far as the *)
(* lock lets them.  Everything else a handler does under the lock is one   *)
(* step.  The kernel around the driver is modelled as the code uses it:    *)
(* kmalloc returns any free block or fails, a copy may fault, the VFS      *)
(* stores the new position after a read that did not fail.                 *)
(***************************************************************************)
EXTENDS AesdCircularBuffer, SequencesExt

CONSTANTS
  Files,       \* the open files (struct file) of the device
  Bytes, NL,   \* the bytes users write, and the newline among them
  FREE,        \* the content of a block that is not allocated
  Payloads,    \* the byte strings passed to write
  Counts,      \* the sizes passed to read
  Offsets,     \* the offsets passed to llseek
  SeekOffsets, \* the write_cmd_offset values passed to AESDCHAR_IOCSEEKTO
  Uint32,      \* 2^32, the modulus of uint32_t arithmetic
  MaxPending,  \* bound: the longest partial write
  MaxPos       \* bound: the furthest position llseek moves to

ASSUME DriverAssumption ==
  /\ NULL \notin Files
  /\ NL \in Bytes
  /\ FREE \notin Seq(Bytes)
  /\ Payloads \subseteq Seq(Bytes) \ {<<>>}
  /\ Counts \subseteq Nat \ {0}
  /\ Offsets \subseteq Int
  /\ Uint32 \in Nat \ {0}
  /\ SeekOffsets \subseteq 0 .. Uint32 - 1
  /\ MaxPending \in Nat
  /\ MaxPos \in Nat

VARIABLES
  buffer,      \* dev->aesd_buffer
  aesd_entry,  \* dev->aesd_entry: the write no newline has completed yet
  lock,        \* the file whose call holds dev->lock, or NULL
  heap,        \* the content of every block
  f_pos,       \* filp->f_pos
  pc,          \* where each file's call is
  local,       \* the local variables a call keeps across its copy
  result,      \* what the last call to return returned
  oops         \* a task has entered the slow path of the lock

vars ==
  <<buffer, aesd_entry, lock, heap, f_pos, pc, local, result, oops>>

-----------------------------------------------------------------------------
(* Blocks and their contents. *)

Allocated == {b \in Blocks : heap[b] # FREE}

kfree(h, blocks) == [b \in Blocks |-> IF b \in blocks THEN FREE ELSE h[b]]

(* The bytes an entry stands for: size bytes from buffptr. *)
Content(e) ==
  IF e.buffptr \in Allocated THEN SubSeq(heap[e.buffptr], 1, e.size)
                             ELSE <<>>

(* What a call keeps in local variables while it sleeps in a copy. *)
NoCall == [block |-> NULL, skip |-> 0, count |-> 0, data |-> <<>>]

LocalType ==
  [block : Blocks \cup {NULL}, skip : Nat, count : Nat, data : Seq(Bytes)]

(* What a call returned: its file, its name, its status, the bytes it      *)
(* delivered.                                                              *)
Returned(f, call, status, data) ==
  result' = [file |-> f, call |-> call, status |-> status, data |-> data]

Calls == {"none", "open", "release", "read", "write", "llseek", "ioctl"}

Statuses == {"OK", "EOF", "ENOMEM", "EINVAL", "EFAULT", "ENOTTY", "ERESTARTSYS"}

ResultType ==
  [file : Files \cup {NULL}, call : Calls, status : Statuses, data : Seq(Bytes)]

(* Closed, open with no call in progress, or asleep in a copy. *)
PCs == {"closed", "open", "reading", "writing first", "writing append"}

Init ==
  /\ buffer = CircularBufferInit
  /\ aesd_entry = NoEntry
  /\ lock = NULL
  /\ heap = [b \in Blocks |-> FREE]
  /\ f_pos = [f \in Files |-> 0]
  /\ pc = [f \in Files |-> "closed"]
  /\ local = [f \in Files |-> NoCall]
  /\ result = [file |-> NULL, call |-> "none", status |-> "OK", data |-> <<>>]
  /\ oops = FALSE

-----------------------------------------------------------------------------
(* aesd_open and aesd_release.  The VFS starts every struct file at 0. *)

Open(f) ==
  /\ pc[f] = "closed"
  /\ pc' = [pc EXCEPT ![f] = "open"]
  /\ f_pos' = [f_pos EXCEPT ![f] = 0]
  /\ Returned(f, "open", "OK", <<>>)
  /\ UNCHANGED <<buffer, aesd_entry, lock, heap, local, oops>>

Release(f) ==
  /\ pc[f] = "open"
  /\ pc' = [pc EXCEPT ![f] = "closed"]
  /\ Returned(f, "release", "OK", <<>>)
  /\ UNCHANGED <<buffer, aesd_entry, lock, heap, f_pos, local, oops>>

-----------------------------------------------------------------------------
(* Mutant: the lock is not looked at. *)
CanLockAlways(f) == pc[f] = "open"

(* mutex_lock_interruptible.  A free lock is taken at once. *)
CanLock(f) ==
  /\ pc[f] = "open"
  /\ lock = NULL

(* The call sleeps in a copy with the lock held, keeping some locals.      *)
Sleep(f, where, locals) ==
  /\ lock' = f
  /\ pc' = [pc EXCEPT ![f] = where]
  /\ local' = [local EXCEPT ![f] = locals]

(* The call wakes up, unlocks and returns. *)
Wake(f) ==
  /\ lock' = NULL
  /\ pc' = [pc EXCEPT ![f] = "open"]
  /\ local' = [local EXCEPT ![f] = NoCall]

(***************************************************************************)
(* A call finds the lock taken.  aesd_init_module never calls mutex_init:  *)
(* the mutex is all zeroes, which is as good as unlocked until a second    *)
(* task has to queue for it, and then its wait list has null links.  The   *)
(* task may spin until the lock is free (it is then as if it came later),  *)
(* be interrupted by a signal, or follow the null links.                   *)
(***************************************************************************)
Contend(f, call) ==
  /\ pc[f] = "open"
  /\ lock # NULL
  /\ \/ /\ Returned(f, call, "ERESTARTSYS", <<>>)
        /\ UNCHANGED oops
     \/ /\ oops' = TRUE
        /\ UNCHANGED result
  /\ UNCHANGED <<buffer, aesd_entry, lock, heap, f_pos, pc, local>>

-----------------------------------------------------------------------------
(* aesd_read. *)

ReadEOF(f) ==
  /\ CanLock(f)
  /\ FindEntry(buffer, f_pos[f]) = NotFound
  /\ Returned(f, "read", "EOF", <<>>)
  /\ UNCHANGED <<buffer, aesd_entry, lock, heap, f_pos, pc, local, oops>>

(* Mutant: the lock is released before the copy. *)
ReadBeginUnlocked(f, count) ==
  LET place == FindEntry(buffer, f_pos[f])
  IN  /\ CanLock(f)
      /\ place # NotFound
      /\ pc' = [pc EXCEPT ![f] = "reading"]
      /\ local' = [local EXCEPT ![f] =
                    [block |-> buffer.entry[place.slot].buffptr,
                     skip |-> place.offset, count |-> 1, data |-> <<>>]]
      /\ UNCHANGED <<buffer, aesd_entry, lock, heap, f_pos, result, oops>>

(* An entry is found: at most the rest of it is copied. *)
ReadBegin(f, count) ==
  LET place   == FindEntry(buffer, f_pos[f])
      entry   == buffer.entry[place.slot]
      btocopy == entry.size - place.offset
  IN  /\ CanLock(f)
      /\ place # NotFound
      /\ Sleep(f, "reading",
               [block |-> entry.buffptr, skip |-> place.offset,
                count |-> IF count > btocopy THEN btocopy ELSE count,
                data |-> <<>>])
      /\ UNCHANGED <<buffer, aesd_entry, heap, f_pos, result, oops>>

ReadEnd(f) ==
  LET from == local[f].skip
      size == local[f].count
  IN  /\ pc[f] = "reading"
      /\ Wake(f)
      /\ f_pos' = [f_pos EXCEPT ![f] = @ + size]
      /\ Returned(f, "read", "OK",
                  SubSeq(heap[local[f].block], from + 1, from + size))
      /\ UNCHANGED <<buffer, aesd_entry, heap, oops>>

ReadFault(f) ==
  /\ pc[f] = "reading"
  /\ Wake(f)
  /\ Returned(f, "read", "EFAULT", <<>>)
  /\ UNCHANGED <<buffer, aesd_entry, heap, f_pos, oops>>

-----------------------------------------------------------------------------
(* aesd_write. *)

(* Mutant: the last newline. *)
CheckCRLast(s) ==
  LET IsLast(i) == s[i] = NL /\ \A j \in i + 1 .. Len(s) : s[j] # NL
  IN  IF \E i \in 1 .. Len(s) : IsLast(i)
      THEN (CHOOSE i \in 1 .. Len(s) : IsLast(i)) - 1
      ELSE -1

(* checkCR: the index of the first newline, counted from 0, or -1. *)
CheckCR(s) ==
  LET IsFirst(i) == s[i] = NL /\ \A j \in 1 .. i - 1 : s[j] # NL
  IN  IF \E i \in 1 .. Len(s) : IsFirst(i)
      THEN (CHOOSE i \in 1 .. Len(s) : IsFirst(i)) - 1
      ELSE -1

(***************************************************************************)
(* sendEntryToCircularBuffer, with e the new value of dev->aesd_entry, s   *)
(* its bytes and h the heap: e goes to the ring when its first newline is  *)
(* its last byte, and the entry it replaces there is freed.                *)
(***************************************************************************)
SendEntryToCircularBuffer(e, s, h) ==
  \/ /\ CheckCR(s) >= 0 /\ CheckCR(s) = e.size - 1
     /\ buffer' = AddEntry(buffer, e)
     /\ aesd_entry' = NoEntry
     /\ heap' = kfree(h, Evicted(buffer))
  \/ /\ ~(CheckCR(s) >= 0 /\ CheckCR(s) = e.size - 1)
     /\ aesd_entry' = e
     /\ heap' = h
     /\ UNCHANGED buffer

(* Mutant: the size is set before the copy. *)
WriteFirstSizeEarly(f, payload) ==
  /\ CanLock(f)
  /\ aesd_entry.buffptr = NULL
  /\ Len(payload) <= MaxPending
  /\ \E b \in Blocks \ Allocated :
       /\ heap' = [heap EXCEPT ![b] = <<>>]
       /\ aesd_entry' = [buffptr |-> b, size |-> Len(payload)]
       /\ Sleep(f, "writing first",
                [block |-> b, skip |-> 0, count |-> Len(payload),
                 data |-> payload])
  /\ UNCHANGED <<buffer, f_pos, result, oops>>

(* No partial write: the block is dev->aesd_entry's from the start, with   *)
(* size 0 until the copy has succeeded.                                    *)
WriteFirst(f, payload) ==
  /\ CanLock(f)
  /\ aesd_entry.buffptr = NULL
  /\ Len(payload) <= MaxPending
  /\ \E b \in Blocks \ Allocated :
       /\ heap' = [heap EXCEPT ![b] = <<>>]
       /\ aesd_entry' = [buffptr |-> b, size |-> 0]
       /\ Sleep(f, "writing first",
                [block |-> b, skip |-> 0, count |-> Len(payload),
                 data |-> payload])
  /\ UNCHANGED <<buffer, f_pos, result, oops>>

(* A partial write: it is copied to the front of a larger block, which     *)
(* only the call knows until the copy has succeeded.                       *)
WriteAppend(f, payload) ==
  /\ CanLock(f)
  /\ aesd_entry.buffptr # NULL
  /\ aesd_entry.size + Len(payload) <= MaxPending
  /\ \E b \in Blocks \ Allocated :
       /\ heap' = [heap EXCEPT ![b] = Content(aesd_entry)]
       /\ Sleep(f, "writing append",
                [block |-> b, skip |-> aesd_entry.size,
                 count |-> aesd_entry.size + Len(payload),
                 data |-> payload])
  /\ UNCHANGED <<buffer, aesd_entry, f_pos, result, oops>>

(* kmalloc fails.  Without a partial write dev->aesd_entry takes its NULL. *)
WriteNoMemory(f) ==
  /\ CanLock(f)
  /\ aesd_entry' = IF aesd_entry.buffptr = NULL THEN NoEntry ELSE aesd_entry
  /\ Returned(f, "write", "EINVAL", <<>>)
  /\ UNCHANGED <<buffer, lock, heap, f_pos, pc, local, oops>>

(* copy_from_user has filled the block.  retval still has the -ENOMEM it   *)
(* was initialised with, and *f_pos is left alone.                         *)
WriteEnd(f) ==
  LET call  == local[f]
      entry == [buffptr |-> call.block, size |-> call.count]
      bytes == heap[call.block] \o call.data
      full  == [heap EXCEPT ![call.block] = bytes]
  IN  /\ \/ /\ pc[f] = "writing first"
            /\ SendEntryToCircularBuffer(entry, bytes, full)
         \/ /\ pc[f] = "writing append"
            /\ SendEntryToCircularBuffer(entry, bytes,
                                         kfree(full, {aesd_entry.buffptr}))
      /\ Wake(f)
      /\ Returned(f, "write", "ENOMEM", <<>>)
      /\ UNCHANGED <<f_pos, oops>>

(* copy_from_user faults: the call returns without freeing its block. *)
WriteFault(f) ==
  /\ pc[f] \in {"writing first", "writing append"}
  /\ Wake(f)
  /\ Returned(f, "write", "EINVAL", <<>>)
  /\ UNCHANGED <<buffer, aesd_entry, heap, f_pos, oops>>

-----------------------------------------------------------------------------
(* aesd_llseek. *)

Whences == {"SEEK_SET", "SEEK_CUR", "SEEK_END"}

(* Only SEEK_END reads the ring, and only it takes the lock. *)
SeekPos(f, offset, whence) ==
  CASE whence = "SEEK_SET" -> f_pos[f]
    [] whence = "SEEK_CUR" -> f_pos[f] + offset
    [] whence = "SEEK_END" -> SizesUpTo(buffer, buffer.in_offs) + offset

Llseek(f, offset, whence) ==
  /\ pc[f] = "open"
  /\ whence = "SEEK_END" => lock = NULL
  /\ SeekPos(f, offset, whence) \in 0 .. MaxPos
  /\ f_pos' = [f_pos EXCEPT ![f] = SeekPos(f, offset, whence)]
  /\ Returned(f, "llseek", "OK", <<>>)
  /\ UNCHANGED <<buffer, aesd_entry, lock, heap, pc, local, oops>>

(* A negative position, or a whence the switch does not know. *)
LlseekInvalid(f, offset, whence) ==
  /\ pc[f] = "open"
  /\ whence = "SEEK_END" => lock = NULL
  /\ whence \in Whences => SeekPos(f, offset, whence) < 0
  /\ Returned(f, "llseek", "EINVAL", <<>>)
  /\ UNCHANGED <<buffer, aesd_entry, lock, heap, f_pos, pc, local, oops>>

-----------------------------------------------------------------------------
(* aesd_unlocked_ioctl. *)

(* total_size is an int and write_cmd_offset a uint32_t: their sum is a    *)
(* uint32_t.                                                               *)
SeekTarget(write_cmd, write_cmd_offset) ==
  (SizesUpTo(buffer, write_cmd) + write_cmd_offset) % Uint32

(* write_cmd is compared with slot numbers; -ENOMEM is returned here too. *)
IoctlSeekTo(f, write_cmd, write_cmd_offset) ==
  /\ CanLock(f)
  /\ write_cmd < MaxOps
  /\ f_pos' = [f_pos EXCEPT ![f] = SeekTarget(write_cmd, write_cmd_offset)]
  /\ Returned(f, "ioctl", "ENOMEM", <<>>)
  /\ UNCHANGED <<buffer, aesd_entry, lock, heap, pc, local, oops>>

(* Another command, an unreadable argument, or write_cmd out of range: the *)
(* checks come before the lock.                                            *)
IoctlInvalid(f) ==
  /\ pc[f] = "open"
  /\ \E error \in {"ENOTTY", "EFAULT", "EINVAL"} :
       Returned(f, "ioctl", error, <<>>)
  /\ UNCHANGED <<buffer, aesd_entry, lock, heap, f_pos, pc, local, oops>>

-----------------------------------------------------------------------------
Read(f) ==
  \/ ReadEOF(f)
  \/ \E count \in Counts : ReadBegin(f, count)
  \/ ReadEnd(f)
  \/ ReadFault(f)

Write(f) ==
  \/ \E payload \in Payloads : WriteFirst(f, payload) \/ WriteAppend(f, payload)
  \/ WriteNoMemory(f)
  \/ WriteEnd(f)
  \/ WriteFault(f)

Seek(f) ==
  \/ \E offset \in Offsets, whence \in Whences : Llseek(f, offset, whence)
  \/ \E offset \in Offsets, whence \in Whences \cup {"SEEK_DATA"} :
       LlseekInvalid(f, offset, whence)
  \/ \E cmd \in Slots, off \in SeekOffsets : IoctlSeekTo(f, cmd, off)
  \/ IoctlInvalid(f)

(* Nothing is promised after an oops. *)
Next ==
  /\ ~oops
  /\ \E f \in Files :
       \/ Open(f) \/ Release(f)
       \/ Read(f) \/ Write(f) \/ Seek(f)
       \/ \E call \in {"read", "write", "llseek", "ioctl"} : Contend(f, call)

Spec == Init /\ [][Next]_vars

-----------------------------------------------------------------------------
(* Properties. *)

(* The complete writes a reader can reach, the oldest first, and their     *)
(* bytes end to end.                                                       *)
Window ==
  [k \in 1 .. Count(buffer) |-> Content(buffer.entry[NthSlot(buffer, k-1)])]

Stream == FlattenSeq(Window)

(* Types of the state.  The positions are not bounded: a seek may go       *)
(* anywhere.                                                               *)
TypeOK ==
  /\ buffer \in BufferType
  /\ aesd_entry \in EntryType
  /\ lock \in Files \cup {NULL}
  /\ heap \in [Blocks -> Seq(Bytes) \cup {FREE}]
  /\ f_pos \in [Files -> Nat]
  /\ pc \in [Files -> PCs]
  /\ local \in [Files -> LocalType]
  /\ result \in ResultType
  /\ oops \in BOOLEAN

(* in_offs, out_offs, full and the slots agree after every call: what      *)
(* add_entry, the two seek loops and find_entry_offset assume of one       *)
(* another.                                                                *)
BufferShape == WellFormed(buffer)

(* Memory safety: no block is used after kfree and none is freed twice,    *)
(* whatever the calls in progress.  A block is owned by a slot, by the     *)
(* partial write, or by a call that fills a block nobody else knows yet:   *)
(* every owned block is allocated and has one owner.                       *)
BlocksOwnedOnce ==
  /\ \A i \in Slots : Occupied(buffer, i) =>
       /\ buffer.entry[i].buffptr \in Allocated
       /\ \A j \in Slots \ {i} :
            buffer.entry[j].buffptr # buffer.entry[i].buffptr
  /\ aesd_entry.buffptr # NULL =>
       /\ aesd_entry.buffptr \in Allocated
       /\ \A i \in Slots : buffer.entry[i].buffptr # aesd_entry.buffptr
  /\ \A f \in Files : pc[f] = "writing append" =>
       /\ local[f].block \in Allocated
       /\ local[f].block # aesd_entry.buffptr
       /\ \A i \in Slots : buffer.entry[i].buffptr # local[f].block

(* No entry, in the ring or partial, claims bytes beyond its block, or     *)
(* forgets some: size is set late, after a copy that may fault.            *)
SizesMatch ==
  /\ \A i \in Slots : Occupied(buffer, i) =>
       Len(heap[buffer.entry[i].buffptr]) = buffer.entry[i].size
  /\ aesd_entry.buffptr # NULL =>
       Len(heap[aesd_entry.buffptr]) = aesd_entry.size

(* A reader that sleeps in copy_to_user holds a pointer it took from a     *)
(* slot.  Until it wakes, the block is still that of a slot and the bytes  *)
(* it will copy are inside it.                                             *)
ReaderBlockLive ==
  \A f \in Files : pc[f] = "reading" =>
    \E i \in Slots :
      /\ Occupied(buffer, i)
      /\ buffer.entry[i].buffptr = local[f].block
      /\ local[f].count > 0
      /\ local[f].skip + local[f].count <= buffer.entry[i].size

(* What a writer read of dev->aesd_entry before it slept in                *)
(* copy_from_user is still so when it wakes: the call that sleeps is the   *)
(* one that holds the lock, the block it fills is still the partial        *)
(* write's or still its own, and the bytes and the size it took from the   *)
(* partial write are still those of the partial write.                     *)
WriterUpToDate ==
  \A f \in Files :
    /\ pc[f] \notin {"closed", "open"} <=> lock = f
    /\ pc[f] \in {"writing first", "writing append"} =>
         aesd_entry.buffptr # NULL /\ local[f].data \in Payloads
    /\ pc[f] = "writing first" =>
         /\ aesd_entry.buffptr = local[f].block
         /\ aesd_entry.size = 0
         /\ local[f].count = Len(local[f].data)
    /\ pc[f] = "writing append" =>
         /\ heap[local[f].block] = heap[aesd_entry.buffptr]
         /\ local[f].count = aesd_entry.size + Len(local[f].data)

(* A complete write: its one newline is its last byte. *)
IsLine(s) ==
  /\ s # <<>>
  /\ s[Len(s)] = NL
  /\ \A i \in 1 .. Len(s) - 1 : s[i] # NL

(* The ring holds complete writes only, so that "write command n" of the   *)
(* ioctl is a line and not a fragment or several.                          *)
StoredLines ==
  \A i \in Slots : Occupied(buffer, i) => IsLine(heap[buffer.entry[i].buffptr])

(* find_entry_offset_for_fpos against its comment: char_offset is an index *)
(* into all the strings "concatenated end to end" (aesd-circular-buffer.c  *)
(* lines 21-22), and nothing is found past their end.                      *)
FindIsStreamIndex ==
  \A pos \in 0 .. Len(Stream) + 1 :
    LET place == FindEntry(buffer, pos)
    IN  IF pos < Len(Stream)
        THEN /\ place # NotFound
             /\ Content(buffer.entry[place.slot])[place.offset + 1]
                  = Stream[pos + 1]
        ELSE place = NotFound

(* A seek to byte off of slot cmd leaves the file where find_entry_offset  *)
(* finds exactly that byte: the ioctl and the read walk the ring alike,    *)
(* wrapped or not, as long as the ring holds less than 2^32 bytes.         *)
SeekFindsSlot ==
  \A cmd \in Slots : \A off \in 0 .. buffer.entry[cmd].size - 1 :
    SizesUpTo(buffer, cmd) + off < Uint32 =>
    FindEntry(buffer, SeekTarget(cmd, off)) = [slot |-> cmd, offset |-> off]

(* SEEK_END lands where the window ends, moved by offset, as the comment   *)
(* of main.c:127 has it, until the ring is full: in_offs is then out_offs  *)
(* again, the loop counts nothing, and the position is offset itself.      *)
SeekEndIsEndUntilFull ==
  \A f \in Files : \A offset \in Offsets :
    SeekPos(f, offset, "SEEK_END") =
      (IF buffer.full THEN 0 ELSE Len(Stream)) + offset

(* write_cmd is "the zero referenced write command to seek into"           *)
(* (aesd_ioctl.h:27): number 0 is the first write a reader sees.           *)
SeekIsToWriteCommand ==
  \A cmd \in 0 .. Count(buffer) - 1 :
    FindEntry(buffer, SeekTarget(cmd, 0)).slot = NthSlot(buffer, cmd)

Owned ==
  ({buffer.entry[i].buffptr : i \in Slots} \cup {aesd_entry.buffptr}
     \cup {local[f].block : f \in {f \in Files : pc[f] = "writing append"}})
  \ {NULL}

(* No block is lost, except by a write whose copy faults while a partial   *)
(* write is being extended.                                                *)
NoNewLeak ==
  [][(Allocated' \ Owned') \subseteq (Allocated \ Owned)
       \/ \E f \in Files : pc[f] = "writing append" /\ WriteFault(f)]_vars

(* What read delivers: the bytes of the window from the file's position    *)
(* on, never beyond the entry they start in, although the call slept after *)
(* it had looked the entry up; and end-of-file only when the position is   *)
(* at or past the end of the window.                                       *)
ReadDeliversWindow ==
  [][/\ \A f \in Files :
          pc[f] = "reading" /\ f_pos'[f] # f_pos[f] =>
            /\ result'.data = SubSeq(Stream, f_pos[f] + 1, f_pos'[f])
            /\ f_pos'[f] <= Len(Stream)
     /\ result'.status = "EOF" =>
          f_pos'[result'.file] >= Len(Stream')]_vars

(* A partial write with a newline before its end, as left by one write of  *)
(* two lines.                                                              *)
Poisoned ==
  \E i \in 1 .. Len(Content(aesd_entry)) - 1 : Content(aesd_entry)[i] = NL

(* Such a partial write is never completed, and from then on no write of   *)
(* any file reaches the ring: checkCR always stops at the inner newline.   *)
PoisonedForever == [][Poisoned => Poisoned' /\ buffer' = buffer]_vars

(* The driver implements the abstract log: each write is appended to the   *)
(* partial write whole or not at all, and a completed line enters the      *)
(* window, at the expense of the oldest only, in one step.                 *)
Log == INSTANCE AesdLog WITH
         window  <- Window,
         first   <- buffer.out_offs,
         partial <- Content(aesd_entry)

ImplementsLog == Log!Spec
====
