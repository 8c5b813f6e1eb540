--------------------------- MODULE AesdCharProofs ---------------------------
(***************************************************************************)
(* Theorems about the driver, for any number of files and blocks, any ring *)
(* size and any calls.                                                     *)
(*                                                                         *)
(* The first sections are about the operators of AesdCircularBuffer, for   *)
(* every MaxOps: add_entry keeps the ring well formed, and a position      *)
(* computed by adding up the entries in front of a slot is found again in  *)
(* that slot.  Then come the driver's own: its memory is safe, the ring    *)
(* holds complete lines only, and a partial write with an inner newline    *)
(* blocks the device for good, all from one inductive invariant, Inv; it   *)
(* implements AesdLog; it loses a block in one way only; and what reads    *)
(* deliver is the window, from the invariant ReadInv of the sleeping       *)
(* readers.                                                                *)
(***************************************************************************)
EXTENDS AesdChar, SequenceLemmas

-----------------------------------------------------------------------------
(* The ring: arithmetic of slot numbers. *)

(* The index after the last one is 0. *)
LEMMA SlotAfterValue ==
  ASSUME NEW i \in Slots
  PROVE  /\ SlotAfter(i) = IF i + 1 = MaxOps THEN 0 ELSE i + 1
         /\ SlotAfter(i) \in Slots
<1>1. \A n \in Nat \ {0} : \A j \in 0 .. n - 1 :
        (j + 1) % n = IF j + 1 = n THEN 0 ELSE j + 1
  OBVIOUS
<1> QED BY <1>1, BufferAssumption DEF Slots, SlotAfter

(* The k-th slot in reading order, without the modulus. *)
LEMMA NthSlotValue ==
  ASSUME NEW record \in BufferType, NEW k \in Slots
  PROVE  /\ NthSlot(record, k) = IF record.out_offs + k >= MaxOps
                                 THEN record.out_offs + k - MaxOps
                                 ELSE record.out_offs + k
         /\ NthSlot(record, k) \in Slots
<1> DEFINE o == record.out_offs
<1>1. o \in 0 .. MaxOps - 1 /\ k \in 0 .. MaxOps - 1 /\ MaxOps \in Nat \ {0}
  BY BufferAssumption DEF BufferType, Slots
<1>2. NthSlot(record, k) = (o + k) % MaxOps
  BY DEF NthSlot
<1> HIDE DEF o
<1>3. /\ (o + k) % MaxOps = IF o + k >= MaxOps THEN o + k - MaxOps ELSE o + k
      /\ (o + k) % MaxOps \in 0 .. MaxOps - 1
  BY <1>1
<1> QED BY <1>2, <1>3 DEF o, Slots

(* The place of a slot in reading order, which is where the loops of the   *)
(* driver stop, and NthSlot's inverse.                                     *)
LEMMA SlotPlace ==
  ASSUME NEW record \in BufferType, NEW i \in Slots
  PROVE  /\ (i - record.out_offs) % MaxOps \in Slots
         /\ NthSlot(record, (i - record.out_offs) % MaxOps) = i
<1> DEFINE o == record.out_offs
<1>1. o \in 0 .. MaxOps - 1 /\ i \in 0 .. MaxOps - 1 /\ MaxOps \in Nat \ {0}
  BY BufferAssumption DEF BufferType, Slots
<1> HIDE DEF o
<1>2. /\ (i - o) % MaxOps = IF i < o THEN i - o + MaxOps ELSE i - o
      /\ (i - o) % MaxOps \in 0 .. MaxOps - 1
  BY <1>1
<1> DEFINE p == (i - o) % MaxOps
<1>3. NthSlot(record, p) = IF o + p >= MaxOps THEN o + p - MaxOps ELSE o + p
  BY <1>2, NthSlotValue DEF Slots, o
<1> HIDE DEF p
<1>4. NthSlot(record, p) = i
  BY <1>1, <1>2, <1>3 DEF p
<1> QED BY <1>2, <1>4 DEF o, p, Slots

-----------------------------------------------------------------------------
(* aesd_circular_buffer_init and aesd_circular_buffer_add_entry. *)

(* The zeroed ring is well formed. *)
LEMMA InitWellFormed == WellFormed(CircularBufferInit)
BY BufferAssumption
   DEF WellFormed, CircularBufferInit, BufferType, EntryType, NoEntry, Slots,
       Occupied

(* add_entry of an allocated entry keeps in_offs, out_offs, full and the   *)
(* slots in agreement, whether the ring is filling, becomes full, or       *)
(* wraps.                                                                  *)
THEOREM AddEntryWellFormed ==
  ASSUME NEW record, WellFormed(record),
         NEW e \in EntryType, e.buffptr # NULL
  PROVE  WellFormed(AddEntry(record, e))
<1> DEFINE new == AddEntry(record, e)
           in  == record.in_offs
           out == IF record.full THEN SlotAfter(record.out_offs)
                                 ELSE record.out_offs
<1>1. record \in BufferType
  BY DEF WellFormed
<1>2. /\ in \in Slots /\ record.out_offs \in Slots /\ out \in Slots
      /\ SlotAfter(in) \in Slots
      /\ SlotAfter(in) = IF in + 1 = MaxOps THEN 0 ELSE in + 1
  BY <1>1, SlotAfterValue DEF BufferType
<1>3. /\ new.entry = [record.entry EXCEPT ![in] = e]
      /\ new.in_offs = SlotAfter(in)
      /\ new.out_offs = out
      /\ new.full = (record.full \/ SlotAfter(in) = out)
  BY DEF AddEntry
<1>4. new \in BufferType
  BY <1>1, <1>2 DEF AddEntry, BufferType
<1>5. \A i \in Slots : new.entry[i] = IF i = in THEN e ELSE record.entry[i]
  BY <1>1, <1>3 DEF BufferType
<1>6. \A i \in Slots : Occupied(new, i) <=> i = in \/ Occupied(record, i)
  BY <1>5 DEF Occupied
<1>7. \A i \in Slots : ~Occupied(new, i) => new.entry[i] = NoEntry
  BY <1>5, <1>6 DEF WellFormed, Occupied
<1> HIDE DEF new
<1>8. CASE record.full
  <2>1. new.full /\ new.in_offs = new.out_offs
    BY <1>3, <1>8 DEF WellFormed
  <2>2. \A i \in Slots : Occupied(new, i)
    BY <1>6, <1>8 DEF WellFormed
  <2> QED BY <1>4, <1>7, <2>1, <2>2 DEF WellFormed, new
<1>9. CASE ~record.full
  <2>1. /\ record.out_offs = 0 /\ new.out_offs = 0
        /\ \A i \in Slots : Occupied(record, i) <=> i < in
    BY <1>3, <1>9 DEF WellFormed
  <2>2. \A i \in Slots : Occupied(new, i) <=> i < in + 1
    BY <1>2, <1>6, <2>1 DEF Slots
  <2>3. CASE in + 1 = MaxOps
    <3>1. new.full /\ new.in_offs = new.out_offs
      BY <1>2, <1>3, <1>9, <2>1, <2>3
    <3>2. \A i \in Slots : Occupied(new, i)
      BY <1>2, <2>2, <2>3, BufferAssumption DEF Slots
    <3> QED BY <1>4, <1>7, <3>1, <3>2 DEF WellFormed, new
  <2>4. CASE in + 1 # MaxOps
    <3>1. ~new.full /\ new.in_offs = in + 1
      <4>1. SlotAfter(in) = in + 1 /\ in + 1 # 0
        BY <1>2, <2>4 DEF Slots
      <4>2. ~(record.full \/ SlotAfter(in) = out)
        BY <1>9, <2>1, <4>1
      <4> QED BY <1>3, <4>1, <4>2
    <3> QED BY <1>4, <1>7, <2>1, <2>2, <3>1 DEF WellFormed, new
  <2> QED BY <2>3, <2>4
<1> QED BY <1>8, <1>9

-----------------------------------------------------------------------------
(* The running totals of the loops, by induction on the slots in reading   *)
(* order.                                                                  *)

(* So Before is that function.                                             *)
LEMMA BeforeRecursion ==
  ASSUME NEW record \in BufferType
  PROVE  Before(record)
           = [k \in 0 .. MaxOps |->
                IF k = 0 THEN 0
                ELSE Before(record)[k-1]
                       + record.entry[NthSlot(record, k-1)].size]
<1> DEFINE size == [k \in 0 .. MaxOps |->
                      IF k < MaxOps
                      THEN record.entry[NthSlot(record, k)].size ELSE 0]
           B(t) == [k \in 0 .. MaxOps |->
                      IF k = 0 THEN 0
                      ELSE t[k-1] + record.entry[NthSlot(record, k-1)].size]
<1>1. \A k \in Slots : record.entry[NthSlot(record, k)].size \in Nat
  BY NthSlotValue DEF BufferType, EntryType
<1>2. MaxOps \in Nat /\ size \in [0 .. MaxOps -> Nat]
  BY <1>1, BufferAssumption DEF Slots
<1>3. \A k \in 1 .. MaxOps :
        size[k-1] = record.entry[NthSlot(record, k-1)].size
  BY <1>2
<1> HIDE DEF size
<1>4. PICK t : t = [k \in 0 .. MaxOps |->
                      IF k = 0 THEN 0 ELSE t[k-1] + size[k-1]]
  BY <1>2, TotalsExist
<1>5. \A k \in 0 .. MaxOps : k = 0 \/ k \in 1 .. MaxOps
  BY <1>2
<1>6. t = B(t)
  BY <1>3, <1>4, <1>5
<1>7. Before(record) = CHOOSE b : b = B(b)
  BY DEF Before
<1> HIDE DEF B
<1>8. Before(record) = B(Before(record))
  BY <1>6, <1>7
<1> QED BY <1>8 DEF B

(* The total in front of the k-th slot is a natural number, and the one in *)
(* front of the next slot is larger by its size.                           *)
LEMMA BeforeStep ==
  ASSUME NEW record \in BufferType
  PROVE  /\ Before(record)[0] = 0
         /\ \A k \in 0 .. MaxOps : Before(record)[k] \in Nat
         /\ \A k \in Slots :
              /\ record.entry[NthSlot(record, k)].size \in Nat
              /\ Before(record)[k+1]
                   = Before(record)[k] + record.entry[NthSlot(record, k)].size
<1> DEFINE b == Before(record)
           size(k) == record.entry[NthSlot(record, k)].size
           bad == {k \in 0 .. MaxOps : b[k] \notin Nat}
<1>1. \A k \in Slots : size(k) \in Nat
  BY NthSlotValue DEF BufferType, EntryType
<1>2. MaxOps \in Nat
  BY BufferAssumption
<1>3. \A k \in 0 .. MaxOps : b[k] = IF k = 0 THEN 0 ELSE b[k-1] + size(k-1)
  <2> HIDE DEF size
  <2>1. b = [k \in 0 .. MaxOps |-> IF k = 0 THEN 0 ELSE b[k-1] + size(k-1)]
    BY BeforeRecursion DEF size
  <2> HIDE DEF b
  <2> QED BY <2>1
<1> HIDE DEF b, size
<1>4. b[0] = 0 /\ \A k \in Slots : b[k+1] = b[k] + size(k)
  BY <1>2, <1>3 DEF Slots
<1>5. ASSUME bad # {} PROVE FALSE
  <2>1. PICK m \in bad : \A n \in bad : m <= n
    <3>1. bad \in SUBSET Nat
      BY <1>2
    <3> HIDE DEF bad
    <3> QED BY <1>5, <3>1, NatLeast
  <2>2. m # 0 /\ m - 1 \in Slots /\ m - 1 \in 0 .. MaxOps /\ m - 1 \notin bad
    BY <1>2, <1>4, <2>1 DEF Slots
  <2>3. b[m] = b[m-1] + size(m-1)
    BY <1>3, <2>1, <2>2
  <2> QED BY <1>1, <2>1, <2>2, <2>3
<1> QED BY <1>1, <1>4, <1>5 DEF b, size

(* The totals grow along the ring.                                         *)
LEMMA BeforeMonotone ==
  ASSUME NEW record \in BufferType,
         NEW j \in 0 .. MaxOps, NEW k \in j .. MaxOps
  PROVE  Before(record)[j] <= Before(record)[k]
<1> DEFINE b == Before(record)
           bad == {n \in j .. MaxOps : ~(b[j] <= b[n])}
<1>1. MaxOps \in Nat
  BY BufferAssumption
<1>2. /\ \A n \in 0 .. MaxOps : b[n] \in Nat
      /\ \A n \in 0 .. MaxOps - 1 : b[n] <= b[n+1]
  <2>1. \A n \in Slots : b[n] \in Nat /\ b[n+1] \in Nat
    BY <1>1, BeforeStep DEF Slots
  <2> QED BY <2>1, BeforeStep DEF Slots
<1> HIDE DEF b
<1>3. ASSUME bad # {} PROVE FALSE
  <2>1. PICK m \in bad : \A n \in bad : m <= n
    <3>1. bad \in SUBSET Nat
      BY <1>1
    <3> HIDE DEF bad
    <3> QED BY <1>3, <3>1, NatLeast
  <2>2. m # j
    BY <1>1, <1>2, <2>1
  <2>3. m - 1 \in j .. MaxOps /\ m - 1 \in 0 .. MaxOps - 1 /\ m - 1 \notin bad
    BY <1>1, <2>1, <2>2
  <2>4. b[j] <= b[m-1] /\ b[m-1] <= b[m]
    BY <1>2, <2>1, <2>3
  <2> QED BY <1>1, <1>2, <2>1, <2>3, <2>4
<1> QED BY <1>3 DEF b

-----------------------------------------------------------------------------
(* aesd_circular_buffer_find_entry_offset_for_fpos. *)

(* What the search returns is a byte of the entry it names.                *)
LEMMA FindEntryFound ==
  ASSUME NEW record \in BufferType, NEW pos \in Nat,
         FindEntry(record, pos) # NotFound
  PROVE  /\ FindEntry(record, pos).slot \in Slots
         /\ FindEntry(record, pos).offset
              \in 0 .. record.entry[FindEntry(record, pos).slot].size - 1
<1> DEFINE b == Before(record)
           size(n) == record.entry[NthSlot(record, n)].size
           hits == {n \in 0 .. MaxOps - 1 : pos - b[n] \in 0 .. size(n) - 1}
           first == CHOOSE n \in hits : \A m \in hits : n <= m
<1>1. FindEntry(record, pos)
        = IF hits = {} THEN NotFound
          ELSE [slot |-> NthSlot(record, first), offset |-> pos - b[first]]
  BY DEF FindEntry
<1>2. hits \in SUBSET Nat /\ hits # {}
  BY <1>1
<1>3. PICK n \in hits : \A m \in hits : n <= m
  <2> HIDE DEF hits
  <2> QED BY <1>2, NatLeast
<1>4. first \in hits
  <2> HIDE DEF hits
  <2> QED BY <1>3
<1>5. NthSlot(record, first) \in Slots /\ pos - b[first] \in 0 .. size(first) - 1
  BY <1>4, NthSlotValue DEF Slots
<1> HIDE DEF hits, first, b
<1> QED BY <1>1, <1>2, <1>5

(* A position that falls into the k-th slot in reading order is found      *)
(* there.                                                                  *)
LEMMA FindEntryNth ==
  ASSUME NEW record \in BufferType, NEW k \in Slots,
         NEW off \in 0 .. record.entry[NthSlot(record, k)].size - 1
  PROVE  FindEntry(record, Before(record)[k] + off)
           = [slot |-> NthSlot(record, k), offset |-> off]
<1> DEFINE b == Before(record)
           size(n) == record.entry[NthSlot(record, n)].size
           pos == b[k] + off
           hits == {n \in 0 .. MaxOps - 1 : pos - b[n] \in 0 .. size(n) - 1}
<1>1. /\ MaxOps \in Nat
      /\ \A n \in 0 .. MaxOps : b[n] \in Nat
      /\ \A n \in Slots : size(n) \in Nat /\ b[n+1] = b[n] + size(n)
  BY BufferAssumption, BeforeStep
<1>2. \A m \in 0 .. MaxOps : \A n \in m .. MaxOps : b[m] <= b[n]
  BY BeforeMonotone
<1>3. off \in 0 .. size(k) - 1
  OBVIOUS
<1> HIDE DEF b, size
<1>4. k \in hits
  BY <1>1, <1>3 DEF Slots
<1>5. \A n \in hits : n = k
  <2>1. SUFFICES ASSUME NEW n \in hits, n # k PROVE FALSE
    OBVIOUS
  <2>2. n \in Slots
    BY DEF Slots
  <2>3. pos \in b[n] .. b[n+1] - 1 /\ pos \in b[k] .. b[k+1] - 1
    BY <1>1, <1>3, <1>4, <2>2 DEF Slots
  <2>4. CASE n < k
    <3>1. b[n+1] <= b[k]
      BY <1>1, <1>2, <2>2, <2>4 DEF Slots
    <3> QED BY <1>1, <2>2, <2>3, <3>1 DEF Slots
  <2>5. CASE n > k
    <3>1. b[k+1] <= b[n]
      BY <1>1, <1>2, <2>2, <2>5 DEF Slots
    <3> QED BY <1>1, <2>2, <2>3, <3>1 DEF Slots
  <2> QED BY <1>1, <2>1, <2>2, <2>4, <2>5 DEF Slots
<1>6. pos - b[k] = off
  BY <1>1, <1>3 DEF Slots
<1>7. hits = {k} /\ hits # {}
  BY <1>4, <1>5
<1> DEFINE first == CHOOSE n \in hits : \A m \in hits : n <= m
<1>8. first = k
  <2>1. k <= k
    BY <1>1 DEF Slots
  <2> HIDE DEF hits
  <2> QED BY <1>7, <2>1
<1>9. FindEntry(record, pos)
        = IF hits = {} THEN NotFound
          ELSE [slot |-> NthSlot(record, first), offset |-> pos - b[first]]
  BY DEF FindEntry, b, size
<1> HIDE DEF hits, first, pos
<1>10. FindEntry(record, pos) = [slot |-> NthSlot(record, k), offset |-> off]
  BY <1>6, <1>7, <1>8, <1>9
<1> QED BY <1>10 DEF pos, b

(* The loops of the ioctl and of SEEK_END agree with the search: byte off  *)
(* of slot i is at the total of the slots before i, plus off.              *)
THEOREM FindEntryOfSlot ==
  ASSUME NEW record \in BufferType, NEW i \in Slots,
         NEW off \in 0 .. record.entry[i].size - 1
  PROVE  FindEntry(record, SizesUpTo(record, i) + off)
           = [slot |-> i, offset |-> off]
<1> DEFINE k == (i - record.out_offs) % MaxOps
<1>1. k \in Slots /\ NthSlot(record, k) = i
  BY SlotPlace
<1>2. SizesUpTo(record, i) = Before(record)[k]
  BY DEF SizesUpTo
<1> HIDE DEF k
<1> QED BY <1>1, <1>2, FindEntryNth

(* The search finds an entry for every position below the total of the     *)
(* ring, and for no other: a read reports the end of the file there and    *)
(* nowhere else.                                                           *)
THEOREM FindEntryTotal ==
  ASSUME NEW record \in BufferType, NEW pos \in Nat
  PROVE  FindEntry(record, pos) = NotFound <=> Before(record)[MaxOps] <= pos
<1> DEFINE b == Before(record)
           size(n) == record.entry[NthSlot(record, n)].size
           hits == {n \in 0 .. MaxOps - 1 : pos - b[n] \in 0 .. size(n) - 1}
           first == CHOOSE n \in hits : \A m \in hits : n <= m
           above == {n \in 0 .. MaxOps : pos < b[n]}
<1>1. /\ MaxOps \in Nat
      /\ b[0] = 0
      /\ \A n \in 0 .. MaxOps : b[n] \in Nat
      /\ \A n \in Slots : size(n) \in Nat /\ b[n+1] = b[n] + size(n)
  BY BufferAssumption, BeforeStep
<1>2. \A m \in 0 .. MaxOps : \A n \in m .. MaxOps : b[m] <= b[n]
  BY BeforeMonotone
<1>3. FindEntry(record, pos)
        = IF hits = {} THEN NotFound
          ELSE [slot |-> NthSlot(record, first), offset |-> pos - b[first]]
  BY DEF FindEntry
<1>4. ASSUME hits # {} PROVE FindEntry(record, pos) # NotFound
  <2>1. PICK n \in hits : \A m \in hits : n <= m
    <3>1. hits \in SUBSET Nat
      BY <1>1
    <3> HIDE DEF hits
    <3> QED BY <1>4, <3>1, NatLeast
  <2>2. first \in hits
    <3> HIDE DEF hits
    <3> QED BY <2>1
  <2>3. NthSlot(record, first) \in Slots
    BY <2>2, NthSlotValue DEF Slots
  <2>4. NthSlot(record, first) # -1
    BY <1>1, <2>3 DEF Slots
  <2> HIDE DEF hits, first, b
  <2>5. FindEntry(record, pos).slot = NthSlot(record, first)
    BY <1>3, <1>4
  <2> QED BY <2>4, <2>5 DEF NotFound
<1> HIDE DEF b, size
<1>5. ASSUME b[MaxOps] <= pos PROVE hits = {}
  <2>1. SUFFICES ASSUME NEW n \in hits PROVE FALSE
    OBVIOUS
  <2>2. n \in Slots /\ n + 1 \in 0 .. MaxOps
    BY <1>1 DEF Slots
  <2>3. pos < b[n+1] /\ b[n+1] <= b[MaxOps]
    BY <1>1, <1>2, <2>2 DEF Slots
  <2> QED BY <1>1, <1>5, <2>2, <2>3
<1>6. ASSUME pos < b[MaxOps] PROVE hits # {}
  <2>1. PICK n \in above : \A m \in above : n <= m
    <3>1. above \in SUBSET Nat /\ above # {}
      BY <1>1, <1>6
    <3> HIDE DEF above
    <3> QED BY <3>1, NatLeast
  <2>2. n # 0 /\ n - 1 \in Slots /\ n - 1 \in 0 .. MaxOps /\ n - 1 \notin above
    BY <1>1, <2>1 DEF Slots
  <2>3. b[n-1] <= pos /\ pos < b[n]
    BY <1>1, <2>1, <2>2
  <2>4. b[n] = b[n-1] + size(n-1)
    BY <1>1, <2>1, <2>2
  <2>5. n - 1 \in hits
    BY <1>1, <2>2, <2>3, <2>4 DEF Slots
  <2> QED BY <2>5
<1>7. b[MaxOps] \in Nat
  BY <1>1
<1> HIDE DEF hits, first
<1> QED BY <1>3, <1>4, <1>5, <1>6, <1>7 DEF b

(* How many writes a reader can reach, and where they are.                 *)
LEMMA CountValue ==
  ASSUME NEW b, WellFormed(b)
  PROVE  /\ Count(b) = IF b.full THEN MaxOps ELSE b.in_offs
         /\ Count(b) \in 0 .. MaxOps
         /\ \A k \in 0 .. Count(b) - 1 :
              k \in Slots /\ NthSlot(b, k) \in Slots
                /\ Occupied(b, NthSlot(b, k))
<1>1. b \in BufferType /\ b.in_offs \in Slots /\ b.full \in BOOLEAN
  BY DEF WellFormed, BufferType
<1>2. MaxOps \in Nat \ {0} /\ Slots = 0 .. MaxOps - 1
  BY BufferAssumption DEF Slots
<1>3. CASE b.full
  <2>1. Count(b) = MaxOps
    BY <1>3 DEF Count
  <2>2. \A i \in Slots : Occupied(b, i)
    BY <1>3 DEF WellFormed
  <2>3. \A k \in Slots : NthSlot(b, k) \in Slots
    BY <1>1, NthSlotValue
  <2> QED BY <1>2, <1>3, <2>1, <2>2, <2>3
<1>4. CASE ~b.full
  <2>1. b.out_offs = 0
    BY <1>4 DEF WellFormed
  <2>2. \A n \in Nat \ {0} : \A i \in 0 .. n - 1 : (i - 0) % n = i
    OBVIOUS
  <2>3. Count(b) = b.in_offs
    BY <1>1, <1>2, <1>4, <2>1, <2>2 DEF Count
  <2>4. \A k \in Slots : NthSlot(b, k) = k
    BY <1>1, <1>2, <2>1, NthSlotValue
  <2>5. \A i \in Slots : Occupied(b, i) <=> i < b.in_offs
    BY <1>4 DEF WellFormed
  <2> QED BY <1>1, <1>2, <1>4, <2>3, <2>4, <2>5
<1> QED BY <1>3, <1>4

(* In reading order, add_entry puts the new entry after all the others;    *)
(* in a full ring every other entry moves up by one and the oldest, whose  *)
(* slot the new one takes, is out.                                         *)
LEMMA AddEntryOrder ==
  ASSUME NEW b, WellFormed(b), NEW e \in EntryType, e.buffptr # NULL,
         NEW new, new = AddEntry(b, e)
  PROVE  /\ ~b.full =>
              /\ Count(b) < MaxOps /\ Count(new) = Count(b) + 1
              /\ new.out_offs = b.out_offs
              /\ NthSlot(new, Count(b)) = b.in_offs
              /\ \A k \in 0 .. Count(b) - 1 :
                   NthSlot(new, k) = NthSlot(b, k) /\ NthSlot(b, k) # b.in_offs
         /\ b.full =>
              /\ Count(b) = MaxOps /\ Count(new) = MaxOps
              /\ new.out_offs = (b.out_offs + 1) % MaxOps
              /\ NthSlot(new, MaxOps - 1) = b.in_offs
              /\ \A k \in 0 .. MaxOps - 2 :
                   NthSlot(new, k) = NthSlot(b, k+1) /\ NthSlot(b, k+1) # b.in_offs
<1>1. /\ b \in BufferType /\ b.in_offs \in Slots /\ b.out_offs \in Slots
      /\ b.full \in BOOLEAN
  BY DEF WellFormed, BufferType
<1>2. MaxOps \in Nat \ {0} /\ Slots = 0 .. MaxOps - 1
  BY BufferAssumption DEF Slots
<1>3. WellFormed(new) /\ new \in BufferType
  BY AddEntryWellFormed DEF WellFormed
<1>4. /\ new.entry = [b.entry EXCEPT ![b.in_offs] = e]
      /\ new.in_offs = SlotAfter(b.in_offs)
      /\ new.out_offs = IF b.full THEN SlotAfter(b.out_offs) ELSE b.out_offs
      /\ new.full = (b.full \/ SlotAfter(b.in_offs) = new.out_offs)
  BY DEF AddEntry
<1>5. /\ \A k \in Slots : NthSlot(b, k) = IF b.out_offs + k >= MaxOps
                                          THEN b.out_offs + k - MaxOps
                                          ELSE b.out_offs + k
      /\ \A k \in Slots : NthSlot(new, k) = IF new.out_offs + k >= MaxOps
                                            THEN new.out_offs + k - MaxOps
                                            ELSE new.out_offs + k
      /\ \A i \in Slots : SlotAfter(i) = IF i + 1 = MaxOps THEN 0 ELSE i + 1
  BY <1>1, <1>3, NthSlotValue, SlotAfterValue
<1>6. /\ Count(b) = IF b.full THEN MaxOps ELSE b.in_offs
      /\ Count(new) = IF new.full THEN MaxOps ELSE new.in_offs
  BY <1>3, CountValue
<1>7. CASE ~b.full
  <2>1. b.out_offs = 0 /\ new.out_offs = 0
    BY <1>4, <1>7 DEF WellFormed
  <2>2. Count(b) = b.in_offs
    BY <1>6, <1>7
  <2>3. Count(new) = b.in_offs + 1
    <3>1. CASE b.in_offs + 1 = MaxOps
      <4>1. new.full
        BY <1>1, <1>4, <1>5, <2>1, <3>1
      <4> QED BY <1>6, <3>1, <4>1
    <3>2. CASE b.in_offs + 1 # MaxOps
      <4>1. new.in_offs = b.in_offs + 1 /\ ~new.full
        BY <1>1, <1>2, <1>4, <1>5, <1>7, <2>1, <3>2
      <4> QED BY <1>6, <4>1
    <3> QED BY <3>1, <3>2
  <2>4. \A k \in Slots : NthSlot(b, k) = k /\ NthSlot(new, k) = k
    BY <1>2, <1>5, <2>1
  <2> HIDE DEF Count, NthSlot
  <2>5. \A k \in 0 .. Count(b) - 1 : k \in Slots /\ k # b.in_offs
    BY <1>1, <1>2, <2>2
  <2> QED BY <1>1, <1>2, <1>4, <1>7, <2>1, <2>2, <2>3, <2>4, <2>5
<1>8. CASE b.full
  <2>1. b.in_offs = b.out_offs
    BY <1>8 DEF WellFormed
  <2>2. new.full /\ new.out_offs = SlotAfter(b.out_offs)
    BY <1>4, <1>8
  <2>3. new.out_offs = (b.out_offs + 1) % MaxOps
    BY <2>2 DEF SlotAfter
  <2>4. new.out_offs = IF b.out_offs + 1 = MaxOps THEN 0 ELSE b.out_offs + 1
    BY <1>1, <1>5, <2>2
  <2>5. Count(b) = MaxOps /\ Count(new) = MaxOps
    BY <1>6, <1>8, <2>2
  <2>6. NthSlot(new, MaxOps - 1) = b.in_offs
    <3> DEFINE o == b.out_offs
               n == new.out_offs
    <3>1. MaxOps - 1 \in Slots
      BY <1>2
    <3>2. NthSlot(new, MaxOps - 1) = IF n + (MaxOps - 1) >= MaxOps
                                     THEN n + (MaxOps - 1) - MaxOps
                                     ELSE n + (MaxOps - 1)
      BY <1>5, <3>1
    <3>3. n = IF o + 1 = MaxOps THEN 0 ELSE o + 1
      BY <2>4
    <3>4. o \in 0 .. MaxOps - 1
      BY <1>1, <1>2
    <3> HIDE DEF o, n
    <3>5. NthSlot(new, MaxOps - 1) = o
      BY <1>2, <3>2, <3>3, <3>4
    <3> QED BY <2>1, <3>5 DEF o
  <2>7. ASSUME NEW k \in 0 .. MaxOps - 2
        PROVE  NthSlot(new, k) = NthSlot(b, k+1) /\ NthSlot(b, k+1) # b.in_offs
    <3> DEFINE o == b.out_offs
               n == new.out_offs
    <3>1. k \in Slots /\ k + 1 \in Slots
      BY <1>2
    <3>2. NthSlot(new, k) = IF n + k >= MaxOps THEN n + k - MaxOps ELSE n + k
      BY <1>5, <3>1
    <3>3. NthSlot(b, k+1) = IF o + (k+1) >= MaxOps THEN o + (k+1) - MaxOps
                                                   ELSE o + (k+1)
      BY <1>5, <3>1
    <3>4. n = IF o + 1 = MaxOps THEN 0 ELSE o + 1
      BY <2>4
    <3>5. o \in 0 .. MaxOps - 1
      BY <1>1, <1>2
    <3> HIDE DEF o, n
    <3>6. NthSlot(new, k) = NthSlot(b, k+1) /\ NthSlot(b, k+1) # o
      BY <1>2, <3>2, <3>3, <3>4, <3>5
    <3> QED BY <2>1, <3>6 DEF o
  <2> QED BY <1>4, <1>8, <2>3, <2>5, <2>6, <2>7
<1> QED BY <1>7, <1>8

(* What the search returns is the entry that holds the byte at pos.        *)
LEMMA FindEntryPlace ==
  ASSUME NEW b \in BufferType, NEW pos \in Nat,
         FindEntry(b, pos) # NotFound
  PROVE  \E k \in Slots :
           /\ NthSlot(b, k) \in Slots
           /\ FindEntry(b, pos) = [slot   |-> NthSlot(b, k),
                                   offset |-> pos - Before(b)[k]]
           /\ pos - Before(b)[k] \in 0 .. b.entry[NthSlot(b, k)].size - 1
<1> DEFINE t == Before(b)
           size(n) == b.entry[NthSlot(b, n)].size
           hits == {n \in 0 .. MaxOps - 1 : pos - t[n] \in 0 .. size(n) - 1}
           first == CHOOSE n \in hits : \A m \in hits : n <= m
<1>1. FindEntry(b, pos)
        = IF hits = {} THEN NotFound
          ELSE [slot |-> NthSlot(b, first), offset |-> pos - t[first]]
  BY DEF FindEntry
<1>2. hits \in SUBSET Nat /\ hits # {}
  BY <1>1
<1>3. PICK n \in hits : \A m \in hits : n <= m
  <2> HIDE DEF hits
  <2> QED BY <1>2, NatLeast
<1>4. first \in hits
  <2> HIDE DEF hits
  <2> QED BY <1>3
<1>5. /\ first \in Slots /\ NthSlot(b, first) \in Slots
      /\ pos - t[first] \in 0 .. size(first) - 1
  BY <1>4, NthSlotValue DEF Slots
<1> HIDE DEF hits, first, t
<1>6. FindEntry(b, pos) = [slot   |-> NthSlot(b, first),
                           offset |-> pos - t[first]]
  BY <1>1, <1>2
<1> QED BY <1>5, <1>6 DEF t

(* The slots a reader cannot reach hold no bytes.                          *)
LEMMA BeforeCount ==
  ASSUME NEW b, WellFormed(b)
  PROVE  Before(b)[Count(b)] = Before(b)[MaxOps]
<1>1. /\ b \in BufferType /\ b.in_offs \in 0 .. MaxOps - 1
      /\ MaxOps \in Nat \ {0}
  BY BufferAssumption DEF WellFormed, BufferType, Slots
<1>2. CASE b.full
  <2>1. Count(b) = MaxOps
    BY <1>2, CountValue
  <2> QED BY <2>1
<1>3. CASE ~b.full
  <2> DEFINE t == Before(b)
             bad == {n \in b.in_offs .. MaxOps : t[n] # t[b.in_offs]}
  <2>1. Count(b) = b.in_offs
    BY <1>3, CountValue
  <2>2. \A k \in Slots : /\ t[k] \in Nat
                         /\ t[k+1] = t[k] + b.entry[NthSlot(b, k)].size
    BY <1>1, BeforeStep DEF Slots
  <2>3. \A k \in Slots : NthSlot(b, k) = k
    <3>1. b.out_offs = 0
      BY <1>3 DEF WellFormed
    <3>2. \A k \in Slots : ~(0 + k >= MaxOps) /\ 0 + k = k
      BY <1>1 DEF Slots
    <3> QED BY <1>1, <3>1, <3>2, NthSlotValue
  <2>4. \A k \in Slots : k >= b.in_offs => b.entry[k].size = 0
    <3>1. \A k \in Slots : k >= b.in_offs => ~(k < b.in_offs)
      BY <1>1 DEF Slots
    <3>2. \A k \in Slots : k >= b.in_offs => b.entry[k] = NoEntry
      BY <1>3, <3>1 DEF WellFormed
    <3> QED BY <3>2 DEF NoEntry
  <2> HIDE DEF t
  <2>5. \A k \in Slots : k >= b.in_offs => t[k+1] = t[k]
    BY <2>2, <2>3, <2>4
  <2>6. ASSUME bad # {} PROVE FALSE
    <3>1. PICK m \in bad : \A n \in bad : m <= n
      <4>1. bad \in SUBSET Nat
        BY <1>1
      <4> HIDE DEF bad
      <4> QED BY <2>6, <4>1, NatLeast
    <3>2. /\ m - 1 \in Slots /\ m - 1 >= b.in_offs
          /\ m - 1 \in b.in_offs .. MaxOps /\ m - 1 \notin bad
          /\ (m - 1) + 1 = m
      BY <1>1, <3>1 DEF Slots
    <3> QED BY <2>5, <3>1, <3>2
  <2>7. t[MaxOps] = t[b.in_offs]
    <3>1. MaxOps \in b.in_offs .. MaxOps
      BY <1>1
    <3> QED BY <2>6, <3>1
  <2> QED BY <2>1, <2>7 DEF t
<1> QED BY <1>2, <1>3

-----------------------------------------------------------------------------
USE DriverAssumption, BufferAssumption

(* The inductive invariant.  None of its parts is inductive alone: that    *)
(* the blocks have one owner needs the writer's view of the partial write  *)
(* to be up to date, which needs the lock; that an entry's size is its     *)
(* block's length needs that the sizes the writer keeps are.               *)
Inv ==
  /\ TypeOK
  /\ BufferShape
  /\ BlocksOwnedOnce
  /\ SizesMatch
  /\ ReaderBlockLive
  /\ WriterUpToDate
  /\ StoredLines

-----------------------------------------------------------------------------
(* Lemmas about the operators. *)

(* A line that checkCR accepts has its one newline at its end.             *)
LEMMA CheckCRLine ==
  ASSUME NEW s \in Seq(Bytes), CheckCR(s) >= 0, CheckCR(s) = Len(s) - 1
  PROVE  IsLine(s)
<1> DEFINE IsFirst(n) == s[n] = NL /\ \A j \in 1 .. n - 1 : s[j] # NL
           first == CHOOSE n \in 1 .. Len(s) : IsFirst(n)
<1>1. CheckCR(s) = IF \E n \in 1 .. Len(s) : IsFirst(n) THEN first - 1 ELSE -1
  BY DEF CheckCR
<1>2. \E j \in 1 .. Len(s) : IsFirst(j)
  BY <1>1
<1>3. first \in 1 .. Len(s) /\ IsFirst(first)
  <2> HIDE DEF IsFirst
  <2> QED BY <1>2
<1>4. CheckCR(s) = first - 1
  BY <1>1, <1>2
<1> HIDE DEF first
<1>5. first = Len(s)
  BY <1>3, <1>4
<1> QED BY <1>3, <1>5 DEF IsLine

(* checkCR stops at the first newline, wherever the last one is.           *)
LEMMA CheckCRFirst ==
  ASSUME NEW s \in Seq(Bytes), NEW k \in 1 .. Len(s), s[k] = NL
  PROVE  CheckCR(s) \in 0 .. k - 1
<1> DEFINE IsFirst(n) == s[n] = NL /\ \A j \in 1 .. n - 1 : s[j] # NL
           first == CHOOSE n \in 1 .. Len(s) : IsFirst(n)
           newlines == {j \in 1 .. Len(s) : s[j] = NL}
<1>1. CheckCR(s) = IF \E n \in 1 .. Len(s) : IsFirst(n) THEN first - 1 ELSE -1
  BY DEF CheckCR
<1>2. PICK m \in newlines : \A n \in newlines : m <= n
  <2>1. newlines \in SUBSET Nat /\ newlines # {}
    OBVIOUS
  <2> HIDE DEF newlines
  <2> QED BY <2>1, NatLeast
<1>3. m \in 1 .. Len(s) /\ IsFirst(m)
  BY <1>2
<1>4. first \in 1 .. Len(s) /\ IsFirst(first)
  <2> HIDE DEF IsFirst
  <2> QED BY <1>3
<1>5. CheckCR(s) = first - 1
  BY <1>1, <1>3
<1> HIDE DEF first
<1>6. first <= k
  BY <1>4
<1> QED BY <1>4, <1>5, <1>6

(* Freed blocks are free, the others keep their content.                   *)
LEMMA KfreeContent ==
  ASSUME NEW h \in [Blocks -> Seq(Bytes) \cup {FREE}], NEW freed
  PROVE  /\ kfree(h, freed) \in [Blocks -> Seq(Bytes) \cup {FREE}]
         /\ \A b \in Blocks : b \in freed => kfree(h, freed)[b] = FREE
         /\ \A b \in Blocks : b \notin freed => kfree(h, freed)[b] = h[b]
BY DEF kfree

-----------------------------------------------------------------------------
(* The initial state. *)

(* Nothing is open, stored or allocated. *)
LEMMA InitInv == Init => Inv
<1> SUFFICES ASSUME Init PROVE Inv
  OBVIOUS
<1>1. BufferShape /\ buffer \in BufferType
  BY InitWellFormed DEF Init, BufferShape, WellFormed
<1>2. \A i \in Slots : ~Occupied(buffer, i)
  BY DEF Init, CircularBufferInit, NoEntry, Occupied
<1>3. TypeOK
  <2>1. NoCall \in LocalType /\ NoEntry \in EntryType /\ <<>> \in Seq(Bytes)
    BY DEF NoCall, LocalType, NoEntry, EntryType
  <2>2. result \in ResultType
    BY <2>1 DEF Init, ResultType, Calls, Statuses
  <2> QED BY <1>1, <2>1, <2>2 DEF Init, TypeOK, PCs
<1>4. BlocksOwnedOnce /\ SizesMatch /\ ReaderBlockLive /\ StoredLines
  BY <1>2 DEF Init, BlocksOwnedOnce, SizesMatch, ReaderBlockLive, StoredLines,
              NoEntry
<1>5. WriterUpToDate
  BY DEF Init, WriterUpToDate
<1> QED BY <1>1, <1>3, <1>4, <1>5 DEF Inv

-----------------------------------------------------------------------------
(* Types. *)

(* Every call returns a result of the right type.                          *)
LEMMA ReturnedType ==
  ASSUME NEW f \in Files, NEW call \in Calls, NEW status \in Statuses,
         NEW data \in Seq(Bytes), Returned(f, call, status, data)
  PROVE  result' \in ResultType
BY DEF Returned, ResultType

(* A seek that is accepted lands on a natural number.                      *)
LEMMA SeekTargetType ==
  ASSUME buffer \in BufferType, NEW cmd \in Slots, NEW off \in SeekOffsets
  PROVE  SeekTarget(cmd, off) \in Nat
<1>1. (cmd - buffer.out_offs) % MaxOps \in 0 .. MaxOps
  BY SlotPlace DEF Slots
<1>2. SizesUpTo(buffer, cmd) \in Nat
  BY <1>1, BeforeStep DEF SizesUpTo
<1>3. SizesUpTo(buffer, cmd) + off \in Nat
  BY <1>2
<1> QED BY <1>3 DEF SeekTarget

(* The state keeps its types whatever file makes whatever call.            *)
LEMMA TypeStep ==
  Inv /\ [Next]_vars => TypeOK'
<1> SUFFICES ASSUME Inv, [Next]_vars PROVE TypeOK'
  OBVIOUS
<1> USE DEF TypeOK
<1>1. /\ buffer \in BufferType
      /\ aesd_entry \in EntryType
      /\ lock \in Files \cup {NULL}
      /\ heap \in [Blocks -> Seq(Bytes) \cup {FREE}]
      /\ f_pos \in [Files -> Nat]
      /\ pc \in [Files -> PCs]
      /\ local \in [Files -> LocalType]
      /\ result \in ResultType
      /\ oops \in BOOLEAN
  BY DEF Inv
<1>2. NoCall \in LocalType /\ NoEntry \in EntryType /\ <<>> \in Seq(Bytes)
  BY DEF NoCall, LocalType, NoEntry, EntryType
<1>3. PCs = {"closed", "open", "reading", "writing first", "writing append"}
  BY DEF PCs
<1>4. /\ {"open", "release", "read", "write", "llseek", "ioctl"} \subseteq Calls
      /\ {"OK", "EOF", "ENOMEM", "EINVAL", "EFAULT", "ENOTTY", "ERESTARTSYS"}
           \subseteq Statuses
  BY DEF Calls, Statuses
<1>5. ASSUME NEW f \in Files, Open(f) \/ Release(f) PROVE TypeOK'
  <2>1. PICK call \in Calls : Returned(f, call, "OK", <<>>)
    BY <1>5, <1>4 DEF Open, Release
  <2>2. result' \in ResultType
    BY <1>4, <1>2, <2>1, ReturnedType
  <2>3. pc' \in [Files -> PCs] /\ f_pos' \in [Files -> Nat]
    <3>1. CASE Open(f)
      BY <1>1, <1>3, <3>1 DEF Open
    <3>2. CASE Release(f)
      BY <1>1, <1>3, <3>2 DEF Release
    <3> QED BY <1>5, <3>1, <3>2
  <2>4. UNCHANGED <<buffer, aesd_entry, lock, heap, local, oops>>
    BY <1>5 DEF Open, Release
  <2> QED BY <1>1, <2>2, <2>3, <2>4
<1>6. ASSUME NEW f \in Files, NEW call \in Calls, Contend(f, call) PROVE TypeOK'
  <2>1. CASE Returned(f, call, "ERESTARTSYS", <<>>) /\ UNCHANGED oops
    BY <1>1, <1>2, <1>3, <1>4, <1>6, <2>1, ReturnedType DEF Contend
  <2>2. CASE oops' = TRUE /\ UNCHANGED result
    BY <1>1, <1>2, <1>3, <1>6, <2>2 DEF Contend
  <2> QED BY <1>6, <2>1, <2>2 DEF Contend
<1>7. ASSUME NEW f \in Files, ReadEOF(f) PROVE TypeOK'
  BY <1>1, <1>2, <1>3, <1>4, <1>7, ReturnedType DEF ReadEOF
<1>8. ASSUME NEW f \in Files, NEW count \in Counts, ReadBegin(f, count)
      PROVE  TypeOK'
  <2> DEFINE place == FindEntry(buffer, f_pos[f])
             entry == buffer.entry[place.slot]
             btocopy == entry.size - place.offset
             locals == [block |-> entry.buffptr, skip |-> place.offset,
                        count |-> IF count > btocopy THEN btocopy ELSE count,
                        data |-> <<>>]
  <2>1. f_pos[f] \in Nat /\ place # NotFound
    BY <1>1, <1>2, <1>3, <1>8 DEF ReadBegin
  <2>2. place.slot \in Slots /\ place.offset \in 0 .. entry.size - 1
    BY <1>1, <1>2, <1>3, <2>1, FindEntryFound
  <2>3. entry \in EntryType
    BY <1>1, <1>2, <1>3, <2>2 DEF BufferType
  <2>4. /\ Sleep(f, "reading", locals)
        /\ UNCHANGED <<buffer, aesd_entry, heap, f_pos, result, oops>>
    BY <1>8 DEF ReadBegin
  <2> HIDE DEF place, entry
  <2>5. locals \in LocalType
    <3>1. /\ entry.buffptr \in Blocks \cup {NULL}
          /\ entry.size \in Nat /\ place.offset \in Nat
          /\ btocopy \in Nat /\ count \in Nat
      BY <2>2, <2>3 DEF EntryType
    <3> HIDE DEF btocopy
    <3> QED BY <1>2, <3>1 DEF LocalType
  <2> HIDE DEF locals
  <2>6. local' \in [Files -> LocalType] /\ pc' \in [Files -> PCs]
    BY <1>1, <1>3, <2>4, <2>5 DEF Sleep
  <2>7. lock' \in Files \cup {NULL}
    BY <2>4 DEF Sleep
  <2> QED BY <1>1, <2>4, <2>6, <2>7
<1>9. ASSUME NEW f \in Files, ReadEnd(f) PROVE TypeOK'
  <2> DEFINE from == local[f].skip
             size == local[f].count
  <2>1. PICK i \in Slots :
          /\ Occupied(buffer, i)
          /\ buffer.entry[i].buffptr = local[f].block
          /\ from + size <= buffer.entry[i].size
    BY <1>9 DEF ReadEnd, Inv, ReaderBlockLive
  <2>2. /\ from \in Nat /\ size \in Nat
        /\ heap[local[f].block] \in Seq(Bytes)
        /\ Len(heap[local[f].block]) = buffer.entry[i].size
    BY <1>1, <1>2, <1>3, <2>1 DEF Inv, BlocksOwnedOnce, SizesMatch, Allocated, LocalType
  <2> DEFINE data == SubSeq(heap[local[f].block], from + 1, from + size)
  <2>3. data \in Seq(Bytes)
    BY <2>1, <2>2, SubSeqProperties
  <2>4. Returned(f, "read", "OK", data)
    BY <1>9 DEF ReadEnd
  <2>5. f_pos' \in [Files -> Nat]
    <3>1. f_pos' = [f_pos EXCEPT ![f] = @ + size]
      BY <1>9 DEF ReadEnd
    <3> HIDE DEF size
    <3>2. f_pos[f] + size \in Nat
      BY <1>1, <2>2
    <3> QED BY <1>1, <3>1, <3>2
  <2> HIDE DEF data
  <2>6. result' \in ResultType
    BY <1>4, <2>3, <2>4, ReturnedType
  <2> QED BY <1>1, <1>2, <1>3, <1>9, <2>5, <2>6 DEF ReadEnd, Wake
<1>10. ASSUME NEW f \in Files, ReadFault(f) \/ WriteFault(f) PROVE TypeOK'
  <2>1. PICK call \in Calls, status \in Statuses : Returned(f, call, status, <<>>)
    BY <1>10, <1>4 DEF ReadFault, WriteFault
  <2>2. result' \in ResultType
    BY <1>1, <1>2, <1>3, <2>1, ReturnedType
  <2>3. Wake(f) /\ UNCHANGED <<buffer, aesd_entry, heap, f_pos, oops>>
    BY <1>10 DEF ReadFault, WriteFault
  <2> QED BY <1>1, <1>2, <1>3, <2>2, <2>3 DEF Wake
<1>11. ASSUME NEW f \in Files, NEW payload \in Payloads,
             WriteFirst(f, payload) \/ WriteAppend(f, payload)
      PROVE  TypeOK'
  <2>1. payload \in Seq(Bytes) /\ Len(payload) \in Nat
    OBVIOUS
  <2>2. CASE WriteFirst(f, payload)
    <3>1. PICK b \in Blocks \ Allocated :
            /\ heap' = [heap EXCEPT ![b] = <<>>]
            /\ aesd_entry' = [buffptr |-> b, size |-> 0]
            /\ Sleep(f, "writing first",
                     [block |-> b, skip |-> 0, count |-> Len(payload),
                      data |-> payload])
      BY <2>2 DEF WriteFirst
    <3>2. [block |-> b, skip |-> 0, count |-> Len(payload), data |-> payload]
            \in LocalType
      BY <2>1 DEF LocalType
    <3> QED BY <1>1, <1>2, <1>3, <2>2, <3>1, <3>2 DEF WriteFirst, Sleep, EntryType
  <2>3. CASE WriteAppend(f, payload)
    <3>1. PICK b \in Blocks \ Allocated :
            /\ heap' = [heap EXCEPT ![b] = Content(aesd_entry)]
            /\ Sleep(f, "writing append",
                     [block |-> b, skip |-> aesd_entry.size,
                      count |-> aesd_entry.size + Len(payload),
                      data |-> payload])
      BY <2>3 DEF WriteAppend
    <3>2. [block |-> b, skip |-> aesd_entry.size,
           count |-> aesd_entry.size + Len(payload), data |-> payload]
            \in LocalType
      <4>1. aesd_entry.size \in Nat /\ aesd_entry.size + Len(payload) \in Nat
        BY <1>1, <2>1 DEF EntryType
      <4> QED BY <2>1, <4>1 DEF LocalType
    <3>3. Content(aesd_entry) \in Seq(Bytes)
      <4>1. CASE aesd_entry.buffptr \in Allocated
        <5>1. heap[aesd_entry.buffptr] \in Seq(Bytes)
          BY <1>1, <1>2, <1>3, <4>1 DEF Allocated
        <5>2. Len(heap[aesd_entry.buffptr]) = aesd_entry.size
          BY <4>1 DEF Inv, SizesMatch, Allocated
        <5> QED BY <4>1, <5>1, <5>2, WholeSubSeq DEF Content
      <4>2. CASE aesd_entry.buffptr \notin Allocated
        BY <1>1, <1>2, <1>3, <4>2 DEF Content
      <4> QED BY <4>1, <4>2
    <3> QED BY <1>1, <1>2, <1>3, <2>3, <3>1, <3>2, <3>3 DEF WriteAppend, Sleep
  <2> QED BY <1>11, <2>2, <2>3
<1>12. ASSUME NEW f \in Files, WriteNoMemory(f) PROVE TypeOK'
  BY <1>1, <1>2, <1>3, <1>4, <1>12, ReturnedType DEF WriteNoMemory
<1>13. ASSUME NEW f \in Files, WriteEnd(f) PROVE TypeOK'
  <2> DEFINE e == [buffptr |-> local[f].block, size |-> local[f].count]
             s == heap[local[f].block] \o local[f].data
             full == [heap EXCEPT ![local[f].block] = s]
  <2>1. /\ local[f] \in LocalType
        /\ local[f].block \in Allocated
        /\ local[f].block # NULL
    <3>1. local[f] \in LocalType
      BY <1>1
    <3>2. CASE pc[f] = "writing first"
      <4>1. aesd_entry.buffptr = local[f].block
        BY <3>2 DEF Inv, WriterUpToDate
      <4>2. local[f].block # NULL
        BY <3>2, <4>1 DEF Inv, WriterUpToDate
      <4> QED BY <4>1, <4>2 DEF Inv, BlocksOwnedOnce
    <3>3. CASE pc[f] = "writing append"
      BY <3>3 DEF Inv, BlocksOwnedOnce, Allocated
    <3> QED BY <1>13, <3>1, <3>2, <3>3 DEF WriteEnd
  <2>2. e \in EntryType /\ e.buffptr # NULL
    BY <2>1 DEF EntryType, LocalType
  <2>3. s \in Seq(Bytes)
    <3>1. heap[local[f].block] \in Seq(Bytes)
      BY <1>1, <2>1 DEF Allocated
    <3>2. local[f].data \in Seq(Bytes)
      BY <2>1 DEF LocalType
    <3> QED BY <3>1, <3>2, ConcatProperties
  <2>4. full \in [Blocks -> Seq(Bytes) \cup {FREE}]
    BY <1>1, <1>2, <1>3, <2>3
  <2>5. PICK h \in [Blocks -> Seq(Bytes) \cup {FREE}] :
          SendEntryToCircularBuffer(e, s, h)
    BY <1>13, <2>4, KfreeContent DEF WriteEnd
  <2> HIDE DEF e, s, full
  <2>6. /\ buffer' \in BufferType
        /\ aesd_entry' \in EntryType
        /\ heap' \in [Blocks -> Seq(Bytes) \cup {FREE}]
    <3>1. WellFormed(buffer)
      BY DEF Inv, BufferShape
    <3>2. AddEntry(buffer, e) \in BufferType
      BY <2>2, <3>1, AddEntryWellFormed DEF WellFormed
    <3> QED BY <1>1, <1>2, <2>2, <2>5, <3>2, KfreeContent
            DEF SendEntryToCircularBuffer
  <2>7. result' \in ResultType
    BY <1>1, <1>2, <1>3, <1>4, <1>13, ReturnedType DEF WriteEnd
  <2> QED BY <1>1, <1>2, <1>3, <1>13, <2>6, <2>7 DEF WriteEnd, Wake
<1>14. ASSUME NEW f \in Files, NEW offset \in Offsets, NEW whence,
              Llseek(f, offset, whence) \/ LlseekInvalid(f, offset, whence)
       PROVE  TypeOK'
  <2>1. PICK status \in Statuses : Returned(f, "llseek", status, <<>>)
    BY <1>14, <1>4 DEF Llseek, LlseekInvalid
  <2>2. result' \in ResultType
    BY <1>1, <1>2, <1>3, <1>4, <2>1, ReturnedType
  <2>3. f_pos' \in [Files -> Nat]
    <3>1. CASE Llseek(f, offset, whence)
      <4>1. SeekPos(f, offset, whence) \in Nat
        BY <3>1 DEF Llseek
      <4>2. f_pos' = [f_pos EXCEPT ![f] = SeekPos(f, offset, whence)]
        BY <3>1 DEF Llseek
      <4> QED BY <1>1, <4>1, <4>2
    <3>2. CASE LlseekInvalid(f, offset, whence)
      BY <1>1, <3>2 DEF LlseekInvalid
    <3> QED BY <1>14, <3>1, <3>2
  <2> QED BY <1>1, <1>2, <1>3, <1>14, <2>2, <2>3 DEF Llseek, LlseekInvalid
<1>15. ASSUME NEW f \in Files, NEW cmd \in Slots, NEW off \in SeekOffsets,
              IoctlSeekTo(f, cmd, off)
       PROVE  TypeOK'
  <2>1. f_pos' \in [Files -> Nat]
    BY <1>1, <1>2, <1>3, <1>15, SeekTargetType DEF IoctlSeekTo
  <2>2. result' \in ResultType
    BY <1>1, <1>2, <1>3, <1>4, <1>15, ReturnedType DEF IoctlSeekTo
  <2> QED BY <1>1, <1>2, <1>3, <1>15, <2>1, <2>2 DEF IoctlSeekTo
<1>16. ASSUME NEW f \in Files, IoctlInvalid(f) PROVE TypeOK'
  <2>1. PICK error \in Statuses : Returned(f, "ioctl", error, <<>>)
    BY <1>16, <1>4 DEF IoctlInvalid
  <2>2. result' \in ResultType
    BY <1>1, <1>2, <1>3, <1>4, <2>1, ReturnedType
  <2> QED BY <1>1, <1>2, <1>3, <1>16, <2>2 DEF IoctlInvalid
<1>17. CASE UNCHANGED vars
  BY <1>1, <1>2, <1>3, <1>17 DEF vars
<1>18. {"read", "write", "llseek", "ioctl"} \subseteq Calls
  BY <1>4
<1> QED
  BY <1>5, <1>6, <1>7, <1>8, <1>9, <1>10, <1>11, <1>12, <1>13, <1>14, <1>15, <1>16,
     <1>17, <1>18
     DEF Next, Read, Write, Seek

-----------------------------------------------------------------------------
(* The memory. *)

(* What the memory invariants say in any one state.                        *)
MemoryInv ==
  /\ BufferShape
  /\ BlocksOwnedOnce
  /\ SizesMatch
  /\ ReaderBlockLive
  /\ WriterUpToDate
  /\ StoredLines

(* Calls that leave the ring, the heap and the lock alone, and do not start *)
(* or finish a copy.                                                       *)
LEMMA QuietStep ==
  ASSUME Inv, TypeOK',
         buffer' = buffer, lock' = lock, heap' = heap, local' = local,
         \/ aesd_entry' = aesd_entry
         \/ aesd_entry.buffptr = NULL /\ aesd_entry'.buffptr = NULL,
         \A f \in Files :
           \/ pc'[f] = pc[f]
           \/ pc[f] \in {"closed", "open"} /\ pc'[f] \in {"closed", "open"}
  PROVE  MemoryInv'
<1>1. BufferShape'
  BY DEF Inv, BufferShape
<1>2. \A i \in Slots : Occupied(buffer', i) <=> Occupied(buffer, i)
  BY DEF Occupied
<1>3. BlocksOwnedOnce'
  BY <1>2 DEF Inv, BlocksOwnedOnce, Allocated
<1>4. SizesMatch' /\ StoredLines'
  BY <1>2 DEF Inv, SizesMatch, StoredLines
<1>5. ReaderBlockLive'
  BY <1>2 DEF Inv, ReaderBlockLive
<1>6. WriterUpToDate'
  BY DEF Inv, WriterUpToDate
<1> QED BY <1>1, <1>3, <1>4, <1>5, <1>6 DEF MemoryInv

(* Only the holder of the lock is in a copy.                               *)
LEMMA LockHolder ==
  ASSUME Inv, NEW f \in Files
  PROVE  /\ lock = NULL =>
              \A g \in Files : pc[g] \in {"closed", "open"}
         /\ pc[f] \notin {"closed", "open"} =>
              \A g \in Files \ {f} : pc[g] \in {"closed", "open"}
<1>1. \A g \in Files : pc[g] \notin {"closed", "open"} <=> lock = g
  BY DEF Inv, WriterUpToDate
<1>2. NULL \notin Files
  OBVIOUS
<1> QED BY <1>1, <1>2

(* A call that wakes leaves no call in a copy.                             *)
LEMMA WakeIdle ==
  ASSUME Inv, NEW f \in Files, pc[f] \notin {"closed", "open"}, Wake(f)
  PROVE  /\ lock' = NULL
         /\ \A g \in Files : pc'[g] \in {"closed", "open"}
         /\ ReaderBlockLive' /\ WriterUpToDate'
<1>1. \A g \in Files : pc'[g] \in {"closed", "open"}
  BY LockHolder DEF Wake, Inv, TypeOK
<1>2. lock' = NULL
  BY DEF Wake
<1> QED BY <1>1, <1>2 DEF ReaderBlockLive, WriterUpToDate

(* The memory invariants after each kind of step of a read or a write.     *)
LEMMA ReadBeginMemory ==
  ASSUME Inv, TypeOK', NEW f \in Files, NEW count \in Counts,
         ReadBegin(f, count)
  PROVE  MemoryInv'
<1> DEFINE place == FindEntry(buffer, f_pos[f])
           entry == buffer.entry[place.slot]
           btocopy == entry.size - place.offset
<1>1. /\ lock = NULL /\ lock' = f /\ pc[f] = "open"
      /\ pc' = [pc EXCEPT ![f] = "reading"]
      /\ local' = [local EXCEPT ![f] =
                     [block |-> entry.buffptr, skip |-> place.offset,
                      count |-> IF count > btocopy THEN btocopy ELSE count,
                      data |-> <<>>]]
      /\ UNCHANGED <<buffer, aesd_entry, heap>>
  BY DEF ReadBegin, CanLock, Sleep
<1>2. /\ place.slot \in Slots /\ place.offset \in 0 .. entry.size - 1
  <2>1. f_pos[f] \in Nat /\ place # NotFound /\ buffer \in BufferType
    BY DEF ReadBegin, Inv, TypeOK
  <2> QED BY <2>1, FindEntryFound
<1>3. /\ \A i \in Slots : Occupied(buffer', i) <=> Occupied(buffer, i)
      /\ entry \in EntryType /\ Occupied(buffer, place.slot)
  <2>1. entry \in EntryType
    BY <1>2 DEF Inv, TypeOK, BufferType
  <2>2. Occupied(buffer, place.slot)
    <3>1. CASE ~Occupied(buffer, place.slot)
      <4>1. entry = NoEntry
        BY <1>2, <3>1 DEF Inv, BufferShape, WellFormed
      <4> QED BY <1>2, <4>1 DEF NoEntry
    <3> QED BY <3>1
  <2> QED BY <1>1, <2>1, <2>2 DEF Occupied
<1> HIDE DEF place, entry, btocopy
<1>4. \A g \in Files : pc[g] \in {"closed", "open"}
  BY <1>1, LockHolder
<1>5. \A g \in Files : pc'[g] = IF g = f THEN "reading" ELSE pc[g]
  BY <1>1 DEF Inv, TypeOK
<1>6. BufferShape' /\ SizesMatch' /\ StoredLines'
  BY <1>1, <1>3 DEF Inv, BufferShape, SizesMatch, StoredLines
<1>7. BlocksOwnedOnce'
  <2>1. \A g \in Files : pc'[g] # "writing append"
    BY <1>4, <1>5
  <2> QED BY <1>1, <1>3, <2>1 DEF Inv, BlocksOwnedOnce, Allocated
<1>8. ReaderBlockLive'
  <2>1. /\ local'[f].block = entry.buffptr
        /\ local'[f].skip = place.offset
        /\ local'[f].count = IF count > btocopy THEN btocopy ELSE count
    BY <1>1 DEF Inv, TypeOK
  <2>2. /\ entry.size \in Nat /\ place.offset \in 0 .. entry.size - 1
        /\ count \in Nat \ {0}
    BY <1>2, <1>3 DEF EntryType
  <2>3. local'[f].count > 0 /\ local'[f].skip + local'[f].count <= entry.size
    BY <2>1, <2>2 DEF btocopy
  <2>4. \E i \in Slots : i = place.slot
    BY <1>2
  <2>5. /\ Occupied(buffer', place.slot)
        /\ buffer'.entry[place.slot] = entry
    BY <1>1, <1>3, <2>4 DEF entry
  <2>6. \A g \in Files : pc'[g] = "reading" => g = f
    BY <1>4, <1>5
  <2> QED BY <2>1, <2>3, <2>4, <2>5, <2>6 DEF ReaderBlockLive
<1>9. WriterUpToDate'
  <2>1. \A g \in Files : pc'[g] \notin {"closed", "open"} <=> lock' = g
    BY <1>1, <1>4, <1>5
  <2>2. \A g \in Files : pc'[g] \notin {"writing first", "writing append"}
    BY <1>4, <1>5
  <2> QED BY <2>1, <2>2 DEF WriterUpToDate
<1> QED BY <1>6, <1>8, <1>9, <1>7 DEF MemoryInv

(* Waking up in a read. *)
LEMMA ReadEndMemory ==
  ASSUME Inv, TypeOK', NEW f \in Files,
         ReadEnd(f) \/ ReadFault(f) \/ WriteFault(f)
  PROVE  MemoryInv'
<1>1. /\ pc[f] \notin {"closed", "open"} /\ Wake(f)
      /\ UNCHANGED <<buffer, aesd_entry, heap>>
  BY DEF ReadEnd, ReadFault, WriteFault
<1>2. /\ \A g \in Files : pc'[g] \in {"closed", "open"}
      /\ ReaderBlockLive' /\ WriterUpToDate'
  BY <1>1, WakeIdle
<1>3. \A i \in Slots : Occupied(buffer', i) <=> Occupied(buffer, i)
  BY <1>1 DEF Occupied
<1>4. BufferShape' /\ SizesMatch' /\ StoredLines'
  BY <1>1, <1>3 DEF Inv, BufferShape, SizesMatch, StoredLines
<1>5. BlocksOwnedOnce'
  BY <1>1, <1>2, <1>3 DEF Inv, BlocksOwnedOnce, Allocated
<1> QED BY <1>2, <1>4, <1>5 DEF MemoryInv

(* A write that starts, or has no memory. *)
LEMMA WriteBeginMemory ==
  ASSUME Inv, TypeOK', NEW f \in Files, NEW payload \in Payloads,
         WriteFirst(f, payload) \/ WriteAppend(f, payload)
  PROVE  MemoryInv'
<1>1. PICK b \in Blocks \ Allocated, where \in {"writing first", "writing append"} :
        /\ lock = NULL /\ lock' = f /\ pc[f] = "open"
        /\ pc' = [pc EXCEPT ![f] = where]
        /\ UNCHANGED buffer
        /\ \A c \in Blocks \ {b} : heap'[c] = heap[c]
        /\ heap'[b] \in Seq(Bytes)
        /\ local'[f].block = b
        /\ where = "writing first" =>
             /\ aesd_entry.buffptr = NULL
             /\ aesd_entry'.buffptr = b
             /\ aesd_entry'.size = 0
             /\ heap'[b] = <<>>
             /\ local'[f].count = Len(local'[f].data)
        /\ where = "writing append" =>
             /\ aesd_entry.buffptr # NULL
             /\ aesd_entry' = aesd_entry
             /\ heap'[b] = heap[aesd_entry.buffptr]
             /\ local'[f].count = aesd_entry.size + Len(local'[f].data)
        /\ local'[f].data \in Payloads
  <2>1. CASE WriteFirst(f, payload)
    <3>1. PICK b \in Blocks \ Allocated :
            /\ heap' = [heap EXCEPT ![b] = <<>>]
            /\ aesd_entry' = [buffptr |-> b, size |-> 0]
            /\ Sleep(f, "writing first",
                     [block |-> b, skip |-> 0, count |-> Len(payload),
                      data |-> payload])
      BY <2>1 DEF WriteFirst
    <3>2. lock = NULL /\ pc[f] = "open" /\ aesd_entry.buffptr = NULL
          /\ UNCHANGED buffer
      BY <2>1 DEF WriteFirst, CanLock
    <3>3. /\ local'[f].block = b /\ local'[f].count = Len(payload)
          /\ local'[f].data = payload
      BY <3>1 DEF Sleep, Inv, TypeOK
    <3>4. heap'[b] = <<>> /\ \A c \in Blocks \ {b} : heap'[c] = heap[c]
      BY <3>1 DEF Inv, TypeOK
    <3>5. <<>> \in Seq(Bytes)
      OBVIOUS
    <3>6. lock' = f /\ pc' = [pc EXCEPT ![f] = "writing first"]
      BY <3>1 DEF Sleep
    <3> QED BY <3>1, <3>2, <3>3, <3>4, <3>5, <3>6
  <2>2. CASE WriteAppend(f, payload)
    <3>1. PICK b \in Blocks \ Allocated :
            /\ heap' = [heap EXCEPT ![b] = Content(aesd_entry)]
            /\ Sleep(f, "writing append",
                     [block |-> b, skip |-> aesd_entry.size,
                      count |-> aesd_entry.size + Len(payload),
                      data |-> payload])
      BY <2>2 DEF WriteAppend
    <3>2. /\ lock = NULL /\ pc[f] = "open" /\ aesd_entry.buffptr # NULL
          /\ UNCHANGED <<buffer, aesd_entry>>
      BY <2>2 DEF WriteAppend, CanLock
    <3>3. /\ local'[f].block = b /\ local'[f].data = payload
          /\ local'[f].count = aesd_entry.size + Len(payload)
      BY <3>1 DEF Sleep, Inv, TypeOK
    <3>4. Content(aesd_entry) = heap[aesd_entry.buffptr]
          /\ heap[aesd_entry.buffptr] \in Seq(Bytes)
      <4>1. /\ heap[aesd_entry.buffptr] \in Seq(Bytes)
            /\ aesd_entry.buffptr \in Allocated
            /\ Len(heap[aesd_entry.buffptr]) = aesd_entry.size
        BY <3>2 DEF Inv, BlocksOwnedOnce, SizesMatch, Allocated, TypeOK
      <4> QED BY <4>1, WholeSubSeq DEF Content
    <3>5. heap'[b] = Content(aesd_entry) /\ \A c \in Blocks \ {b} : heap'[c] = heap[c]
      BY <3>1 DEF Inv, TypeOK
    <3> QED BY <3>1, <3>2, <3>3, <3>4, <3>5 DEF Sleep
  <2> QED BY <2>1, <2>2
<1>2. \A i \in Slots : Occupied(buffer', i) <=> Occupied(buffer, i)
  BY <1>1 DEF Occupied
<1>3. \A g \in Files : pc[g] \in {"closed", "open"}
  BY <1>1, LockHolder
<1>4. \A g \in Files : pc'[g] = IF g = f THEN where ELSE pc[g]
  BY <1>1 DEF Inv, TypeOK
<1>5. /\ b \in Blocks /\ heap[b] = FREE /\ b # NULL
      /\ heap'[b] # FREE
  BY <1>1 DEF Allocated
<1>6. /\ \A i \in Slots : buffer.entry[i].buffptr # b
      /\ aesd_entry.buffptr # b
  BY <1>5 DEF Inv, BlocksOwnedOnce, Allocated, Occupied
<1>7. /\ \A i \in Slots : Occupied(buffer, i) =>
           /\ buffer.entry[i].buffptr \in Blocks \ {b}
           /\ heap'[buffer.entry[i].buffptr] = heap[buffer.entry[i].buffptr]
      /\ aesd_entry.buffptr # NULL =>
           /\ aesd_entry.buffptr \in Blocks \ {b}
           /\ heap'[aesd_entry.buffptr] = heap[aesd_entry.buffptr]
  BY <1>1, <1>6 DEF Inv, BlocksOwnedOnce, Allocated
<1>8. BufferShape' /\ StoredLines'
  BY <1>1, <1>2, <1>7 DEF Inv, BufferShape, StoredLines
<1>9. SizesMatch'
  <2>1. \A i \in Slots : Occupied(buffer', i) =>
          Len(heap'[buffer'.entry[i].buffptr]) = buffer'.entry[i].size
    BY <1>1, <1>2, <1>7 DEF Inv, SizesMatch
  <2>2. CASE where = "writing first"
    <3>1. heap'[b] = <<>> /\ aesd_entry'.buffptr = b /\ aesd_entry'.size = 0
      BY <1>1, <2>2
    <3>2. Len(heap'[b]) = 0
      BY <3>1
    <3> QED BY <2>1, <3>1, <3>2 DEF SizesMatch
  <2>3. CASE where = "writing append"
    BY <1>1, <1>7, <2>1, <2>3 DEF Inv, SizesMatch
  <2> QED BY <1>1, <2>2, <2>3
<1>10. BlocksOwnedOnce'
  <2>1. \A i \in Slots : Occupied(buffer', i) =>
          /\ buffer'.entry[i].buffptr \in Allocated'
          /\ \A j \in Slots \ {i} :
               buffer'.entry[j].buffptr # buffer'.entry[i].buffptr
    BY <1>1, <1>2, <1>7 DEF Inv, BlocksOwnedOnce, Allocated
  <2>2. \A g \in Files : pc'[g] = "writing append" =>
          g = f /\ where = "writing append"
    BY <1>3, <1>4
  <2>3. CASE where = "writing first"
    <3>1. aesd_entry'.buffptr = b /\ b \in Allocated'
      BY <1>1, <1>5, <2>3 DEF Allocated
    <3>2. \A i \in Slots : buffer'.entry[i].buffptr # b
      BY <1>1, <1>6
    <3> QED BY <2>1, <2>2, <2>3, <3>1, <3>2 DEF BlocksOwnedOnce
  <2>4. CASE where = "writing append"
    <3>1. /\ aesd_entry'.buffptr = aesd_entry.buffptr
          /\ aesd_entry.buffptr \in Allocated'
          /\ \A i \in Slots : buffer'.entry[i].buffptr # aesd_entry'.buffptr
      BY <1>1, <1>7, <2>4 DEF Inv, BlocksOwnedOnce, Allocated
    <3>2. /\ local'[f].block = b /\ b \in Allocated'
          /\ b # aesd_entry'.buffptr
          /\ \A i \in Slots : buffer'.entry[i].buffptr # b
      BY <1>1, <1>5, <1>6, <3>1 DEF Allocated
    <3> QED BY <2>1, <2>2, <3>1, <3>2 DEF BlocksOwnedOnce
  <2> QED BY <1>1, <2>3, <2>4
<1>11. ReaderBlockLive'
  BY <1>1, <1>3, <1>4 DEF ReaderBlockLive
<1>12. WriterUpToDate'
  <2>1. \A g \in Files : pc'[g] \notin {"closed", "open"} <=> lock' = g
    BY <1>1, <1>3, <1>4
  <2>2. \A g \in Files : pc'[g] \in {"writing first", "writing append"} =>
          g = f /\ pc'[g] = where
    BY <1>3, <1>4
  <2>3. CASE where = "writing first"
    BY <1>1, <1>5, <2>1, <2>2, <2>3 DEF WriterUpToDate
  <2>4. CASE where = "writing append"
    BY <1>1, <1>7, <2>1, <2>2, <2>4 DEF WriterUpToDate
  <2> QED BY <1>1, <2>3, <2>4
<1> QED BY <1>8, <1>9, <1>10, <1>11, <1>12 DEF MemoryInv

(* A write that has copied its bytes into block b: the heap h holds them,   *)
(* and nothing else points to b.  Whether they complete a line or not, the *)
(* ring and the partial write stay in order.                               *)
LEMMA SendEntryMemory ==
  ASSUME Inv, NEW e \in EntryType, e.buffptr # NULL,
         NEW s \in Seq(Bytes), Len(s) = e.size,
         NEW h \in [Blocks -> Seq(Bytes) \cup {FREE}], h[e.buffptr] = s,
         \A i \in Slots : buffer.entry[i].buffptr # e.buffptr,
         \A i \in Slots : Occupied(buffer, i) =>
           h[buffer.entry[i].buffptr] = heap[buffer.entry[i].buffptr],
         SendEntryToCircularBuffer(e, s, h),
         \A g \in Files : pc'[g] \in {"closed", "open"}
  PROVE  BufferShape' /\ BlocksOwnedOnce' /\ SizesMatch' /\ StoredLines'
<1> DEFINE slot(i) == buffer.entry[i].buffptr
<1>1. /\ WellFormed(buffer) /\ buffer \in BufferType
      /\ buffer.in_offs \in Slots /\ e.buffptr \in Blocks
      /\ FREE \notin Seq(Bytes)
  BY DEF Inv, BufferShape, WellFormed, EntryType, BufferType
<1>2. \A i \in Slots : Occupied(buffer, i) =>
        /\ slot(i) \in Blocks /\ slot(i) # e.buffptr
        /\ h[slot(i)] \in Seq(Bytes)
        /\ Len(h[slot(i)]) = buffer.entry[i].size
        /\ IsLine(h[slot(i)])
        /\ \A j \in Slots \ {i} : slot(j) # slot(i)
  BY DEF Inv, TypeOK, BlocksOwnedOnce, SizesMatch, StoredLines, Allocated
<1>3. \A i \in Slots : ~Occupied(buffer, i) => slot(i) = NULL
  BY DEF Occupied
<1>4. CASE CheckCR(s) >= 0 /\ CheckCR(s) = e.size - 1
  <2>1. /\ buffer' = AddEntry(buffer, e)
        /\ aesd_entry' = NoEntry
        /\ heap' = kfree(h, Evicted(buffer))
    BY <1>4 DEF SendEntryToCircularBuffer
  <2>2. WellFormed(buffer')
    BY <1>1, <2>1, AddEntryWellFormed
  <2>3. IsLine(s)
    BY <1>4, CheckCRLine
  <2> DEFINE in == buffer.in_offs
  <2>4. \A i \in Slots :
          buffer'.entry[i] = IF i = in THEN e ELSE buffer.entry[i]
    BY <1>1, <2>1 DEF AddEntry, BufferType
  <2>5. \A i \in Slots : Occupied(buffer', i) <=> i = in \/ Occupied(buffer, i)
    BY <2>4 DEF Occupied
  <2>6. Evicted(buffer) \subseteq {slot(in)}
    BY DEF Evicted
  <2>7. /\ e.buffptr \notin Evicted(buffer)
        /\ \A i \in Slots \ {in} : Occupied(buffer, i) => slot(i) \notin Evicted(buffer)
    BY <1>1, <1>2, <2>6
  <2>8. /\ heap'[e.buffptr] = s
        /\ \A i \in Slots \ {in} : Occupied(buffer, i) => heap'[slot(i)] = h[slot(i)]
    BY <1>1, <1>2, <2>1, <2>7, KfreeContent
  <2>9. \A i \in Slots : Occupied(buffer', i) =>
          /\ buffer'.entry[i].buffptr \in Blocks
          /\ heap'[buffer'.entry[i].buffptr] \in Seq(Bytes)
          /\ Len(heap'[buffer'.entry[i].buffptr]) = buffer'.entry[i].size
          /\ IsLine(heap'[buffer'.entry[i].buffptr])
          /\ \A j \in Slots \ {i} :
               buffer'.entry[j].buffptr # buffer'.entry[i].buffptr
    <3>1. SUFFICES ASSUME NEW i \in Slots, Occupied(buffer', i)
          PROVE /\ buffer'.entry[i].buffptr \in Blocks
                /\ heap'[buffer'.entry[i].buffptr] \in Seq(Bytes)
                /\ Len(heap'[buffer'.entry[i].buffptr]) = buffer'.entry[i].size
                /\ IsLine(heap'[buffer'.entry[i].buffptr])
                /\ \A j \in Slots \ {i} :
                     buffer'.entry[j].buffptr # buffer'.entry[i].buffptr
      OBVIOUS
    <3>2. CASE i = in
      BY <1>1, <1>2, <1>3, <2>3, <2>4, <2>8, <3>2
    <3>3. CASE i # in
      <4>1. /\ Occupied(buffer, i) /\ buffer'.entry[i] = buffer.entry[i]
            /\ heap'[slot(i)] = h[slot(i)]
        BY <2>4, <2>5, <2>8, <3>1, <3>3
      <4>2. \A j \in Slots \ {i} : buffer'.entry[j].buffptr # slot(i)
        BY <1>2, <2>4, <4>1
      <4> QED BY <1>2, <4>1, <4>2
    <3> QED BY <3>2, <3>3
  <2>10. aesd_entry'.buffptr = NULL
    BY <2>1 DEF NoEntry
  <2>11. BufferShape'
    BY <2>2 DEF BufferShape
  <2>12. BlocksOwnedOnce'
    BY <1>1, <2>9, <2>10 DEF BlocksOwnedOnce, Allocated
  <2> QED BY <2>9, <2>10, <2>11, <2>12 DEF SizesMatch, StoredLines
<1>5. CASE ~(CheckCR(s) >= 0 /\ CheckCR(s) = e.size - 1)
  <2>1. buffer' = buffer /\ aesd_entry' = e /\ heap' = h
    BY <1>5 DEF SendEntryToCircularBuffer
  <2>2. \A i \in Slots : Occupied(buffer', i) <=> Occupied(buffer, i)
    BY <2>1 DEF Occupied
  <2>3. BufferShape'
    BY <1>1, <2>1 DEF BufferShape
  <2>4. BlocksOwnedOnce'
    BY <1>1, <1>2, <2>1, <2>2 DEF BlocksOwnedOnce, Allocated
  <2>5. SizesMatch' /\ StoredLines'
    BY <1>2, <2>1, <2>2 DEF SizesMatch, StoredLines
  <2> QED BY <2>3, <2>4, <2>5
<1> QED BY <1>4, <1>5

(* The partial write: nothing, or all the bytes of its block.              *)
LEMMA PartialValue ==
  Inv => /\ Content(aesd_entry) \in Seq(Bytes)
         /\ aesd_entry.buffptr = NULL => Content(aesd_entry) = <<>>
         /\ aesd_entry.buffptr # NULL =>
              Content(aesd_entry) = heap[aesd_entry.buffptr]
<1> SUFFICES ASSUME Inv
             PROVE  /\ Content(aesd_entry) \in Seq(Bytes)
                    /\ aesd_entry.buffptr = NULL => Content(aesd_entry) = <<>>
                    /\ aesd_entry.buffptr # NULL =>
                         Content(aesd_entry) = heap[aesd_entry.buffptr]
  OBVIOUS
<1>1. CASE aesd_entry.buffptr = NULL
  <2>1. Content(aesd_entry) = <<>>
    BY <1>1 DEF Content, Allocated
  <2> QED BY <1>1, <2>1
<1>2. CASE aesd_entry.buffptr # NULL
  <2>1. /\ aesd_entry.buffptr \in Allocated
        /\ Len(heap[aesd_entry.buffptr]) = aesd_entry.size
    BY <1>2 DEF Inv, BlocksOwnedOnce, SizesMatch
  <2>2. heap[aesd_entry.buffptr] \in Seq(Bytes)
    BY <2>1 DEF Inv, TypeOK, Allocated
  <2>3. Content(aesd_entry) = heap[aesd_entry.buffptr]
    BY <2>1, <2>2, WholeSubSeq DEF Content
  <2> QED BY <1>2, <2>2, <2>3
<1> QED BY <1>1, <1>2

(* A write that ends: its bytes follow those of the partial write, in a    *)
(* block no slot has; the partial write's old block is free, and every     *)
(* other block is as it was.                                               *)
LEMMA WriteEndCall ==
  ASSUME Inv, NEW f \in Files, WriteEnd(f)
  PROVE  \E e \in EntryType, s \in Seq(Bytes),
            h \in [Blocks -> Seq(Bytes) \cup {FREE}] :
           /\ e.buffptr = local[f].block /\ e.buffptr # NULL /\ e.size = Len(s)
           /\ local[f].data \in Payloads
           /\ s = Content(aesd_entry) \o local[f].data
           /\ h[e.buffptr] = s
           /\ \A i \in Slots : buffer.entry[i].buffptr # e.buffptr
           /\ \A i \in Slots : Occupied(buffer, i) =>
                h[buffer.entry[i].buffptr] = heap[buffer.entry[i].buffptr]
           /\ \A b \in Blocks \ {e.buffptr} :
                h[b] = IF b = aesd_entry.buffptr THEN FREE ELSE heap[b]
           /\ SendEntryToCircularBuffer(e, s, h)
<1> DEFINE e == [buffptr |-> local[f].block, size |-> local[f].count]
           s == heap[local[f].block] \o local[f].data
           full == [heap EXCEPT ![local[f].block] = s]
<1>1. pc[f] \in {"writing first", "writing append"}
  BY DEF WriteEnd
<1>2. /\ local[f].data \in Payloads
      /\ heap[local[f].block] = Content(aesd_entry)
  <2>1. /\ aesd_entry.buffptr # NULL /\ local[f].data \in Payloads
        /\ Content(aesd_entry) = heap[aesd_entry.buffptr]
    BY <1>1, PartialValue DEF Inv, WriterUpToDate
  <2> QED BY <1>1, <2>1 DEF Inv, WriterUpToDate
<1>3. /\ local[f].block \in Allocated /\ local[f].block # NULL
      /\ \A i \in Slots : buffer.entry[i].buffptr # local[f].block
      /\ local[f].count = Len(heap[local[f].block]) + Len(local[f].data)
      /\ pc[f] = "writing append" =>
           /\ aesd_entry.buffptr # local[f].block
           /\ \A i \in Slots : Occupied(buffer, i) =>
                buffer.entry[i].buffptr # aesd_entry.buffptr
  <2>1. aesd_entry.buffptr # NULL /\ local[f] \in LocalType
    BY <1>1 DEF Inv, WriterUpToDate, TypeOK
  <2>2. /\ aesd_entry.buffptr \in Allocated
        /\ Len(heap[aesd_entry.buffptr]) = aesd_entry.size
        /\ \A i \in Slots : buffer.entry[i].buffptr # aesd_entry.buffptr
    BY <2>1 DEF Inv, BlocksOwnedOnce, SizesMatch
  <2>3. CASE pc[f] = "writing first"
    <3>1. /\ aesd_entry.buffptr = local[f].block /\ aesd_entry.size = 0
          /\ local[f].count = Len(local[f].data)
      BY <2>3 DEF Inv, WriterUpToDate
    <3>2. Len(local[f].data) \in Nat
      BY <2>1 DEF LocalType
    <3>3. local[f].count = Len(heap[local[f].block]) + Len(local[f].data)
      <4>1. Len(heap[local[f].block]) = 0
        BY <2>2, <3>1
      <4> QED BY <3>1, <3>2, <4>1
    <3> QED BY <2>1, <2>2, <2>3, <3>1, <3>3
  <2>4. CASE pc[f] = "writing append"
    BY <2>1, <2>2, <2>4 DEF Inv, BlocksOwnedOnce, WriterUpToDate, Allocated
  <2> QED BY <1>1, <2>3, <2>4
<1>4. /\ heap \in [Blocks -> Seq(Bytes) \cup {FREE}]
      /\ heap[local[f].block] \in Seq(Bytes) /\ local[f].data \in Seq(Bytes)
      /\ local[f].block \in Blocks
  BY <1>3 DEF Inv, TypeOK, Allocated, LocalType
<1>5. s \in Seq(Bytes) /\ Len(s) = local[f].count
  <2>1. s \in Seq(Bytes) /\ Len(s) = Len(heap[local[f].block]) + Len(local[f].data)
    BY <1>4, ConcatProperties
  <2> HIDE DEF s
  <2> QED BY <1>3, <2>1
<1>6. e \in EntryType /\ e.buffptr = local[f].block /\ e.size = local[f].count
  <2>1. local[f].count \in Nat
    <3> HIDE DEF s
    <3>1. Len(s) \in Nat
      BY <1>5
    <3> QED BY <1>5, <3>1
  <2> QED BY <1>4, <2>1 DEF EntryType
<1>7. /\ full \in [Blocks -> Seq(Bytes) \cup {FREE}]
      /\ full[local[f].block] = s
      /\ \A b \in Blocks \ {local[f].block} : full[b] = heap[b]
  BY <1>4, <1>5
<1>8. \A i \in Slots : Occupied(buffer, i) => buffer.entry[i].buffptr \in Blocks
  BY DEF Inv, BlocksOwnedOnce, Allocated
<1>9. PICK h \in [Blocks -> Seq(Bytes) \cup {FREE}] :
        /\ SendEntryToCircularBuffer(e, s, h)
        /\ h[local[f].block] = s
        /\ \A i \in Slots : Occupied(buffer, i) =>
             h[buffer.entry[i].buffptr] = heap[buffer.entry[i].buffptr]
        /\ \A b \in Blocks \ {local[f].block} :
             h[b] = IF b = aesd_entry.buffptr THEN FREE ELSE heap[b]
  <2>1. CASE pc[f] = "writing first"
    <3>1. SendEntryToCircularBuffer(e, s, full)
      BY <2>1 DEF WriteEnd
    <3>2. aesd_entry.buffptr = local[f].block
      BY <2>1 DEF Inv, WriterUpToDate
    <3> HIDE DEF e, s, full
    <3> QED BY <1>3, <1>7, <1>8, <3>1, <3>2
  <2>2. CASE pc[f] = "writing append"
    <3> DEFINE h == kfree(full, {aesd_entry.buffptr})
    <3>1. SendEntryToCircularBuffer(e, s, h)
      BY <2>2 DEF WriteEnd
    <3>2. /\ h \in [Blocks -> Seq(Bytes) \cup {FREE}]
          /\ \A b \in Blocks \ {aesd_entry.buffptr} : h[b] = full[b]
      BY <1>7, KfreeContent
    <3>3. \A b \in Blocks : b = aesd_entry.buffptr => h[b] = FREE
      BY DEF kfree
    <3> HIDE DEF e, s, full, h
    <3>4. h[local[f].block] = s
      BY <1>3, <1>4, <1>7, <2>2, <3>2
    <3>5. \A i \in Slots : Occupied(buffer, i) =>
            h[buffer.entry[i].buffptr] = heap[buffer.entry[i].buffptr]
      <4>1. \A i \in Slots : Occupied(buffer, i) =>
              buffer.entry[i].buffptr
                \in Blocks \ {aesd_entry.buffptr, local[f].block}
        BY <1>3, <1>8, <2>2
      <4> QED BY <1>7, <3>2, <4>1
    <3>6. \A b \in Blocks \ {local[f].block} :
            h[b] = IF b = aesd_entry.buffptr THEN FREE ELSE heap[b]
      BY <1>7, <3>2, <3>3
    <3> QED BY <3>1, <3>2, <3>4, <3>5, <3>6
  <2> QED BY <1>1, <2>1, <2>2
<1>10. /\ e.buffptr # NULL /\ e.size = Len(s) /\ h[e.buffptr] = s
       /\ \A b \in Blocks \ {e.buffptr} :
            h[b] = IF b = aesd_entry.buffptr THEN FREE ELSE heap[b]
  BY <1>3, <1>5, <1>6, <1>9
<1>11. /\ s = Content(aesd_entry) \o local[f].data
       /\ \A i \in Slots : buffer.entry[i].buffptr # e.buffptr
  BY <1>2, <1>3, <1>6
<1> HIDE DEF e, s, full
<1> QED BY <1>2, <1>5, <1>6, <1>9, <1>10, <1>11

(* A write that wakes up. *)
LEMMA WriteEndMemory ==
  ASSUME Inv, TypeOK', NEW f \in Files, WriteEnd(f)
  PROVE  MemoryInv'
<1>1. pc[f] \in {"writing first", "writing append"} /\ Wake(f)
  BY DEF WriteEnd
<1>2. /\ \A g \in Files : pc'[g] \in {"closed", "open"}
      /\ ReaderBlockLive' /\ WriterUpToDate'
  BY <1>1, WakeIdle
<1>3. BufferShape' /\ BlocksOwnedOnce' /\ SizesMatch' /\ StoredLines'
  BY <1>2, WriteEndCall, SendEntryMemory
<1> QED BY <1>2, <1>3 DEF MemoryInv

-----------------------------------------------------------------------------
(* The theorems. *)

(* Every call, and every half of one, keeps it. *)
LEMMA NextInv == Inv /\ [Next]_vars => Inv'
<1> SUFFICES ASSUME Inv, [Next]_vars PROVE Inv'
  OBVIOUS
<1>1. TypeOK'
  BY TypeStep
<1>2. ASSUME NEW f \in Files, Open(f) \/ Release(f) \/ ReadEOF(f)
      PROVE MemoryInv'
  <2>1. /\ buffer' = buffer /\ lock' = lock /\ heap' = heap /\ local' = local
        /\ aesd_entry' = aesd_entry
        /\ pc[f] \in {"closed", "open"}
        /\ pc' = pc \/ pc' = [pc EXCEPT ![f] = "open"]
                    \/ pc' = [pc EXCEPT ![f] = "closed"]
    BY <1>2 DEF Open, Release, ReadEOF, CanLock
  <2>2. \A g \in Files :
          \/ pc'[g] = pc[g]
          \/ pc[g] \in {"closed", "open"} /\ pc'[g] \in {"closed", "open"}
    BY <2>1 DEF Inv, TypeOK
  <2> QED BY <1>1, <2>1, <2>2, QuietStep
<1>3. ASSUME NEW f \in Files, NEW call, Contend(f, call) PROVE MemoryInv'
  <2>1. /\ buffer' = buffer /\ lock' = lock /\ heap' = heap /\ local' = local
        /\ aesd_entry' = aesd_entry /\ pc' = pc
    BY <1>3 DEF Contend
  <2> QED BY <1>1, <2>1, QuietStep
<1>4. ASSUME NEW f \in Files, WriteNoMemory(f) PROVE MemoryInv'
  <2>1. /\ buffer' = buffer /\ lock' = lock /\ heap' = heap /\ local' = local
        /\ pc' = pc
        /\ \/ aesd_entry' = aesd_entry
           \/ aesd_entry.buffptr = NULL /\ aesd_entry'.buffptr = NULL
    BY <1>4 DEF WriteNoMemory, NoEntry
  <2> QED BY <1>1, <2>1, QuietStep
<1>5. ASSUME NEW f \in Files, Seek(f) PROVE MemoryInv'
  <2>1. /\ buffer' = buffer /\ lock' = lock /\ heap' = heap /\ local' = local
        /\ aesd_entry' = aesd_entry /\ pc' = pc
    BY <1>5 DEF Seek, Llseek, LlseekInvalid, IoctlSeekTo, IoctlInvalid
  <2> QED BY <1>1, <2>1, QuietStep
<1>6. ASSUME NEW f \in Files, Read(f) PROVE MemoryInv'
  BY <1>1, <1>2, <1>6, ReadBeginMemory, ReadEndMemory DEF Read
<1>7. ASSUME NEW f \in Files, Write(f) PROVE MemoryInv'
  BY <1>1, <1>4, <1>7, WriteBeginMemory, WriteEndMemory, ReadEndMemory DEF Write
<1>8. ASSUME UNCHANGED vars PROVE MemoryInv'
  <2>1. /\ buffer' = buffer /\ lock' = lock /\ heap' = heap /\ local' = local
        /\ aesd_entry' = aesd_entry /\ pc' = pc
    BY <1>8 DEF vars
  <2>2. \A g \in Files : pc'[g] = pc[g]
    BY <2>1
  <2> QED BY <1>1, <2>1, <2>2, QuietStep
<1>9. ASSUME Next PROVE MemoryInv'
  <2>1. PICK f \in Files :
          \/ Open(f) \/ Release(f)
          \/ Read(f) \/ Write(f) \/ Seek(f)
          \/ \E call \in {"read", "write", "llseek", "ioctl"} : Contend(f, call)
    BY <1>9 DEF Next
  <2>2. CASE Open(f) \/ Release(f)
    BY <1>2, <2>2
  <2>3. CASE \E call \in {"read", "write", "llseek", "ioctl"} : Contend(f, call)
    BY <1>3, <2>3
  <2> QED BY <1>5, <1>6, <1>7, <2>1, <2>2, <2>3
<1> QED BY <1>1, <1>8, <1>9 DEF Inv, MemoryInv

(* The invariant holds in every state of the driver, whoever calls it. *)
THEOREM InvHolds == Spec => []Inv
<1>1. Init => Inv
  BY InitInv
<1>2. Inv /\ [Next]_vars => Inv'
  BY NextInv
<1> QED BY <1>1, <1>2, PTL DEF Spec

(* Types, for every value of the constants.                                *)
THEOREM TypeCorrect == Spec => []TypeOK
<1>1. Inv => TypeOK
  BY DEF Inv
<1> QED BY <1>1, InvHolds, PTL

(* The offsets, the flag and the slots of the ring always agree.           *)
THEOREM RingWellFormed == Spec => []BufferShape
<1>1. Inv => BufferShape
  BY DEF Inv
<1> QED BY <1>1, InvHolds, PTL

(* No use after free and no double free, whichever calls sleep in a copy   *)
(* while others run.                                                       *)
THEOREM MemorySafe == Spec => []BlocksOwnedOnce
<1>1. Inv => BlocksOwnedOnce
  BY DEF Inv
<1> QED BY <1>1, InvHolds, PTL

(* No entry claims bytes its block does not have, whatever copy failed.    *)
THEOREM SizesAgree == Spec => []SizesMatch
<1>1. Inv => SizesMatch
  BY DEF Inv
<1> QED BY <1>1, InvHolds, PTL

(* The block a sleeping reader copies from is a slot's until it wakes, and *)
(* what it copies is inside the block.                                     *)
THEOREM ReaderSafe == Spec => []ReaderBlockLive
<1>1. Inv => ReaderBlockLive
  BY DEF Inv
<1> QED BY <1>1, InvHolds, PTL

(* A writer never acts on a stale view of the partial write.               *)
THEOREM WriterNotStale == Spec => []WriterUpToDate
<1>1. Inv => WriterUpToDate
  BY DEF Inv
<1> QED BY <1>1, InvHolds, PTL

(* Only complete lines reach the ring.                                     *)
THEOREM OnlyLines == Spec => []StoredLines
<1>1. Inv => StoredLines
  BY DEF Inv
<1> QED BY <1>1, InvHolds, PTL

(* A position computed by the ioctl is found again in the slot it names,   *)
(* at the byte it names: the two walks of the ring agree for any MaxOps.   *)
THEOREM SeekAgreesWithFind == Spec => []SeekFindsSlot
<1>1. Inv => SeekFindsSlot
  <2>1. SUFFICES ASSUME Inv, NEW cmd \in Slots,
                        NEW off \in 0 .. buffer.entry[cmd].size - 1,
                        SizesUpTo(buffer, cmd) + off < Uint32
                 PROVE  FindEntry(buffer, SeekTarget(cmd, off))
                          = [slot |-> cmd, offset |-> off]
    BY DEF SeekFindsSlot
  <2>2. buffer \in BufferType
    BY <2>1 DEF Inv, TypeOK
  <2>3. SizesUpTo(buffer, cmd) \in Nat
    <3>1. (cmd - buffer.out_offs) % MaxOps \in 0 .. MaxOps
      BY <2>2, SlotPlace DEF Slots
    <3> QED BY <2>2, <3>1, BeforeStep DEF SizesUpTo
  <2>4. SeekTarget(cmd, off) = SizesUpTo(buffer, cmd) + off
    <3> DEFINE n == SizesUpTo(buffer, cmd) + off
    <3>1. \A k \in Nat, m \in Nat \ {0} : k < m => k % m = k
      OBVIOUS
    <3>2. buffer.entry[cmd].size \in Nat
      BY <2>1, <2>2 DEF BufferType, EntryType
    <3>3. n \in Nat
      BY <2>1, <2>3, <3>2
    <3>4. n < Uint32 /\ SeekTarget(cmd, off) = n % Uint32
      BY <2>1 DEF SeekTarget
    <3> HIDE DEF n
    <3>5. n % Uint32 = n
      BY <3>1, <3>3, <3>4
    <3> QED BY <3>4, <3>5 DEF n
  <2> QED BY <2>2, <2>4, FindEntryOfSlot
<1> QED BY <1>1, InvHolds, PTL

(* A newline inside the partial write stays there, and keeps the ring as   *)
(* it is.                                                                  *)
LEMMA PoisonStep ==
  Inv /\ [Next]_vars => (Poisoned => Poisoned' /\ buffer' = buffer)
<1> SUFFICES ASSUME Inv, [Next]_vars, Poisoned
             PROVE  Poisoned' /\ buffer' = buffer
  OBVIOUS
<1> DEFINE p == aesd_entry.buffptr
<1>1. PICK i \in 1 .. Len(Content(aesd_entry)) - 1 : Content(aesd_entry)[i] = NL
  BY DEF Poisoned
<1>2. p \in Allocated
  <2>1. CASE p \notin Allocated
    <3>1. Content(aesd_entry) = <<>>
      BY <2>1 DEF Content
    <3> QED BY <1>1, <3>1
  <2> QED BY <2>1
<1>3. /\ p # NULL /\ p \in Blocks
      /\ heap[p] \in Seq(Bytes) /\ Content(aesd_entry) = heap[p]
  <2>1. p \in Blocks /\ heap[p] \in Seq(Bytes) /\ p # NULL
    BY <1>2 DEF Allocated, Inv, TypeOK
  <2>2. Len(heap[p]) = aesd_entry.size
    BY <2>1 DEF Inv, SizesMatch
  <2> QED BY <1>2, <2>1, <2>2, WholeSubSeq DEF Content
<1>4. heap[p][i] = NL /\ i \in 1 .. Len(heap[p]) - 1
  BY <1>1, <1>3
<1>5. ASSUME aesd_entry' = aesd_entry, heap'[p] = heap[p], buffer' = buffer
      PROVE  Poisoned' /\ buffer' = buffer
  <2>1. Content(aesd_entry)' = Content(aesd_entry)
    BY <1>2, <1>5 DEF Content, Allocated
  <2> QED BY <1>1, <1>5, <2>1 DEF Poisoned
<1>6. ASSUME NEW f \in Files, NEW payload \in Payloads, WriteAppend(f, payload)
      PROVE  heap'[p] = heap[p]
  <2>1. PICK b \in Blocks \ Allocated :
          heap' = [heap EXCEPT ![b] = Content(aesd_entry)]
    BY <1>6 DEF WriteAppend
  <2> QED BY <1>2, <1>3, <2>1 DEF Inv, TypeOK
<1>7. ASSUME NEW f \in Files, WriteEnd(f) PROVE Poisoned' /\ buffer' = buffer
  <2> DEFINE b == local[f].block
             e == [buffptr |-> b, size |-> local[f].count]
             s == heap[b] \o local[f].data
             full == [heap EXCEPT ![b] = s]
  <2> HIDE DEF s
  <2>1. pc[f] # "writing first"
    <3>1. Len(heap[p]) = aesd_entry.size
      BY <1>3 DEF Inv, SizesMatch
    <3>2. aesd_entry.size # 0
      BY <1>4, <3>1
    <3> QED BY <3>2 DEF Inv, WriterUpToDate
  <2>2. pc[f] = "writing append"
    BY <1>7, <2>1 DEF WriteEnd
  <2>3. /\ b \in Blocks /\ b # p /\ b \in Allocated
        /\ heap[b] = heap[p]
        /\ local[f].count = aesd_entry.size + Len(local[f].data)
        /\ local[f].data \in Seq(Bytes)
    BY <2>2 DEF Inv, WriterUpToDate, BlocksOwnedOnce, Allocated
  <2>4. /\ s \in Seq(Bytes) /\ Len(s) = Len(heap[p]) + Len(local[f].data)
        /\ i \in 1 .. Len(s) /\ i \in 1 .. Len(s) - 1 /\ s[i] = NL
        /\ i - 1 < Len(s) - 1
    <3> DEFINE h == heap[p]
               d == local[f].data
    <3>1. h \in Seq(Bytes) /\ d \in Seq(Bytes) /\ s = h \o d
      BY <1>3, <2>3 DEF s
    <3>2. Len(h) \in Nat /\ Len(d) \in Nat
      BY <3>1
    <3>3. h[i] = NL /\ i \in 1 .. Len(h) - 1
      BY <1>4
    <3> HIDE DEF h, d
    <3>4. i \in 1 .. Len(h) + Len(d) - 1 /\ i \in 1 .. Len(h)
      BY <3>2, <3>3
    <3>5. s \in Seq(Bytes) /\ Len(s) = Len(h) + Len(d) /\ s[i] = h[i]
      BY <3>1, <3>2, <3>4, ConcatProperties
    <3>6. i \in 1 .. Len(s) /\ i \in 1 .. Len(s) - 1 /\ i - 1 < Len(s) - 1
      <4>1. /\ i \in 1 .. Len(h) + Len(d)
            /\ i \in 1 .. Len(h) + Len(d) - 1
            /\ i - 1 < Len(h) + Len(d) - 1
        BY <3>2, <3>4
      <4> QED BY <3>5, <4>1
    <3>7. s[i] = NL
      BY <3>3, <3>5
    <3> QED BY <3>5, <3>6, <3>7 DEF h, d
  <2>5. local[f].count = Len(s)
    BY <1>3, <2>3, <2>4 DEF Inv, SizesMatch
  <2>6. ~(CheckCR(s) >= 0 /\ CheckCR(s) = e.size - 1)
    <3>1. CheckCR(s) \in 0 .. i - 1
      BY <2>4, CheckCRFirst
    <3>2. e.size = Len(s)
      BY <2>5
    <3>3. i \in Nat
      BY <2>4
    <3> HIDE DEF e
    <3>4. CheckCR(s) < e.size - 1
      <4>1. CheckCR(s) <= i - 1 /\ CheckCR(s) \in Int
        BY <3>1, <3>3
      <4>2. i - 1 < e.size - 1
        BY <2>4, <3>2
      <4>3. e.size \in Int
        BY <2>4, <3>2
      <4> QED BY <3>3, <4>1, <4>2, <4>3
    <3> QED BY <3>1, <3>4
  <2>7. SendEntryToCircularBuffer(e, s, kfree(full, {p}))
    BY <1>7, <2>2 DEF WriteEnd, s
  <2>8. buffer' = buffer /\ aesd_entry' = e /\ heap' = kfree(full, {p})
    BY <2>6, <2>7 DEF SendEntryToCircularBuffer
  <2>9. heap'[b] = s
    BY <2>3, <2>8 DEF kfree, Inv, TypeOK
  <2>10. Content(aesd_entry)' = s
    <3>1. b \in Allocated'
      BY <2>3, <2>4, <2>9 DEF Allocated
    <3>2. Content(aesd_entry)' = SubSeq(heap'[b], 1, local[f].count)
      BY <2>8, <3>1 DEF Content
    <3> QED BY <2>4, <2>5, <2>9, <3>2, WholeSubSeq
  <2>11. \E k \in 1 .. Len(s) - 1 : s[k] = NL
    BY <2>4
  <2>12. Poisoned'
    <3> HIDE DEF full
    <3> QED BY <2>10, <2>11 DEF Poisoned
  <2> QED BY <2>8, <2>12
<1>8. ASSUME NEW f \in Files, Write(f) PROVE Poisoned' /\ buffer' = buffer
  <2>1. ASSUME NEW payload \in Payloads, WriteFirst(f, payload) PROVE FALSE
    BY <1>3, <2>1 DEF WriteFirst
  <2>2. ASSUME NEW payload \in Payloads, WriteAppend(f, payload)
        PROVE  Poisoned' /\ buffer' = buffer
    BY <1>5, <1>6, <2>2 DEF WriteAppend
  <2>3. CASE WriteNoMemory(f)
    BY <1>3, <1>5, <2>3 DEF WriteNoMemory
  <2>4. CASE WriteFault(f)
    BY <1>5, <2>4 DEF WriteFault
  <2> QED BY <1>7, <1>8, <2>1, <2>2, <2>3, <2>4 DEF Write
<1>9. ASSUME NEW f \in Files, NEW call,
             Open(f) \/ Release(f) \/ Read(f) \/ Seek(f) \/ Contend(f, call)
      PROVE  Poisoned' /\ buffer' = buffer
  <2>1. buffer' = buffer /\ aesd_entry' = aesd_entry /\ heap' = heap
    BY <1>9 DEF Open, Release, Read, ReadEOF, ReadBegin, ReadEnd, ReadFault,
                Seek, Llseek, LlseekInvalid, IoctlSeekTo, IoctlInvalid, Contend
  <2> QED BY <1>5, <2>1
<1>10. CASE UNCHANGED vars
  BY <1>5, <1>10 DEF vars
<1>11. CASE Next
  <2>1. PICK f \in Files :
          \/ Open(f) \/ Release(f)
          \/ Read(f) \/ Write(f) \/ Seek(f)
          \/ \E call \in {"read", "write", "llseek", "ioctl"} : Contend(f, call)
    BY <1>11 DEF Next
  <2> QED BY <1>8, <1>9, <2>1
<1> QED BY <1>10, <1>11

(* Once a write has left a newline inside the partial write, no later call *)
(* of any file adds anything to the ring.                                  *)
THEOREM PoisonIsForever == Spec => PoisonedForever
<1>1. Inv /\ [Next]_vars => [Poisoned => Poisoned' /\ buffer' = buffer]_vars
  BY PoisonStep
<1> QED BY <1>1, InvHolds, PTL DEF Spec, PoisonedForever

-----------------------------------------------------------------------------
(* The refinement of AesdLog. *)

(* What a reader sees: the blocks of the slots, in reading order.          *)
LEMMA WindowValue ==
  Inv => /\ Count(buffer) \in 0 .. MaxOps
         /\ Window \in Seq(Seq(Bytes))
         /\ Len(Window) = Count(buffer)
         /\ \A k \in 1 .. Count(buffer) :
              Window[k] = heap[buffer.entry[NthSlot(buffer, k-1)].buffptr]
<1> SUFFICES ASSUME Inv
             PROVE  /\ Count(buffer) \in 0 .. MaxOps
                    /\ Window \in Seq(Seq(Bytes))
                    /\ Len(Window) = Count(buffer)
                    /\ \A k \in 1 .. Count(buffer) :
                         Window[k]
                           = heap[buffer.entry[NthSlot(buffer, k-1)].buffptr]
  OBVIOUS
<1>1. /\ Count(buffer) \in 0 .. MaxOps
      /\ \A k \in 0 .. Count(buffer) - 1 :
           NthSlot(buffer, k) \in Slots /\ Occupied(buffer, NthSlot(buffer, k))
  BY CountValue DEF Inv, BufferShape
<1>2. ASSUME NEW k \in 1 .. Count(buffer)
      PROVE  /\ Content(buffer.entry[NthSlot(buffer, k-1)])
                  = heap[buffer.entry[NthSlot(buffer, k-1)].buffptr]
             /\ heap[buffer.entry[NthSlot(buffer, k-1)].buffptr] \in Seq(Bytes)
  <2> DEFINE i == NthSlot(buffer, k-1)
             e == buffer.entry[i]
  <2>1. i \in Slots /\ Occupied(buffer, i)
    <3>1. k - 1 \in 0 .. Count(buffer) - 1
      BY <1>1
    <3> QED BY <1>1, <3>1
  <2>2. e.buffptr \in Allocated /\ Len(heap[e.buffptr]) = e.size
    BY <2>1 DEF Inv, BlocksOwnedOnce, SizesMatch
  <2>3. heap[e.buffptr] \in Seq(Bytes)
    BY <2>2 DEF Inv, TypeOK, Allocated
  <2> HIDE DEF e
  <2>4. Content(e) = heap[e.buffptr]
    BY <2>2, <2>3, WholeSubSeq DEF Content
  <2> QED BY <2>3, <2>4 DEF e
<1>3. \A k \in 1 .. Count(buffer) :
        /\ Window[k] = heap[buffer.entry[NthSlot(buffer, k-1)].buffptr]
        /\ Window[k] \in Seq(Bytes)
  BY <1>2 DEF Window
<1>4. Window = [k \in 1 .. Count(buffer) |-> Window[k]]
  BY DEF Window
<1> HIDE DEF Window
<1>5. Window \in [1 .. Count(buffer) -> Seq(Bytes)]
  BY <1>3, <1>4
<1>6. Window \in Seq(Seq(Bytes)) /\ Len(Window) = Count(buffer)
  BY <1>1, <1>5
<1> QED BY <1>1, <1>3, <1>6

(* The window is that of the ring and of the blocks of its slots.          *)
LEMMA WindowSame ==
  ASSUME Inv, Inv', buffer' = buffer,
         \A i \in Slots : Occupied(buffer, i) =>
           heap'[buffer.entry[i].buffptr] = heap[buffer.entry[i].buffptr]
  PROVE  Window' = Window
<1> DEFINE Block(k) == buffer.entry[NthSlot(buffer, k-1)].buffptr
<1>1. /\ Window \in Seq(Seq(Bytes)) /\ Len(Window) = Count(buffer)
      /\ \A k \in 1 .. Count(buffer) : Window[k] = heap[Block(k)]
      /\ Count(buffer) \in Nat
  BY WindowValue
<1>2. (/\ Window \in Seq(Seq(Bytes)) /\ Len(Window) = Count(buffer)
       /\ \A k \in 1 .. Count(buffer) :
            Window[k] = heap[buffer.entry[NthSlot(buffer, k-1)].buffptr])'
  BY WindowValue, PTL
<1>3. /\ Window' \in Seq(Seq(Bytes)) /\ Len(Window') = Count(buffer)
      /\ \A k \in 1 .. Count(buffer) : Window'[k] = heap'[Block(k)]
  BY <1>2
<1>4. \A k \in 1 .. Count(buffer) : heap'[Block(k)] = heap[Block(k)]
  <2>1. \A k \in 1 .. Count(buffer) : k - 1 \in 0 .. Count(buffer) - 1
    BY <1>1
  <2>2. \A k \in 1 .. Count(buffer) :
          /\ NthSlot(buffer, k-1) \in Slots
          /\ Occupied(buffer, NthSlot(buffer, k-1))
    BY <2>1, CountValue DEF Inv, BufferShape
  <2> QED BY <2>2
<1> HIDE DEF Window, Block
<1>5. \A k \in 1 .. Count(buffer) : Window'[k] = Window[k]
  BY <1>1, <1>3, <1>4
<1> QED BY <1>1, <1>3, <1>5

(* A step that leaves the ring, the blocks of its slots and the bytes of   *)
(* the partial write alone is invisible in the log.                        *)
LEMMA LogQuiet ==
  ASSUME Inv, Inv', buffer' = buffer,
         \A i \in Slots : Occupied(buffer, i) =>
           heap'[buffer.entry[i].buffptr] = heap[buffer.entry[i].buffptr],
         Content(aesd_entry)' = Content(aesd_entry)
  PROVE  UNCHANGED Log!vars
<1>1. Window' = Window
  BY WindowSame
<1> HIDE DEF Window
<1> QED BY <1>1 DEF Log!vars

(* The first newline of a line is its last byte.                           *)
LEMMA LineCheckCR ==
  ASSUME NEW s \in Seq(Bytes), IsLine(s)
  PROVE  CheckCR(s) = Len(s) - 1 /\ CheckCR(s) >= 0
<1>1. Len(s) \in Nat \ {0} /\ s[Len(s)] = NL
  BY DEF IsLine
<1> DEFINE IsFirst(n) == s[n] = NL /\ \A j \in 1 .. n - 1 : s[j] # NL
           first == CHOOSE n \in 1 .. Len(s) : IsFirst(n)
<1>2. CheckCR(s) = IF \E n \in 1 .. Len(s) : IsFirst(n) THEN first - 1 ELSE -1
  BY DEF CheckCR
<1>3. Len(s) \in 1 .. Len(s) /\ IsFirst(Len(s))
  BY <1>1 DEF IsLine
<1>4. \A n \in 1 .. Len(s) : IsFirst(n) => n = Len(s)
  <2>1. \A n \in 1 .. Len(s) : n # Len(s) => n \in 1 .. Len(s) - 1
    BY <1>1
  <2> QED BY <2>1 DEF IsLine
<1>5. first = Len(s) /\ CheckCR(s) = first - 1
  <2> HIDE DEF IsFirst
  <2>1. first \in 1 .. Len(s) /\ IsFirst(first)
    BY <1>3
  <2> HIDE DEF first
  <2> QED BY <1>2, <1>3, <1>4, <2>1
<1> HIDE DEF first
<1> QED BY <1>1, <1>5

(* What a write is in the log. *)
LogWrite(payload) ==
  Log!Extend(payload) \/ Log!Complete(payload) \/ Log!Replace(payload)

(* A write that ends appends its bytes to the partial write; a complete    *)
(* line enters the window at its end, and the oldest leaves a full window. *)
LEMMA LogWriteEnd ==
  ASSUME Inv, Inv', NEW f \in Files, WriteEnd(f)
  PROVE  /\ local[f].data \in Payloads
         /\ LogWrite(local[f].data)
<1> DEFINE Slot(i) == buffer.entry[i].buffptr
           payload == local[f].data
<1>1. PICK e \in EntryType, s \in Seq(Bytes),
           h \in [Blocks -> Seq(Bytes) \cup {FREE}] :
        /\ payload \in Payloads
        /\ e.buffptr # NULL /\ e.size = Len(s)
        /\ s = Content(aesd_entry) \o payload
        /\ h[e.buffptr] = s
        /\ \A i \in Slots : Slot(i) # e.buffptr
        /\ \A i \in Slots : Occupied(buffer, i) => h[Slot(i)] = heap[Slot(i)]
        /\ SendEntryToCircularBuffer(e, s, h)
  BY WriteEndCall
<1>2. Len(s) \in Nat /\ e.buffptr \in Blocks
  BY <1>1 DEF EntryType
<1>3. CheckCR(s) >= 0 /\ CheckCR(s) = e.size - 1 <=> IsLine(s)
  BY <1>1, CheckCRLine, LineCheckCR
<1>4. Log!IsLine(s) <=> IsLine(s)
  BY DEF Log!IsLine, IsLine
<1>5. /\ Count(buffer) \in 0 .. MaxOps
      /\ Window \in Seq(Seq(Bytes)) /\ Len(Window) = Count(buffer)
      /\ \A k \in 1 .. Count(buffer) :
           Window[k] = heap[Slot(NthSlot(buffer, k-1))]
  BY WindowValue
<1>6. (/\ Count(buffer) \in 0 .. MaxOps
       /\ Window \in Seq(Seq(Bytes)) /\ Len(Window) = Count(buffer)
       /\ \A k \in 1 .. Count(buffer) :
            Window[k] = heap[buffer.entry[NthSlot(buffer, k-1)].buffptr])'
  BY WindowValue, PTL
<1>7. /\ Window' \in Seq(Seq(Bytes)) /\ Len(Window') = Count(buffer')
      /\ \A k \in 1 .. Count(buffer') :
           Window'[k] = heap'[buffer'.entry[NthSlot(buffer', k-1)].buffptr]
  BY <1>6
<1>8. CASE ~IsLine(s)
  <2>1. buffer' = buffer /\ aesd_entry' = e /\ heap' = h
    BY <1>1, <1>3, <1>8 DEF SendEntryToCircularBuffer
  <2>2. Content(aesd_entry)' = s
    <3>1. (aesd_entry.buffptr # NULL =>
            Content(aesd_entry) = heap[aesd_entry.buffptr])'
      BY PartialValue, PTL
    <3> QED BY <1>1, <2>1, <3>1
  <2>3. Window' = Window
    BY <1>1, <2>1, WindowSame
  <2>4. Log!Extend(payload)
    BY <1>1, <1>4, <1>8, <2>1, <2>2, <2>3 DEF Log!Extend
  <2> QED BY <1>1, <2>4 DEF LogWrite
<1>9. CASE IsLine(s)
  <2>1. /\ buffer' = AddEntry(buffer, e) /\ aesd_entry' = NoEntry
        /\ heap' = kfree(h, Evicted(buffer))
    BY <1>1, <1>3, <1>9 DEF SendEntryToCircularBuffer
  <2>2. Content(aesd_entry)' = <<>>
    <3>1. (aesd_entry.buffptr = NULL => Content(aesd_entry) = <<>>)'
      BY PartialValue, PTL
    <3> QED BY <2>1, <3>1 DEF NoEntry
  <2>3. /\ WellFormed(buffer) /\ buffer \in BufferType
        /\ buffer.in_offs \in Slots /\ MaxOps \in Nat \ {0}
        /\ \A i \in Slots : Occupied(buffer, i) => Slot(i) \in Blocks
    <3>1. WellFormed(buffer)
      BY DEF Inv, BufferShape
    <3>2. \A i \in Slots : Occupied(buffer, i) => Slot(i) \in Blocks
      BY DEF Inv, BlocksOwnedOnce, Allocated
    <3> QED BY <3>1, <3>2 DEF WellFormed, BufferType
  <2>4. \A k \in 0 .. Count(buffer) - 1 :
          NthSlot(buffer, k) \in Slots /\ Occupied(buffer, NthSlot(buffer, k))
    BY <2>3, CountValue
  <2>5. /\ buffer'.entry[buffer.in_offs] = e
        /\ \A i \in Slots \ {buffer.in_offs} : buffer'.entry[i].buffptr = Slot(i)
    BY <1>1, <2>1, <2>3 DEF AddEntry, BufferType
  <2>6. WellFormed(buffer) /\ e.buffptr # NULL /\ buffer' = AddEntry(buffer, e)
    BY <1>1, <2>1, <2>3
  <2>7. CASE ~buffer.full
    <3>1. heap'[e.buffptr] = s
      BY <1>1, <1>2, <2>1, <2>7 DEF kfree, Evicted
    <3>2. \A i \in Slots : Occupied(buffer, i) => heap'[Slot(i)] = heap[Slot(i)]
      BY <1>1, <2>1, <2>3, <2>7 DEF kfree, Evicted
    <3>3. /\ Count(buffer) < MaxOps /\ Count(buffer') = Count(buffer) + 1
          /\ buffer'.out_offs = buffer.out_offs
          /\ NthSlot(buffer', Count(buffer)) = buffer.in_offs
          /\ \A k \in 0 .. Count(buffer) - 1 :
               /\ NthSlot(buffer', k) = NthSlot(buffer, k)
               /\ NthSlot(buffer, k) # buffer.in_offs
      BY <2>7, <2>6, AddEntryOrder
    <3> HIDE DEF Slot, Window
    <3>4. \A k \in 1 .. Count(buffer) : Window'[k] = Window[k]
      <4> SUFFICES ASSUME NEW k \in 1 .. Count(buffer)
                   PROVE  Window'[k] = Window[k]
        OBVIOUS
      <4> DEFINE i == NthSlot(buffer, k-1)
      <4>1. k - 1 \in 0 .. Count(buffer) - 1 /\ k \in 1 .. Count(buffer')
        BY <1>5, <3>3
      <4>2. /\ i \in Slots \ {buffer.in_offs} /\ Occupied(buffer, i)
            /\ NthSlot(buffer', k-1) = i
        BY <2>4, <3>3, <4>1
      <4>3. Window'[k] = heap'[buffer'.entry[i].buffptr]
        BY <1>7, <4>1, <4>2
      <4>4. Window[k] = heap[Slot(i)]
        BY <1>5
      <4> HIDE DEF i
      <4> QED BY <2>5, <3>2, <4>2, <4>3, <4>4
    <3>5. Window'[Count(buffer) + 1] = s
      <4>1. /\ Count(buffer) + 1 \in 1 .. Count(buffer')
            /\ (Count(buffer) + 1) - 1 = Count(buffer)
        BY <1>5, <3>3
      <4>2. Window'[Count(buffer) + 1]
              = heap'[buffer'.entry[NthSlot(buffer', Count(buffer))].buffptr]
        BY <1>7, <4>1
      <4> QED BY <2>5, <3>1, <3>3, <4>2
    <3>6. Window' = Append(Window, s)
      BY <1>5, <1>7, <3>3, <3>4, <3>5, IsAppend
    <3>7. Log!Complete(payload)
      BY <1>1, <1>4, <1>9, <1>5, <2>2, <3>3, <3>6 DEF Log!Complete
    <3> QED BY <1>1, <3>7 DEF LogWrite
  <2>8. CASE buffer.full
    <3>1. /\ Count(buffer) = MaxOps /\ Count(buffer') = MaxOps
          /\ buffer'.out_offs = (buffer.out_offs + 1) % MaxOps
          /\ NthSlot(buffer', MaxOps - 1) = buffer.in_offs
          /\ \A k \in 0 .. MaxOps - 2 :
               /\ NthSlot(buffer', k) = NthSlot(buffer, k+1)
               /\ NthSlot(buffer, k+1) # buffer.in_offs
      BY <2>8, <2>6, AddEntryOrder
    <3>2. /\ Evicted(buffer) = {Slot(buffer.in_offs)}
          /\ Occupied(buffer, buffer.in_offs)
      BY <2>3, <2>8 DEF Evicted, WellFormed
    <3>3. heap'[e.buffptr] = s
      <4>1. e.buffptr \notin Evicted(buffer)
        BY <1>1, <2>3, <3>2
      <4> QED BY <1>1, <1>2, <2>1, <4>1 DEF kfree
    <3>4. ASSUME NEW i \in Slots \ {buffer.in_offs}, Occupied(buffer, i)
          PROVE  heap'[Slot(i)] = heap[Slot(i)]
      <4>1. Slot(i) # Slot(buffer.in_offs)
        BY <2>3, <3>2, <3>4 DEF Inv, BlocksOwnedOnce
      <4>2. Slot(i) \in Blocks \ Evicted(buffer)
        BY <2>3, <3>2, <3>4, <4>1
      <4>3. h[Slot(i)] = heap[Slot(i)]
        BY <1>1, <3>4
      <4> HIDE DEF Slot
      <4> QED BY <2>1, <4>2, <4>3 DEF kfree
    <3> HIDE DEF Slot, Window
    <3>5. \A k \in 1 .. MaxOps - 1 : Window'[k] = Window[k+1]
      <4> SUFFICES ASSUME NEW k \in 1 .. MaxOps - 1
                   PROVE  Window'[k] = Window[k+1]
        OBVIOUS
      <4> DEFINE i == NthSlot(buffer, k)
      <4>1. /\ k \in 1 .. Count(buffer') /\ k + 1 \in 1 .. Count(buffer)
            /\ k \in 0 .. Count(buffer) - 1
            /\ k - 1 \in 0 .. MaxOps - 2 /\ (k - 1) + 1 = k /\ (k + 1) - 1 = k
        BY <2>3, <3>1
      <4>2. NthSlot(buffer', k-1) = i /\ i # buffer.in_offs
        BY <3>1, <4>1
      <4>3. i \in Slots \ {buffer.in_offs} /\ Occupied(buffer, i)
        BY <2>4, <4>1, <4>2
      <4>4. Window'[k] = heap'[buffer'.entry[i].buffptr]
        BY <1>7, <4>1, <4>2
      <4>5. Window[k+1] = heap[Slot(i)]
        BY <1>5, <4>1
      <4> HIDE DEF i
      <4> QED BY <2>5, <3>4, <4>3, <4>4, <4>5
    <3>6. Window'[MaxOps] = s
      <4>1. MaxOps \in 1 .. Count(buffer')
        BY <2>3, <3>1
      <4>2. Window'[MaxOps]
              = heap'[buffer'.entry[NthSlot(buffer', MaxOps - 1)].buffptr]
        BY <1>7, <4>1
      <4> QED BY <2>5, <3>1, <3>3, <4>2
    <3>7. Window' = Append(Tail(Window), s)
      <4>1. Len(Window) = MaxOps /\ Len(Window') = MaxOps /\ Window # <<>>
        BY <1>5, <1>7, <2>3, <3>1
      <4> QED BY <1>5, <1>7, <3>5, <3>6, <4>1, IsAppendTail
    <3>8. Log!Replace(payload)
      BY <1>1, <1>4, <1>9, <1>5, <2>2, <3>1, <3>7 DEF Log!Replace
    <3> QED BY <1>1, <3>8 DEF LogWrite
  <2> QED BY <2>7, <2>8
<1> QED BY <1>1, <1>8, <1>9

(* The driver implements the abstract log of AesdLog: whatever calls       *)
(* overlap, a write is appended whole to the partial write, a completed    *)
(* line enters the window in one step, and nothing else changes either.    *)
THEOREM DriverImplementsLog == Spec => ImplementsLog
<1>1. Init => Log!Init
  <2> SUFFICES ASSUME Init PROVE Log!Init
    OBVIOUS
  <2>1. Inv
    BY InitInv
  <2>2. Count(buffer) = 0 /\ buffer.out_offs = 0
    <3>1. WellFormed(buffer)
      BY <2>1 DEF Inv, BufferShape
    <3> QED BY <3>1, CountValue DEF Init, CircularBufferInit
  <2>3. Window = <<>>
    <3>1. Window \in Seq(Seq(Bytes)) /\ Len(Window) = 0
      BY <2>1, <2>2, WindowValue
    <3> QED BY <3>1, EmptySeq
  <2>4. Content(aesd_entry) = <<>>
    BY <2>1, PartialValue DEF Init, NoEntry
  <2> QED BY <2>2, <2>3, <2>4 DEF Log!Init
<1>2. Inv /\ Inv' /\ [Next]_vars => [Log!Next]_(Log!vars)
  <2> SUFFICES ASSUME Inv, Inv', [Next]_vars PROVE Log!Next \/ UNCHANGED Log!vars
    OBVIOUS
  <2> DEFINE Slot(i) == buffer.entry[i].buffptr
  <2>1. /\ \A i \in Slots : Occupied(buffer, i) => Slot(i) \in Allocated
        /\ heap \in [Blocks -> Seq(Bytes) \cup {FREE}]
    BY DEF Inv, TypeOK, BlocksOwnedOnce
  <2>2. ASSUME aesd_entry' = aesd_entry, heap' = heap, buffer' = buffer
        PROVE  UNCHANGED Log!vars
    <3>1. Content(aesd_entry)' = Content(aesd_entry)
      BY <2>2 DEF Content, Allocated
    <3> QED BY <2>2, <3>1, LogQuiet
  <2>3. ASSUME NEW f \in Files, NEW call,
               Open(f) \/ Release(f) \/ Read(f) \/ Seek(f) \/ Contend(f, call)
        PROVE  UNCHANGED Log!vars
    <3>1. buffer' = buffer /\ aesd_entry' = aesd_entry /\ heap' = heap
      BY <2>3 DEF Open, Release, Read, ReadEOF, ReadBegin, ReadEnd, ReadFault,
                  Seek, Llseek, LlseekInvalid, IoctlSeekTo, IoctlInvalid, Contend
    <3> QED BY <2>2, <3>1
  <2>4. ASSUME NEW f \in Files, NEW payload \in Payloads,
               WriteFirst(f, payload) \/ WriteAppend(f, payload)
        PROVE  UNCHANGED Log!vars
    <3>1. PICK b \in Blocks \ Allocated :
            \/ /\ aesd_entry.buffptr = NULL
               /\ heap' = [heap EXCEPT ![b] = <<>>]
               /\ aesd_entry' = [buffptr |-> b, size |-> 0]
            \/ /\ aesd_entry.buffptr # NULL
               /\ heap' = [heap EXCEPT ![b] = Content(aesd_entry)]
               /\ aesd_entry' = aesd_entry
      BY <2>4 DEF WriteFirst, WriteAppend
    <3>2. buffer' = buffer
      BY <2>4 DEF WriteFirst, WriteAppend
    <3>3. \A c \in Allocated : heap'[c] = heap[c]
      BY <2>1, <3>1 DEF Allocated
    <3>4. (/\ aesd_entry.buffptr = NULL => Content(aesd_entry) = <<>>
           /\ aesd_entry.buffptr # NULL =>
                Content(aesd_entry) = heap[aesd_entry.buffptr])'
      BY PartialValue, PTL
    <3>5. CASE aesd_entry.buffptr = NULL
      <4>1. aesd_entry'.buffptr = b /\ heap'[b] = <<>> /\ b # NULL
        BY <2>1, <3>1, <3>5
      <4> QED BY <2>1, <3>2, <3>3, <3>4, <3>5, <4>1, PartialValue, LogQuiet
    <3>6. CASE aesd_entry.buffptr # NULL
      <4>1. aesd_entry.buffptr \in Allocated /\ aesd_entry' = aesd_entry
        BY <3>1, <3>6 DEF Inv, BlocksOwnedOnce
      <4>2. Content(aesd_entry)' = Content(aesd_entry)
        BY <3>3, <3>4, <3>6, <4>1, PartialValue
      <4> QED BY <2>1, <3>2, <3>3, <4>2, LogQuiet
    <3> QED BY <3>5, <3>6
  <2>5. ASSUME NEW f \in Files, WriteNoMemory(f) PROVE UNCHANGED Log!vars
    <3>1. /\ buffer' = buffer /\ heap' = heap
          /\ aesd_entry' = IF aesd_entry.buffptr = NULL THEN NoEntry ELSE aesd_entry
      BY <2>5 DEF WriteNoMemory
    <3>2. (aesd_entry.buffptr = NULL => Content(aesd_entry) = <<>>)'
      BY PartialValue, PTL
    <3>3. CASE aesd_entry.buffptr = NULL
      <4>1. Content(aesd_entry)' = Content(aesd_entry)
        BY <3>1, <3>2, <3>3, PartialValue DEF NoEntry
      <4> QED BY <3>1, <4>1, LogQuiet
    <3>4. CASE aesd_entry.buffptr # NULL
      BY <2>2, <3>1, <3>4
    <3> QED BY <3>3, <3>4
  <2>6. ASSUME NEW f \in Files, Write(f) PROVE Log!Next \/ UNCHANGED Log!vars
    <3>1. CASE WriteFault(f)
      BY <2>2, <3>1 DEF WriteFault
    <3> QED BY <2>4, <2>5, <2>6, <3>1, LogWriteEnd
              DEF Write, LogWrite, Log!Next
  <2>7. CASE UNCHANGED vars
    BY <2>2, <2>7 DEF vars
  <2>8. CASE Next
    <3>1. PICK f \in Files :
            \/ Open(f) \/ Release(f)
            \/ Read(f) \/ Write(f) \/ Seek(f)
            \/ \E call \in {"read", "write", "llseek", "ioctl"} : Contend(f, call)
      BY <2>8 DEF Next
    <3> QED BY <2>3, <2>6, <3>1
  <2> QED BY <2>7, <2>8
<1> QED BY <1>1, <1>2, InvHolds, PTL DEF Spec, ImplementsLog, Log!Spec

-----------------------------------------------------------------------------
(* No block is lost. *)

(* A step that frees nothing, allocates nothing and lets no owner go.      *)
LEMMA LeakQuiet ==
  ASSUME buffer' = buffer, aesd_entry'.buffptr = aesd_entry.buffptr,
         heap' = heap,
         \A g \in Files : pc[g] = "writing append" =>
           pc'[g] = "writing append" /\ local'[g].block = local[g].block
  PROVE  (Allocated' \ Owned') \subseteq (Allocated \ Owned)
<1>1. Allocated' = Allocated
  BY DEF Allocated
<1>2. Owned \subseteq Owned'
  BY DEF Owned
<1> QED BY <1>1, <1>2

(* The blocks a write takes and gives back when it ends all have an owner, *)
(* or are free.                                                            *)
LEMMA LeakWriteEnd ==
  ASSUME Inv, Inv', NEW f \in Files, WriteEnd(f)
  PROVE  (Allocated' \ Owned') \subseteq (Allocated \ Owned)
<1> SUFFICES ASSUME NEW b \in Allocated', b \notin Owned'
             PROVE  b \in Allocated /\ b \notin Owned
  OBVIOUS
<1>1. PICK e \in EntryType, s \in Seq(Bytes),
           h \in [Blocks -> Seq(Bytes) \cup {FREE}] :
        /\ e.buffptr = local[f].block /\ e.buffptr # NULL /\ e.size = Len(s)
        /\ h[e.buffptr] = s
        /\ \A c \in Blocks \ {e.buffptr} :
             h[c] = IF c = aesd_entry.buffptr THEN FREE ELSE heap[c]
        /\ SendEntryToCircularBuffer(e, s, h)
  BY WriteEndCall
<1>2. \A g \in Files : pc[g] = "writing append" => local[g].block = e.buffptr
  <2>1. pc[f] \in {"writing first", "writing append"}
    BY DEF WriteEnd
  <2>2. \A g \in Files \ {f} : pc[g] \in {"closed", "open"}
    BY <2>1, LockHolder
  <2> QED BY <1>1, <2>2
<1>3. b \in Blocks /\ heap'[b] # FREE
  BY DEF Allocated
<1>4. /\ \A i \in Slots : buffer'.entry[i].buffptr # NULL =>
           buffer'.entry[i].buffptr # b
      /\ aesd_entry'.buffptr # NULL => aesd_entry'.buffptr # b
  BY DEF Owned
<1>5. NULL \notin Blocks
  BY BufferAssumption
<1>6. CASE CheckCR(s) >= 0 /\ CheckCR(s) = e.size - 1
  <2>1. buffer' = AddEntry(buffer, e) /\ heap' = kfree(h, Evicted(buffer))
    BY <1>1, <1>6 DEF SendEntryToCircularBuffer
  <2>2. WellFormed(buffer) /\ buffer \in BufferType /\ buffer.in_offs \in Slots
    BY DEF Inv, BufferShape, WellFormed, BufferType
  <2>3. /\ buffer'.entry[buffer.in_offs] = e
        /\ \A i \in Slots \ {buffer.in_offs} :
             buffer'.entry[i] = buffer.entry[i]
    BY <2>1, <2>2 DEF AddEntry, BufferType
  <2>4. b # e.buffptr
    BY <1>1, <1>4, <2>2, <2>3
  <2>5. h[b] # FREE /\ b \notin Evicted(buffer)
    BY <1>3, <2>1 DEF kfree
  <2>6. heap[b] # FREE /\ b # aesd_entry.buffptr
    BY <1>1, <1>3, <2>4, <2>5
  <2>7. buffer.entry[buffer.in_offs].buffptr # b
    <3>1. CASE buffer.full
      BY <2>5, <3>1 DEF Evicted
    <3>2. CASE ~buffer.full
      BY <1>3, <1>5, <2>2, <3>2 DEF WellFormed, Occupied, Slots
    <3> QED BY <3>1, <3>2
  <2>8. \A i \in Slots : buffer.entry[i].buffptr # b
    BY <1>3, <1>4, <1>5, <2>3, <2>7
  <2> QED BY <1>2, <1>3, <2>4, <2>6, <2>8 DEF Owned, Allocated
<1>7. CASE ~(CheckCR(s) >= 0 /\ CheckCR(s) = e.size - 1)
  <2>1. buffer' = buffer /\ heap' = h /\ aesd_entry' = e
    BY <1>1, <1>7 DEF SendEntryToCircularBuffer
  <2>2. b # e.buffptr
    BY <1>1, <1>4, <2>1
  <2>3. heap[b] # FREE /\ b # aesd_entry.buffptr
    BY <1>1, <1>3, <2>1, <2>2
  <2>4. \A i \in Slots : buffer.entry[i].buffptr # b
    BY <1>3, <1>4, <1>5, <2>1
  <2> QED BY <1>2, <1>3, <2>2, <2>3, <2>4 DEF Owned, Allocated
<1> QED BY <1>6, <1>7

(* Every step but the fault of a write that extends the partial write.     *)
LEMMA LeakStep ==
  ASSUME Inv, Inv', [Next]_vars
  PROVE  \/ (Allocated' \ Owned') \subseteq (Allocated \ Owned)
         \/ \E f \in Files : pc[f] = "writing append" /\ WriteFault(f)
<1>1. pc \in [Files -> PCs] /\ local \in [Files -> LocalType]
  BY DEF Inv, TypeOK
<1>2. ASSUME NEW f \in Files, pc[f] # "writing append",
             \A g \in Files \ {f} : pc'[g] = pc[g] /\ local'[g] = local[g],
             UNCHANGED <<buffer, heap>>,
             aesd_entry'.buffptr = aesd_entry.buffptr
      PROVE  (Allocated' \ Owned') \subseteq (Allocated \ Owned)
  BY <1>2, LeakQuiet
<1>3. ASSUME NEW f \in Files, NEW call,
             Open(f) \/ Release(f) \/ Read(f) \/ Contend(f, call)
      PROVE  (Allocated' \ Owned') \subseteq (Allocated \ Owned)
  <2>1. /\ UNCHANGED <<buffer, aesd_entry, heap>>
        /\ pc[f] # "writing append"
    BY <1>3 DEF Open, Release, Read, ReadEOF, ReadBegin, ReadEnd, ReadFault,
                CanLock, Contend
  <2>2. \A g \in Files \ {f} : pc'[g] = pc[g] /\ local'[g] = local[g]
    BY <1>1, <1>3 DEF Open, Release, Read, ReadEOF, ReadBegin, ReadEnd,
                      ReadFault, Sleep, Wake, Contend
  <2> QED BY <1>2, <2>1, <2>2
<1>4. ASSUME NEW f \in Files, Seek(f)
      PROVE  (Allocated' \ Owned') \subseteq (Allocated \ Owned)
  <2>1. UNCHANGED <<buffer, aesd_entry, heap, pc, local>>
    BY <1>4 DEF Seek, Llseek, LlseekInvalid, IoctlSeekTo, IoctlInvalid
  <2> QED BY <2>1, LeakQuiet
<1>5. ASSUME NEW f \in Files, NEW payload \in Payloads,
             WriteFirst(f, payload) \/ WriteAppend(f, payload)
      PROVE  (Allocated' \ Owned') \subseteq (Allocated \ Owned)
  <2>1. PICK b \in Blocks \ Allocated :
          /\ \A c \in Blocks \ {b} : heap'[c] = heap[c]
          /\ local'[f].block = b
          /\ \/ /\ aesd_entry.buffptr = NULL
                /\ aesd_entry'.buffptr = b
                /\ pc'[f] = "writing first"
             \/ /\ aesd_entry' = aesd_entry
                /\ pc'[f] = "writing append"
    <3>1. heap \in [Blocks -> Seq(Bytes) \cup {FREE}]
      BY DEF Inv, TypeOK
    <3>2. CASE WriteFirst(f, payload)
      <4>1. PICK b \in Blocks \ Allocated :
              /\ heap' = [heap EXCEPT ![b] = <<>>]
              /\ aesd_entry' = [buffptr |-> b, size |-> 0]
              /\ Sleep(f, "writing first",
                       [block |-> b, skip |-> 0, count |-> Len(payload),
                        data |-> payload])
        BY <3>2 DEF WriteFirst
      <4>2. local'[f].block = b /\ pc'[f] = "writing first"
        BY <1>1, <4>1 DEF Sleep
      <4> QED BY <3>1, <3>2, <4>1, <4>2 DEF WriteFirst
    <3>3. CASE WriteAppend(f, payload)
      <4>1. PICK b \in Blocks \ Allocated :
              /\ heap' = [heap EXCEPT ![b] = Content(aesd_entry)]
              /\ Sleep(f, "writing append",
                       [block |-> b, skip |-> aesd_entry.size,
                        count |-> aesd_entry.size + Len(payload),
                        data |-> payload])
        BY <3>3 DEF WriteAppend
      <4>2. local'[f].block = b /\ pc'[f] = "writing append"
        BY <1>1, <4>1 DEF Sleep
      <4> QED BY <3>1, <3>3, <4>1, <4>2 DEF WriteAppend
    <3> QED BY <1>5, <3>2, <3>3
  <2>2. /\ \A g \in Files \ {f} : pc'[g] = pc[g] /\ local'[g] = local[g]
        /\ buffer' = buffer /\ pc[f] = "open"
    BY <1>1, <1>5 DEF WriteFirst, WriteAppend, Sleep, CanLock
  <2>3. Owned \subseteq Owned'
    BY <2>1, <2>2 DEF Owned
  <2>4. b \in Owned'
    BY <2>1 DEF Owned
  <2>5. Allocated' \subseteq Allocated \cup {b}
    BY <2>1 DEF Allocated
  <2> QED BY <2>3, <2>4, <2>5
<1>6. ASSUME NEW f \in Files, WriteNoMemory(f)
      PROVE  (Allocated' \ Owned') \subseteq (Allocated \ Owned)
  <2>1. UNCHANGED <<buffer, heap, pc, local>>
    BY <1>6 DEF WriteNoMemory
  <2>2. aesd_entry'.buffptr = aesd_entry.buffptr
    BY <1>6 DEF WriteNoMemory, NoEntry
  <2> QED BY <2>1, <2>2, LeakQuiet
<1>7. ASSUME NEW f \in Files, WriteFault(f), pc[f] # "writing append"
      PROVE  (Allocated' \ Owned') \subseteq (Allocated \ Owned)
  <2>1. \A g \in Files \ {f} : pc'[g] = pc[g] /\ local'[g] = local[g]
    BY <1>1, <1>7 DEF WriteFault, Wake
  <2> QED BY <1>2, <1>7, <2>1 DEF WriteFault
<1>8. CASE UNCHANGED vars
  BY <1>8, LeakQuiet DEF vars
<1>9. CASE Next
  <2>1. PICK f \in Files :
          \/ Open(f) \/ Release(f)
          \/ Read(f) \/ Write(f) \/ Seek(f)
          \/ \E call \in {"read", "write", "llseek", "ioctl"} :
               Contend(f, call)
    BY <1>9 DEF Next
  <2>2. CASE Write(f)
    BY <1>5, <1>6, <1>7, <2>2, LeakWriteEnd DEF Write
  <2> QED BY <1>3, <1>4, <2>1, <2>2
<1> QED BY <1>8, <1>9

(* No call of any file loses a block, save a write that was extending the  *)
(* partial write when its copy faulted.                                    *)
THEOREM OneLeakOnly == Spec => NoNewLeak
<1>1. Inv /\ Inv' /\ [Next]_vars =>
        [\/ (Allocated' \ Owned') \subseteq (Allocated \ Owned)
         \/ \E f \in Files : pc[f] = "writing append" /\ WriteFault(f)]_vars
  BY LeakStep
<1> QED BY <1>1, InvHolds, PTL DEF Spec, NoNewLeak

-----------------------------------------------------------------------------
(* What readers find in the ring. *)

(* The bytes a reader sees, end to end: those of the k-th write start      *)
(* where the running total of the driver's loops says.                     *)
LEMMA StreamValue ==
  Inv => /\ Stream \in Seq(Bytes)
         /\ Len(Stream) = Before(buffer)[MaxOps]
         /\ \A k \in 0 .. Count(buffer) - 1 :
            \A i \in 1 .. buffer.entry[NthSlot(buffer, k)].size :
              /\ Before(buffer)[k] + i \in 1 .. Len(Stream)
              /\ Stream[Before(buffer)[k] + i]
                   = heap[buffer.entry[NthSlot(buffer, k)].buffptr][i]
<1> SUFFICES ASSUME Inv
             PROVE  /\ Stream \in Seq(Bytes)
                    /\ Len(Stream) = Before(buffer)[MaxOps]
                    /\ \A k \in 0 .. Count(buffer) - 1 :
                       \A i \in 1 .. buffer.entry[NthSlot(buffer, k)].size :
                         /\ Before(buffer)[k] + i \in 1 .. Len(Stream)
                         /\ Stream[Before(buffer)[k] + i]
                              = heap[buffer.entry[NthSlot(buffer, k)].buffptr][i]
  OBVIOUS
<1> DEFINE N == Count(buffer)
           E(k) == buffer.entry[NthSlot(buffer, k)]
           b == Before(buffer)
<1>1. /\ N \in 0 .. MaxOps
      /\ Window \in Seq(Seq(Bytes)) /\ N = Len(Window)
      /\ \A k \in 1 .. N : Window[k] = heap[E(k-1).buffptr]
  BY WindowValue
<1>2. WellFormed(buffer) /\ buffer \in BufferType /\ MaxOps \in Nat \ {0}
  BY DEF Inv, BufferShape, WellFormed
<1>3. \A k \in 0 .. N - 1 : /\ k \in Slots
                            /\ heap[E(k).buffptr] \in Seq(Bytes)
                            /\ Len(heap[E(k).buffptr]) = E(k).size
  <2>1. \A k \in 0 .. N - 1 : /\ k \in Slots /\ NthSlot(buffer, k) \in Slots
                              /\ Occupied(buffer, NthSlot(buffer, k))
    BY <1>2, CountValue
  <2> QED BY <2>1 DEF Inv, TypeOK, BlocksOwnedOnce, SizesMatch, Allocated
<1>4. /\ b[0] = 0
      /\ \A k \in 0 .. MaxOps : b[k] \in Nat
      /\ \A k \in Slots : b[k+1] = b[k] + E(k).size
  BY <1>2, BeforeStep
<1> HIDE DEF N, E, b, Window
<1>5. \A k \in 0 .. N : b[k] \in Nat
  BY <1>1, <1>2, <1>4
<1>6. \A k \in 1 .. N : b[k] = b[k-1] + Len(Window[k])
  <2>1. \A k \in 1 .. N : k - 1 \in 0 .. N - 1 /\ (k - 1) + 1 = k
    BY <1>1
  <2>2. \A k \in 1 .. N : b[k] = b[k-1] + E(k-1).size
    BY <1>3, <1>4, <2>1
  <2>3. \A k \in 1 .. N : Len(Window[k]) = E(k-1).size
    BY <1>1, <1>3, <2>1
  <2> QED BY <2>2, <2>3
<1>7. /\ Stream \in Seq(Bytes) /\ Len(Stream) = b[N]
      /\ \A k \in 1 .. N : \A i \in 1 .. Len(Window[k]) :
           /\ b[k-1] + i \in 1 .. b[N]
           /\ Stream[b[k-1] + i] = Window[k][i]
  <2>1. Stream = FlattenSeq(Window)
    BY DEF Stream
  <2>2. /\ FlattenSeq(Window) \in Seq(Bytes)
        /\ Len(FlattenSeq(Window)) = b[N]
        /\ \A k \in 1 .. N : \A i \in 1 .. Len(Window[k]) :
             /\ b[k-1] + i \in 1 .. b[N]
             /\ FlattenSeq(Window)[b[k-1] + i] = Window[k][i]
    <3>1. Window \in Seq(Seq(Bytes)) /\ N = Len(Window) /\ IsTotal(b, Window, N)
      BY <1>1, <1>4, <1>5, <1>6 DEF IsTotal
    <3>2. /\ FlattenSeq(Window) \in Seq(Bytes)
          /\ Len(FlattenSeq(Window)) = b[N]
          /\ JoinedIn(FlattenSeq(Window), Window, b, N)
      BY <3>1, FlattenIndex
    <3> QED BY <3>2 DEF JoinedIn
  <2> QED BY <2>1, <2>2
<1>8. b[N] = b[MaxOps]
  BY <1>2, BeforeCount DEF N, b
<1>9. ASSUME NEW k \in 0 .. N - 1, NEW i \in 1 .. E(k).size
      PROVE  /\ b[k] + i \in 1 .. Len(Stream)
             /\ Stream[b[k] + i] = heap[E(k).buffptr][i]
  <2>1. k + 1 \in 1 .. N /\ (k + 1) - 1 = k
    BY <1>1
  <2>2. Window[k+1] = heap[E(k).buffptr] /\ Len(Window[k+1]) = E(k).size
    BY <1>1, <1>3, <2>1
  <2>3. PICK j \in 1 .. N : j = k + 1 /\ j - 1 = k
    BY <2>1
  <2>4. i \in 1 .. Len(Window[j])
    BY <2>2, <2>3
  <2>5. /\ b[j-1] + i \in 1 .. b[N]
        /\ Stream[b[j-1] + i] = Window[j][i]
    BY <1>7, <2>4
  <2> QED BY <1>7, <2>2, <2>3, <2>5
<1> QED BY <1>7, <1>8, <1>9 DEF N, E, b

(* The search of the ring agrees with the stream: it finds exactly the     *)
(* bytes of the window, each in the entry and at the offset that hold it.  *)
LEMMA FindInStream ==
  ASSUME Inv, NEW pos \in Nat
  PROVE  /\ pos >= Len(Stream) => FindEntry(buffer, pos) = NotFound
         /\ pos < Len(Stream) =>
              \E k \in 0 .. Count(buffer) - 1 :
                LET i   == NthSlot(buffer, k)
                    off == pos - Before(buffer)[k]
                IN  /\ FindEntry(buffer, pos) = [slot |-> i, offset |-> off]
                    /\ i \in Slots /\ Occupied(buffer, i)
                    /\ off \in 0 .. buffer.entry[i].size - 1
                    /\ Before(buffer)[k] \in Nat
<1>1. buffer \in BufferType /\ WellFormed(buffer)
  BY DEF Inv, BufferShape, WellFormed
<1>2. Len(Stream) = Before(buffer)[MaxOps] /\ Len(Stream) \in Nat
  BY StreamValue
<1>3. CASE pos >= Len(Stream)
  BY <1>1, <1>2, <1>3, FindEntryTotal
<1>4. CASE pos < Len(Stream)
  <2>1. FindEntry(buffer, pos) # NotFound
    BY <1>1, <1>2, <1>4, FindEntryTotal
  <2>2. PICK k \in Slots :
          /\ NthSlot(buffer, k) \in Slots
          /\ FindEntry(buffer, pos) = [slot   |-> NthSlot(buffer, k),
                                       offset |-> pos - Before(buffer)[k]]
          /\ pos - Before(buffer)[k]
               \in 0 .. buffer.entry[NthSlot(buffer, k)].size - 1
    BY <1>1, <2>1, FindEntryPlace
  <2> DEFINE i == NthSlot(buffer, k)
  <2>3. buffer.entry[i].size # 0
    BY <2>2
  <2>4. Occupied(buffer, i)
    BY <1>1, <2>2, <2>3 DEF WellFormed, NoEntry
  <2>5. k \in 0 .. Count(buffer) - 1
    <3>1. k \in 0 .. MaxOps - 1 /\ MaxOps \in Nat
      BY DEF Slots
    <3>2. CASE buffer.full
      <4>1. Count(buffer) = MaxOps
        BY <1>1, <3>2, CountValue
      <4> QED BY <3>1, <4>1
    <3>3. CASE ~buffer.full
      <4>1. Count(buffer) = buffer.in_offs /\ buffer.out_offs = 0
        BY <1>1, <3>3, CountValue DEF WellFormed
      <4>2. i = k
        <5>1. ~(0 + k >= MaxOps) /\ 0 + k = k
          BY <3>1
        <5> QED BY <1>1, <4>1, <5>1, NthSlotValue
      <4>3. i < buffer.in_offs
        BY <1>1, <2>2, <2>4, <3>3 DEF WellFormed
      <4>4. buffer.in_offs \in Nat
        BY <1>1 DEF BufferType, Slots
      <4> QED BY <3>1, <4>1, <4>2, <4>3, <4>4
    <3> QED BY <3>2, <3>3
  <2>6. Before(buffer)[k] \in Nat
    <3>1. k \in 0 .. MaxOps
      BY DEF Slots
    <3> QED BY <1>1, <3>1, BeforeStep
  <2> QED BY <1>4, <1>2, <2>2, <2>4, <2>5, <2>6
<1> QED BY <1>2, <1>3, <1>4

(* What a slot holds, as the stream has it.                                *)
LEMMA SlotContent ==
  ASSUME Inv, NEW i \in Slots, Occupied(buffer, i)
  PROVE  LET e == buffer.entry[i]
         IN  /\ e.size \in Nat /\ e.buffptr \in Allocated
             /\ heap[e.buffptr] \in Seq(Bytes) /\ Len(heap[e.buffptr]) = e.size
             /\ Content(e) = heap[e.buffptr]
<1> DEFINE e == buffer.entry[i]
<1>1. e.buffptr \in Allocated /\ Len(heap[e.buffptr]) = e.size
  BY DEF Inv, BlocksOwnedOnce, SizesMatch
<1>2. heap[e.buffptr] \in Seq(Bytes)
  BY <1>1 DEF Inv, TypeOK, Allocated
<1> HIDE DEF e
<1>3. Content(e) = heap[e.buffptr]
  BY <1>1, <1>2, WholeSubSeq DEF Content
<1>4. e.size \in Nat
  BY <1>1, <1>2
<1> QED BY <1>1, <1>2, <1>3, <1>4 DEF e

(* find_entry_offset_for_fpos does what its comment says, however the ring *)
(* has wrapped: char_offset indexes the strings end to end.                *)
THEOREM FindIndexesStream == Spec => []FindIsStreamIndex
<1>1. Inv => FindIsStreamIndex
  <2> SUFFICES ASSUME Inv, NEW pos \in 0 .. Len(Stream) + 1
               PROVE  LET place == FindEntry(buffer, pos)
                      IN  IF pos < Len(Stream)
                          THEN /\ place # NotFound
                               /\ Content(buffer.entry[place.slot])[place.offset + 1]
                                    = Stream[pos + 1]
                          ELSE place = NotFound
    BY DEF FindIsStreamIndex
  <2>1. Len(Stream) \in Nat /\ pos \in Nat
    BY StreamValue
  <2>2. CASE pos >= Len(Stream)
    BY <2>1, <2>2, FindInStream
  <2>3. CASE pos < Len(Stream)
    <3>1. PICK k \in 0 .. Count(buffer) - 1 :
            LET i   == NthSlot(buffer, k)
                off == pos - Before(buffer)[k]
            IN  /\ FindEntry(buffer, pos) = [slot |-> i, offset |-> off]
                /\ i \in Slots /\ Occupied(buffer, i)
                /\ off \in 0 .. buffer.entry[i].size - 1
                /\ Before(buffer)[k] \in Nat
      BY <2>1, <2>3, FindInStream
    <3> DEFINE i   == NthSlot(buffer, k)
               off == pos - Before(buffer)[k]
               e   == buffer.entry[i]
    <3>2. e.size \in Nat /\ Content(e) = heap[e.buffptr]
      BY <3>1, SlotContent
    <3>3. off + 1 \in 1 .. e.size /\ Before(buffer)[k] + (off + 1) = pos + 1
      <4> DEFINE n == Before(buffer)[k]
      <4>1. /\ n \in Nat /\ pos \in Nat /\ e.size \in Nat
            /\ off \in 0 .. e.size - 1
        BY <2>1, <3>1, <3>2
      <4>2. off = pos - n
        OBVIOUS
      <4> HIDE DEF e, off, n
      <4>3. off + 1 \in 1 .. e.size /\ n + (off + 1) = pos + 1
        BY <4>1, <4>2
      <4> QED BY <4>3 DEF n
    <3>4. Stream[Before(buffer)[k] + (off + 1)] = heap[e.buffptr][off + 1]
      BY <3>3, StreamValue
    <3>5. FindEntry(buffer, pos) # NotFound
      BY <3>1 DEF NotFound, Slots
    <3> HIDE DEF off, i
    <3> QED BY <2>3, <3>1, <3>2, <3>3, <3>4, <3>5 DEF off, i
  <2> QED BY <2>1, <2>2, <2>3
<1> QED BY <1>1, InvHolds, PTL

(* Where SEEK_END lands, for every ring size and every content.            *)
THEOREM SeekEndExact == Spec => []SeekEndIsEndUntilFull
<1>1. Inv => SeekEndIsEndUntilFull
  <2> SUFFICES ASSUME Inv, NEW f \in Files, NEW offset \in Offsets
               PROVE  SeekPos(f, offset, "SEEK_END") =
                        (IF buffer.full THEN 0 ELSE Len(Stream)) + offset
    BY DEF SeekEndIsEndUntilFull
  <2>1. /\ buffer \in BufferType /\ WellFormed(buffer) /\ MaxOps \in Nat \ {0}
        /\ buffer.in_offs \in 0 .. MaxOps - 1
    BY DEF Inv, BufferShape, WellFormed, BufferType, Slots
  <2>2. SeekPos(f, offset, "SEEK_END")
          = SizesUpTo(buffer, buffer.in_offs) + offset
    BY DEF SeekPos
  <2>3. \A n \in Nat \ {0} : \A i \in 0 .. n - 1 : (i - 0) % n = i /\ (i - i) % n = 0
    OBVIOUS
  <2>4. CASE buffer.full
    <3>1. buffer.in_offs = buffer.out_offs
      BY <2>1, <2>4 DEF WellFormed
    <3>2. SizesUpTo(buffer, buffer.in_offs) = Before(buffer)[0]
      BY <2>1, <2>3, <3>1 DEF SizesUpTo
    <3>3. Before(buffer)[0] = 0
      BY <2>1, BeforeStep
    <3> QED BY <2>2, <2>4, <3>2, <3>3
  <2>5. CASE ~buffer.full
    <3>1. buffer.out_offs = 0 /\ Count(buffer) = buffer.in_offs
      BY <2>1, <2>5, CountValue DEF WellFormed
    <3>2. SizesUpTo(buffer, buffer.in_offs) = Before(buffer)[buffer.in_offs]
      BY <2>1, <2>3, <3>1 DEF SizesUpTo
    <3>3. Before(buffer)[Count(buffer)] = Len(Stream)
      BY <2>1, StreamValue, BeforeCount
    <3> QED BY <2>2, <2>5, <3>1, <3>2, <3>3
  <2> QED BY <2>4, <2>5
<1> QED BY <1>1, InvHolds, PTL

-----------------------------------------------------------------------------
(* What reads deliver. *)

(* What a reader took from the ring is still there when it wakes: the k-th *)
(* write of the window is the block it copies from, and its position is    *)
(* where that write starts in the stream, moved by what it skips of it.    *)
ReadsFrom(f, k) ==
  /\ NthSlot(buffer, k) \in Slots
  /\ Occupied(buffer, NthSlot(buffer, k))
  /\ buffer.entry[NthSlot(buffer, k)].buffptr = local[f].block
  /\ local[f].count > 0
  /\ local[f].skip + local[f].count <= buffer.entry[NthSlot(buffer, k)].size
  /\ f_pos[f] = Before(buffer)[k] + local[f].skip

ReaderPlace ==
  \A f \in Files : pc[f] = "reading" =>
    \E k \in 0 .. Count(buffer) - 1 : ReadsFrom(f, k)

(* An end-of-file stays true until the next call returns. *)
EofHolds ==
  result.status = "EOF" =>
    result.file \in Files /\ f_pos[result.file] >= Len(Stream)

(* Inductive relative to Inv. *)
ReadInv == ReaderPlace /\ EofHolds

(* A read that finds an entry notes its place. *)
LEMMA ReadBeginPlace ==
  ASSUME Inv, TypeOK', NEW f \in Files, NEW count \in Counts, ReadBegin(f, count)
  PROVE  \E k \in 0 .. Count(buffer) - 1 : ReadsFrom(f, k)'
<1> DEFINE pos == f_pos[f]
<1>1. pos \in Nat /\ count \in Nat \ {0} /\ local \in [Files -> LocalType]
  BY DEF Inv, TypeOK
<1>2. FindEntry(buffer, pos) # NotFound
  BY DEF ReadBegin
<1>3. pos < Len(Stream) /\ Len(Stream) \in Nat
  BY <1>1, <1>2, FindInStream, StreamValue
<1>4. PICK k \in 0 .. Count(buffer) - 1 :
        LET i   == NthSlot(buffer, k)
            off == pos - Before(buffer)[k]
        IN  /\ FindEntry(buffer, pos) = [slot |-> i, offset |-> off]
            /\ i \in Slots /\ Occupied(buffer, i)
            /\ off \in 0 .. buffer.entry[i].size - 1
            /\ Before(buffer)[k] \in Nat
  BY <1>1, <1>3, FindInStream
<1> DEFINE i   == NthSlot(buffer, k)
           off == pos - Before(buffer)[k]
           e   == buffer.entry[i]
           n   == Before(buffer)[k]
           c   == IF count > e.size - off THEN e.size - off ELSE count
<1>5. /\ buffer' = buffer /\ f_pos' = f_pos
      /\ local'[f] = [block |-> e.buffptr, skip |-> off, count |-> c,
                      data |-> <<>>]
  BY <1>1, <1>4 DEF ReadBegin, Sleep
<1>6. e.size \in Nat /\ i \in Slots /\ Occupied(buffer, i)
  BY <1>4, SlotContent
<1>7. n \in Nat /\ off \in 0 .. e.size - 1
  BY <1>4
<1>8. n + off = pos /\ c > 0 /\ off + c <= e.size
  <2>1. off = pos - n
    OBVIOUS
  <2> HIDE DEF off, n, e, pos
  <2> QED BY <1>1, <1>6, <1>7, <2>1
<1> HIDE DEF off, n, c, e, i, pos
<1>9. /\ local'[f].block = e.buffptr /\ local'[f].skip = off
      /\ local'[f].count = c /\ f_pos'[f] = pos
  BY <1>5 DEF pos
<1>10. /\ i \in Slots /\ Occupied(buffer', i)
       /\ e.buffptr = local'[f].block /\ local'[f].count > 0
       /\ local'[f].skip + local'[f].count <= e.size
       /\ f_pos'[f] = n + local'[f].skip
  BY <1>5, <1>6, <1>8, <1>9
<1>11. ReadsFrom(f, k)'
  BY <1>5, <1>10 DEF ReadsFrom, e, i, n
<1> QED BY <1>11

(* While a file is in a copy, no other call moves it, its locals or the    *)
(* ring.                                                                   *)
LEMMA ReaderAlone ==
  ASSUME Inv, NEW f \in Files, pc[f] = "reading", pc'[f] = "reading",
         [Next]_vars
  PROVE  buffer' = buffer /\ local'[f] = local[f] /\ f_pos'[f] = f_pos[f]
<1>1. /\ pc \in [Files -> PCs] /\ local \in [Files -> LocalType]
      /\ f_pos \in [Files -> Nat]
  BY DEF Inv, TypeOK
<1>2. lock = f /\ lock # NULL
  BY DEF Inv, WriterUpToDate
<1>3. \A g \in Files \ {f} : pc[g] \in {"closed", "open"}
  BY LockHolder
<1>4. CASE UNCHANGED vars
  BY <1>4 DEF vars
<1>5. ASSUME NEW g \in Files, NEW call,
             \/ Open(g) \/ Release(g) \/ Contend(g, call) \/ IoctlInvalid(g)
             \/ \E offset \in Offsets, whence \in Whences :
                  Llseek(g, offset, whence)
             \/ \E offset \in Offsets, whence \in Whences \cup {"SEEK_DATA"} :
                  LlseekInvalid(g, offset, whence)
      PROVE  /\ buffer' = buffer /\ local' = local
             /\ pc[g] # "reading"
             /\ \A h \in Files \ {g} : f_pos'[h] = f_pos[h]
  BY <1>1, <1>5 DEF Open, Release, Contend, IoctlInvalid, Llseek, LlseekInvalid
<1>6. ASSUME NEW g \in Files, Read(g) \/ Write(g) PROVE FALSE
  <2>1. ~CanLock(g)
    BY <1>2 DEF CanLock
  <2>2. pc[g] \notin {"closed", "open"}
    BY <1>6, <2>1 DEF Read, Write, ReadEOF, ReadBegin, ReadEnd, ReadFault,
         WriteFirst, WriteAppend, WriteNoMemory, WriteEnd, WriteFault
  <2>3. g = f
    BY <1>3, <2>2
  <2>4. pc'[g] = "open"
    BY <1>1, <1>6, <2>1, <2>3 DEF Read, Write, ReadEOF, ReadBegin, ReadEnd,
         ReadFault, WriteFirst, WriteAppend, WriteNoMemory, WriteEnd,
         WriteFault, Wake
  <2> QED BY <2>3, <2>4
<1>7. ASSUME NEW g \in Files, Seek(g)
      PROVE  \/ IoctlInvalid(g)
             \/ \E offset \in Offsets, whence \in Whences :
                  Llseek(g, offset, whence)
             \/ \E offset \in Offsets, whence \in Whences \cup {"SEEK_DATA"} :
                  LlseekInvalid(g, offset, whence)
  BY <1>2, <1>7 DEF Seek, IoctlSeekTo, CanLock
<1>8. CASE Next
  <2>1. PICK g \in Files :
          \/ Open(g) \/ Release(g)
          \/ Read(g) \/ Write(g) \/ Seek(g)
          \/ \E call \in {"read", "write", "llseek", "ioctl"} : Contend(g, call)
    BY <1>8 DEF Next
  <2>2. /\ buffer' = buffer /\ local' = local
        /\ pc[g] # "reading"
        /\ \A h \in Files \ {g} : f_pos'[h] = f_pos[h]
    BY <1>5, <1>6, <1>7, <2>1
  <2> QED BY <2>2
<1> QED BY <1>4, <1>8

(* An end-of-file is told only at or past the end of the window, and calls *)
(* that have not returned leave the window and the positions.              *)
LEMMA EofStep ==
  ASSUME Inv, Inv', EofHolds, [Next]_vars, result'.status = "EOF"
  PROVE  result'.file \in Files /\ f_pos'[result'.file] >= Len(Stream)'
<1> DEFINE Slot(i) == buffer.entry[i].buffptr
<1>1. /\ pc \in [Files -> PCs] /\ local \in [Files -> LocalType]
      /\ f_pos \in [Files -> Nat]
      /\ \A i \in Slots : Occupied(buffer, i) => Slot(i) \in Allocated
      /\ heap \in [Blocks -> Seq(Bytes) \cup {FREE}]
  BY DEF Inv, TypeOK, BlocksOwnedOnce
<1>2. ASSUME buffer' = buffer, \A c \in Allocated : heap'[c] = heap[c]
      PROVE  Len(Stream)' = Len(Stream)
  <2>1. Window' = Window
    BY <1>1, <1>2, WindowSame
  <2> HIDE DEF Window
  <2> QED BY <2>1 DEF Stream
<1>3. ASSUME buffer' = buffer, \A c \in Allocated : heap'[c] = heap[c],
             f_pos' = f_pos, result' = result
      PROVE  result'.file \in Files /\ f_pos'[result'.file] >= Len(Stream)'
  <2> HIDE DEF Stream
  <2> QED BY <1>2, <1>3 DEF EofHolds
<1>4. ASSUME NEW f \in Files, ReadEOF(f)
      PROVE  result'.file \in Files /\ f_pos'[result'.file] >= Len(Stream)'
  <2>1. /\ buffer' = buffer /\ heap' = heap /\ f_pos' = f_pos
        /\ result'.file = f /\ FindEntry(buffer, f_pos[f]) = NotFound
    BY <1>4 DEF ReadEOF, Returned
  <2>2. f_pos[f] \in Nat /\ Len(Stream) \in Nat
    BY <1>1, StreamValue
  <2>3. ~(f_pos[f] < Len(Stream))
    <3> SUFFICES ASSUME f_pos[f] < Len(Stream) PROVE FALSE
      OBVIOUS
    <3>1. PICK k \in 0 .. Count(buffer) - 1 :
            /\ FindEntry(buffer, f_pos[f])
                 = [slot   |-> NthSlot(buffer, k),
                    offset |-> f_pos[f] - Before(buffer)[k]]
            /\ NthSlot(buffer, k) \in Slots
      BY <2>2, FindInStream
    <3> QED BY <2>1, <3>1 DEF NotFound, Slots
  <2> HIDE DEF Stream
  <2> QED BY <1>2, <2>1, <2>2, <2>3
<1>5. ASSUME NEW f \in Files, NEW count \in Counts, ReadBegin(f, count)
      PROVE  result'.file \in Files /\ f_pos'[result'.file] >= Len(Stream)'
  BY <1>3, <1>5 DEF ReadBegin
<1>6. ASSUME NEW f \in Files, NEW payload \in Payloads,
             WriteFirst(f, payload) \/ WriteAppend(f, payload)
      PROVE  result'.file \in Files /\ f_pos'[result'.file] >= Len(Stream)'
  <2>1. PICK b \in Blocks \ Allocated :
          \/ heap' = [heap EXCEPT ![b] = <<>>]
          \/ heap' = [heap EXCEPT ![b] = Content(aesd_entry)]
    BY <1>6 DEF WriteFirst, WriteAppend
  <2>2. buffer' = buffer /\ f_pos' = f_pos /\ result' = result
    BY <1>6 DEF WriteFirst, WriteAppend
  <2>3. \A c \in Allocated : heap'[c] = heap[c]
    BY <1>1, <2>1 DEF Allocated
  <2> QED BY <1>3, <2>2, <2>3
<1>7. ASSUME NEW f \in Files, NEW call, Contend(f, call)
      PROVE  result'.file \in Files /\ f_pos'[result'.file] >= Len(Stream)'
  <2>1. result' = result
    BY <1>7 DEF Contend, Returned
  <2> QED BY <1>3, <1>7, <2>1 DEF Contend
<1>8. ASSUME NEW f \in Files,
             Open(f) \/ Release(f) \/ ReadEnd(f) \/ ReadFault(f) \/ Seek(f)
             \/ WriteNoMemory(f) \/ WriteEnd(f) \/ WriteFault(f)
      PROVE  FALSE
  <2>1. \E call \in Calls, status \in Statuses \ {"EOF"} :
          \E data : Returned(f, call, status, data)
    <3>1. CASE Open(f) \/ Release(f) \/ ReadFault(f)
      BY <3>1 DEF Open, Release, ReadFault, Calls, Statuses
    <3>2. CASE ReadEnd(f)
      BY <3>2 DEF ReadEnd, Calls, Statuses
    <3>3. CASE Seek(f)
      BY <3>3 DEF Seek, Llseek, LlseekInvalid, IoctlSeekTo, IoctlInvalid,
           Calls, Statuses
    <3>4. CASE WriteNoMemory(f) \/ WriteEnd(f) \/ WriteFault(f)
      BY <3>4 DEF WriteNoMemory, WriteEnd, WriteFault, Calls, Statuses
    <3> QED BY <1>8, <3>1, <3>2, <3>3, <3>4
  <2> QED BY <2>1 DEF Returned
<1>9. CASE UNCHANGED vars
  BY <1>3, <1>9 DEF vars
<1>10. CASE Next
  <2>1. PICK f \in Files :
          \/ Open(f) \/ Release(f)
          \/ Read(f) \/ Write(f) \/ Seek(f)
          \/ \E call \in {"read", "write", "llseek", "ioctl"} : Contend(f, call)
    BY <1>10 DEF Next
  <2> HIDE DEF Stream
  <2> QED BY <1>4, <1>5, <1>6, <1>7, <1>8, <2>1 DEF Read, Write
<1> QED BY <1>9, <1>10

(* A file begins to read only by the call that finds an entry. *)
LEMMA ReadStarts ==
  ASSUME Inv, [Next]_vars, NEW f \in Files, pc[f] # "reading", pc'[f] = "reading"
  PROVE  \E count \in Counts : ReadBegin(f, count)
<1>1. pc \in [Files -> PCs]
  BY DEF Inv, TypeOK
<1>2. PICK g \in Files :
        \/ Open(g) \/ Release(g)
        \/ Read(g) \/ Write(g) \/ Seek(g)
        \/ \E call \in {"read", "write", "llseek", "ioctl"} : Contend(g, call)
  BY DEF Next, vars
<1>3. CASE Open(g) \/ Release(g) \/ Seek(g)
           \/ \E call \in {"read", "write", "llseek", "ioctl"} : Contend(g, call)
  BY <1>1, <1>3 DEF Open, Release, Seek, Llseek, LlseekInvalid, IoctlSeekTo,
       IoctlInvalid, Contend
<1>4. CASE Write(g)
  <2>1. \/ pc' = pc \/ pc' = [pc EXCEPT ![g] = "open"]
        \/ pc' = [pc EXCEPT ![g] = "writing first"]
        \/ pc' = [pc EXCEPT ![g] = "writing append"]
    BY <1>4 DEF Write, WriteFirst, WriteAppend, WriteNoMemory, WriteEnd,
         WriteFault, Sleep, Wake
  <2> QED BY <1>1, <2>1
<1>5. CASE Read(g)
  <2>1. CASE ReadEOF(g) \/ ReadEnd(g) \/ ReadFault(g)
    BY <1>1, <2>1 DEF ReadEOF, ReadEnd, ReadFault, Wake
  <2>2. CASE \E count \in Counts : ReadBegin(g, count)
    <3>1. g = f
      BY <1>1, <2>2 DEF ReadBegin, Sleep
    <3> QED BY <2>2, <3>1
  <2> QED BY <1>5, <2>1, <2>2 DEF Read
<1> QED BY <1>2, <1>3, <1>4, <1>5

(* A file in a copy to user space moves only when that copy succeeds. *)
LEMMA ReaderMoves ==
  ASSUME Inv, [Next]_vars, NEW f \in Files, pc[f] = "reading",
         f_pos'[f] # f_pos[f]
  PROVE  ReadEnd(f)
<1>1. pc'[f] # "reading"
  BY ReaderAlone
<1>2. pc \in [Files -> PCs] /\ f_pos \in [Files -> Nat]
  BY DEF Inv, TypeOK
<1>3. lock = f /\ lock # NULL
  BY DEF Inv, WriterUpToDate
<1>4. PICK g \in Files :
        \/ Open(g) \/ Release(g)
        \/ Read(g) \/ Write(g) \/ Seek(g)
        \/ \E call \in {"read", "write", "llseek", "ioctl"} : Contend(g, call)
  BY DEF Next, vars
<1>5. CASE Open(g) \/ Release(g) \/ Seek(g)
           \/ \E call \in {"read", "write", "llseek", "ioctl"} : Contend(g, call)
  BY <1>1, <1>2, <1>5 DEF Open, Release, Seek, Llseek, LlseekInvalid,
       IoctlSeekTo, IoctlInvalid, Contend
<1>6. CASE Read(g) \/ Write(g)
  <2>1. ~CanLock(g)
    BY <1>3 DEF CanLock
  <2>2. pc[g] \notin {"closed", "open"}
    BY <1>6, <2>1 DEF Read, Write, ReadEOF, ReadBegin, ReadEnd, ReadFault,
         WriteFirst, WriteAppend, WriteNoMemory, WriteEnd, WriteFault
  <2>3. g = f
    BY <2>2, LockHolder
  <2> QED BY <1>6, <2>1, <2>3 DEF Read, Write, ReadEOF, ReadBegin, ReadFault,
         WriteFirst, WriteAppend, WriteNoMemory, WriteEnd, WriteFault
<1> QED BY <1>4, <1>5, <1>6

(* What the copy delivers. *)
LEMMA ReadEndDelivers ==
  ASSUME Inv, NEW f \in Files, ReadEnd(f),
         NEW k \in 0 .. Count(buffer) - 1, ReadsFrom(f, k)
  PROVE  /\ result'.data = SubSeq(Stream, f_pos[f] + 1, f_pos'[f])
         /\ f_pos'[f] <= Len(Stream)
<1> DEFINE i    == NthSlot(buffer, k)
           e    == buffer.entry[i]
           n    == Before(buffer)[k]
           skip == local[f].skip
           c    == local[f].count
           pos  == f_pos[f]
           s    == heap[e.buffptr]
<1>1. /\ i \in Slots /\ Occupied(buffer, i) /\ e.buffptr = local[f].block
      /\ c > 0 /\ skip + c <= e.size /\ pos = n + skip
  BY DEF ReadsFrom
<1>2. e.size \in Nat /\ s \in Seq(Bytes) /\ Len(s) = e.size
  BY <1>1, SlotContent
<1>3. /\ skip \in Nat /\ c \in Nat /\ pos \in Nat
      /\ f_pos \in [Files -> Nat] /\ buffer \in BufferType
  BY DEF Inv, TypeOK, LocalType
<1>4. n \in Nat
  <2>1. k \in 0 .. MaxOps
    BY CountValue DEF Inv, BufferShape
  <2> QED BY <1>3, <2>1, BeforeStep
<1>5. /\ Stream \in Seq(Bytes)
      /\ \A j \in 1 .. e.size :
           n + j \in 1 .. Len(Stream) /\ Stream[n + j] = s[j]
  BY StreamValue
<1>6. /\ result'.data = SubSeq(s, skip + 1, skip + c)
      /\ f_pos'[f] = pos + c
  BY <1>1, <1>3 DEF ReadEnd, Returned
<1> HIDE DEF i, e, n, skip, c, pos, s, Stream
<1>7. n + (skip + c) \in 1 .. Len(Stream) /\ Len(Stream) \in Nat
  <2>1. skip + c \in 1 .. e.size
    BY <1>1, <1>2, <1>3
  <2> QED BY <1>5, <2>1
<1>8. pos + c <= Len(Stream) /\ pos + c = n + (skip + c)
  BY <1>1, <1>3, <1>4, <1>7
<1>9. SubSeq(s, skip + 1, skip + c) = SubSeq(Stream, pos + 1, pos + c)
  BY <1>1, <1>2, <1>3, <1>4, <1>5, <1>7, <1>8, SameBytes
<1> QED BY <1>6, <1>8, <1>9 DEF pos

(* The invariant of the readers. *)
LEMMA ReadInvHolds == Spec => []ReadInv
<1>1. Init => ReadInv
  BY DEF Init, ReadInv, ReaderPlace, EofHolds
<1>2. Inv /\ Inv' /\ ReadInv /\ [Next]_vars => ReadInv'
  <2> SUFFICES ASSUME Inv, Inv', ReadInv, [Next]_vars PROVE ReadInv'
    OBVIOUS
  <2>1. EofHolds'
    <3>1. EofHolds
      BY DEF ReadInv
    <3>2. result'.status = "EOF" =>
            result'.file \in Files /\ f_pos'[result'.file] >= Len(Stream)'
      BY <3>1, EofStep
    <3> HIDE DEF Stream
    <3> QED BY <3>2 DEF EofHolds
  <2>2. ASSUME NEW f \in Files, pc'[f] = "reading"
        PROVE  \E k \in 0 .. Count(buffer') - 1 : ReadsFrom(f, k)'
    <3>1. CASE pc[f] = "reading"
      <4>1. PICK k \in 0 .. Count(buffer) - 1 : ReadsFrom(f, k)
        BY <3>1 DEF ReadInv, ReaderPlace
      <4>2. buffer' = buffer /\ local'[f] = local[f] /\ f_pos'[f] = f_pos[f]
        BY <2>2, <3>1, ReaderAlone
      <4>3. ReadsFrom(f, k)'
        BY <4>1, <4>2 DEF ReadsFrom
      <4> QED BY <4>1, <4>2, <4>3
    <3>2. CASE pc[f] # "reading"
      <4>1. PICK count \in Counts : ReadBegin(f, count)
        BY <2>2, <3>2, ReadStarts
      <4>2. buffer' = buffer /\ TypeOK'
        BY <4>1 DEF ReadBegin, Inv
      <4> QED BY <4>1, <4>2, ReadBeginPlace
    <3> QED BY <3>1, <3>2
  <2>3. ReaderPlace'
    BY <2>2 DEF ReaderPlace
  <2> QED BY <2>1, <2>3 DEF ReadInv
<1> QED BY <1>1, <1>2, InvHolds, PTL DEF Spec

(* What read delivers, for every ring, whatever runs while the call        *)
(* sleeps: the bytes of the window from the file's position on, and        *)
(* end-of-file only past the window.                                       *)
THEOREM ReadsTheWindow == Spec => ReadDeliversWindow
<1>1. ASSUME Inv, Inv', ReadInv, ReadInv', [Next]_vars
      PROVE  /\ \A f \in Files :
                  pc[f] = "reading" /\ f_pos'[f] # f_pos[f] =>
                    /\ result'.data = SubSeq(Stream, f_pos[f] + 1, f_pos'[f])
                    /\ f_pos'[f] <= Len(Stream)
             /\ result'.status = "EOF" =>
                  f_pos'[result'.file] >= Len(Stream')
  <2>1. result'.status = "EOF" => f_pos'[result'.file] >= Len(Stream')
    BY <1>1, EofStep DEF ReadInv
  <2>2. ASSUME NEW f \in Files, pc[f] = "reading", f_pos'[f] # f_pos[f]
        PROVE  /\ result'.data = SubSeq(Stream, f_pos[f] + 1, f_pos'[f])
               /\ f_pos'[f] <= Len(Stream)
    <3>1. ReadEnd(f)
      BY <1>1, <2>2, ReaderMoves
    <3>2. PICK k \in 0 .. Count(buffer) - 1 : ReadsFrom(f, k)
      BY <1>1, <2>2 DEF ReadInv, ReaderPlace
    <3> QED BY <1>1, <3>1, <3>2, ReadEndDelivers
  <2> QED BY <2>1, <2>2
<1>2. Inv /\ Inv' /\ ReadInv /\ ReadInv' /\ [Next]_vars =>
        [/\ \A f \in Files :
              pc[f] = "reading" /\ f_pos'[f] # f_pos[f] =>
                /\ result'.data = SubSeq(Stream, f_pos[f] + 1, f_pos'[f])
                /\ f_pos'[f] <= Len(Stream)
         /\ result'.status = "EOF" =>
              f_pos'[result'.file] >= Len(Stream')]_vars
  BY <1>1
<1> QED BY <1>2, InvHolds, ReadInvHolds, PTL DEF Spec, ReadDeliversWindow

-----------------------------------------------------------------------------
(* What a write that ends leaves behind. *)

(* The steps of a call that readers cannot see: all but the end of a write *)
(* whose copy has succeeded.                                               *)
Unseen(f) ==
  \/ Open(f) \/ Release(f) \/ Read(f) \/ Seek(f)
  \/ \E call \in {"read", "write", "llseek", "ioctl"} : Contend(f, call)
  \/ \E payload \in Payloads : WriteFirst(f, payload) \/ WriteAppend(f, payload)
  \/ WriteNoMemory(f) \/ WriteFault(f)

(* A call of one file moves no other. *)
LEMMA OthersAlone ==
  ASSUME Inv, NEW f \in Files, NEW g \in Files \ {f}, Unseen(f) \/ WriteEnd(f)
  PROVE  pc'[g] = pc[g] /\ local'[g] = local[g] /\ f_pos'[g] = f_pos[g]
<1>1. /\ pc \in [Files -> PCs] /\ local \in [Files -> LocalType]
      /\ f_pos \in [Files -> Nat]
  BY DEF Inv, TypeOK
<1>2. CASE \/ Open(f) \/ Release(f)
           \/ \E call \in {"read", "write", "llseek", "ioctl"} : Contend(f, call)
  BY <1>1, <1>2 DEF Open, Release, Contend
<1>3. CASE Read(f)
  BY <1>1, <1>3 DEF Read, ReadEOF, ReadBegin, ReadEnd, ReadFault, Sleep, Wake
<1>4. CASE Write(f)
  BY <1>1, <1>4 DEF Write, WriteFirst, WriteAppend, WriteNoMemory, WriteEnd,
                    WriteFault, Sleep, Wake
<1>5. CASE Seek(f)
  BY <1>1, <1>5 DEF Seek, Llseek, LlseekInvalid, IoctlSeekTo, IoctlInvalid
<1> QED BY <1>2, <1>3, <1>4, <1>5 DEF Unseen, Write

(* A step that stores nothing leaves what readers see as it is. *)
LEMMA StreamQuiet ==
  ASSUME Inv, Inv', NEW f \in Files, Unseen(f)
  PROVE  Stream' = Stream
<1> DEFINE Slot(i) == buffer.entry[i].buffptr
<1>1. /\ \A i \in Slots : Occupied(buffer, i) => Slot(i) \in Allocated
      /\ heap \in [Blocks -> Seq(Bytes) \cup {FREE}]
  BY DEF Inv, TypeOK, BlocksOwnedOnce
<1>2. ASSUME NEW payload \in Payloads,
             WriteFirst(f, payload) \/ WriteAppend(f, payload)
      PROVE  buffer' = buffer /\ \A c \in Allocated : heap'[c] = heap[c]
  <2>1. PICK b \in Blocks \ Allocated :
          \/ heap' = [heap EXCEPT ![b] = <<>>]
          \/ heap' = [heap EXCEPT ![b] = Content(aesd_entry)]
    BY <1>2 DEF WriteFirst, WriteAppend
  <2>2. buffer' = buffer
    BY <1>2 DEF WriteFirst, WriteAppend
  <2> QED BY <1>1, <2>1, <2>2 DEF Allocated
<1>3. ASSUME \/ Open(f) \/ Release(f) \/ Read(f) \/ Seek(f)
             \/ \E call \in {"read", "write", "llseek", "ioctl"} :
                  Contend(f, call)
             \/ WriteNoMemory(f) \/ WriteFault(f)
      PROVE  buffer' = buffer /\ heap' = heap
  BY <1>3 DEF Open, Release, Read, ReadEOF, ReadBegin, ReadEnd, ReadFault,
              Seek, Llseek, LlseekInvalid, IoctlSeekTo, IoctlInvalid, Contend,
              WriteNoMemory, WriteFault
<1>4. buffer' = buffer /\ \A c \in Allocated : heap'[c] = heap[c]
  BY <1>2, <1>3 DEF Unseen
<1>5. Window' = Window
  BY <1>1, <1>4, WindowSame
<1> HIDE DEF Window
<1> QED BY <1>5 DEF Stream

(* The stream ends with the last write of the window. *)
LEMMA StreamEnd ==
  Inv => (Count(buffer) > 0 => EndsWith(Stream, Window[Count(buffer)]))
<1> SUFFICES ASSUME Inv, Count(buffer) > 0
             PROVE  EndsWith(Stream, Window[Count(buffer)])
  OBVIOUS
<1> DEFINE n == Count(buffer)
           k == n - 1
           i == NthSlot(buffer, k)
           e == buffer.entry[i]
           b == Before(buffer)
           last == Window[n]
<1>1. WellFormed(buffer) /\ buffer \in BufferType /\ MaxOps \in Nat
  BY DEF Inv, BufferShape, TypeOK
<1>2. n \in 1 .. MaxOps /\ k \in 0 .. n - 1 /\ k \in 0 .. MaxOps - 1
  BY <1>1, WindowValue
<1>3. i \in Slots /\ Occupied(buffer, i)
  BY <1>1, <1>2, CountValue
<1>4. last = heap[e.buffptr] /\ Len(last) = e.size /\ e.size \in Nat
  <2>1. n \in 1 .. n
    BY <1>2
  <2>2. last = heap[e.buffptr]
    BY <2>1, WindowValue
  <2>3. Len(heap[e.buffptr]) = e.size /\ e.size \in Nat
    BY <1>3, SlotContent
  <2> HIDE DEF last, e
  <2> QED BY <2>2, <2>3
<1>5. /\ Len(Stream) = b[MaxOps]
      /\ \A j \in 1 .. e.size : Stream[b[k] + j] = heap[e.buffptr][j]
  BY <1>2, StreamValue
<1>6. b[n] = b[MaxOps]
  BY <1>1, BeforeCount
<1>7. b[k+1] = b[k] + e.size /\ b[k] \in Nat
  BY <1>1, <1>2, BeforeStep DEF Slots
<1>8. k + 1 = n
  BY <1>2
<1> HIDE DEF i, e, b, last, n, k, Stream
<1>9. Len(Stream) = b[k] + e.size
  BY <1>5, <1>6, <1>7, <1>8
<1>10. Len(last) <= Len(Stream) /\ Len(Stream) - Len(last) = b[k]
  BY <1>4, <1>7, <1>9
<1>11. \A j \in 1 .. Len(last) : Stream[Len(Stream) - Len(last) + j] = last[j]
  BY <1>4, <1>5, <1>10
<1> QED BY <1>10, <1>11 DEF EndsWith, last, n

(* A line whose write has ended is the last thing in the stream, unless    *)
(* the partial write it was added to holds a newline.                      *)
LEMMA LineIsLast ==
  ASSUME Inv, Inv', NEW f \in Files, WriteEnd(f), IsLine(local[f].data),
         ~Poisoned'
  PROVE  IsSuffix(local[f].data, Stream')
<1> DEFINE p    == local[f].data
           part == Content(aesd_entry)
           s    == part \o p
<1>1. p \in Payloads /\ LogWrite(p)
  BY LogWriteEnd
<1>2. p \in Seq(Bytes) /\ part \in Seq(Bytes) /\ p # <<>>
  BY <1>1, PartialValue DEF IsLine
<1>3. /\ s \in Seq(Bytes) /\ Len(s) = Len(part) + Len(p)
      /\ \A i \in 1 .. Len(p) : s[Len(part) + i] = p[i]
  BY <1>2, ConcatIndex
<1>4. Len(part) \in Nat /\ Len(p) \in Nat \ {0}
  BY <1>2
<1> HIDE DEF p, part, s
<1>5. s[Len(s)] = NL /\ Len(s) \in Nat \ {0} /\ s # <<>>
  <2>1. p[Len(p)] = NL /\ Len(p) \in 1 .. Len(p)
    BY <1>4 DEF IsLine, p
  <2> QED BY <1>3, <1>4, <2>1
<1>6. Log!IsLine(s)
  <2>1. CASE Log!Extend(p)
    <3>1. Content(aesd_entry)' = s
      BY <2>1 DEF Log!Extend, part, s
    <3>2. \A i \in 1 .. Len(s) - 1 : s[i] # NL
      BY <3>1 DEF Poisoned
    <3> QED BY <1>5, <3>2 DEF Log!IsLine
  <2>2. CASE ~Log!Extend(p)
    BY <1>1, <2>2 DEF LogWrite, Log!Complete, Log!Replace, s, part
  <2> QED BY <2>1, <2>2
<1>7. Window' = Append(Window, s) \/ (Window # <<>> /\ Window' = Append(Tail(Window), s))
  <2>1. Len(Window) = MaxOps => Window # <<>>
    BY WindowValue, EmptySeq
  <2> HIDE DEF Window
  <2> QED BY <1>1, <1>6, <2>1
          DEF LogWrite, Log!Extend, Log!Complete, Log!Replace, s, part
<1>8. Window \in Seq(Seq(Bytes))
  BY WindowValue
<1>9. (Window \in Seq(Seq(Bytes)) /\ Len(Window) = Count(buffer))'
  BY WindowValue, PTL
<1>10. Len(Window') > 0 /\ Window'[Len(Window')] = s
  <2> DEFINE w == Window
             t == Tail(w)
  <2>1. w \in Seq(Seq(Bytes)) /\ (w # <<>> => t \in Seq(Seq(Bytes)))
    BY <1>8
  <2> HIDE DEF Window, w, t
  <2>2. Window' = Append(w, s) \/ (w # <<>> /\ Window' = Append(t, s))
    BY <1>7 DEF w, t
  <2> QED BY <1>3, <2>1, <2>2, AppendProperties
<1>11. (Count(buffer) > 0 => EndsWith(Stream, Window[Count(buffer)]))'
  BY StreamEnd, PTL
<1>12. EndsWith(Stream', s)
  <2> HIDE DEF Window, Stream
  <2>1. Count(buffer)' > 0 => EndsWith(Stream', Window'[Count(buffer)'])
    BY <1>11
  <2> QED BY <1>9, <1>10, <2>1
<1>13. (Stream \in Seq(Bytes))'
  BY StreamValue, PTL
<1> HIDE DEF Stream
<1>14. EndsWith(Stream', p)
  <2>1. Len(Stream') \in Nat /\ Len(s) <= Len(Stream')
    BY <1>12, <1>13 DEF EndsWith
  <2>2. \A i \in 1 .. Len(p) :
          /\ Len(part) + i \in 1 .. Len(s)
          /\ Len(Stream') - Len(s) + (Len(part) + i)
               = Len(Stream') - Len(p) + i
    BY <1>3, <1>4, <2>1
  <2>3. \A i \in 1 .. Len(p) : Stream'[Len(Stream') - Len(p) + i] = p[i]
    BY <1>3, <1>12, <2>2 DEF EndsWith
  <2>4. Len(p) <= Len(Stream')
    BY <1>3, <1>4, <2>1
  <2> QED BY <2>3, <2>4 DEF EndsWith
<1>15. IsSuffix(p, Stream')
  BY <1>2, <1>13, <1>14, EndsWithSuffix
<1> QED BY <1>15 DEF p
=============================================================================
