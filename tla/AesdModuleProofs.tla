-------------------------- MODULE AesdModuleProofs --------------------------
(***************************************************************************)
(* Theorems about loading and unloading the driver, for any number of      *)
(* loads, files and blocks.                                                *)
(*                                                                         *)
(* What ties the parts together is where the scripts are: which commands   *)
(* run with the module in which state, and whose probe is the first.  The  *)
(* memory needs the invariant of the open files (AesdCharProofs), which    *)
(* an unload restores.                                                     *)
(***************************************************************************)
EXTENDS AesdModule, AesdCharProofs

SomeOpen == \E f \in Files : pc[f] # "closed"

(* The commands of the scripts and the module keep step. *)
InStep ==
  /\ module \in {"absent", "starting", "live"}
  /\ module = "starting" <=> script = "insmod"
  /\ script \in {"rm", "mknod"} => module = "live"
  /\ script = "unload rm" => module = "absent"

(* The first probe is the one of the module that is loaded. *)
FirstProbe ==
  /\ load \in Nat
  /\ probes \in Seq(Nat)
  /\ module = "live" => probes # <<>> /\ Head(probes) = load

(* After the rm of the script nobody but another program makes the node. *)
Cleared == script = "mknod" /\ ~touched => node = "none"

ModuleInv ==
  /\ DOMAIN pc = Files
  /\ InStep
  /\ FirstProbe
  /\ Cleared
  /\ NodeHasDriver
  /\ wild => script = "unload rm"
  /\ LoadedHasNode

LEMMA InitModuleInv == ModuleInit => ModuleInv
BY DEF ModuleInit, Init, ModuleInv, InStep, FirstProbe, Cleared, NodeHasDriver,
       LoadedHasNode

(* The latest probe is the first. *)
LEMMA PrependProbe ==
  ASSUME probes \in Seq(Nat), NEW n \in Nat, SetupCdev(n)
  PROVE  probes' \in Seq(Nat) /\ probes' # <<>> /\ Head(probes') = n
BY DEF SetupCdev

LEMMA InsmodInv ==
  ASSUME ModuleInv, ~wild, Insmod PROVE ModuleInv'
<1>1. load' \in Nat /\ probes' \in Seq(Nat)
  BY PrependProbe DEF Insmod, ModuleInv, FirstProbe, SetupCdevFails, SetupCdev
<1>2. /\ module = "absent" /\ module' = "starting"
      /\ script = "idle" /\ script' = "insmod"
      /\ UNCHANGED <<pc, node, wild>>
  BY DEF Insmod, vars
<1> QED
  BY <1>1, <1>2
  DEF ModuleInv, InStep, FirstProbe, Cleared, NodeHasDriver, LoadedHasNode

(* When the second cdev_add fails no file is open, since no node can have  *)
(* led to the driver before.                                               *)
LEMMA SecondSetupInv ==
  ASSUME ModuleInv, ~wild, SecondSetup PROVE ModuleInv'
<1>1. /\ module = "starting" /\ script = "insmod"
      /\ UNCHANGED <<pc, load, node, touched>>
  BY DEF SecondSetup, vars, ModuleInv, InStep
<1>2. node # "device" /\ ~SomeOpen
  BY <1>1 DEF ModuleInv, NodeHasDriver, SomeOpen
<1>3. CASE SetupCdev(load) /\ module' = "live" /\ script' = "rm" /\ UNCHANGED wild
  <2>1. FirstProbe'
    BY <1>1, <1>3, PrependProbe DEF ModuleInv, FirstProbe
  <2> QED BY <1>1, <1>2, <1>3, <2>1
          DEF ModuleInv, InStep, Cleared, NodeHasDriver, LoadedHasNode, SomeOpen
<1>4. CASE /\ SetupCdevFails /\ module' = "absent" /\ script' = "idle"
           /\ wild' = SomeOpen
  BY <1>1, <1>2, <1>4
  DEF SetupCdevFails, ModuleInv, InStep, FirstProbe, Cleared, NodeHasDriver,
      LoadedHasNode, SomeOpen
<1> QED BY <1>3, <1>4 DEF SecondSetup, SomeOpen

LEMMA RmmodInv ==
  ASSUME ModuleInv, ~wild, Rmmod PROVE ModuleInv'
<1>1. /\ module' = "absent" /\ script' = "unload rm"
      /\ UNCHANGED <<pc, load, node, touched, wild>>
      /\ ~SomeOpen /\ script = "idle"
  BY DEF Rmmod, Unused, SomeOpen
<1>2. probes \in Seq(Nat) /\ probes # <<>> /\ probes' = Tail(probes)
  BY DEF Rmmod, Unused, ModuleInv, FirstProbe
<1>3. probes' \in Seq(Nat)
  BY <1>2
<1> QED
  BY <1>1, <1>3
  DEF ModuleInv, InStep, FirstProbe, Cleared, NodeHasDriver, LoadedHasNode, SomeOpen

(* The commands that only handle the node. *)
LEMMA NodeInv ==
  ASSUME ModuleInv, ~wild, LoadRemove \/ Mknod \/ UnloadRemove \/ Unlink
  PROVE  ModuleInv'
<1>1. UNCHANGED <<pc, module, load, probes, wild>>
  BY DEF LoadRemove, Mknod, UnloadRemove, Unlink, vars
<1>2. FirstProbe' /\ DOMAIN pc' = Files
  BY <1>1 DEF ModuleInv, FirstProbe
<1>3. SomeOpen' => SomeOpen
  BY <1>1 DEF SomeOpen
<1>4. CASE LoadRemove
  BY <1>1, <1>2, <1>3, <1>4 DEF LoadRemove, ModuleInv, InStep, Cleared,
     NodeHasDriver, LoadedHasNode, SomeOpen
<1>5. CASE Mknod
  BY <1>1, <1>2, <1>3, <1>5 DEF Mknod, ModuleInv, InStep, Cleared,
     NodeHasDriver, LoadedHasNode, SomeOpen
<1>6. CASE UnloadRemove
  <2>1. /\ script = "unload rm" /\ script' = "idle" /\ node' = "none"
        /\ module = "absent"
    BY <1>6 DEF UnloadRemove, ModuleInv, InStep
  <2>2. InStep' /\ Cleared' /\ LoadedHasNode' /\ ~wild'
    BY <1>1, <2>1 DEF InStep, Cleared, LoadedHasNode
  <2>3. NodeHasDriver'
    BY <1>1, <2>1 DEF ModuleInv, NodeHasDriver
  <2> QED BY <1>2, <2>2, <2>3 DEF ModuleInv
<1>7. CASE Unlink
  <2>1. /\ node' = "none" /\ touched'
        /\ UNCHANGED <<pc, module, load, probes, script, wild>>
    BY <1>1, <1>7 DEF Unlink
  <2>2. InStep'
    BY <2>1 DEF ModuleInv, InStep
  <2>3. Cleared' /\ LoadedHasNode'
    BY <2>1 DEF Cleared, LoadedHasNode
  <2>4. NodeHasDriver'
    BY <2>1 DEF ModuleInv, NodeHasDriver
  <2>5. ~wild'
    BY <2>1
  <2> QED BY <1>2, <2>2, <2>3, <2>4, <2>5 DEF ModuleInv
<1> QED BY <1>4, <1>5, <1>6, <1>7

LEMMA OpenNodeInv ==
  ASSUME ModuleInv, ~wild, NEW f \in Files, OpenNode(f) PROVE ModuleInv'
<1> USE DEF ModuleInv, InStep, FirstProbe, Cleared, NodeHasDriver, LoadedHasNode
<1>1. CASE /\ node = "none" /\ node' = "file" /\ touched' = TRUE
           /\ UNCHANGED <<vars, module, load, probes, script, wild>>
  BY <1>1 DEF vars
<1>2. CASE /\ node = "device" /\ module # "absent" /\ Open(f)
           /\ UNCHANGED loading
  <2>1. module = "live"
    BY <1>2
  <2>2. DOMAIN pc' = Files
    BY <1>2 DEF Open
  <2> QED BY <1>2, <2>1, <2>2 DEF loading
<1>3. CASE /\ node = "device" /\ ~(Reaches = load /\ module # "absent")
           /\ UNCHANGED <<vars, module, load, probes, node, script, touched>>
  <2>1. module # "live"
    BY <1>3 DEF Reaches
  <2>2. script = "unload rm"
    BY <1>3, <2>1
  <2> QED BY <1>3, <2>2 DEF vars
<1> QED BY <1>1, <1>2, <1>3 DEF OpenNode

(* A call needs an open file, and opens none.                              *)
LEMMA UseInv ==
  ASSUME ModuleInv, ~wild, NEW f \in Files, Use(f) PROVE ModuleInv'
<1>1. UNCHANGED loading
  BY DEF Use
<1>2. pc[f] # "closed" /\ (pc' = pc \/ \E p \in PCs : pc' = [pc EXCEPT ![f] = p])
  <2>1. CASE Release(f)
    BY <2>1 DEF Release, PCs
  <2>2. CASE Read(f)
    BY <2>2
    DEF Read, ReadEOF, ReadBegin, ReadEnd, ReadFault, CanLock, Sleep, Wake, PCs
  <2>3. CASE Write(f)
    <3>1. ASSUME NEW payload \in Payloads,
                 WriteFirst(f, payload) \/ WriteAppend(f, payload)
          PROVE  pc[f] # "closed" /\ \E p \in PCs : pc' = [pc EXCEPT ![f] = p]
      BY <3>1 DEF WriteFirst, WriteAppend, CanLock, Sleep, PCs
    <3>2. CASE WriteNoMemory(f)
      BY <3>2 DEF WriteNoMemory, CanLock
    <3>3. CASE WriteEnd(f) \/ WriteFault(f)
      BY <3>3 DEF WriteEnd, WriteFault, Wake, PCs
    <3> QED BY <2>3, <3>1, <3>2, <3>3 DEF Write
  <2> QED BY <2>1, <2>2, <2>3 DEF Use
<1>3. DOMAIN pc' = Files /\ (SomeOpen' => SomeOpen)
  BY <1>2 DEF ModuleInv, SomeOpen
<1> QED
  BY <1>1, <1>3
  DEF loading, ModuleInv, InStep, FirstProbe, Cleared, NodeHasDriver,
      LoadedHasNode, SomeOpen

(* What insmod, rmmod and the opens of the node keep between them. *)
THEOREM ModuleInvHolds == ModuleSpec => []ModuleInv
<1>1. ModuleInit => ModuleInv
  BY InitModuleInv
<1>2. ModuleInv /\ [ModuleNext]_moduleVars => ModuleInv'
  <2> SUFFICES ASSUME ModuleInv, [ModuleNext]_moduleVars PROVE ModuleInv'
    OBVIOUS
  <2>1. CASE UNCHANGED moduleVars
    BY <2>1 DEF moduleVars, loading, vars, ModuleInv, InStep, FirstProbe, Cleared,
                NodeHasDriver, LoadedHasNode
  <2>2. ASSUME ModuleNext PROVE ModuleInv'
    BY <2>2, InsmodInv, SecondSetupInv, RmmodInv, NodeInv, OpenNodeInv, UseInv
    DEF ModuleNext
  <2> QED BY <2>1, <2>2
<1> QED BY <1>1, <1>2, PTL DEF ModuleSpec

(* A device node and an open file stand for a driver that is loaded, but   *)
(* for a node between rmmod and the rm after it.                           *)
THEOREM DriverBehindNode == ModuleSpec => []NodeHasDriver
<1>1. ModuleInv => NodeHasDriver
  BY DEF ModuleInv
<1> QED BY <1>1, ModuleInvHolds, PTL

(* However many loads have left their probe behind, the number of a loaded *)
(* driver leads to it, and only an open between rmmod and rm to memory     *)
(* that has been given back.                                               *)
THEOREM NodeLeadsToDriver == ModuleSpec => []NodeReachesDriver
<1>1. ModuleInv => NodeReachesDriver
  BY DEF ModuleInv, FirstProbe, NodeReachesDriver, Reaches
<1> QED BY <1>1, ModuleInvHolds, PTL

(* A load that has run to its end leaves a device node, if no other        *)
(* program has touched the name.                                           *)
THEOREM LoadLeavesNode == ModuleSpec => []LoadedHasNode
<1>1. ModuleInv => LoadedHasNode
  BY DEF ModuleInv
<1> QED BY <1>1, ModuleInvHolds, PTL

-----------------------------------------------------------------------------
(* Memory over any number of loads. *)

(* The invariant of the open files outlives a load: the next one finds the *)
(* memory as aesd_init_module expects it.                                  *)
LoadedInv == Inv /\ ~oops

(* aesd_cleanup_module leaves an empty ring and no partial write, and the  *)
(* blocks of no slot in use.                                               *)
LEMMA RmmodDriver ==
  ASSUME Inv, Rmmod PROVE Inv'
<1>1. /\ buffer' = CircularBufferInit /\ aesd_entry' = NoEntry
      /\ heap' = kfree(heap, Freed)
      /\ UNCHANGED <<lock, f_pos, pc, local, result, oops>>
      /\ \A f \in Files : pc[f] = "closed"
  BY DEF Rmmod, Unused
<1>2. BufferShape' /\ buffer' \in BufferType
  BY <1>1, InitWellFormed DEF BufferShape, WellFormed
<1>3. \A i \in Slots : ~Occupied(buffer', i)
  BY <1>1 DEF CircularBufferInit, NoEntry, Occupied
<1>4. TypeOK'
  <2>1. NoEntry \in EntryType
    BY DEF NoEntry, EntryType
  <2>2. heap' \in [Blocks -> Seq(Bytes) \cup {FREE}]
    BY <1>1, KfreeContent DEF Inv, TypeOK
  <2> QED BY <1>1, <1>2, <2>1, <2>2 DEF Inv, TypeOK
<1>5. BlocksOwnedOnce' /\ SizesMatch' /\ ReaderBlockLive' /\ StoredLines'
  BY <1>1, <1>3 DEF BlocksOwnedOnce, SizesMatch, ReaderBlockLive, StoredLines,
                    NoEntry
<1>6. WriterUpToDate'
  BY <1>1 DEF Inv, WriterUpToDate
<1> QED BY <1>2, <1>4, <1>5, <1>6 DEF Inv

(* An open file's calls are steps of the driver, and none meets the lock's *)
(* slow path.                                                              *)
LEMMA DriverStep ==
  ASSUME ~oops, [ModuleNext]_moduleVars
  PROVE  [Next]_vars \/ Rmmod
<1>1. CASE UNCHANGED moduleVars
  BY <1>1 DEF moduleVars
<1>2. CASE Insmod \/ SecondSetup \/ LoadRemove \/ Mknod \/ UnloadRemove \/ Unlink
  BY <1>2 DEF Insmod, SecondSetup, LoadRemove, Mknod, UnloadRemove, Unlink
<1>3. ASSUME NEW f \in Files, OpenNode(f) \/ Use(f) PROVE [Next]_vars
  BY <1>3 DEF OpenNode, Use, Next
<1> QED BY <1>1, <1>2, <1>3 DEF ModuleNext

(* The kernel's list and the scripts leave oops alone, and so do the calls *)
(* of AesdModule.                                                          *)
LEMMA NoOops ==
  ASSUME [ModuleNext]_moduleVars PROVE oops' = oops
<1>1. CASE UNCHANGED moduleVars
  BY <1>1 DEF moduleVars, vars
<1>2. CASE Insmod \/ SecondSetup \/ LoadRemove \/ Mknod \/ UnloadRemove \/ Unlink
  BY <1>2
  DEF Insmod, SecondSetup, LoadRemove, Mknod, UnloadRemove, Unlink, vars
<1>3. CASE Rmmod
  BY <1>3 DEF Rmmod
<1>4. ASSUME NEW f \in Files, OpenNode(f) PROVE oops' = oops
  BY <1>4 DEF OpenNode, Open, vars
<1>5. ASSUME NEW f \in Files, Use(f) PROVE oops' = oops
  BY <1>5 DEF Use, Release, Read, ReadEOF, ReadBegin, ReadEnd, ReadFault, Write,
              WriteFirst, WriteAppend, WriteNoMemory, WriteEnd, WriteFault
<1> QED BY <1>1, <1>2, <1>3, <1>4, <1>5 DEF ModuleNext

(* The open files behave as AesdChar's through every load and unload.      *)
THEOREM LoadedInvHolds == ModuleSpec => []LoadedInv
<1>1. ModuleInit => LoadedInv
  BY InitInv DEF ModuleInit, Init, LoadedInv
<1>2. LoadedInv /\ [ModuleNext]_moduleVars => LoadedInv'
  BY DriverStep, NoOops, RmmodDriver, NextInv DEF LoadedInv
<1> QED BY <1>1, <1>2, PTL DEF ModuleSpec

(* A call whose copy faults while it extends the partial write loses the   *)
(* block it had allocated for it, no other.                                *)
LEMMA FaultLoses ==
  ASSUME Inv, NEW f \in Files, pc[f] = "writing append", WriteFault(f)
  PROVE  (Allocated' \ Owned') \ (Allocated \ Owned) \subseteq {local[f].block}
<1>1. UNCHANGED <<buffer, aesd_entry, heap>>
  BY DEF WriteFault
<1>2. \A g \in Files \ {f} : pc'[g] = pc[g] /\ local'[g] = local[g]
  BY DEF Inv, TypeOK, WriteFault, Wake
<1>3. Allocated' = Allocated
  BY <1>1 DEF Allocated
<1>4. Owned \ {local[f].block} \subseteq Owned'
  BY <1>1, <1>2 DEF Owned
<1> QED BY <1>3, <1>4

(* The unload frees the blocks of the slots, and no call owns one.         *)
LEMMA RmmodLoses ==
  ASSUME Inv, Rmmod
  PROVE  (Allocated' \ Owned') \ (Allocated \ Owned)
           \subseteq {aesd_entry.buffptr}
<1>1. heap' = kfree(heap, Freed) /\ \A f \in Files : pc[f] = "closed"
  BY DEF Rmmod, Unused
<1>2. Allocated' = Allocated \ Freed
  BY <1>1 DEF Allocated, kfree
<1>3. Owned \subseteq Freed \cup {aesd_entry.buffptr}
  BY <1>1 DEF Owned, Freed
<1> QED BY <1>2, <1>3

(* Only rmmod takes a live module away.                                    *)
LEMMA RmmodOnly ==
  ASSUME [ModuleNext]_moduleVars
  PROVE  module = "live" /\ module' = "absent" => Rmmod
<1>1. CASE UNCHANGED moduleVars
  BY <1>1 DEF moduleVars, loading
<1>2. CASE Insmod \/ SecondSetup \/ LoadRemove \/ Mknod \/ UnloadRemove \/ Unlink
  BY <1>2 DEF Insmod, SecondSetup, LoadRemove, Mknod, UnloadRemove, Unlink
<1>3. ASSUME NEW f \in Files, OpenNode(f) \/ Use(f)
      PROVE  ~(module = "live" /\ module' = "absent")
  BY <1>3 DEF OpenNode, Use, loading
<1> QED BY <1>1, <1>2, <1>3 DEF ModuleNext

(* Over any number of loads, each unload loses at most the block of a      *)
(* pending partial write, and each call at most the block its copy faulted *)
(* into.                                                                   *)
THEOREM UnloadLosesLittle == ModuleSpec => UnloadLosesPartialOnly
<1> DEFINE Lost  == (Allocated' \ Owned') \ (Allocated \ Owned)
           Faulting == {f \in Files : pc[f] = "writing append" /\ WriteFault(f)}
           Bound == IF module = "live" /\ module' = "absent"
                    THEN {aesd_entry.buffptr}
                    ELSE {local[f].block : f \in Faulting}
<1>1. ASSUME LoadedInv, LoadedInv', [ModuleNext]_moduleVars
      PROVE  Lost \subseteq Bound
  <2>1. CASE Rmmod
    BY <1>1, <2>1, RmmodLoses DEF LoadedInv, Rmmod, Unused
  <2>2. CASE ~Rmmod
    <3>1. [Next]_vars /\ ~(module = "live" /\ module' = "absent")
      BY <1>1, <2>2, DriverStep, RmmodOnly DEF LoadedInv
    <3>2. CASE (Allocated' \ Owned') \subseteq (Allocated \ Owned)
      BY <3>2
    <3>3. ASSUME NEW f \in Files, pc[f] = "writing append", WriteFault(f)
          PROVE  Lost \subseteq Bound
      BY <1>1, <3>1, <3>3, FaultLoses DEF LoadedInv
    <3> QED BY <1>1, <3>1, <3>2, <3>3, LeakStep DEF LoadedInv
  <2> QED BY <2>1, <2>2
<1>2. LoadedInv /\ LoadedInv' /\ [ModuleNext]_moduleVars => [Lost \subseteq Bound]_moduleVars
  BY <1>1
<1> QED BY <1>2, LoadedInvHolds, PTL DEF ModuleSpec, UnloadLosesPartialOnly
=============================================================================
