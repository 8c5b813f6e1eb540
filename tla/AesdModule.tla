----------------------------- MODULE AesdModule -----------------------------
(***************************************************************************)
(* Loading and unloading the driver: aesd_init_module, aesd_setup_cdev and *)
(* aesd_cleanup_module (aesd-char-driver/main.c:256-312), the scripts      *)
(* aesdchar_load and aesdchar_unload around them, and programs that open   *)
(* /dev/aesdchar meanwhile; the open files behave as in AesdChar.          *)
(*                                                                         *)
(* The kernel finds the driver of a device number in a list of probes, the *)
(* latest first: cdev_add puts one there, cdev_del removes one.  Every     *)
(* load is given the same number, the only one free.                       *)
(***************************************************************************)
EXTENDS AesdChar

CONSTANT MaxLoads  \* bound: how often the module is loaded

ASSUME ModuleAssumption == MaxLoads \in Nat

VARIABLES
  module,   \* "absent", "starting" (between the two cdev_adds) or "live"
  load,     \* the number of the last load
  probes,   \* the loads whose aesd_device the list points to, latest first
  node,     \* what /dev/aesdchar is: "none", a regular "file", a "device"
  script,   \* the next command of the running script, or "idle"
  touched,  \* history: another program has made or unlinked the node since
            \* the last load began
  wild      \* a program has reached the memory of an unloaded module

loading    == <<module, load, probes, node, script, touched, wild>>
moduleVars == <<vars, loading>>

ModuleInit ==
  /\ Init
  /\ module = "absent" /\ load = 0 /\ probes = <<>>
  /\ node = "none" /\ script = "idle" /\ touched = FALSE /\ wild = FALSE

-----------------------------------------------------------------------------
(* aesdchar_load. *)

(* aesd_setup_cdev: cdev_add may find no memory for the probe. *)
SetupCdev(n) == probes' = <<n>> \o probes
SetupCdevFails == UNCHANGED probes

(* insmod, down to the first aesd_setup_cdev, whose result is dropped.  A  *)
(* region that is refused changes nothing.                                 *)
Insmod ==
  /\ script = "idle" /\ module = "absent" /\ load < MaxLoads
  /\ module' = "starting"
  /\ load' = load + 1
  /\ SetupCdev(load') \/ SetupCdevFails
  /\ script' = "insmod"
  /\ touched' = FALSE
  /\ UNCHANGED <<vars, node, wild>>

(* Mutant: the result of the second aesd_setup_cdev is dropped as well. *)
SecondSetupUnchecked ==
  /\ module = "starting"
  /\ module' = "live" /\ script' = "rm"
  /\ SetupCdev(load) \/ SetupCdevFails
  /\ UNCHANGED <<vars, load, node, touched, wild>>

(* The second one decides.  When it fails the region is given back and the *)
(* module goes, whoever may have opened it; the first probe stays.         *)
SecondSetup ==
  /\ module = "starting"
  /\ \/ /\ SetupCdev(load)
        /\ module' = "live" /\ script' = "rm"
        /\ UNCHANGED wild
     \/ /\ SetupCdevFails
        /\ module' = "absent" /\ script' = "idle"
        /\ wild' = \E f \in Files : pc[f] # "closed"
  /\ UNCHANGED <<vars, load, node, touched>>

(* Mutant: the script has no rm. *)
LoadRemoveNothing ==
  /\ script = "rm"
  /\ script' = "mknod"
  /\ UNCHANGED <<vars, module, load, probes, node, touched, wild>>

LoadRemove ==
  /\ script = "rm"
  /\ node' = "none"
  /\ script' = "mknod"
  /\ UNCHANGED <<vars, module, load, probes, touched, wild>>

(* mknod fails if there is something of that name, and ends the script. *)
Mknod ==
  /\ script = "mknod"
  /\ node' = IF node = "none" THEN "device" ELSE node
  /\ script' = "idle"
  /\ UNCHANGED <<vars, module, load, probes, touched, wild>>

-----------------------------------------------------------------------------
(* aesdchar_unload. *)

(* Mutant: the loop runs from out_offs to in_offs. *)
FreedUpToIn ==
  {buffer.entry[i].buffptr : i \in buffer.out_offs .. buffer.in_offs - 1} \ {NULL}

(* AESD_CIRCULAR_BUFFER_FOREACH: the blocks of all slots, not the partial  *)
(* write's.                                                                *)
Freed == {buffer.entry[i].buffptr : i \in Slots} \ {NULL}

(* aesd_fops.owner: an open file keeps the module. *)
Unused ==
  /\ module = "live"
  /\ \A f \in Files : pc[f] = "closed"

(* rmmod: aesd_cleanup_module deletes the cdev once, frees the slots, and  *)
(* the memory of the module is gone; the next load starts from zeroes.     *)
Rmmod ==
  /\ script = "idle" /\ Unused
  /\ probes' = Tail(probes)
  /\ heap' = kfree(heap, Freed)
  /\ buffer' = CircularBufferInit
  /\ aesd_entry' = NoEntry
  /\ module' = "absent" /\ script' = "unload rm"
  /\ UNCHANGED <<lock, f_pos, pc, local, result, oops, load, node, touched, wild>>

(* Mutant: stale nodes are left. *)
UnloadRemoveNothing ==
  /\ script = "unload rm"
  /\ script' = "idle"
  /\ UNCHANGED <<vars, module, load, probes, node, touched, wild>>

UnloadRemove ==
  /\ script = "unload rm"
  /\ node' = "none"
  /\ script' = "idle"
  /\ UNCHANGED <<vars, module, load, probes, touched, wild>>

-----------------------------------------------------------------------------
(* Programs. *)

Reaches == IF probes = <<>> THEN 0 ELSE Head(probes)

(* open with O_CREAT, as the server opens it (aesdsocket.c:265): a missing *)
(* node becomes a regular file, and a node leads to the first probe.       *)
OpenNode(f) ==
  \/ /\ node = "none" /\ pc[f] = "closed"
     /\ node' = "file" /\ touched' = TRUE
     /\ UNCHANGED <<vars, module, load, probes, script, wild>>
  \/ /\ node = "device" /\ Reaches = load /\ module # "absent"
     /\ Open(f)
     /\ UNCHANGED loading
  \/ /\ node = "device" /\ Reaches # 0 /\ ~(Reaches = load /\ module # "absent")
     /\ wild' = TRUE
     /\ UNCHANGED <<vars, module, load, probes, node, script, touched>>

(* The server's handler unlinks its file (aesdsocket.c:51). *)
Unlink ==
  /\ node # "none"
  /\ node' = "none" /\ touched' = TRUE
  /\ UNCHANGED <<vars, module, load, probes, script, wild>>

(* The calls of an open file. *)
Use(f) ==
  /\ Release(f) \/ Read(f) \/ Write(f)
  /\ UNCHANGED loading

ModuleNext ==
  /\ ~wild
  /\ \/ Insmod \/ SecondSetup \/ LoadRemove \/ Mknod
     \/ Rmmod \/ UnloadRemove \/ Unlink
     \/ \E f \in Files : OpenNode(f) \/ Use(f)

ModuleSpec == ModuleInit /\ [][ModuleNext]_moduleVars

-----------------------------------------------------------------------------
(* Properties. *)

(* The scripts leave no way to an unloaded driver but one: a device node   *)
(* or an open file stands for a driver that is loaded, except a node       *)
(* between rmmod and the rm that follows it.  Hence nobody can open the    *)
(* device between the two cdev_adds either, a failure of the second        *)
(* strands no file, and the server's workers, whose files stay open to the *)
(* end, keep the module.                                                   *)
NodeHasDriver ==
  /\ node = "device" => module = "live" \/ script = "unload rm"
  /\ (\E f \in Files : pc[f] # "closed") => module = "live"

(* Each unload leaves a probe of its load in the kernel's list, since one  *)
(* cdev is added twice and deleted once.  Whatever earlier loads have left *)
(* and whichever cdev_add failed, the number of a driver that is loaded    *)
(* leads to it: only that open between rmmod and rm can go wild.           *)
NodeReachesDriver ==
  /\ module = "live" => Reaches = load
  /\ wild => script = "unload rm"

(* A script that has run to its end leaves a device node, unless another   *)
(* program has made a file between its rm and its mknod, or the server's   *)
(* handler has unlinked the node since: then the next open makes a regular *)
(* file and the server no longer talks to the driver.                      *)
LoadedHasNode ==
  module = "live" /\ script = "idle" /\ ~touched => node = "device"

(* Memory over any number of loads: a block is lost only when a write that *)
(* extends the partial write faults, or when the module is unloaded with a *)
(* partial write pending, and then no other block is.                      *)
UnloadLosesPartialOnly ==
  [][(Allocated' \ Owned') \ (Allocated \ Owned) \subseteq
       IF module = "live" /\ module' = "absent" THEN {aesd_entry.buffptr}
       ELSE {local[f].block : f \in {f \in Files : pc[f] = "writing append"
                                                     /\ WriteFault(f)}}]_moduleVars
=============================================================================
