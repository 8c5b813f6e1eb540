---------------------------- MODULE MCAesdSocket ----------------------------
(***************************************************************************)
(* Model values and bounds for the runs of AesdSocket.                     *)
(***************************************************************************)
EXTENDS AesdSocket, TLC

CONSTANTS x, y, nl, seek, back, far, bad

(* A seek to the second byte of slot 1, one to a byte before it (an offset *)
(* of -1), one the ioctl refuses, and one sscanf cannot read.              *)
MCSeekArgs ==
  seek :> [write_cmd |-> 1, write_cmd_offset |-> 1]
  @@ back :> [write_cmd |-> 1, write_cmd_offset |-> Uint32 - 1]
  @@ far :> [write_cmd |-> MaxOps, write_cmd_offset |-> 0]
  @@ bad :> Malformed

(* A line, a fragment, two lines in one request, the four seeks, and a     *)
(* line that does not fit the buffer.                                      *)
MCAllRequests ==
  {<<x, nl>>, <<x>>, <<nl, x, nl>>, <<seek, nl>>, <<back, nl>>,
   <<far, nl>>, <<bad, nl>>, <<x, x, x, nl>>}

(* For two workers at once. *)
MCRequests == {<<x, nl>>, <<nl>>, <<seek, nl>>}

MCLines == {<<x, nl>>, <<seek, nl>>}

(* A device nobody has used, one with a line longer than a read of the     *)
(* server, and one that other programs have filled.                        *)
MCNew    == {<<>>}
MCOne    == {<<<<y, y, y, y, nl>>>>}
MCFilled == {<<<<y, y, y, y, nl>>, <<nl>>>>}
MCUsed   == MCNew \cup MCFilled
=============================================================================
