------------------------ MODULE AesdSocketFileProofs ------------------------
(***************************************************************************)
(* Theorems about the file-backed server, for any number of connections,   *)
(* chunks, timestamps and signals: the pieces of different threads never   *)
(* mix in the file, a worker sends back the line it has just written, and  *)
(* a mutex that a failed fopen has kept stays lost.                        *)
(*                                                                         *)
(* The invariant says what list_mutex protects: while a thread is inside   *)
(* writefile it holds the mutex, and at most the last piece of the one     *)
(* file it has open waits for its tail.                                    *)
(***************************************************************************)
EXTENDS AesdSocketFile, SequenceLemmas

USE FileAssumption

Places ==
  {"none", "test", "sleep", "loop", "recv", "write", "writing", "closing",
   "read", "send", "done", "dead"}

LocalType ==
  [file : Nat, n : Nat, newline : BOOLEAN, read : Seq(PieceType) \cup {KO}]

Inside == {"writing", "closing"}

(* The types, of the variables whole. *)
Typed ==
  /\ files \in Seq(Seq(PieceType))
  /\ pc \in [Threads -> Places]
  /\ local \in [Threads -> LocalType]
  /\ ticks \in Nat
  /\ TypeOK

(* Who is inside writefile holds list_mutex, and has a file open. *)
WriterLocks ==
  \A t \in Threads : pc[t] \in Inside =>
    list_mutex = t /\ local[t].file \in DOMAIN files

(* Every file is whole, but for the piece a worker has put in with fwrite  *)
(* and not yet finished with fclose.                                       *)
Unfinished(k) ==
  \E c \in Conns :
    /\ pc[c] = "closing" /\ local[c].file = k
    /\ files[k] # <<>> /\ files[k][Len(files[k])] = Piece(c, FALSE)

Rest(p) == [p EXCEPT !.tail = TRUE]

WholeButLast(s) ==
  \A i \in 1 .. Len(s) - 1 :
    ~s[i].tail => s[i + 1] = Rest(s[i])

FilesWhole ==
  main # "down" => \A k \in DOMAIN files :
    /\ WholeButLast(files[k])
    /\ Whole(files[k]) \/ Unfinished(k)

(* fwrite comes before fclose: a worker that closes has put its piece in.  *)
ClosesOwn ==
  \A c \in Conns : pc[c] = "closing" =>
    LET s == files[local[c].file]
    IN  s # <<>> /\ s[Len(s)] = Piece(c, FALSE)

(* What a worker has read is whole, unless the buffer cut it. *)
ReadWhole ==
  \A c \in Conns :
    pc[c] = "send" /\ local[c].read # KO /\ Len(local[c].read) < BufferSize
      => Whole(local[c].read)

Wrote(c) ==
  /\ local[c].file \in DOMAIN files
  /\ \E i \in DOMAIN files[local[c].file] :
       files[local[c].file][i] = Piece(c, TRUE)

(* A worker that comes to readfile has written its chunk, unless fopen had *)
(* failed; then nothing will be read any more.                             *)
OwnWritten ==
  \A c \in Conns :
    /\ pc[c] = "read" => Lost \/ Wrote(c)
    /\ pc[c] = "send" /\ local[c].read # KO => local[c].file \in DOMAIN files

(* The connection accept has taken has no worker yet, and after the end of *)
(* main nothing moves.                                                     *)
MainKnows ==
  /\ main = "create" => client_socket \in Conns /\ pc[client_socket] = "none"
  /\ main = "down" => handler = "none" /\ \A t \in Threads : pc[t] = "dead"

FileInv ==
  /\ Typed /\ WriterLocks /\ FilesWhole /\ ClosesOwn /\ ReadWhole
  /\ OwnWritten /\ OwnLineInReply /\ MainKnows

-----------------------------------------------------------------------------
(* Sequences of pieces. *)

(* A tail belongs to the head of the same chunk.                           *)
LEMMA RestOfPiece ==
  ASSUME NEW p \in PieceType, NEW q \in PieceType,
         p.by = q.by, p.n = q.n, q.tail = TRUE
  PROVE  Rest(p) = q
BY DEF PieceType, Rest

(* The rest of a chunk, or a whole one, after whole chunks. *)
LEMMA AppendWhole ==
  ASSUME NEW s \in Seq(PieceType), NEW p \in PieceType,
         WholeButLast(s),
         s # <<>> /\ ~s[Len(s)].tail => p = Rest(s[Len(s)]),
         p.tail
  PROVE  Whole(Append(s, p))
<1> DEFINE u == Append(s, p)
<1>1. /\ Len(s) \in Nat /\ Len(u) = Len(s) + 1
      /\ \A i \in 1 .. Len(s) : u[i] = s[i]
      /\ u[Len(s) + 1] = p /\ DOMAIN u = 1 .. Len(s) + 1
      /\ s # <<>> <=> Len(s) # 0
  BY AppendProperties, LenProperties, EmptySeq
<1> SUFFICES ASSUME NEW i \in DOMAIN u, ~u[i].tail
             PROVE  i < Len(u) /\ u[i + 1] = Rest(u[i])
  BY DEF Whole, Rest
<1> HIDE DEF u
<1>2. i \in 1 .. Len(s) /\ u[i] = s[i]
  BY <1>1
<1>3. CASE i = Len(s)
  BY <1>1, <1>2, <1>3
<1>4. CASE i # Len(s)
  <2>1. i \in 1 .. Len(s) - 1 /\ i + 1 \in 1 .. Len(s)
    BY <1>1, <1>2, <1>4
  <2> QED BY <1>1, <1>2, <2>1 DEF WholeButLast
<1> QED BY <1>3, <1>4

(* The beginning of a chunk after whole ones. *)
LEMMA AppendBegun ==
  ASSUME NEW s \in Seq(PieceType), NEW p \in PieceType, Whole(s)
  PROVE  WholeButLast(Append(s, p))
<1> DEFINE u == Append(s, p)
<1>1. /\ Len(s) \in Nat /\ Len(u) = Len(s) + 1
      /\ \A i \in 1 .. Len(s) : u[i] = s[i]
      /\ DOMAIN s = 1 .. Len(s)
  BY AppendProperties, LenProperties
<1> SUFFICES ASSUME NEW i \in 1 .. Len(u) - 1, ~u[i].tail
             PROVE  u[i + 1] = Rest(u[i])
  BY DEF WholeButLast
<1> HIDE DEF u
<1>2. i \in DOMAIN s /\ u[i] = s[i]
  BY <1>1
<1>3. i < Len(s) /\ s[i + 1] = Rest(s[i])
  BY <1>2 DEF Whole, Rest
<1>4. i + 1 \in 1 .. Len(s)
  BY <1>1, <1>2, <1>3
<1> QED BY <1>1, <1>2, <1>3, <1>4

(* A file that is whole is so up to its last piece.                        *)
LEMMA WholeIsWholeButLast ==
  ASSUME NEW s \in Seq(PieceType), Whole(s)
  PROVE  /\ WholeButLast(s)
         /\ s # <<>> => s[Len(s)].tail
<1>1. Len(s) \in Nat /\ DOMAIN s = 1 .. Len(s) /\ (s # <<>> => Len(s) # 0)
  BY LenProperties, EmptySeq
<1>2. \A i \in 1 .. Len(s) - 1 : i \in DOMAIN s
  BY <1>1
<1>3. s # <<>> => Len(s) \in DOMAIN s
  BY <1>1
<1>4. WholeButLast(s)
  BY <1>2 DEF Whole, WholeButLast, Rest
<1>5. s # <<>> => s[Len(s)].tail
  <2>1. \A i \in DOMAIN s : ~s[i].tail => i < Len(s)
    BY DEF Whole
  <2> QED BY <1>1, <1>3, <2>1
<1> QED BY <1>4, <1>5

(* What readfile returns: at most the buffer, and the whole file unless    *)
(* the buffer is full.                                                     *)
First(s) == SubSeq(s, 1, Min({Len(s), BufferSize}))

(* What fits into the buffer is read whole.                                *)
LEMMA FirstPieces ==
  ASSUME NEW s \in Seq(PieceType)
  PROVE  /\ First(s) \in Seq(PieceType) /\ Len(First(s)) <= BufferSize
         /\ Len(First(s)) < BufferSize \/ Len(s) <= BufferSize => First(s) = s
<1> DEFINE m == Min({Len(s), BufferSize})
<1>1. Len(s) \in Nat
  BY LenProperties
<1>2. m = IF Len(s) <= BufferSize THEN Len(s) ELSE BufferSize
  BY <1>1 DEF Min
<1>3. m \in Nat /\ m <= Len(s) /\ m <= BufferSize
  BY <1>1, <1>2
<1>4. \A i \in 1 .. m : s[i] \in PieceType
  BY <1>1, <1>3, ElementOfSeq
<1> HIDE DEF m
<1>5. /\ SubSeq(s, 1, m) \in Seq(PieceType)
      /\ Len(SubSeq(s, 1, m)) = m
  BY <1>3, <1>4, SubSeqProperties
<1>6. m = Len(s) => SubSeq(s, 1, m) = s
  BY SubSeqFull
<1>7. First(s) = SubSeq(s, 1, m)
  BY DEF First, m
<1> QED BY <1>1, <1>2, <1>3, <1>5, <1>6, <1>7

-----------------------------------------------------------------------------
(* Initially, and at the end. *)

LEMMA InitFile == Init => FileInv
<1> SUFFICES ASSUME Init PROVE FileInv
  OBVIOUS
<1>1. NoLocals \in LocalType /\ NoLocals.file = 0 /\ NoLocals.read = <<>>
  BY EmptySeq DEF NoLocals, LocalType
<1>2. \A t \in Threads : pc[t] \in {"test", "none"} /\ local[t] = NoLocals
  BY DEF Init
<1>3. /\ pc \in [Threads -> Places] /\ local \in [Threads -> LocalType]
      /\ files = <<>> /\ files \in Seq(Seq(PieceType)) /\ Len(files) = 0
  BY <1>1, EmptySeq DEF Init, Places
<1>4. /\ Len(NoLocals.read) <= BufferSize /\ DOMAIN files = {}
  BY <1>1, <1>3, EmptySeq, LenProperties
<1> HIDE DEF NoLocals
<1>5. TypeOK
  <2>1. 0 \in 0 .. Len(files) /\ Len(NoLocals.read) <= BufferSize
    BY <1>3, <1>4
  <2>2. /\ \A t \in Threads : pc[t] \in {"test", "none"} /\ local[t] = NoLocals
        /\ \A k \in DOMAIN files : FALSE
    BY <1>2, <1>4
  <2>3. 0 \in 0 .. MaxSignals
    OBVIOUS
  <2> QED BY <1>1, <2>1, <2>2, <2>3 DEF Init, TypeOK
<1>6. Typed
  BY <1>3, <1>5 DEF Init, Typed
<1>7. \A c \in Conns : c \in Threads
  BY DEF Threads
<1>8. WriterLocks /\ ClosesOwn /\ ReadWhole /\ OwnWritten /\ OwnLineInReply
  BY <1>2, <1>7
  DEF WriterLocks, ClosesOwn, ReadWhole, OwnWritten, OwnLineInReply, Inside
<1>9. FilesWhole /\ MainKnows
  BY <1>4 DEF FilesWhole, MainKnows, Init
<1> QED BY <1>6, <1>8, <1>9 DEF FileInv

LEMMA EndFile ==
  ASSUME FileInv, ProcessEnds PROVE FileInv'
<1>1. NoLocals \in LocalType /\ NoLocals.file = 0 /\ Len(NoLocals.read) = 0
  BY EmptySeq DEF NoLocals, LocalType
<1>2. /\ main' = "down" /\ handler' = "none" /\ list_mutex' = NULL
      /\ UNCHANGED <<running, signals, client_socket, files, name, ticks,
                     gone>>
      /\ \A t \in Threads : pc'[t] = "dead" /\ local'[t] = NoLocals
      /\ pc' \in [Threads -> Places] /\ local' \in [Threads -> LocalType]
  BY <1>1 DEF ProcessEnds, Places
<1>3. Typed'
  <2>1. Typed
    BY DEF FileInv
  <2>2. 0 \in 0 .. Len(files) /\ Len(NoLocals.read) <= BufferSize
    BY <1>1, <2>1, LenProperties DEF Typed
  <2>3. TypeOK'
    BY <1>1, <1>2, <2>1, <2>2 DEF Typed, TypeOK
  <2> QED BY <1>2, <2>1, <2>3 DEF Typed
<1>4. \A c \in Conns : c \in Threads
  BY DEF Threads
<1>5. (WriterLocks /\ ClosesOwn /\ ReadWhole /\ OwnWritten /\ OwnLineInReply)'
  BY <1>2, <1>4
  DEF WriterLocks, ClosesOwn, ReadWhole, OwnWritten, OwnLineInReply, Inside
<1>6. (FilesWhole /\ MainKnows)'
  BY <1>2 DEF FilesWhole, MainKnows
<1> QED BY <1>3, <1>5, <1>6 DEF FileInv

-----------------------------------------------------------------------------
(* A step of one thread. *)

Move(t, where, r) ==
  /\ pc' = [pc EXCEPT ![t] = where]
  /\ local' = [local EXCEPT ![t] = r]
  /\ UNCHANGED <<flags, main, client_socket, gone>>

(* What it changes, and what types it keeps. *)
LEMMA MoveTyped ==
  ASSUME Typed, NEW t \in Threads, NEW where \in Places, NEW r \in LocalType,
         Move(t, where, r),
         files' \in Seq(Seq(PieceType)), Len(files) <= Len(files'),
         name' \in 0 .. Len(files'), r.file \in 0 .. Len(files'),
         r.read # KO => Len(r.read) <= BufferSize,
         list_mutex' \in Threads \cup {NULL}, ticks' \in Nat
  PROVE  /\ Typed'
         /\ pc'[t] = where /\ local'[t] = r
         /\ \A u \in Threads \ {t} : pc'[u] = pc[u] /\ local'[u] = local[u]
<1>1. /\ pc' \in [Threads -> Places] /\ local' \in [Threads -> LocalType]
      /\ pc'[t] = where /\ local'[t] = r
      /\ \A u \in Threads \ {t} : pc'[u] = pc[u] /\ local'[u] = local[u]
  BY DEF Typed, Move
<1>2. Len(files) \in Nat /\ Len(files') \in Nat
  BY LenProperties DEF Typed
<1>3. \A k \in DOMAIN files' :
        /\ files'[k] \in Seq(PieceType)
        /\ \A i \in DOMAIN files'[k] : files'[k][i] \in PieceType
  BY ElementOfSeq, LenProperties
<1>4. ASSUME NEW u \in Threads
      PROVE  /\ pc'[u] \in Places
             /\ local'[u].file \in 0 .. Len(files')
             /\ local'[u].read # KO => Len(local'[u].read) <= BufferSize
  <2>1. CASE u = t
    BY <1>1, <2>1
  <2>2. CASE u # t
    <3>1. /\ local[u].file \in 0 .. Len(files)
          /\ local[u].read # KO => Len(local[u].read) <= BufferSize
      BY DEF Typed, TypeOK
    <3> QED BY <1>1, <1>2, <2>2, <3>1
  <2> QED BY <2>1, <2>2
<1>5. TypeOK'
  BY <1>3, <1>4 DEF Typed, TypeOK, Move, flags, Places
<1> QED BY <1>1, <1>5 DEF Typed

(* A step outside writefile: no file changes.  A worker comes to readfile  *)
(* this way only when fopen has failed, and to its send with what readfile *)
(* returned.                                                               *)
LEMMA OutsideFile ==
  ASSUME FileInv, NEW t \in Threads,
         NEW where \in Places \ (Inside \cup {"none", "dead"}),
         NEW r \in LocalType,
         Move(t, where, r),
         pc[t] \notin Inside \cup {"none", "dead"},
         UNCHANGED <<files, name>>,
         list_mutex' = list_mutex \/ (list_mutex = NULL /\ list_mutex' = t),
         r.file \in {0, local[t].file},
         r.read # KO => Len(r.read) <= BufferSize,
         ticks' \in Nat,
         t \in Conns /\ where = "read" => Lost',
         t \in Conns /\ where = "send" /\ r.read # KO =>
           /\ pc[t] = "read" /\ list_mutex = NULL
           /\ name # 0 /\ r.read = First(files[name])
           /\ r.n = local[t].n /\ r.file = local[t].file
  PROVE  FileInv'
<1>1. Typed
  BY DEF FileInv
<1>2. /\ r.file \in 0 .. Len(files) /\ name \in 0 .. Len(files)
      /\ Len(files) \in Nat
  BY <1>1, LenProperties DEF Typed, TypeOK
<1>3. /\ Typed'
      /\ pc'[t] = where /\ local'[t] = r
      /\ \A u \in Threads \ {t} : pc'[u] = pc[u] /\ local'[u] = local[u]
  <2>1. list_mutex' \in Threads \cup {NULL}
    BY <1>1 DEF Typed, TypeOK
  <2>2. files' \in Seq(Seq(PieceType)) /\ Len(files) <= Len(files')
    BY <1>1, <1>2 DEF Typed
  <2> QED BY <1>1, <1>2, <2>1, <2>2, MoveTyped
<1>4. NULL \notin Threads /\ \A c \in Conns : c \in Threads
  BY DEF Threads
<1>5. WriterLocks'
  <2>1. ASSUME NEW u \in Threads, pc'[u] \in Inside
        PROVE  list_mutex' = u /\ local'[u].file \in DOMAIN files'
    <3>1. u # t /\ pc'[u] = pc[u] /\ local'[u] = local[u]
      BY <1>3, <2>1
    <3>2. list_mutex = u /\ local[u].file \in DOMAIN files
      BY <2>1, <3>1 DEF FileInv, WriterLocks
    <3> QED BY <1>4, <3>1, <3>2
  <2> QED BY <2>1 DEF WriterLocks
<1>6. ASSUME NEW c \in Conns, pc[c] = "closing" \/ pc'[c] = "closing"
      PROVE  pc'[c] = pc[c] /\ local'[c] = local[c] /\ c # t
  BY <1>3, <1>4, <1>6 DEF Inside
<1>7. FilesWhole' /\ ClosesOwn'
  <2>1. main' = main
    BY DEF Move
  <2>2. \A k \in DOMAIN files : Unfinished(k) => Unfinished(k)'
    BY <1>6 DEF Unfinished, Piece
  <2>3. FilesWhole'
    BY <2>1, <2>2 DEF FileInv, FilesWhole
  <2>4. ClosesOwn'
    BY <1>6 DEF FileInv, ClosesOwn, Piece
  <2> QED BY <2>3, <2>4
<1>8. Lost => Lost'
  <2>1. ASSUME Lost PROVE list_mutex' # NULL /\ pc'[list_mutex'] \notin Inside
    <3>1. list_mutex \in Threads /\ list_mutex' = list_mutex
      BY <1>1, <2>1 DEF Typed, TypeOK, Lost
    <3> QED BY <1>3, <2>1, <3>1 DEF Lost, Inside
  <2> QED BY <2>1 DEF Lost, Inside
<1>9. \A c \in Conns \ {t} : Wrote(c) => Wrote(c)'
  BY <1>3, <1>4 DEF Wrote, Piece
<1>10. ASSUME NEW c \in Conns, pc'[c] = "send", local'[c].read # KO
       PROVE  /\ Len(local'[c].read) < BufferSize => Whole(local'[c].read)
              /\ local'[c].file \in DOMAIN files'
              /\ name' = local'[c].file /\ Len(files'[name']) <= BufferSize =>
                   Contains(local'[c].read, Piece(c, TRUE)')
  <2>1. CASE c # t
    <3>1. /\ pc[c] = "send" /\ local'[c] = local[c]
          /\ Piece(c, TRUE)' = Piece(c, TRUE)
      BY <1>3, <1>4, <1>10, <2>1 DEF Piece
    <3> QED
      BY <1>10, <3>1 DEF FileInv, ReadWhole, OwnWritten, OwnLineInReply
  <2>2. CASE c = t
    <3>1. /\ pc[c] = "read" /\ list_mutex = NULL
          /\ name # 0 /\ r.read = First(files[name]) /\ r.n = local[c].n
          /\ local'[c] = r /\ r.file = local[c].file
      BY <1>3, <1>10, <2>2
    <3>2. Wrote(c)
      BY <3>1 DEF FileInv, OwnWritten, Lost
    <3>3. name \in DOMAIN files /\ files[name] \in Seq(PieceType)
      <4>1. name \in 1 .. Len(files)
        BY <1>2, <3>1
      <4> QED BY <1>1, <4>1, LenProperties, ElementOfSeq DEF Typed
    <3>4. Whole(files[name])
      <4>1. ~Unfinished(name)
        BY <1>4, <3>1 DEF Unfinished, FileInv, WriterLocks, Inside
      <4>2. main # "down"
        BY <1>4, <3>1 DEF FileInv, MainKnows
      <4> QED BY <3>3, <4>1, <4>2 DEF FileInv, FilesWhole
    <3>5. Len(r.read) < BufferSize => Whole(r.read)
      BY <3>1, <3>3, <3>4, FirstPieces
    <3>6. local'[c].file \in DOMAIN files'
      BY <3>1, <3>2 DEF Wrote
    <3>7. ASSUME name = r.file, Len(files[name]) <= BufferSize
          PROVE  Contains(r.read, Piece(c, TRUE)')
      <4>1. r.read = files[name]
        BY <3>1, <3>3, <3>7, FirstPieces
      <4>2. Piece(c, TRUE)' = Piece(c, TRUE)
        BY <3>1 DEF Piece
      <4>3. DOMAIN files[name] = 1 .. Len(files[name])
        BY <3>3, LenProperties
      <4> QED BY <3>1, <3>2, <3>7, <4>1, <4>2, <4>3 DEF Wrote, Contains
    <3> QED BY <3>1, <3>5, <3>6, <3>7
  <2> QED BY <2>1, <2>2
<1>11. ReadWhole' /\ OwnLineInReply'
  BY <1>10 DEF ReadWhole, OwnLineInReply
<1>12. OwnWritten'
  <2>1. ASSUME NEW c \in Conns, pc'[c] = "read" PROVE Lost' \/ Wrote(c)'
    <3>1. CASE c = t
      BY <1>3, <2>1, <3>1
    <3>2. CASE c # t
      BY <1>3, <1>4, <1>8, <1>9, <2>1, <3>2 DEF FileInv, OwnWritten
    <3> QED BY <3>1, <3>2
  <2> QED BY <1>10, <2>1 DEF OwnWritten
<1>13. MainKnows'
  BY <1>3, <1>4 DEF FileInv, MainKnows, Move, flags
<1> QED BY <1>3, <1>5, <1>7, <1>11, <1>12, <1>13 DEF FileInv

(* Files only grow, and a new file gets a number of its own. *)
Grows ==
  /\ files' \in Seq(Seq(PieceType)) /\ Len(files) <= Len(files')
  /\ \A k \in DOMAIN files :
       /\ k \in DOMAIN files' /\ Len(files[k]) <= Len(files'[k])
       /\ \A i \in DOMAIN files[k] :
            i \in DOMAIN files'[k] /\ files'[k][i] = files[k][i]
  /\ name' = name \/ name' \notin DOMAIN files

(* A step of writefile that succeeds, as far as the other threads see it:  *)
(* what they have read and written keeps its meaning.                      *)
LEMMA WritefileSeen ==
  ASSUME FileInv, NEW t \in Threads,
         NEW where \in Inside \cup {"test", "read", "loop"},
         NEW r \in LocalType,
         Move(t, where, r), Grows, Typed', ~Lost,
         pc[t] \notin {"none", "dead"},
         t \in Conns /\ where = "read" => Wrote(t)'
  PROVE  /\ ReadWhole' /\ OwnLineInReply' /\ OwnWritten' /\ MainKnows'
         /\ pc'[t] = where /\ local'[t] = r
         /\ \A u \in Threads \ {t} : pc'[u] = pc[u] /\ local'[u] = local[u]
<1>1. Typed
  BY DEF FileInv
<1>2. /\ pc'[t] = where /\ local'[t] = r
      /\ \A u \in Threads \ {t} : pc'[u] = pc[u] /\ local'[u] = local[u]
  BY <1>1 DEF Typed, Move
<1>3. \A c \in Conns : c \in Threads
  BY DEF Threads
<1>4. ASSUME NEW c \in Conns, pc'[c] = "send", local'[c].read # KO
      PROVE  /\ Len(local'[c].read) < BufferSize => Whole(local'[c].read)
             /\ local'[c].file \in DOMAIN files'
             /\ name' = local'[c].file /\ Len(files'[name']) <= BufferSize =>
                  Contains(local'[c].read, Piece(c, TRUE)')
  <2>1. /\ pc[c] = "send" /\ local'[c] = local[c]
        /\ Piece(c, TRUE)' = Piece(c, TRUE)
    BY <1>2, <1>3, <1>4 DEF Piece, Inside
  <2>2. local[c].file \in DOMAIN files /\ local[c].file \in DOMAIN files'
    BY <1>4, <2>1 DEF FileInv, OwnWritten, Grows
  <2>3. ASSUME name' = local[c].file, Len(files'[name']) <= BufferSize
        PROVE  Contains(local[c].read, Piece(c, TRUE))
    <3>1. name' = name /\ Len(files[name]) <= Len(files'[name])
      BY <2>2, <2>3 DEF Grows
    <3>2. files[name] \in Seq(PieceType) /\ files'[name] \in Seq(PieceType)
      BY <1>1, <2>2, <2>3, <3>1, LenProperties, ElementOfSeq DEF Typed, Grows
    <3>3. Len(files[name]) \in Nat /\ Len(files'[name]) \in Nat
      BY <3>2, LenProperties
    <3>4. Len(files[name]) <= BufferSize
      BY <2>3, <3>1, <3>3
    <3> QED
      BY <1>4, <2>1, <2>3, <3>1, <3>4 DEF FileInv, OwnLineInReply
  <2> QED BY <1>4, <2>1, <2>2, <2>3 DEF FileInv, ReadWhole
<1>5. ReadWhole' /\ OwnLineInReply'
  BY <1>4 DEF ReadWhole, OwnLineInReply
<1>6. ASSUME NEW c \in Conns, pc'[c] = "read" PROVE Wrote(c)'
  <2>1. CASE c = t
    BY <1>2, <1>6, <2>1
  <2>2. CASE c # t
    <3>1. /\ pc[c] = "read" /\ local'[c] = local[c]
          /\ Piece(c, TRUE)' = Piece(c, TRUE)
      BY <1>2, <1>3, <1>6, <2>2 DEF Piece
    <3>2. Wrote(c)
      BY <3>1 DEF FileInv, OwnWritten
    <3> QED BY <3>1, <3>2 DEF Wrote, Grows
  <2> QED BY <2>1, <2>2
<1>7. OwnWritten'
  BY <1>4, <1>6 DEF OwnWritten
<1>8. MainKnows'
  BY <1>2, <1>3 DEF FileInv, MainKnows, Move, flags
<1> QED BY <1>2, <1>5, <1>7, <1>8

LEMMA WriteOpenFile ==
  ASSUME FileInv, NEW t \in Threads, WriteOpen(t) PROVE FileInv'
<1> DEFINE r == [local[t] EXCEPT !.file = name']
<1>1. Typed
  BY DEF FileInv
<1>2. /\ pc[t] = "write" /\ list_mutex = NULL /\ list_mutex' = t
      /\ ticks' = ticks
      /\ \/ name # 0 /\ UNCHANGED <<files, name>>
         \/ name = 0 /\ files' = Append(files, <<>>) /\ name' = Len(files')
  BY DEF WriteOpen
<1>3. /\ <<>> \in Seq(PieceType) /\ Whole(<<>>) /\ WholeButLast(<<>>)
      /\ Len(files) \in Nat /\ DOMAIN files = 1 .. Len(files)
      /\ name \in 0 .. Len(files)
  <2>1. <<>> \in Seq(PieceType) /\ Whole(<<>>)
    BY EmptySeq, LenProperties DEF Whole
  <2> QED BY <1>1, <2>1, LenProperties, WholeIsWholeButLast DEF Typed, TypeOK
<1>4. /\ files' \in Seq(Seq(PieceType)) /\ Len(files) <= Len(files')
      /\ DOMAIN files' = 1 .. Len(files') /\ Len(files') \in Nat
      /\ name' \in 1 .. Len(files')
      /\ name' = name \/ name' \notin DOMAIN files
      /\ \A k \in DOMAIN files : k \in DOMAIN files' /\ files'[k] = files[k]
      /\ \A k \in DOMAIN files' \ DOMAIN files : files'[k] = <<>>
  <2>1. CASE UNCHANGED <<files, name>> /\ name # 0
    BY <1>1, <1>3, <2>1 DEF Typed
  <2>2. CASE files' = Append(files, <<>>) /\ name' = Len(files')
    BY <1>1, <1>3, <2>2, AppendProperties, LenProperties DEF Typed
  <2> QED BY <1>2, <2>1, <2>2
<1>5. name' \in Nat /\ name' \in 0 .. Len(files')
  BY <1>4
<1>6. r \in LocalType /\ r.file = name' /\ r.read = local[t].read
  BY <1>1, <1>5 DEF Typed, LocalType
<1>7. Move(t, "writing", r)
  BY DEF WriteOpen, Move, Goto, flags
<1>8. Grows
  <2>1. \A k \in DOMAIN files : files[k] \in Seq(PieceType)
    BY <1>1, <1>3, ElementOfSeq DEF Typed
  <2> QED BY <1>4, <2>1, LenProperties DEF Grows
<1> HIDE DEF r
<1>9. Typed'
  <2>1. r.read # KO => Len(r.read) <= BufferSize
    BY <1>1, <1>6 DEF Typed, TypeOK
  <2>2. ticks' \in Nat /\ "writing" \in Places /\ name' \in 0 .. Len(files')
    BY <1>1, <1>2, <1>5 DEF Typed, Places
  <2> QED BY <1>1, <1>2, <1>4, <1>6, <1>7, <2>1, <2>2, MoveTyped
<1>10. /\ ReadWhole' /\ OwnLineInReply' /\ OwnWritten' /\ MainKnows'
      /\ pc'[t] = "writing" /\ local'[t] = r
      /\ \A u \in Threads \ {t} : pc'[u] = pc[u] /\ local'[u] = local[u]
  BY <1>2, <1>6, <1>7, <1>8, <1>9, WritefileSeen DEF Lost, Inside
<1>11. \A u \in Threads : pc[u] \notin Inside
  BY <1>2 DEF FileInv, WriterLocks, Threads
<1>12. WriterLocks'
  BY <1>2, <1>4, <1>6, <1>10, <1>11 DEF WriterLocks
<1>13. \A c \in Conns : pc[c] # "closing" /\ pc'[c] # "closing"
  BY <1>10, <1>11 DEF Inside, Threads
<1>14. FilesWhole'
  <2>1. \A k : ~Unfinished(k)
    BY <1>13 DEF Unfinished
  <2>2. main' = main
    BY <1>7 DEF Move
  <2> QED BY <1>3, <1>4, <2>1, <2>2 DEF FileInv, FilesWhole
<1> QED BY <1>9, <1>10, <1>12, <1>13, <1>14 DEF FileInv, ClosesOwn

(* A piece goes to the end of the file its thread has open. *)
LEMMA PutGrows ==
  ASSUME FileInv, NEW t \in Threads, pc[t] \in Inside, NEW p \in PieceType,
         Put(t, p), UNCHANGED name
  PROVE  LET k == local[t].file
         IN  /\ Grows
             /\ k \in DOMAIN files /\ files[k] \in Seq(PieceType)
             /\ files'[k] = Append(files[k], p)
             /\ DOMAIN files' = DOMAIN files /\ Len(files') = Len(files)
             /\ \A j \in DOMAIN files \ {k} : files'[j] = files[j]
<1> DEFINE k == local[t].file
           u == Append(files[k], p)
<1>1. Typed /\ k \in DOMAIN files
  BY DEF FileInv, WriterLocks
<1>2. \A j \in DOMAIN files : files[j] \in Seq(PieceType)
  BY <1>1, LenProperties, ElementOfSeq DEF Typed
<1>3. /\ u \in Seq(PieceType) /\ Len(u) = Len(files[k]) + 1
      /\ \A i \in DOMAIN files[k] : i \in DOMAIN u /\ u[i] = files[k][i]
      /\ Len(files[k]) \in Nat
  BY <1>1, <1>2, AppendProperties, LenProperties
<1>4. files' = [files EXCEPT ![k] = u]
  BY DEF Put
<1> HIDE DEF k, u
<1>5. /\ files' \in Seq(Seq(PieceType)) /\ Len(files') = Len(files)
      /\ DOMAIN files' = DOMAIN files
      /\ files'[k] = u /\ \A j \in DOMAIN files \ {k} : files'[j] = files[j]
  <2>1. k \in 1 .. Len(files) /\ files \in Seq(Seq(PieceType))
    BY <1>1, LenProperties DEF Typed
  <2> QED BY <1>3, <1>4, <2>1, ExceptSeq, LenProperties
<1>6. Grows
  <2>1. \A j \in DOMAIN files : Len(files[j]) \in Nat
    BY <1>2, LenProperties
  <2>2. Len(files) \in Nat
    BY <1>1, LenProperties DEF Typed
  <2>3. ASSUME NEW j \in DOMAIN files
        PROVE  /\ Len(files[j]) <= Len(files'[j])
               /\ \A i \in DOMAIN files[j] :
                    i \in DOMAIN files'[j] /\ files'[j][i] = files[j][i]
    <3>1. CASE j = k
      BY <1>3, <1>5, <3>1
    <3>2. CASE j # k
      BY <1>5, <2>1, <3>2
    <3> QED BY <3>1, <3>2
  <2> QED BY <1>5, <2>2, <2>3 DEF Grows
<1> QED BY <1>1, <1>2, <1>5, <1>6 DEF k, u

LEMMA FwriteFile ==
  ASSUME FileInv, NEW t \in Threads, Fwrite(t) PROVE FileInv'
<1> DEFINE r == local[t]
           k == local[t].file
           p == Piece(t, FALSE)
<1>1. /\ Typed /\ r \in LocalType /\ p \in PieceType
      /\ k \in DOMAIN files /\ k \in 0 .. Len(files)
      /\ r.read # KO => Len(r.read) <= BufferSize
      /\ list_mutex = t
  BY DEF FileInv, WriterLocks, Typed, TypeOK, LocalType, Piece, PieceType,
         Fwrite, Inside
<1>2. /\ pc[t] = "writing" /\ list_mutex' = list_mutex /\ name' = name
      /\ ticks' = ticks /\ local' = local
      /\ IF t = Timer THEN files' = files ELSE Put(t, p)
  BY DEF Fwrite
<1>3. Move(t, "closing", r)
  BY <1>1 DEF Fwrite, Move, Goto, flags, Typed
<1>4. /\ Grows /\ Len(files') = Len(files) /\ DOMAIN files' = DOMAIN files
      /\ \A j \in DOMAIN files \ {k} : files'[j] = files[j]
      /\ files[k] \in Seq(PieceType)
      /\ IF t = Timer THEN files'[k] = files[k]
         ELSE files'[k] = Append(files[k], p)
  <2>1. CASE t = Timer
    <3>1. \A j \in DOMAIN files : files[j] \in Seq(PieceType)
      BY <1>1, LenProperties, ElementOfSeq DEF Typed
    <3>2. \A j \in DOMAIN files : Len(files[j]) \in Nat
      BY <3>1, LenProperties
    <3>3. Len(files) \in Nat
      BY <1>1, LenProperties DEF Typed
    <3> QED BY <1>1, <1>2, <2>1, <3>1, <3>2, <3>3 DEF Grows, Typed
  <2>2. CASE t # Timer
    BY <1>1, <1>2, <2>2, PutGrows DEF Inside
  <2> QED BY <2>1, <2>2
<1>5. Typed'
  <2>1. files' \in Seq(Seq(PieceType)) /\ Len(files) <= Len(files')
        /\ "closing" \in Places
    BY <1>4 DEF Grows, Places
  <2>2. /\ name' \in 0 .. Len(files') /\ r.file \in 0 .. Len(files')
        /\ ticks' \in Nat /\ list_mutex' \in Threads \cup {NULL}
    BY <1>1, <1>2, <1>4 DEF Typed, TypeOK
  <2> HIDE DEF r
  <2> QED BY <1>1, <1>3, <2>1, <2>2, MoveTyped
<1>6. /\ ReadWhole' /\ OwnLineInReply' /\ OwnWritten' /\ MainKnows'
      /\ pc'[t] = "closing" /\ local'[t] = r
      /\ \A u \in Threads \ {t} : pc'[u] = pc[u] /\ local'[u] = local[u]
  <2>1. ~Lost
    BY <1>1, <1>2 DEF Lost
  <2> HIDE DEF r
  <2> QED BY <1>1, <1>2, <1>3, <1>4, <1>5, <2>1, WritefileSeen DEF Inside
<1>7. \A u \in Threads : pc[u] \in Inside => u = t
  BY <1>1 DEF FileInv, WriterLocks
<1>8. WriterLocks'
  BY <1>1, <1>2, <1>4, <1>6, <1>7 DEF WriterLocks
<1>9. \A c \in Conns : pc[c] # "closing" /\ (pc'[c] = "closing" => c = t)
  BY <1>2, <1>6, <1>7 DEF Inside, Threads
<1>10. /\ main # "down" /\ main' = main
       /\ \A j \in DOMAIN files : Whole(files[j]) /\ WholeButLast(files[j])
  <2>1. main # "down" /\ main' = main
    BY <1>2, <1>3 DEF FileInv, MainKnows, Move
  <2>2. \A j : ~Unfinished(j)
    BY <1>9 DEF Unfinished
  <2> QED BY <2>1, <2>2 DEF FileInv, FilesWhole
<1>11. t # Timer => /\ files'[k] # <<>> /\ files'[k][Len(files'[k])] = p
                    /\ WholeButLast(files'[k]) /\ p' = p /\ t \in Conns
  <2> HIDE DEF p, k
  <2>1. t # Timer => /\ files'[k] # <<>> /\ files'[k][Len(files'[k])] = p
                     /\ WholeButLast(files'[k])
    <3>1. ASSUME t # Timer
          PROVE  /\ files[k] \in Seq(PieceType) /\ p \in PieceType
                 /\ Whole(files[k]) /\ files'[k] = Append(files[k], p)
      BY <1>1, <1>4, <1>10, <3>1
    <3>2. ASSUME t # Timer
          PROVE  /\ Len(files'[k]) = Len(files[k]) + 1
                 /\ files'[k] # <<>> /\ files'[k][Len(files[k]) + 1] = p
      BY <3>1, <3>2, AppendProperties
    <3>3. t # Timer => WholeButLast(files'[k])
      BY <3>1, AppendBegun
    <3> QED BY <3>2, <3>3
  <2> QED BY <2>1, <1>2 DEF p, Piece, Threads
<1>12. FilesWhole'
  <2>1. ASSUME NEW j \in DOMAIN files'
        PROVE  WholeButLast(files'[j]) /\ (Whole(files'[j]) \/ Unfinished(j)')
    <3>1. CASE j # k \/ t = Timer
      BY <1>4, <1>10, <3>1
    <3>2. CASE j = k /\ t # Timer
      BY <1>2, <1>6, <1>11, <3>2 DEF Unfinished, Piece
    <3> QED BY <3>1, <3>2
  <2> QED BY <2>1 DEF FilesWhole
<1>13. ClosesOwn'
  BY <1>2, <1>6, <1>9, <1>11, FileAssumption DEF ClosesOwn, Piece
<1> QED BY <1>5, <1>6, <1>8, <1>12, <1>13 DEF FileInv

LEMMA FcloseFile ==
  ASSUME FileInv, NEW t \in Threads, Fclose(t) PROVE FileInv'
<1> DEFINE r == local[t]
           k == local[t].file
           p == Piece(t, TRUE)
           where == AfterWrite(t)
<1>1. /\ Typed /\ r \in LocalType /\ p \in PieceType /\ p.tail
      /\ k \in DOMAIN files /\ k \in 0 .. Len(files)
      /\ r.read # KO => Len(r.read) <= BufferSize
      /\ list_mutex = t
  BY DEF FileInv, WriterLocks, Typed, TypeOK, LocalType, Piece, PieceType,
         Fclose, Inside
<1>2. /\ pc[t] = "closing" /\ list_mutex' = NULL /\ name' = name
      /\ ticks' = ticks /\ local' = local /\ Put(t, p)
      /\ where \in {"test", "read", "loop"}
  BY DEF Fclose, AfterWrite
<1>3. Move(t, where, r)
  BY <1>1 DEF Fclose, Move, Goto, flags, Typed
<1>4. /\ Grows /\ Len(files') = Len(files) /\ DOMAIN files' = DOMAIN files
      /\ \A j \in DOMAIN files \ {k} : files'[j] = files[j]
      /\ files[k] \in Seq(PieceType)
      /\ files'[k] = Append(files[k], p)
  BY <1>1, <1>2, PutGrows DEF Inside
<1>5. Typed'
  <2>1. files' \in Seq(Seq(PieceType)) /\ Len(files) <= Len(files')
        /\ where \in Places
    BY <1>2, <1>4 DEF Grows, Places
  <2>2. /\ name' \in 0 .. Len(files') /\ r.file \in 0 .. Len(files')
        /\ ticks' \in Nat /\ list_mutex' \in Threads \cup {NULL}
    BY <1>1, <1>2, <1>4 DEF Typed, TypeOK
  <2> HIDE DEF r, where
  <2> QED BY <1>1, <1>3, <2>1, <2>2, MoveTyped
<1>6. Wrote(t)'
  <2> HIDE DEF p, k
  <2>1. Len(files'[k]) \in DOMAIN files'[k] /\ files'[k][Len(files'[k])] = p
    BY <1>1, <1>4, AppendProperties, LenProperties
  <2>2. p' = p /\ local'[t].file = k /\ k \in DOMAIN files'
    BY <1>1, <1>2, <1>4 DEF p, k, Piece
  <2> QED BY <2>1, <2>2 DEF Wrote, p
<1>7. /\ ReadWhole' /\ OwnLineInReply' /\ OwnWritten' /\ MainKnows'
      /\ pc'[t] = where /\ local'[t] = r
      /\ \A u \in Threads \ {t} : pc'[u] = pc[u] /\ local'[u] = local[u]
  <2>1. ~Lost
    BY <1>1, <1>2 DEF Lost
  <2> HIDE DEF r, where
  <2> QED BY <1>1, <1>2, <1>3, <1>4, <1>5, <1>6, <2>1, WritefileSeen DEF Inside
<1>8. \A u \in Threads : (pc[u] \in Inside => u = t) /\ pc'[u] \notin Inside
  <2> HIDE DEF where
  <2> QED BY <1>1, <1>2, <1>7 DEF FileInv, WriterLocks, Inside
<1>9. main # "down" /\ main' = main
  BY <1>2, <1>3 DEF FileInv, MainKnows, Move
<1>10. Whole(files'[k]) /\ WholeButLast(files'[k])
  <2>1. WholeButLast(files[k]) /\ (Whole(files[k]) \/ Unfinished(k))
    BY <1>1, <1>9 DEF FileInv, FilesWhole
  <2>2. files[k] # <<>> /\ ~files[k][Len(files[k])].tail =>
          p = Rest(files[k][Len(files[k])])
    <3>1. CASE t = Timer
      <4>1. ~Unfinished(k)
        BY <1>8, <3>1 DEF Unfinished, Inside, Threads
      <4> QED BY <1>4, <2>1, <4>1, WholeIsWholeButLast
    <3>2. CASE t \in Conns
      <4>1. Rest(Piece(t, FALSE)) = p
        <5>1. Piece(t, FALSE) \in PieceType
          BY <1>1 DEF Piece, PieceType, LocalType
        <5>2. /\ Piece(t, FALSE).by = p.by /\ Piece(t, FALSE).n = p.n
              /\ p.tail = TRUE
          BY DEF Piece
        <5> HIDE DEF p
        <5> QED BY <1>1, <5>1, <5>2, RestOfPiece
      <4>2. files[k][Len(files[k])] = Piece(t, FALSE)
        BY <1>2, <3>2 DEF FileInv, ClosesOwn
      <4> QED BY <4>1, <4>2
    <3> QED BY <3>1, <3>2 DEF Threads
  <2> HIDE DEF p, k
  <2>3. Whole(files'[k])
    BY <1>1, <1>4, <2>1, <2>2, AppendWhole
  <2>4. files'[k] \in Seq(PieceType)
    BY <1>1, <1>4, AppendProperties
  <2> QED BY <2>3, <2>4, WholeIsWholeButLast
<1>11. FilesWhole'
  <2>1. ASSUME NEW j \in DOMAIN files \ {k}
        PROVE  WholeButLast(files'[j]) /\ Whole(files'[j])
    <3>1. ~Unfinished(j)
      BY <1>8 DEF Unfinished, Inside, Threads
    <3> QED BY <1>4, <1>9, <3>1 DEF FileInv, FilesWhole
  <2> QED BY <1>4, <1>10, <2>1 DEF FilesWhole
<1>12. WriterLocks' /\ ClosesOwn'
  BY <1>8 DEF WriterLocks, ClosesOwn, Inside, Threads
<1> QED BY <1>5, <1>7, <1>11, <1>12 DEF FileInv

(* The steps that move no thread but the main one. *)
LEMMA StillFile ==
  ASSUME FileInv, UNCHANGED <<pc, local, list_mutex, files, ticks>>,
         name' \in {name, 0}, TypeOK', MainKnows',
         main # "down" <=> main' # "down"
  PROVE  FileInv'
<1>1. Typed'
  BY DEF FileInv, Typed
<1>2. WriterLocks' /\ ClosesOwn' /\ ReadWhole'
  BY DEF FileInv, WriterLocks, ClosesOwn, ReadWhole, Piece
<1>3. \A k : Unfinished(k)' <=> Unfinished(k)
  BY DEF Unfinished, Piece
<1>4. FilesWhole'
  BY <1>3 DEF FileInv, FilesWhole
<1>5. OwnWritten'
  BY DEF FileInv, OwnWritten, Wrote, Piece, Lost
<1>6. OwnLineInReply'
  <2>1. ASSUME NEW c \in Conns, pc[c] = "send", local[c].read # KO,
               name' = local[c].file
        PROVE  name' = name
    <3>1. local[c].file \in 1 .. Len(files)
      BY <2>1, LenProperties DEF FileInv, OwnWritten, Typed
    <3> QED BY <2>1, <3>1
  <2> QED BY <2>1 DEF FileInv, OwnLineInReply, Piece
<1> QED BY <1>1, <1>2, <1>4, <1>5, <1>6 DEF FileInv

LEMMA MainFile ==
  ASSUME FileInv,
         \/ Test \/ AcceptFails \/ Continue \/ Join
         \/ Signal \/ HandlerReturns
         \/ \E c \in Conns : Accept(c) \/ Leave(c)
  PROVE  FileInv'
<1>1. Typed /\ MainKnows
  BY DEF FileInv
<1>2. 0 \in 0 .. Len(files) /\ signals + 1 \in 0 .. MaxSignals + 1
  BY <1>1, LenProperties DEF Typed, TypeOK
<1> USE DEF MainAt, flags, store
<1>3. CASE Test
  <2>1. TypeOK' /\ MainKnows'
    BY <1>1, <1>3 DEF Test, Typed, TypeOK, MainKnows
  <2> QED BY <1>3, <2>1, StillFile DEF Test
<1>4. ASSUME NEW c \in Conns, Accept(c) PROVE FileInv'
  <2>1. TypeOK' /\ MainKnows'
    BY <1>1, <1>4 DEF Accept, Typed, TypeOK, MainKnows
  <2> QED BY <1>4, <2>1, StillFile DEF Accept
<1>5. CASE AcceptFails \/ Continue \/ Join
  <2>1. /\ main \in {"accept", "failed", "join"}
        /\ main' \in {"failed", "test", "close"}
        /\ client_socket' \in {client_socket, NULL}
        /\ UNCHANGED <<flags, store, ticks, pc, local, gone>>
    BY <1>5 DEF AcceptFails, Continue, Join
  <2>2. TypeOK' /\ MainKnows'
    BY <1>1, <2>1 DEF Typed, TypeOK, MainKnows
  <2> QED BY <2>1, <2>2, StillFile
<1>6. CASE Signal
  <2>1. signals' \in 0 .. MaxSignals
    BY <1>1, <1>6 DEF Signal, Typed, TypeOK
  <2>2. TypeOK' /\ MainKnows'
    BY <1>1, <1>2, <1>6, <2>1 DEF Signal, Typed, TypeOK, MainKnows
  <2> QED BY <1>6, <2>2, StillFile DEF Signal
<1>7. CASE HandlerReturns
  <2>1. TypeOK' /\ MainKnows'
    BY <1>1, <1>7 DEF HandlerReturns, Typed, TypeOK, MainKnows
  <2> QED BY <1>7, <2>1, StillFile DEF HandlerReturns
<1>8. ASSUME NEW c \in Conns, Leave(c) PROVE FileInv'
  <2>1. TypeOK' /\ MainKnows'
    BY <1>1, <1>8 DEF Leave, Typed, TypeOK, MainKnows
  <2> QED BY <1>8, <2>1, StillFile DEF Leave
<1> QED BY <1>3, <1>4, <1>5, <1>6, <1>7, <1>8

(* The worker that starts has done nothing yet. *)
LEMMA CreateFile ==
  ASSUME FileInv, CreateThread PROVE FileInv'
<1>1. PICK where \in {"loop", "done"} :
        pc' = [pc EXCEPT ![client_socket] = where]
  BY DEF CreateThread
<1>2. /\ client_socket \in Conns /\ pc[client_socket] = "none"
      /\ main = "create" /\ main' \in {"test", "join"}
      /\ Typed
      /\ UNCHANGED <<flags, client_socket, store, ticks, local, gone>>
  BY DEF CreateThread, MainAt, FileInv, MainKnows
<1>3. \A c \in Conns : c \in Threads
  BY DEF Threads
<1>4. /\ pc' \in [Threads -> Places] /\ pc'[client_socket] = where
      /\ \A t \in Threads \ {client_socket} : pc'[t] = pc[t]
  BY <1>1, <1>2, <1>3 DEF Typed, Places
<1>5. Typed'
  BY <1>2, <1>4 DEF Typed, TypeOK, flags, store, Places
<1>6. \A t \in Threads :
        /\ pc'[t] \in Inside \cup {"read", "send"} <=>
             pc[t] \in Inside \cup {"read", "send"}
        /\ pc'[t] \in Inside \cup {"read", "send"} => pc'[t] = pc[t]
  BY <1>1, <1>2, <1>4 DEF Inside
<1>7. WriterLocks' /\ ClosesOwn' /\ ReadWhole' /\ OwnLineInReply'
  BY <1>2, <1>3, <1>6
  DEF FileInv, WriterLocks, ClosesOwn, ReadWhole, OwnLineInReply, Piece,
      Inside, store
<1>8. FilesWhole'
  <2>1. \A k : Unfinished(k) => Unfinished(k)'
    BY <1>2, <1>3, <1>6 DEF Unfinished, Piece, Inside, store
  <2> QED BY <1>2, <2>1 DEF FileInv, FilesWhole, store
<1>9. OwnWritten'
  <2>1. Lost => Lost'
    <3>1. list_mutex' = list_mutex /\ list_mutex \in Threads \cup {NULL}
      BY <1>2 DEF store, Typed, TypeOK
    <3> QED BY <1>6, <3>1 DEF Lost, Inside
  <2> QED
    BY <1>2, <1>3, <1>6, <2>1 DEF FileInv, OwnWritten, Wrote, Piece, store
<1>10. MainKnows'
  BY <1>2 DEF MainKnows
<1> QED BY <1>5, <1>7, <1>8, <1>9, <1>10 DEF FileInv

(* What a thread does outside writefile. *)
LEMMA ThreadFile ==
  ASSUME FileInv, NEW t \in Threads,
         \/ WriteOpenFails(t)
         \/ t = Timer /\ (TimerTest \/ Tick)
         \/ t \in Conns /\ \/ Loop(t) \/ Receive(t) \/ ReceiveNothing(t)
                           \/ Readfile(t) \/ ReadfileFails(t) \/ Send(t)
  PROVE  FileInv'
<1> DEFINE Quiet(where, r) ==
             /\ where \in Places \ (Inside \cup {"none", "dead"})
             /\ r \in LocalType /\ Move(t, where, r)
             /\ pc[t] \notin Inside \cup {"none", "dead"}
             /\ UNCHANGED <<files, name>>
             /\ \/ list_mutex' = list_mutex
                \/ list_mutex = NULL /\ list_mutex' = t
             /\ r.file \in {0, local[t].file}
             /\ r.read # KO => Len(r.read) <= BufferSize
             /\ ticks' \in Nat
             /\ t \in Conns /\ where = "read" => Lost'
             /\ t \in Conns /\ where = "send" /\ r.read # KO =>
                  /\ pc[t] = "read" /\ list_mutex = NULL
                  /\ name # 0 /\ r.read = First(files[name])
                  /\ r.n = local[t].n /\ r.file = local[t].file
<1>1. ASSUME NEW where, NEW r, Quiet(where, r) PROVE FileInv'
  BY <1>1, OutsideFile
<1>2. /\ Typed /\ local[t] \in LocalType /\ t # NULL
      /\ local[t].read # KO => Len(local[t].read) <= BufferSize
      /\ local' = local => local' = [local EXCEPT ![t] = local[t]]
  BY DEF FileInv, Typed, TypeOK, Threads
<1>3. /\ NoLocals \in LocalType /\ NoLocals.file = 0
      /\ NoLocals.read # KO => Len(NoLocals.read) <= BufferSize
  <2>1. NoLocals \in LocalType /\ NoLocals.file = 0 /\ NoLocals.read = <<>>
    BY EmptySeq DEF NoLocals, LocalType
  <2> QED BY <2>1, EmptySeq
<1>4. \A where \in {"test", "sleep", "loop", "recv", "write", "read", "send",
                    "done"} :
        where \in Places \ (Inside \cup {"none", "dead"})
  BY DEF Places, Inside
<1>5. ticks \in Nat
  BY <1>2 DEF Typed
<1>6. t = Timer => t \notin Conns
  OBVIOUS
<1>7. CASE WriteOpenFails(t)
  <2>1. /\ pc[t] = "write" /\ list_mutex = NULL /\ list_mutex' = t
        /\ pc' = [pc EXCEPT ![t] = AfterWrite(t)] /\ local' = local
        /\ UNCHANGED <<flags, main, client_socket, files, name, ticks, gone>>
    BY <1>7 DEF WriteOpenFails, Goto
  <2>2. AfterWrite(t) \in {"test", "read", "loop"}
    BY DEF AfterWrite
  <2>3. Lost'
    BY <1>2, <2>1, <2>2 DEF Lost, Typed
  <2> HIDE DEF Quiet
  <2>4. Quiet(AfterWrite(t), local[t])
    BY <1>2, <1>4, <1>5, <2>1, <2>2, <2>3 DEF Quiet, Move, Inside
  <2> QED BY <1>1, <2>4
<1>8. CASE t = Timer /\ TimerTest
  <2> DEFINE where == IF running THEN "sleep" ELSE "done"
  <2>1. Quiet(where, local[t])
    BY <1>2, <1>4, <1>5, <1>6, <1>8
    DEF Move, Inside, TimerTest, Goto, store
  <2> QED BY <1>1, <2>1
<1>9. CASE t = Timer /\ Tick
  <2> DEFINE r == [local[t] EXCEPT !.n = ticks']
  <2>1. ticks' \in Nat
    BY <1>5, <1>9 DEF Tick
  <2>2. r \in LocalType /\ r.file = local[t].file /\ r.read = local[t].read
    BY <1>2, <2>1 DEF LocalType
  <2>3. /\ pc[t] = "sleep" /\ pc' = [pc EXCEPT ![t] = "write"]
        /\ local' = [local EXCEPT ![t] = r]
        /\ UNCHANGED <<flags, main, client_socket, store, gone>>
    BY <1>9 DEF Tick, Goto
  <2> HIDE DEF r
  <2>4. Quiet("write", r)
    BY <1>2, <1>4, <1>6, <1>9, <2>1, <2>2, <2>3 DEF Move, Inside, store
  <2> QED BY <1>1, <2>4
<1>10. CASE t \in Conns /\ (Loop(t) \/ ReceiveNothing(t))
  <2>1. /\ pc[t] \in {"loop", "recv"}
        /\ \/ pc' = [pc EXCEPT ![t] = "recv"] /\ local' = local
           \/ /\ pc' = [pc EXCEPT ![t] = "done"]
              /\ local' = [local EXCEPT ![t] = NoLocals]
        /\ UNCHANGED <<flags, main, client_socket, store, ticks, gone>>
    BY <1>10 DEF Loop, ReceiveNothing, Finish, Goto
  <2> HIDE DEF NoLocals
  <2>2. Quiet("recv", local[t]) \/ Quiet("done", NoLocals)
    BY <1>2, <1>3, <1>4, <1>5, <2>1 DEF Move, Inside, store
  <2> QED BY <1>1, <2>2
<1>11. CASE t \in Conns /\ Receive(t)
  <2>1. PICK newline \in BOOLEAN :
          local' = [local EXCEPT ![t].n = @ + 1, ![t].newline = newline]
    BY <1>11 DEF Receive
  <2> DEFINE n == local[t].n + 1
             r == [local[t] EXCEPT !.n = n, !.newline = newline]
  <2>2. r \in LocalType /\ r.file = local[t].file /\ r.read = local[t].read
    <3>1. n \in Nat
      BY <1>2 DEF LocalType
    <3> HIDE DEF n
    <3> QED BY <1>2, <3>1 DEF LocalType
  <2>3. /\ pc[t] = "recv" /\ pc' = [pc EXCEPT ![t] = "write"]
        /\ UNCHANGED <<flags, main, client_socket, store, ticks, gone>>
    BY <1>11 DEF Receive, Goto
  <2>4. local' = [local EXCEPT ![t] = r]
    BY <1>2, <2>1 DEF Typed
  <2> HIDE DEF r
  <2>5. Quiet("write", r)
    BY <1>2, <1>4, <1>5, <2>2, <2>3, <2>4 DEF Move, Inside, store
  <2> QED BY <1>1, <2>5
<1>12. CASE t \in Conns /\ Readfile(t)
  <2> DEFINE r == [local[t] EXCEPT !.read = First(files[name])]
  <2>1. /\ pc[t] = "read" /\ list_mutex = NULL /\ name # 0
        /\ pc' = [pc EXCEPT ![t] = "send"] /\ local' = [local EXCEPT ![t] = r]
        /\ UNCHANGED <<flags, main, client_socket, store, ticks, gone>>
    BY <1>12 DEF Readfile, Goto, First
  <2>2. files[name] \in Seq(PieceType)
    <3>1. name \in 1 .. Len(files) /\ files \in Seq(Seq(PieceType))
      BY <1>2, <2>1, LenProperties DEF Typed, TypeOK
    <3> QED BY <3>1, ElementOfSeq
  <2>3. /\ First(files[name]) \in Seq(PieceType)
        /\ Len(First(files[name])) <= BufferSize
    BY <2>2, FirstPieces
  <2>4. /\ r \in LocalType /\ r.file = local[t].file /\ r.n = local[t].n
        /\ r.read = First(files[name])
    BY <1>2, <2>3 DEF LocalType
  <2> HIDE DEF r
  <2>5. Quiet("send", r)
    BY <1>2, <1>4, <1>5, <2>1, <2>3, <2>4 DEF Move, Inside, store
  <2> QED BY <1>1, <2>5
<1>13. CASE t \in Conns /\ ReadfileFails(t)
  <2> DEFINE r == [local[t] EXCEPT !.read = KO]
  <2>1. r \in LocalType /\ r.file = local[t].file /\ r.read = KO
    BY <1>2 DEF LocalType
  <2>2. /\ pc[t] = "read" /\ list_mutex = NULL /\ list_mutex' = t
        /\ pc' = [pc EXCEPT ![t] = "send"] /\ local' = [local EXCEPT ![t] = r]
        /\ UNCHANGED <<flags, main, client_socket, files, name, ticks, gone>>
    BY <1>13 DEF ReadfileFails, Goto
  <2> HIDE DEF r
  <2>3. Quiet("send", r)
    BY <1>2, <1>4, <1>5, <2>1, <2>2 DEF Move, Inside
  <2> QED BY <1>1, <2>3
<1>14. CASE t \in Conns /\ Send(t)
  <2> DEFINE r == [local[t] EXCEPT !.read = <<>>, !.newline = FALSE]
  <2>1. /\ pc[t] = "send"
        /\ \/ /\ pc' = [pc EXCEPT ![t] = "done"]
              /\ local' = [local EXCEPT ![t] = NoLocals]
           \/ /\ pc' = [pc EXCEPT ![t] = "loop"]
              /\ local' = [local EXCEPT ![t] = r]
        /\ UNCHANGED <<flags, main, client_socket, store, ticks, gone>>
    <3>1. [local EXCEPT ![t].read = <<>>, ![t].newline = FALSE]
            = [local EXCEPT ![t] = r]
      BY <1>2 DEF Typed
    <3> QED BY <1>14, <3>1 DEF Send, Finish, Goto
  <2>2. /\ r \in LocalType /\ r.file = local[t].file
        /\ r.read = <<>> /\ Len(r.read) = 0
    BY <1>2, EmptySeq DEF LocalType
  <2> HIDE DEF r, NoLocals
  <2>3. Quiet("done", NoLocals) \/ Quiet("loop", r)
    BY <1>2, <1>3, <1>4, <1>5, <2>1, <2>2 DEF Move, Inside, store
  <2> QED BY <1>1, <2>3
<1> QED BY <1>7, <1>8, <1>9, <1>10, <1>11, <1>12, <1>13, <1>14

LEMMA NextFile == FileInv /\ [Next]_vars => FileInv'
<1> SUFFICES ASSUME FileInv, [Next]_vars PROVE FileInv'
  OBVIOUS
<1>1. \A c \in Conns : c \in Threads
  BY DEF Threads
<1>2. Timer \in Threads
  BY DEF Threads
<1>3. CASE Main
  BY <1>3, MainFile, CreateFile, EndFile DEF Main, Proceed, Exit
<1>4. CASE Signal \/ HandlerReturns \/ \E c \in Conns : Leave(c)
  BY <1>4, MainFile
<1>5. ASSUME NEW t \in Threads, Write(t) PROVE FileInv'
  BY <1>5, WriteOpenFile, ThreadFile, FwriteFile, FcloseFile DEF Write
<1>6. CASE TimerThread
  BY <1>2, <1>5, <1>6, ThreadFile DEF TimerThread
<1>7. ASSUME NEW c \in Conns, Worker(c) \/ Receive(c) \/ ReceiveNothing(c)
      PROVE  FileInv'
  <2>1. CASE Write(c)
    BY <1>1, <1>5, <2>1
  <2>2. CASE BrokenPipe(c)
    BY <2>2, EndFile DEF BrokenPipe
  <2>3. CASE \/ Loop(c) \/ Receive(c) \/ ReceiveNothing(c)
             \/ Readfile(c) \/ ReadfileFails(c) \/ Send(c)
    BY <1>1, <2>3, ThreadFile
  <2> QED BY <1>7, <2>1, <2>2, <2>3 DEF Worker
<1>8. CASE UNCHANGED vars
  <2>1. UNCHANGED <<running, handler, signals, main, client_socket, list_mutex,
                    files, name, ticks, pc, local, gone>>
    BY <1>8 DEF vars, flags, store
  <2>2. TypeOK' /\ MainKnows'
    BY <2>1 DEF FileInv, Typed, TypeOK, MainKnows
  <2> QED BY <2>1, <2>2, StillFile
<1> QED BY <1>3, <1>4, <1>6, <1>7, <1>8 DEF Next

-----------------------------------------------------------------------------
(* The invariant holds throughout, signals, failed fopens, broken pipes    *)
(* and the end of the process included.                                    *)
THEOREM FileInvHolds == Spec => []FileInv
<1>1. Init => FileInv
  BY InitFile
<1>2. FileInv /\ [Next]_vars => FileInv'
  BY NextFile
<1> QED BY <1>1, <1>2, PTL DEF Spec

(* Every open stream is on a file that exists, and readfile never fills    *)
(* more than its buffer.                                                   *)
THEOREM TypeCorrect == Spec => []TypeOK
<1>1. FileInv => TypeOK
  BY DEF FileInv, Typed
<1> QED BY <1>1, FileInvHolds, PTL

(* Pieces of workers and timestamps never mix: list_mutex is held from     *)
(* fopen to fclose (aesdsocket.c:71-91), and readfile takes it as well.    *)
THEOREM ChunksStayWhole == Spec => []ChunksWhole
<1>1. FileInv => ChunksWhole
  <2> SUFFICES ASSUME FileInv PROVE ChunksWhole
    OBVIOUS
  <2>1. ASSUME main # "down", list_mutex = NULL \/ Lost, NEW k \in DOMAIN files
        PROVE  Whole(files[k])
    <3>1. ~Unfinished(k)
      BY <2>1 DEF FileInv, WriterLocks, Unfinished, Lost, Inside, Threads
    <3> QED BY <2>1, <3>1 DEF FileInv, FilesWhole
  <2> QED BY <2>1 DEF FileInv, ReadWhole, ChunksWhole
<1> QED BY <1>1, FileInvHolds, PTL

(* The read after a worker's write finds the line in the file, unless the  *)
(* handler has unlinked that file or it has outgrown the buffer.           *)
THEOREM OwnLineIsSentBack == Spec => []OwnLineInReply
<1>1. FileInv => OwnLineInReply
  BY DEF FileInv
<1> QED BY <1>1, FileInvHolds, PTL

(* A thread that lost the mutex never enters writefile again: the mutex it *)
(* would wait for is its own.                                              *)
THEOREM LostStays == Spec => LostLockIsForever
<1>1. ASSUME FileInv, Next, Lost
      PROVE  \/ main' = "down"
             \/ /\ Lost' /\ files' = files
                /\ \A c \in Conns :
                     local'[c].read \in {local[c].read, <<>>}
  <2>1. /\ list_mutex \in Threads /\ list_mutex # NULL
        /\ pc[list_mutex] \notin Inside
        /\ pc \in [Threads -> Places] /\ local \in [Threads -> LocalType]
    BY <1>1 DEF Lost, FileInv, Typed, TypeOK, Inside
  <2>2. \A t \in Threads : pc[t] \notin Inside
    BY <1>1, <2>1 DEF FileInv, WriterLocks
  <2>3. \A c \in Conns : c \in Threads
    BY DEF Threads
  <2>4. Timer \in Threads
    BY DEF Threads
  <2>5. ASSUME NEW t \in Threads
        PROVE  ~Write(t)
    BY <2>1, <2>2 DEF Write, WriteOpen, WriteOpenFails, Fwrite, Fclose, Inside
  <2>6. ASSUME NEW t \in Threads, NEW where \in Places \ Inside,
               pc' = [pc EXCEPT ![t] = where],
               UNCHANGED <<list_mutex, files>>,
               \A c \in Conns : local'[c].read \in {local[c].read, <<>>}
        PROVE  /\ Lost' /\ files' = files
               /\ \A c \in Conns : local'[c].read \in {local[c].read, <<>>}
    BY <2>1, <2>6 DEF Lost, Inside
  <2>7. CASE Main \/ Signal \/ HandlerReturns \/ \E c \in Conns : Leave(c)
    <3>1. CASE CreateThread
      <4>1. client_socket \in Threads
        BY <1>1, <2>3, <3>1 DEF CreateThread, MainAt, FileInv, MainKnows
      <4>2. PICK where \in {"loop", "done"} :
              pc' = [pc EXCEPT ![client_socket] = where]
        BY <3>1 DEF CreateThread
      <4>3. where \in Places \ Inside
        BY <4>2 DEF Places, Inside
      <4> QED BY <3>1, <4>1, <4>2, <4>3, <2>6 DEF CreateThread, store
    <3>2. CASE Exit
      BY <3>2 DEF Exit, ProcessEnds
    <3> QED
      BY <1>1, <2>7, <3>1, <3>2
      DEF Main, Proceed, Test, Accept, AcceptFails, Continue, Join, Signal,
          HandlerReturns, Leave, Lost, store
  <2>8. CASE TimerThread
    <3>1. \A c \in Conns : c # Timer
      OBVIOUS
    <3>2. CASE TimerTest
      BY <2>4, <2>6, <3>2 DEF TimerTest, Goto, Places, Inside, store
    <3>3. CASE Tick
      <4>1. \A c \in Conns : local'[c] = local[c]
        BY <2>1, <2>3, <2>4, <3>1, <3>3 DEF Tick
      <4>2. "write" \in Places \ Inside
        BY DEF Places, Inside
      <4> QED BY <2>4, <2>6, <3>3, <4>1, <4>2 DEF Tick, Goto, store
    <3> QED BY <2>4, <2>5, <2>8, <3>2, <3>3 DEF TimerThread
  <2>9. ASSUME NEW c \in Conns, Worker(c) \/ Receive(c) \/ ReceiveNothing(c)
        PROVE  \/ main' = "down"
               \/ /\ Lost' /\ files' = files
                  /\ \A d \in Conns :
                       local'[d].read \in {local[d].read, <<>>}
    <3>1. CASE BrokenPipe(c)
      BY <3>1 DEF BrokenPipe, ProcessEnds
    <3>2. ~Write(c) /\ ~Readfile(c) /\ ~ReadfileFails(c)
      BY <2>1, <2>3, <2>5 DEF Readfile, ReadfileFails
    <3>3. NoLocals.read = <<>>
      BY DEF NoLocals
    <3>4. CASE Loop(c) \/ ReceiveNothing(c) \/ Send(c) \/ Receive(c)
      <4>1. PICK where \in {"recv", "done", "loop", "write"} :
              pc' = [pc EXCEPT ![c] = where]
        BY <3>4 DEF Loop, ReceiveNothing, Send, Receive, Goto, Finish
      <4>2. where \in Places \ Inside
        BY DEF Places, Inside
      <4>3. UNCHANGED <<list_mutex, files>>
        BY <3>4 DEF Loop, ReceiveNothing, Send, Receive, store
      <4>4. /\ \A d \in Conns \ {c} : local'[d] = local[d]
            /\ local'[c].read \in {local[c].read, <<>>}
        <5>1. c \in Threads /\ local[c] \in LocalType
          BY <2>1, <2>3
        <5>2. CASE local' = local
          BY <5>2
        <5>3. CASE local' = [local EXCEPT ![c] = NoLocals]
          <6> HIDE DEF NoLocals
          <6> QED BY <2>1, <2>3, <3>3, <5>3
        <5>4. CASE local' =
                     [local EXCEPT ![c].read = <<>>, ![c].newline = FALSE]
          BY <2>1, <2>3, <5>1, <5>4 DEF LocalType
        <5>5. ASSUME NEW newline \in BOOLEAN,
                     local' =
                       [local EXCEPT ![c].n = @ + 1, ![c].newline = newline]
              PROVE  /\ \A d \in Conns \ {c} : local'[d] = local[d]
                     /\ local'[c].read \in {local[c].read, <<>>}
          BY <2>1, <2>3, <5>1, <5>5 DEF LocalType
        <5> QED
          BY <3>4, <5>2, <5>3, <5>4, <5>5
          DEF Loop, ReceiveNothing, Send, Receive, Finish
      <4>5. \A d \in Conns : local'[d].read \in {local[d].read, <<>>}
        BY <4>4
      <4> QED BY <2>3, <2>6, <4>1, <4>2, <4>3, <4>5
    <3> QED BY <2>9, <3>1, <3>2, <3>4 DEF Worker
  <2> QED BY <1>1, <2>7, <2>8, <2>9 DEF Next
<1>2. FileInv /\ [Next]_vars =>
        [Lost => main' = "down"
                 \/ /\ Lost' /\ files' = files
                    /\ \A c \in Conns :
                         local'[c].read \in {local[c].read, <<>>}]_vars
  BY <1>1
<1> QED BY <1>2, FileInvHolds, PTL DEF Spec, LostLockIsForever
=============================================================================
