----------------------------- MODULE FileStore -----------------------------
(***************************************************************************)
(* FileStore (src/src/C++/FileStore.cpp): the message store that keeps a   *)
(* session in four files.  body holds the text of the messages, one after  *)
(* the other; header one row (number, offset, size) per message; seqnums   *)
(* the pair of next numbers; session the creation time.  Memory holds the  *)
(* numbers and the creation time (m_cache) and the offset of every number  *)
(* (m_offsets).                                                            *)
(*                                                                         *)
(* The files are written through stdio: what a call writes is in a buffer  *)
(* of the process until fflush, fseek or fclose hands it to the system.    *)
(* The process may stop between any two such calls; what it had not handed *)
(* over is lost and what it had is kept.  A write may fail: the body, whose *)
(* texts are long, is then left with a prefix of what was written, a row   *)
(* or a number pair is left out; stdio drops what it could not write and   *)
(* keeps the error indicator of the stream until the stream is reopened.   *)
(***************************************************************************)
EXTENDS Naturals, Sequences, FiniteSets

CONSTANTS
    Texts,        \* the messages set() may be called with
    Size,         \* Size[m]: length of the text m
    MaxNum,       \* bound: largest sequence number
    MaxFaults,    \* bound: writes that fail
    MaxTime       \* bound: largest creation time

ASSUME FileStoreAssumption ==
    /\ Size \in [Texts -> Nat \ {0}]
    /\ MaxNum \in Nat \ {0} /\ MaxTime \in Nat \ {0} /\ MaxFaults \in Nat

VARIABLES
    exists,       \* the files there are
    body,         \* their contents; <<>> when there is no such file
    header,
    seqnums,      \* <<>> or <<sender, target>>
    session,      \* <<>> or <<creation time>>
    status,       \* "down", "up" or "refused" (the constructor threw)
    cache,        \* m_cache: next sender and target number, creation time
    offsets,      \* m_offsets
    bodyBuf,      \* what the process has written to m_msgFile, unflushed
    headerBuf,    \* and to m_headerFile
    bodyErr,      \* the error indicator of m_msgFile
    op,           \* the call under way and where it is
    faults        \* writes that have failed so far

files == <<exists, body, header, seqnums, session>>
memory == <<status, cache, offsets, bodyBuf, headerBuf, bodyErr>>
storeVars == <<files, memory, op, faults>>

Files == {"body", "header", "seqnums", "session"}
Row(n, at, size) == [seq |-> n, at |-> at, size |-> size]
Bytes(m) == [i \in 1..Size[m] |-> <<m, i>>]
Prefixes(s) == {SubSeq(s, 1, k) : k \in 0..(Len(s) - 1)}
-----------------------------------------------------------------------------
(* Reading the files.                                                      *)

(* The order in which open() deletes and in which it creates.              *)
FileOrder == <<"body", "header", "seqnums", "session">>

(* get() at a row reads the text m from the body b, and all of it.         *)
Reads(b, r, m) ==
    /\ r.size = Size[m]
    /\ r.at + r.size <= Len(b)
    /\ \A i \in 1..Size[m] : b[r.at + i] = <<m, i>>

(* A row that ends beyond the body, a pair or a time that is missing makes *)
(* populateCache throw.                                                    *)
RowsInBody == \A i \in DOMAIN header : header[i].at + header[i].size <= Len(body)
Readable ==
    /\ RowsInBody
    /\ seqnums # <<>>
    /\ session # <<>>

(* open(): whether there is a store, and whether nothing was there yet (an *)
(* empty body alone counts as nothing).                                    *)
IsNewStore == exists \cap {"header", "seqnums", "session"} = {} /\ body = <<>>
CanLoad == exists = Files /\ Readable
CanOpen == IsNewStore \/ CanLoad

(* The last row of a number is the one that counts (insert_or_assign).     *)
RowsOf(h, n) == {i \in DOMAIN h : h[i].seq = n}
LastRow(h, n) == h[CHOOSE i \in RowsOf(h, n) : \A j \in RowsOf(h, n) : j <= i]
LoadedOffsets(h) == [n \in {h[i].seq : i \in DOMAIN h} |-> LastRow(h, n)]

LoadedCache ==
    [sender |-> seqnums[1], target |-> seqnums[2], created |-> session[1]]

Fresh(time) == [sender |-> 1, target |-> 1, created |-> time]
Idle == [name |-> "idle", text |-> <<>>, step |-> 0]
NoOffsets == [n \in {} |-> Row(0, 0, 0)]
-----------------------------------------------------------------------------
StoreInit ==
    /\ exists = {} /\ body = <<>> /\ header = <<>>
    /\ seqnums = <<>> /\ session = <<>>
    /\ status = "down" /\ cache = Fresh(0) /\ offsets = NoOffsets
    /\ bodyBuf = <<>> /\ headerBuf = <<>> /\ bodyErr = FALSE
    /\ op = Idle /\ faults = 0

Working(name) == status = "up" /\ op.name = name
Fail == faults < MaxFaults /\ faults' = faults + 1
-----------------------------------------------------------------------------
(* set().  The two seeks to the end hand over what earlier calls left in   *)
(* the buffers; then a row and the text go into them.  An error left on    *)
(* m_msgFile by an earlier call makes set() throw here.                    *)
SetSeek(n, m) ==
    /\ Working("idle")
    /\ \/ /\ body' = body \o bodyBuf
          /\ header' = header \o headerBuf
          /\ offsets' = [k \in DOMAIN offsets \cup {n} |->
                            IF k = n THEN Row(n, Len(body'), Size[m])
                                     ELSE offsets[k]]
          /\ headerBuf' = <<Row(n, Len(body'), Size[m])>>
          /\ bodyBuf' = Bytes(m)
          /\ op' = IF bodyErr THEN Idle
                   ELSE [name |-> "set", text |-> <<m>>, step |-> 1]
          /\ UNCHANGED <<bodyErr, faults>>
       \/ /\ \E p \in Prefixes(bodyBuf) : body' = body \o p
          /\ Fail
          /\ bodyBuf' = <<>> /\ bodyErr' = TRUE
          /\ UNCHANGED <<header, offsets, headerBuf, op>>
       \/ /\ headerBuf # <<>>
          /\ Fail
          /\ body' = body \o bodyBuf /\ bodyBuf' = <<>>
          /\ headerBuf' = <<>>
          /\ UNCHANGED <<header, offsets, bodyErr, op>>
    /\ UNCHANGED <<exists, seqnums, session, status, cache>>

(* Seeded error: the row goes to the index before the text to its file.    *)
FlushHeaderFirst ==
    /\ Working("set") /\ op.step = 1
    /\ header' = header \o headerBuf /\ headerBuf' = <<>>
    /\ op' = [op EXCEPT !.step = 2]
    /\ UNCHANGED <<exists, body, seqnums, session, status, cache, offsets,
                   bodyBuf, bodyErr, faults>>

(* The text goes to its file before its row goes to the index.             *)
FlushBody ==
    /\ Working("set") /\ op.step = 1
    /\ bodyBuf' = <<>>
    /\ \/ /\ body' = body \o bodyBuf
          /\ op' = [op EXCEPT !.step = 2]
          /\ UNCHANGED <<bodyErr, faults>>
       \/ /\ \E p \in Prefixes(bodyBuf) : body' = body \o p
          /\ Fail
          /\ op' = Idle
          /\ bodyErr' = TRUE
    /\ UNCHANGED <<exists, header, seqnums, session, status, cache, offsets,
                   headerBuf>>

FlushHeader ==
    /\ Working("set") /\ op.step = 2
    /\ headerBuf' = <<>>
    /\ \/ /\ header' = header \o headerBuf
          /\ op' = [op EXCEPT !.name = "stored"]
          /\ UNCHANGED faults
       \/ /\ Fail
          /\ op' = Idle
          /\ UNCHANGED header
    /\ UNCHANGED <<exists, body, seqnums, session, status, cache, offsets,
                   bodyBuf, bodyErr>>

(* Seeded error: the pair is left for the next call to write.              *)
SetSeqNumUnwritten(c, good, bad) ==
    /\ cache' = c
    /\ op' = good
    /\ UNCHANGED <<exists, body, header, seqnums, session, status, offsets,
                   bodyBuf, headerBuf, bodyErr, faults>>

(* setSeqNum(): the cache has the new numbers already when the pair is     *)
(* written, and keeps them when the write fails.                           *)
SetSeqNum(c, good, bad) ==
    /\ cache' = c
    /\ \/ /\ seqnums' = <<c.sender, c.target>>
          /\ op' = good
          /\ UNCHANGED faults
       \/ /\ Fail
          /\ op' = bad
          /\ UNCHANGED seqnums
    /\ UNCHANGED <<exists, body, header, session, status, offsets, bodyBuf,
                   headerBuf, bodyErr>>

incrNextSenderMsgSeqNum(good, bad) ==
    SetSeqNum([cache EXCEPT !.sender = @ + 1], good, bad)

(* Seeded error: the number is used up twice.                              *)
incrNextTargetTwice(good, bad) ==
    SetSeqNum([cache EXCEPT !.target = @ + 2], good, bad)

incrNextTargetMsgSeqNum(good, bad) ==
    SetSeqNum([cache EXCEPT !.target = @ + 1], good, bad)
setNextTargetMsgSeqNum(n) == SetSeqNum([cache EXCEPT !.target = n], Idle, Idle)
-----------------------------------------------------------------------------
(* open().  Deleting and creating the files are system calls of their own: *)
(* the step counts through 1..4 deletions, 5..8 creations, 9 the number    *)
(* pair, 10 the creation time.                                             *)
Opening(step) == [name |-> "open", text |-> <<>>, step |-> step]

Unlink(f) ==
    /\ exists' = exists \ {f}
    /\ body' = IF f = "body" THEN <<>> ELSE body
    /\ header' = IF f = "header" THEN <<>> ELSE header
    /\ seqnums' = IF f = "seqnums" THEN <<>> ELSE seqnums
    /\ session' = IF f = "session" THEN <<>> ELSE session

(* Seeded error: the files are not deleted but written over.               *)
ResetInPlace(time) ==
    /\ Working("idle")
    /\ cache' = Fresh(time) /\ offsets' = NoOffsets
    /\ bodyBuf' = <<>> /\ headerBuf' = <<>> /\ bodyErr' = FALSE
    /\ op' = Opening(9)
    /\ UNCHANGED <<files, status, faults>>

(* reset(): memory first, then the files, the body being the first to go.  *)
Reset(time) ==
    /\ Working("idle")
    /\ cache' = Fresh(time) /\ offsets' = NoOffsets
    /\ bodyBuf' = <<>> /\ headerBuf' = <<>> /\ bodyErr' = FALSE
    /\ Unlink(FileOrder[1])
    /\ op' = Opening(2)
    /\ UNCHANGED <<status, faults>>

OpenStep ==
    /\ Working("open")
    /\ CASE op.step \in 2..4 -> Unlink(FileOrder[op.step])
         [] op.step \in 5..8 ->
                /\ exists' = exists \cup {FileOrder[op.step - 4]}
                /\ UNCHANGED <<body, header, seqnums, session>>
         [] op.step = 9 ->
                /\ seqnums' = <<cache.sender, cache.target>>
                /\ UNCHANGED <<exists, body, header, session>>
         [] op.step = 10 ->
                /\ session' = <<cache.created>>
                /\ UNCHANGED <<exists, body, header, seqnums>>
    /\ op' = IF op.step = 10 THEN Idle ELSE Opening(op.step + 1)
    /\ UNCHANGED <<memory, faults>>

(* open() cannot create a file, or cannot write to it, and throws with     *)
(* nothing open: the constructor fails, and after reset() the store has no *)
(* files to go on with.  What comes next is a new process on what is there.*)
OpenFails ==
    /\ Working("open") /\ op.step \in 5..10 /\ Fail
    /\ status' = "down" /\ op' = Idle
    /\ cache' = Fresh(0) /\ offsets' = NoOffsets
    /\ bodyBuf' = <<>> /\ headerBuf' = <<>> /\ bodyErr' = FALSE
    /\ UNCHANGED files

(* The constructor: load what is there, or create it.                      *)
Start(time) ==
    /\ status = "down"
    /\ bodyBuf' = <<>> /\ headerBuf' = <<>> /\ bodyErr' = FALSE
    /\ \/ /\ CanLoad
          /\ cache' = LoadedCache /\ offsets' = LoadedOffsets(header)
          /\ status' = "up" /\ op' = Idle
       \/ /\ IsNewStore
          /\ cache' = Fresh(time) /\ offsets' = NoOffsets
          /\ status' = "up" /\ op' = Opening(IF "body" \in exists THEN 6 ELSE 5)
       \/ /\ ~CanOpen
          /\ status' = "refused"
          /\ UNCHANGED <<cache, offsets, op>>
    /\ UNCHANGED <<files, faults>>

(* get() seeks in m_msgFile, which hands over what the stream holds.       *)
Get ==
    /\ Working("idle") /\ bodyBuf # <<>>
    /\ bodyBuf' = <<>>
    /\ \/ body' = body \o bodyBuf /\ UNCHANGED <<bodyErr, faults>>
       \/ /\ \E p \in Prefixes(bodyBuf) : body' = body \o p
          /\ Fail
          /\ bodyErr' = TRUE
    /\ UNCHANGED <<exists, header, seqnums, session, status, cache, offsets,
                   headerBuf, op>>

(* fclose() of both streams: nobody looks at its result.                   *)
CloseStreams ==
    /\ bodyBuf' = <<>> /\ headerBuf' = <<>>
    /\ \/ /\ body' = body \o bodyBuf
          /\ header' = header \o headerBuf
          /\ UNCHANGED faults
       \/ /\ body' \in {body \o p : p \in Prefixes(bodyBuf)}
          /\ header' \in {header, header \o headerBuf}
          /\ Fail
       \/ /\ headerBuf # <<>>
          /\ body' = body \o bodyBuf /\ header' = header
          /\ Fail

(* refresh(): the files are read through new streams; the old ones, with   *)
(* what they still hold, are closed afterwards.  When the files cannot be  *)
(* read refresh() throws and memory stays as it was.                       *)
Refresh ==
    /\ Working("idle")
    /\ CanLoad
    /\ cache' = LoadedCache /\ offsets' = LoadedOffsets(header)
    /\ CloseStreams /\ bodyErr' = FALSE
    /\ UNCHANGED <<exists, seqnums, session, status, op>>

(* The destructor closes the streams.                                      *)
Close ==
    /\ Working("idle")
    /\ status' = "down"
    /\ CloseStreams /\ bodyErr' = FALSE
    /\ cache' = Fresh(0) /\ offsets' = NoOffsets
    /\ UNCHANGED <<exists, seqnums, session, op>>

(* The process stops.  A long text may be written in part.                 *)
Crash ==
    /\ status = "up"
    /\ status' = "down"
    /\ IF op.name = "set" /\ op.step = 1
       THEN \E p \in Prefixes(bodyBuf) : body' = body \o p
       ELSE UNCHANGED body
    /\ bodyBuf' = <<>> /\ headerBuf' = <<>> /\ bodyErr' = FALSE
    /\ cache' = Fresh(0) /\ offsets' = NoOffsets
    /\ op' = Idle
    /\ UNCHANGED <<exists, header, seqnums, session, faults>>
=============================================================================
