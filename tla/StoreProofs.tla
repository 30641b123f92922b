---------------------------- MODULE StoreProofs ----------------------------
(***************************************************************************)
(* Theorems about StoreClient, for any texts and any bounds: what a        *)
(* session has sent and received survives a stop of the process at any     *)
(* moment, and the four files implement the abstract DurableStore.         *)
(***************************************************************************)
EXTENDS StoreClient, SequenceTheorems, FiniteSetTheorems, TLAPS

Rows == [seq : Numbers, at : Nat, size : Nat]
Content == Seq(Texts \X Nat)
Names == {"idle", "set", "stored", "counted", "open"}
-----------------------------------------------------------------------------
(* The inductive invariant.                                                *)

(* Types of what TypeOK leaves out.                                        *)
MemoryTypes ==
    /\ bodyBuf \in Content
    /\ headerBuf \in Seq(Rows) /\ Len(headerBuf) <= 1
    /\ op \in [name : Names, text : {<<>>} \cup {<<m>> : m \in Texts}, step : 0..10]
    /\ bodyErr \in BOOLEAN /\ lag \in BOOLEAN /\ cut \in BOOLEAN
    /\ faults \in Nat

(* The rows of a number have a last one.                                   *)
HasLast(h) ==
    \A n \in Numbers : RowsOf(h, n) # {} =>
        \E i \in RowsOf(h, n) : \A j \in RowsOf(h, n) : j <= i

(* A file that is not there has no contents.                               *)
FilesOK ==
    /\ "body" \notin exists => body = <<>>
    /\ "header" \notin exists => header = <<>>
    /\ "seqnums" \notin exists => seqnums = <<>>
    /\ "session" \notin exists => session = <<>>

(* The store is in use; the files are then all there.                      *)
InUse == status = "up" /\ op.name # "open"

(* Before the files are complete nothing has been sent or received.        *)
PhaseOK ==
    /\ InUse => Complete
    /\ ~Complete => /\ wire = [n \in Numbers |-> {}] /\ covered = {}
                    /\ inHand = 0 /\ ~lag
    /\ status # "up" => /\ op.name = "idle" /\ inHand = 0
                        /\ bodyBuf = <<>> /\ headerBuf = <<>> /\ ~bodyErr

(* How far open() has come: files deleted, created, and written.           *)
OpenOK ==
    op.name = "open" =>
        /\ op.step \in 2..10
        /\ cache.sender = 1 /\ cache.target = 1 /\ cache.created # 0
        /\ bodyBuf = <<>> /\ headerBuf = <<>> /\ ~bodyErr /\ DOMAIN offsets = {}
        /\ ~Complete
        /\ op.step = 2 => exists = {"header", "seqnums", "session"}
        /\ op.step = 3 => exists = {"seqnums", "session"}
        /\ op.step = 4 => exists = {"session"}
        /\ op.step = 5 => exists = {}
        /\ op.step = 6 => exists = {"body"}
        /\ op.step = 7 => exists = {"body", "header"}
        /\ op.step = 8 => exists = {"body", "header", "seqnums"}
        /\ op.step \in {9, 10} => exists = Files
        /\ op.step >= 5 => header = <<>> /\ body = <<>> /\ session = <<>>
        /\ op.step \in 5..9 => seqnums = <<>>
        /\ op.step = 10 => seqnums = <<1, 1>>

(* What set() has reached: the text m, its row, and where they are.        *)
Recorded(n, m) == RowsOf(header, n) # {} /\ Reads(body, LastRow(header, n), m)

SetOK ==
    InUse =>
        /\ headerBuf # <<>> =>
              headerBuf[1].seq = cache.sender /\ op.name \in {"idle", "set"}
        /\ op.name = "set" =>
              /\ cache.sender < MaxNum /\ op.text # <<>> /\ op.step \in {1, 2}
              /\ headerBuf # <<>> /\ cache.sender \in DOMAIN offsets
              /\ offsets[cache.sender] = headerBuf[1]
              /\ op.step = 1 => /\ bodyBuf = Bytes(op.text[1])
                                /\ headerBuf[1].at = Len(body)
                                /\ headerBuf[1].size = Size[op.text[1]]
              /\ op.step = 2 =>
                    bodyBuf = <<>> /\ Reads(body, headerBuf[1], op.text[1])
        /\ op.name = "stored" =>
              /\ cache.sender < MaxNum /\ op.text # <<>>
              /\ Recorded(cache.sender, op.text[1])
              /\ offsets[cache.sender] = LastRow(header, cache.sender)
        /\ op.name = "counted" =>
              /\ cache.sender > 1 /\ op.text # <<>>
              /\ Recorded(cache.sender - 1, op.text[1])

(* Memory is at or ahead of the files; a delivery in progress is known.    *)
NumbersOK ==
    /\ Complete => 1..(seqnums[2] - 1) \subseteq covered /\ seqnums[2] <= MaxIn
    /\ InUse => /\ seqnums[1] <= cache.sender /\ seqnums[2] <= cache.target
                /\ 1..(cache.target - 1) \subseteq covered
                /\ cache.created = session[1] /\ cache.target <= MaxIn
                /\ ~lag => cache.sender = seqnums[1] /\ cache.target = seqnums[2]
    /\ inHand # 0 => inHand = cache.target /\ inHand \in covered /\ inHand < MaxIn

(* Every number counted has a text that can be read back, whatever failed. *)
CountedOK ==
    /\ Complete => \A n \in Numbers :
            n < seqnums[1] => \E m \in Texts : Recorded(n, m)
    /\ InUse => \A n \in Numbers :
            n < cache.sender => \E m \in Texts : Recorded(n, m)

(* Memory and index agree on the numbers counted.                          *)
OffsetsOK ==
    InUse => \A n \in DOMAIN offsets :
        n < cache.sender => offsets[n] = LastRow(header, n)

(* What was transmitted is what the files hold.                            *)
WireOK ==
    ~lag => \A n \in Numbers : \A m \in wire[n] :
        n < seqnums[1] /\ Recorded(n, m)

(* Without failed writes the index never runs ahead of the text, and no    *)
(* number above the expected one has been received.                        *)
FaultFree ==
    faults = 0 =>
        /\ ~lag /\ ~bodyErr
        /\ op.name # "set" => bodyBuf = <<>> /\ headerBuf = <<>>
        /\ Complete => RowsInBody /\ \A n \in covered : n <= seqnums[2]

(* Nothing half done is left unless open() was interrupted.                *)
OpensOK == ~cut /\ op.name # "open" => Complete \/ IsNewStore

Inv ==
    /\ TypeOK /\ MemoryTypes /\ HasLast(header) /\ FilesOK /\ PhaseOK /\ OpenOK
    /\ SetOK /\ NumbersOK /\ CountedOK /\ OffsetsOK /\ WireOK /\ FaultFree
    /\ OpensOK

-----------------------------------------------------------------------------
(* Reading what was appended.                                              *)

LEMMA BytesType ==
    ASSUME NEW m \in Texts
    PROVE  Bytes(m) \in Content /\ Len(Bytes(m)) = Size[m] /\ Size[m] \in Nat \ {0}
<1>1. Size[m] \in Nat \ {0}
  BY FileStoreAssumption
<1>2. Bytes(m) \in [1..Size[m] -> Texts \X Nat]
  BY <1>1 DEF Bytes
<1>3. Bytes(m) \in Content
  BY <1>1, <1>2, SeqDef DEF Content
<1>4. Len(Bytes(m)) = Size[m]
  BY <1>1, <1>2, <1>3, LenProperties DEF Content
<1>5. QED
  BY <1>1, <1>3, <1>4

LEMMA PrefixType ==
    ASSUME NEW s \in Content, NEW p \in Prefixes(s)
    PROVE  p \in Content
<1>1. PICK k \in 0..(Len(s) - 1) : p = SubSeq(s, 1, k)
  BY DEF Prefixes
<1>2. QED
  BY <1>1 DEF Content

(* A text that can be read stays readable when the body grows.             *)
LEMMA ReadsGrow ==
    ASSUME NEW b \in Content, NEW p \in Content, NEW r \in Rows, NEW m \in Texts,
           Reads(b, r, m)
    PROVE  Reads(b \o p, r, m)
<1>1. Size[m] \in Nat /\ r.at \in Nat /\ r.at + Size[m] <= Len(b)
  BY FileStoreAssumption DEF Reads, Rows
<1>2. Len(b \o p) = Len(b) + Len(p) /\ Len(b) \in Nat /\ Len(p) \in Nat
  BY DEF Content
<1>3. ASSUME NEW i \in 1..Size[m] PROVE (b \o p)[r.at + i] = b[r.at + i]
  BY <1>1, <1>2, r.at + i \in 1..Len(b) DEF Content
<1>4. QED
  BY <1>1, <1>2, <1>3 DEF Reads

(* A row that was written with a text reads that text.                     *)
LEMMA ReadsNew ==
    ASSUME NEW b \in Content, NEW m \in Texts, NEW r \in Rows,
           r.at = Len(b), r.size = Size[m]
    PROVE  Reads(b \o Bytes(m), r, m)
<1>1. Bytes(m) \in Content /\ Len(Bytes(m)) = Size[m] /\ Size[m] \in Nat
  BY BytesType
<1>2. Len(b \o Bytes(m)) = Len(b) + Size[m] /\ Len(b) \in Nat
  BY <1>1 DEF Content
<1>3. ASSUME NEW i \in 1..Size[m] PROVE (b \o Bytes(m))[Len(b) + i] = <<m, i>>
  <2>1. (b \o Bytes(m))[Len(b) + i] = Bytes(m)[i]
    BY <1>1, <1>2 DEF Content
  <2>2. QED
    BY <2>1 DEF Bytes
<1>4. QED
  BY <1>1, <1>2, <1>3 DEF Reads

(* One row reads one text.                                                 *)
LEMMA ReadsOne ==
    ASSUME NEW b, NEW r, NEW m \in Texts, NEW k \in Texts,
           Reads(b, r, m), Reads(b, r, k)
    PROVE  m = k
<1>1. 1 \in 1..Size[m] /\ 1 \in 1..Size[k]
  BY FileStoreAssumption
<1>2. b[r.at + 1] = <<m, 1>> /\ b[r.at + 1] = <<k, 1>>
  BY <1>1 DEF Reads
<1>3. QED
  BY <1>2
-----------------------------------------------------------------------------
(* The last row of a number.                                               *)

LEMMA LastRowIs ==
    ASSUME NEW h \in Seq(Rows), NEW n, NEW i \in RowsOf(h, n),
           \A j \in RowsOf(h, n) : j <= i
    PROVE  LastRow(h, n) = h[i] /\ h[i] \in Rows /\ h[i].seq = n
<1> DEFINE x == CHOOSE k \in RowsOf(h, n) : \A j \in RowsOf(h, n) : j <= k
<1>1. x \in RowsOf(h, n) /\ \A j \in RowsOf(h, n) : j <= x
  OBVIOUS
<1>2. x <= i /\ i <= x /\ x \in Nat /\ i \in Nat
  BY <1>1 DEF RowsOf
<1>3. x = i
  BY <1>2
<1>4. QED
  BY <1>3 DEF LastRow, RowsOf

LEMMA LastRowType ==
    ASSUME NEW h \in Seq(Rows), HasLast(h), NEW n \in Numbers, RowsOf(h, n) # {}
    PROVE  LastRow(h, n) \in Rows
<1>1. PICK i \in RowsOf(h, n) : \A j \in RowsOf(h, n) : j <= i
  BY DEF HasLast
<1>2. QED
  BY <1>1, LastRowIs

LEMMA AppendRows ==
    ASSUME NEW h \in Seq(Rows), NEW r \in Rows
    PROVE  /\ h \o <<r>> \in Seq(Rows)
           /\ DOMAIN (h \o <<r>>) = 1..(Len(h) + 1) /\ DOMAIN h = 1..Len(h) /\ Len(h) \in Nat
           /\ (h \o <<r>>)[Len(h) + 1] = r
           /\ \A i \in DOMAIN h : (h \o <<r>>)[i] = h[i]
  OBVIOUS

LEMMA AppendOther ==
    ASSUME NEW h \in Seq(Rows), NEW r \in Rows, NEW n \in Numbers, r.seq # n
    PROVE  /\ RowsOf(h \o <<r>>, n) = RowsOf(h, n)
           /\ HasLast(h) /\ RowsOf(h, n) # {} => LastRow(h \o <<r>>, n) = LastRow(h, n)
<1>1. RowsOf(h \o <<r>>, n) = RowsOf(h, n)
  BY AppendRows DEF RowsOf
<1>2. ASSUME HasLast(h), RowsOf(h, n) # {}
      PROVE  LastRow(h \o <<r>>, n) = LastRow(h, n)
  <2>1. PICK i \in RowsOf(h, n) : \A j \in RowsOf(h, n) : j <= i
    BY <1>2 DEF HasLast
  <2>2. LastRow(h, n) = h[i]
    BY <2>1, LastRowIs
  <2>3. LastRow(h \o <<r>>, n) = (h \o <<r>>)[i]
    <3> DEFINE h2 == h \o <<r>>
    <3>1. h2 \in Seq(Rows) /\ i \in RowsOf(h2, n) /\ \A j \in RowsOf(h2, n) : j <= i
      BY <1>1, <2>1, AppendRows
    <3> HIDE DEF h2
    <3>2. LastRow(h2, n) = h2[i]
      BY <3>1, LastRowIs
    <3>3. QED
      BY <3>2 DEF h2
  <2>4. QED
    BY <2>2, <2>3, AppendRows DEF RowsOf
<1>3. QED
  BY <1>1, <1>2

LEMMA AppendOwn ==
    ASSUME NEW h \in Seq(Rows), NEW r \in Rows
    PROVE  /\ Len(h) + 1 \in RowsOf(h \o <<r>>, r.seq)
           /\ \A j \in RowsOf(h \o <<r>>, r.seq) : j <= Len(h) + 1
           /\ LastRow(h \o <<r>>, r.seq) = r
<1>1. /\ Len(h) + 1 \in RowsOf(h \o <<r>>, r.seq)
      /\ \A j \in RowsOf(h \o <<r>>, r.seq) : j <= Len(h) + 1
  BY AppendRows DEF RowsOf
<1> DEFINE h2 == h \o <<r>>
           k == Len(h) + 1
<1>2. h2 \in Seq(Rows) /\ k \in RowsOf(h2, r.seq) /\ \A j \in RowsOf(h2, r.seq) : j <= k
  BY <1>1, AppendRows
<1>3. h2[k] = r
  BY AppendRows
<1> HIDE DEF h2, k
<1>4. LastRow(h2, r.seq) = r
  BY <1>2, <1>3, LastRowIs
<1>5. QED
  BY <1>1, <1>4 DEF h2

LEMMA AppendHasLast ==
    ASSUME NEW h \in Seq(Rows), NEW r \in Rows, HasLast(h)
    PROVE  HasLast(h \o <<r>>)
<1> SUFFICES ASSUME NEW n \in Numbers, RowsOf(h \o <<r>>, n) # {}
             PROVE  \E i \in RowsOf(h \o <<r>>, n) : \A j \in RowsOf(h \o <<r>>, n) : j <= i
  BY DEF HasLast
<1>1. CASE r.seq = n
  BY <1>1, AppendOwn
<1>2. CASE r.seq # n
  BY <1>2, AppendOther DEF HasLast
<1>3. QED
  BY <1>1, <1>2

LEMMA RowFields ==
    ASSUME NEW h \in Seq(Rows), NEW i \in DOMAIN h
    PROVE  /\ h[i] \in Rows /\ h[i].seq \in Numbers
           /\ h[i].at \in Nat /\ h[i].size \in Nat
<1>1. h[i] \in Rows
  OBVIOUS
<1>2. QED
  BY <1>1 DEF Rows

-----------------------------------------------------------------------------
(* Steps that only append to the body and to the index.                    *)

Grows(s) ==
    /\ \E p \in Content : body' = body \o p
    /\ header' = header \/ \E r \in Rows : r.seq >= s /\ header' = header \o <<r>>

LEMMA GrowthKeeps ==
    ASSUME body \in Content, header \in Seq(Rows), HasLast(header),
           NEW s \in Nat, Grows(s)
    PROVE  /\ body' \in Content /\ header' \in Seq(Rows) /\ HasLast(header')
           /\ \A n \in Numbers : n < s /\ RowsOf(header, n) # {} =>
                RowsOf(header', n) # {} /\ LastRow(header', n) = LastRow(header, n)
           /\ \A n \in Numbers : \A m \in Texts :
                n < s /\ Recorded(n, m) => Recorded(n, m)'
<1>1. PICK p \in Content : body' = body \o p
  BY DEF Grows
<1>2. body' \in Content
  BY <1>1 DEF Content
<1>3. header' \in Seq(Rows) /\ HasLast(header')
  BY AppendRows, AppendHasLast DEF Grows
<1>4. ASSUME NEW n \in Numbers, n < s, RowsOf(header, n) # {}
      PROVE  RowsOf(header', n) # {} /\ LastRow(header', n) = LastRow(header, n)
  <2>1. CASE header' = header
    BY <1>4, <2>1
  <2>2. ASSUME NEW r \in Rows, r.seq >= s, header' = header \o <<r>>
        PROVE  RowsOf(header', n) # {} /\ LastRow(header', n) = LastRow(header, n)
    <3>1. r.seq # n
      BY <1>4, <2>2 DEF Rows, Numbers
    <3>2. QED
      BY <1>4, <2>2, <3>1, AppendOther
  <2>3. QED
    BY <2>1, <2>2 DEF Grows
<1>5. ASSUME NEW n \in Numbers, NEW m \in Texts, n < s, Recorded(n, m)
      PROVE  Recorded(n, m)'
  <2>1. LastRow(header, n) \in Rows
    BY <1>5, LastRowType DEF Recorded
  <2>2. Reads(body', LastRow(header, n), m)
    BY <1>1, <1>5, <2>1, ReadsGrow DEF Recorded
  <2>3. QED
    BY <1>4, <1>5, <2>2 DEF Recorded
<1>6. QED
  BY <1>2, <1>3, <1>4, <1>5

(* The rest of such a step: nothing but the two files and the buffers.     *)
GrowStep ==
    Grows(cache.sender) /\ UNCHANGED <<exists, seqnums, session, wire, covered, lag>>

LEMMA Growing ==
    ASSUME Inv, InUse, GrowStep
    PROVE  /\ Complete /\ Complete'
           /\ body' \in Content /\ header' \in Seq(Rows) /\ HasLast(header')
           /\ FilesOK' /\ WireOK'
           /\ \A n \in Numbers : n < cache.sender =>
                /\ \E m \in Texts : Recorded(n, m)'
                /\ LastRow(header', n) = LastRow(header, n)
           /\ \A n \in Numbers : \A m \in Texts :
                n < cache.sender /\ Recorded(n, m) => Recorded(n, m)'
<1>1. Complete /\ Complete'
  BY DEF Inv, PhaseOK, GrowStep, Complete
<1>2. cache.sender \in Nat /\ seqnums[1] <= cache.sender
  BY DEF Inv, TypeOK, NumbersOK, Numbers
<1>3. body \in Content /\ header \in Seq(Rows) /\ HasLast(header)
  BY DEF Inv, TypeOK, Content, Rows
<1>4. /\ body' \in Content /\ header' \in Seq(Rows) /\ HasLast(header')
      /\ \A n \in Numbers : n < cache.sender /\ RowsOf(header, n) # {} =>
           RowsOf(header', n) # {} /\ LastRow(header', n) = LastRow(header, n)
      /\ \A n \in Numbers : \A m \in Texts :
           n < cache.sender /\ Recorded(n, m) => Recorded(n, m)'
  BY <1>2, <1>3, GrowthKeeps DEF GrowStep
<1>5. ASSUME NEW n \in Numbers, n < cache.sender
      PROVE  /\ \E m \in Texts : Recorded(n, m)'
             /\ LastRow(header', n) = LastRow(header, n)
  <2>1. PICK m \in Texts : Recorded(n, m)
    BY <1>5 DEF Inv, CountedOK
  <2>2. QED
    BY <1>4, <1>5, <2>1 DEF Recorded
<1>6. FilesOK'
  BY <1>1 DEF FilesOK, Complete, Files
<1>7. WireOK'
  <2> SUFFICES ASSUME ~lag', NEW n \in Numbers, NEW m \in wire'[n]
               PROVE  n < seqnums'[1] /\ Recorded(n, m)'
    BY DEF WireOK
  <2>1. ~lag /\ m \in wire[n] /\ seqnums' = seqnums /\ m \in Texts
    BY DEF GrowStep, Inv, TypeOK
  <2>2. n < seqnums[1] /\ Recorded(n, m)
    BY <2>1 DEF Inv, WireOK
  <2>3. n < cache.sender
    BY <1>1, <1>2, <2>2 DEF Complete, Inv, TypeOK, Numbers
  <2>4. QED
    BY <1>4, <2>1, <2>2, <2>3
<1>8. QED
  BY <1>1, <1>4, <1>5, <1>6, <1>7

(* When the store stays in use with its numbers, most of the invariant     *)
(* follows.                                                                *)
LEMMA GrowingInUse ==
    ASSUME Inv, InUse, GrowStep, op'.name # "open",
           UNCHANGED <<status, cache, inHand, cut>>
    PROVE  /\ HasLast(header') /\ FilesOK' /\ PhaseOK' /\ OpenOK' /\ NumbersOK'
           /\ CountedOK' /\ WireOK' /\ OpensOK'
<1>1. /\ Complete /\ Complete' /\ FilesOK' /\ WireOK' /\ HasLast(header')
      /\ \A n \in Numbers : n < cache.sender => \E m \in Texts : Recorded(n, m)'
  BY Growing
<1>2. InUse' /\ status' = "up"
  BY DEF InUse
<1>3. PhaseOK' /\ OpenOK' /\ OpensOK'
  BY <1>1, <1>2 DEF PhaseOK, OpenOK, OpensOK
<1>4. NumbersOK'
  BY <1>1 DEF GrowStep, Inv, NumbersOK
<1>5. CountedOK'
  <2>1. seqnums' = seqnums /\ seqnums[1] <= cache.sender
    BY DEF GrowStep, Inv, NumbersOK
  <2>2. ASSUME NEW n \in Numbers, n < seqnums'[1]
        PROVE  \E m \in Texts : Recorded(n, m)'
    <3>1. n < cache.sender
      <4>1. seqnums[1] \in Nat /\ cache.sender \in Nat /\ n \in Nat
        BY <1>1 DEF Complete, Inv, TypeOK, Numbers
      <4>2. QED
        BY <2>1, <2>2, <4>1
    <3>2. QED
      BY <1>1, <3>1
  <2>3. QED
    BY <1>1, <2>2 DEF CountedOK
<1>6. QED
  BY <1>1, <1>3, <1>4, <1>5

LEMMA OneElement ==
    ASSUME NEW S, NEW s \in Seq(S), Len(s) <= 1, s # <<>>
    PROVE  s[1] \in S /\ s = <<s[1]>>
<1>0. Len(s) \in Nat \ {0}
  BY EmptySeq, Zenon
<1>1. Len(s) = 1
  BY <1>0
<1>2. s[1] \in S
  BY <1>1
<1>3. <<s[1]>> \in Seq(S) /\ Len(<<s[1]>>) = 1
  BY <1>2
<1>4. QED
  BY <1>1, <1>2, <1>3, SeqEqual

(* Handing over the buffers is such a step.                                *)
LEMMA FlushGrows ==
    ASSUME Inv, InUse
    PROVE  /\ bodyBuf \in Content /\ header \o <<>> = header
           /\ \/ headerBuf = <<>>
              \/ /\ headerBuf[1] \in Rows /\ headerBuf = <<headerBuf[1]>>
                 /\ headerBuf[1].seq = cache.sender
           /\ \/ header \o headerBuf = header
              \/ \E r \in Rows : r.seq = cache.sender /\ header \o headerBuf = header \o <<r>>
<1>1. bodyBuf \in Content /\ header \in Seq(Rows)
  BY DEF Inv, TypeOK, MemoryTypes, Rows
<1>2. header \o <<>> = header
  BY <1>1, ConcatEmptySeq
<1>3. CASE headerBuf = <<>>
  BY <1>1, <1>2, <1>3
<1>4. CASE headerBuf # <<>>
  <2>1. headerBuf[1] \in Rows /\ headerBuf = <<headerBuf[1]>>
    BY <1>4, OneElement DEF Inv, MemoryTypes
  <2>2. headerBuf[1].seq = cache.sender
    BY <1>4 DEF Inv, SetOK
  <2>3. QED
    BY <1>1, <1>2, <2>1, <2>2
<1>5. QED
  BY <1>3, <1>4

-----------------------------------------------------------------------------
(* set(), step by step.                                                    *)

LEMMA TypesKept ==
    ASSUME Inv, body' \in Content, header' \in Seq(Rows), DOMAIN offsets' \subseteq Numbers,
           op'.name \in Names,
           UNCHANGED <<exists, seqnums, session, status, cache, wire, covered, inHand>>
    PROVE  TypeOK'
  BY DEF Inv, TypeOK, Content, Rows, Names

(* A write failed, now or before, and the store is idle.                   *)
LEMMA IdleGrows ==
    ASSUME Inv, InUse, op.name = "idle", \E p \in Content : body' = body \o p,
           UNCHANGED <<header, offsets, op, exists, seqnums, session, status, cache,
                       wire, covered, inHand, lag, cut>>,
           headerBuf' = headerBuf \/ headerBuf' = <<>>, bodyBuf' = <<>>,
           faults' \in Nat, faults' # 0, bodyErr' \in BOOLEAN
    PROVE  Inv'
<1>1. GrowStep
  BY DEF GrowStep, Grows
<1>2. /\ HasLast(header') /\ FilesOK' /\ PhaseOK' /\ OpenOK' /\ NumbersOK'
      /\ CountedOK' /\ WireOK' /\ OpensOK'
  BY <1>1, GrowingInUse
<1>3. /\ body' \in Content /\ header' \in Seq(Rows)
      /\ \A n \in Numbers : n < cache.sender => LastRow(header', n) = LastRow(header, n)
  BY <1>1, Growing
<1>4. TypeOK'
  BY <1>3, TypesKept DEF Inv, TypeOK, Names
<1>5. MemoryTypes'
  <2>1. headerBuf' \in Seq(Rows) /\ Len(headerBuf') <= 1
    <3>1. CASE headerBuf' = headerBuf
      BY <3>1 DEF Inv, MemoryTypes
    <3>2. CASE headerBuf' = <<>>
      BY <3>2
    <3>3. QED
      BY <3>1, <3>2
  <2>2. bodyBuf' \in Content
    BY DEF Content
  <2>3. QED
    BY <2>1, <2>2 DEF Inv, MemoryTypes
<1>6. SetOK'
  BY DEF Inv, SetOK, InUse
<1>7. OffsetsOK'
  BY <1>3 DEF Inv, TypeOK, OffsetsOK
<1>8. QED
  BY <1>2, <1>4, <1>5, <1>6, <1>7 DEF Inv, FaultFree

LEMMA SendInv == ASSUME Inv, NEW m \in Texts, Send(m) PROVE Inv'
<1> DEFINE row == Row(cache.sender, Len(body'), Size[m])
           start == [name |-> "set", text |-> <<m>>, step |-> 1]
<1>1. /\ InUse /\ op.name = "idle" /\ cache.sender < MaxNum
      /\ UNCHANGED <<exists, seqnums, session, status, cache, wire, covered, inHand,
                     lag, stops, cut>>
  BY DEF Send, SetSeek, Working, InUse, history
<1>2. /\ bodyBuf \in Content /\ header \o <<>> = header
      /\ \/ header \o headerBuf = header
         \/ \E r \in Rows : r.seq = cache.sender /\ header \o headerBuf = header \o <<r>>
  BY <1>1, FlushGrows
<1>3. cache.sender \in Numbers /\ cache.sender \in Nat /\ body \in Content /\ faults \in Nat
  BY DEF Inv, TypeOK, MemoryTypes, Numbers, Content
<1>4. Size[m] \in Nat /\ Bytes(m) \in Content
  BY BytesType
<1> DEFINE Kept ==
      /\ HasLast(header') /\ FilesOK' /\ PhaseOK' /\ OpenOK' /\ NumbersOK'
      /\ CountedOK' /\ WireOK' /\ OpensOK'
<1>5. ASSUME body' = body \o bodyBuf, header' = header \o headerBuf,
             offsets' = [k \in DOMAIN offsets \cup {cache.sender} |->
                            IF k = cache.sender THEN row ELSE offsets[k]],
             headerBuf' = <<row>>, bodyBuf' = Bytes(m),
             op' = IF bodyErr THEN Idle ELSE start,
             UNCHANGED <<bodyErr, faults>>
      PROVE  Inv'
  <2>1. GrowStep
    <3>1. \E p \in Content : body' = body \o p
      BY <1>2, <1>5
    <3>2. \A r \in Rows : r.seq = cache.sender => r.seq >= cache.sender
      BY <1>3
    <3>3. header' = header \/ \E r \in Rows : r.seq >= cache.sender /\ header' = header \o <<r>>
      BY <1>2, <1>5, <3>2
    <3>4. QED
      BY <1>1, <3>1, <3>3 DEF GrowStep, Grows
  <2>2. op'.name \in {"idle", "set"} /\ op' \in {Idle, start}
    BY <1>5 DEF Idle
  <2>3. Kept
    BY <1>1, <2>1, <2>2, GrowingInUse
  <2>4. /\ body' \in Content /\ header' \in Seq(Rows)
        /\ \A n \in Numbers : n < cache.sender => LastRow(header', n) = LastRow(header, n)
    BY <1>1, <2>1, Growing
  <2>5. row \in Rows /\ Len(body') \in Nat
    BY <1>3, <1>4, <2>4 DEF Row, Rows, Content
  <2>6. DOMAIN offsets' \subseteq Numbers
    BY <1>3, <1>5 DEF Inv, TypeOK
  <2>7. TypeOK'
    BY <1>1, <2>2, <2>4, <2>6, TypesKept DEF Names
  <2>8. MemoryTypes'
    <3>1. headerBuf' \in Seq(Rows) /\ Len(headerBuf') <= 1
      BY <1>5, <2>5
    <3>2. op' \in [name : Names, text : {<<>>} \cup {<<k>> : k \in Texts}, step : 0..10]
      BY <2>2 DEF Idle, Names
    <3>3. QED
      BY <1>1, <1>4, <1>5, <3>1, <3>2 DEF Inv, MemoryTypes
  <2>9. SetOK'
    <3>1. headerBuf'[1] = row /\ row.seq = cache.sender /\ row.at = Len(body') /\ row.size = Size[m]
      BY <1>5 DEF Row
    <3>2. offsets'[cache.sender] = row /\ cache.sender \in DOMAIN offsets'
      BY <1>5
    <3>3. op'.name = "set" => op' = start
      BY <2>2 DEF Idle
    <3>4. headerBuf' # <<>>
      BY <1>5
    <3>5. QED
      BY <1>1, <1>5, <2>2, <3>1, <3>2, <3>3, <3>4 DEF SetOK
  <2>10. OffsetsOK'
    BY <1>1, <1>3, <1>5, <2>4 DEF Inv, TypeOK, OffsetsOK
  <2>11. FaultFree'
    <3> SUFFICES ASSUME faults' = 0 PROVE FaultFree'
      BY DEF FaultFree
    <3>1. ~lag /\ ~bodyErr /\ bodyBuf = <<>> /\ headerBuf = <<>> /\ Complete /\ RowsInBody
      BY <1>1, <1>5 DEF Inv, FaultFree, PhaseOK
    <3>2. body' = body /\ header' = header
      BY <1>2, <1>3, <1>5, <3>1, ConcatEmptySeq DEF Content
    <3>3. op'.name = "set"
      BY <1>5, <3>1
    <3>4. QED
      BY <1>1, <1>5, <3>1, <3>2, <3>3 DEF FaultFree, Inv, RowsInBody, Complete
  <2>12. QED
    BY <2>3, <2>7, <2>8, <2>9, <2>10, <2>11 DEF Inv
<1>6. faults < MaxFaults /\ faults' = faults + 1 => faults' \in Nat /\ faults' # 0
  BY <1>3
<1>7. QED
  <2>1. CASE /\ \E p \in Prefixes(bodyBuf) : body' = body \o p
             /\ Fail
             /\ bodyBuf' = <<>> /\ bodyErr' = TRUE
             /\ UNCHANGED <<header, offsets, headerBuf, op>>
    BY <1>1, <1>2, <1>6, <2>1, PrefixType, IdleGrows DEF Fail
  <2>2. CASE /\ Fail
             /\ body' = body \o bodyBuf /\ bodyBuf' = <<>>
             /\ headerBuf' = <<>>
             /\ UNCHANGED <<header, offsets, bodyErr, op>>
    <3>1. bodyErr' \in BOOLEAN
      BY <2>2 DEF Inv, MemoryTypes
    <3>2. QED
      BY <1>1, <1>2, <1>6, <2>2, <3>1, IdleGrows DEF Fail
  <2>3. QED
    BY <1>5, <2>1, <2>2 DEF Send, SetSeek


LEMMA FlushBodyInv == ASSUME Inv, FlushBody, UNCHANGED history PROVE Inv'
<1>1. /\ InUse /\ op.name = "set" /\ op.step = 1 /\ bodyBuf' = <<>>
      /\ UNCHANGED <<exists, header, seqnums, session, status, cache, offsets, headerBuf,
                     wire, covered, inHand, lag, stops, cut>>
  BY DEF FlushBody, Working, InUse, history
<1> DEFINE text == op.text[1]
<1>2. /\ cache.sender < MaxNum /\ op.text # <<>> /\ headerBuf # <<>>
      /\ cache.sender \in DOMAIN offsets /\ offsets[cache.sender] = headerBuf[1]
      /\ bodyBuf = Bytes(text) /\ headerBuf[1].at = Len(body)
      /\ headerBuf[1].size = Size[text]
  BY <1>1 DEF Inv, SetOK
<1>3. text \in Texts /\ headerBuf[1] \in Rows /\ headerBuf[1].seq = cache.sender
  BY <1>1, <1>2, FlushGrows DEF Inv, MemoryTypes
<1>4. body \in Content /\ bodyBuf \in Content /\ faults \in Nat
  BY DEF Inv, TypeOK, MemoryTypes, Content
<1>5. bodyBuf' \in Content /\ op' \in [name : Names, text : {<<>>} \cup {<<k>> : k \in Texts}, step : 0..10]
  BY <1>1 DEF Content, FlushBody, Inv, MemoryTypes, Names, Idle
<1>6. ASSUME \E p \in Content : body' = body \o p, op'.name \in {"idle", "set"},
             bodyErr' \in BOOLEAN, faults' \in Nat, SetOK', FaultFree'
      PROVE  Inv'
  <2>1. GrowStep
    BY <1>1, <1>6 DEF GrowStep, Grows
  <2>2. /\ HasLast(header') /\ FilesOK' /\ PhaseOK' /\ OpenOK' /\ NumbersOK'
        /\ CountedOK' /\ WireOK' /\ OpensOK'
    BY <1>1, <1>6, <2>1, GrowingInUse
  <2>3. /\ body' \in Content /\ header' \in Seq(Rows)
        /\ \A n \in Numbers : n < cache.sender => LastRow(header', n) = LastRow(header, n)
    BY <1>1, <2>1, Growing
  <2>4. TypeOK'
    BY <1>1, <1>6, <2>3, TypesKept DEF Inv, TypeOK, Names
  <2>5. MemoryTypes'
    BY <1>1, <1>5, <1>6 DEF Inv, MemoryTypes
  <2>6. OffsetsOK'
    BY <1>1, <2>3 DEF Inv, TypeOK, OffsetsOK
  <2>7. QED
    BY <1>6, <2>2, <2>4, <2>5, <2>6 DEF Inv
<1>7. CASE body' = body \o bodyBuf /\ op' = [op EXCEPT !.step = 2] /\ UNCHANGED <<bodyErr, faults>>
  <2>1. Reads(body', headerBuf[1], text)
    BY <1>2, <1>3, <1>4, <1>7, ReadsNew
  <2>2. op'.name = "set" /\ op'.text = op.text /\ op'.step = 2
    BY <1>1, <1>7 DEF Inv, MemoryTypes
  <2>3. SetOK'
    BY <1>1, <1>2, <1>3, <2>1, <2>2 DEF SetOK
  <2>4. FaultFree'
    <3>1. body' \in Content /\ Len(body') >= Len(body) /\ Len(body) \in Nat /\ Len(body') \in Nat
      BY <1>4, <1>7 DEF Content
    <3>2. RowsInBody => RowsInBody'
      <4>1. \A i \in DOMAIN header : header[i].at \in Nat /\ header[i].size \in Nat
        <5>1. header \in Seq(Rows)
          BY DEF Inv, TypeOK, Rows
        <5>2. QED
          BY <5>1, RowFields
      <4>2. QED
        BY <1>1, <3>1, <4>1 DEF RowsInBody
    <3>3. Complete' = Complete
      BY <1>1 DEF Complete
    <3>4. QED
      BY <1>1, <1>7, <2>2, <3>2, <3>3 DEF FaultFree, Inv
  <2>5. QED
    BY <1>4, <1>6, <1>7, <2>2, <2>3, <2>4 DEF Inv, MemoryTypes
<1>8. CASE /\ \E p \in Prefixes(bodyBuf) : body' = body \o p
           /\ Fail /\ op' = Idle /\ bodyErr' = TRUE
  <2>1. \E p \in Content : body' = body \o p
    BY <1>4, <1>8, PrefixType
  <2>2. faults' \in Nat /\ faults' # 0
    BY <1>4, <1>8 DEF Fail
  <2>3. op'.name = "idle"
    BY <1>8 DEF Idle
  <2>4. SetOK' /\ FaultFree'
    BY <1>1, <1>3, <2>2, <2>3 DEF SetOK, FaultFree
  <2>5. QED
    BY <1>6, <1>8, <2>1, <2>2, <2>3, <2>4
<1>9. QED
  BY <1>7, <1>8 DEF FlushBody

LEMMA FlushHeaderInv == ASSUME Inv, FlushHeader, UNCHANGED history PROVE Inv'
<1>1. /\ InUse /\ op.name = "set" /\ op.step = 2 /\ headerBuf' = <<>>
      /\ UNCHANGED <<exists, body, seqnums, session, status, cache, offsets, bodyBuf, bodyErr,
                     wire, covered, inHand, lag, stops, cut>>
  BY DEF FlushHeader, Working, InUse, history
<1> DEFINE text == op.text[1]
           row == headerBuf[1]
<1>2. /\ cache.sender < MaxNum /\ op.text # <<>> /\ headerBuf # <<>>
      /\ cache.sender \in DOMAIN offsets /\ offsets[cache.sender] = row
      /\ Reads(body, row, text) /\ bodyBuf = <<>>
  BY <1>1 DEF Inv, SetOK
<1>3. text \in Texts /\ row \in Rows /\ headerBuf = <<row>> /\ row.seq = cache.sender
  BY <1>1, <1>2, FlushGrows DEF Inv, MemoryTypes
<1>4. body \in Content /\ header \in Seq(Rows) /\ cache.sender \in Nat /\ faults \in Nat
  BY DEF Inv, TypeOK, MemoryTypes, Content, Rows, Numbers
<1>5. body' = body \o <<>> /\ <<>> \in Content
  BY <1>1, <1>4, ConcatEmptySeq DEF Content
<1>6. /\ headerBuf' \in Seq(Rows) /\ Len(headerBuf') <= 1
      /\ op' \in [name : Names, text : {<<>>} \cup {<<k>> : k \in Texts}, step : 0..10]
  BY <1>1 DEF FlushHeader, Inv, MemoryTypes, Names, Idle
<1>7. ASSUME header' = header \/ header' = header \o <<row>>,
             op'.name \in {"idle", "stored"}, faults' \in Nat, SetOK', FaultFree'
      PROVE  Inv'
  <2>1. GrowStep
    <3>1. row.seq >= cache.sender
      BY <1>3, <1>4
    <3>2. QED
      BY <1>1, <1>3, <1>5, <1>7, <3>1 DEF GrowStep, Grows
  <2>2. /\ HasLast(header') /\ FilesOK' /\ PhaseOK' /\ OpenOK' /\ NumbersOK'
        /\ CountedOK' /\ WireOK' /\ OpensOK'
    BY <1>1, <1>7, <2>1, GrowingInUse
  <2>3. /\ body' \in Content /\ header' \in Seq(Rows)
        /\ \A n \in Numbers : n < cache.sender => LastRow(header', n) = LastRow(header, n)
    BY <1>1, <2>1, Growing
  <2>4. TypeOK'
    BY <1>1, <1>7, <2>3, TypesKept DEF Inv, TypeOK, Names
  <2>5. MemoryTypes'
    BY <1>1, <1>6, <1>7 DEF Inv, MemoryTypes
  <2>6. OffsetsOK'
    BY <1>1, <2>3 DEF Inv, TypeOK, OffsetsOK
  <2>7. QED
    BY <1>7, <2>2, <2>4, <2>5, <2>6 DEF Inv
<1>8. CASE header' = header \o headerBuf /\ op' = [op EXCEPT !.name = "stored"] /\ UNCHANGED faults
  <2>1. header' = header \o <<row>>
    BY <1>3, <1>8
  <2>2. op'.name = "stored" /\ op'.text = op.text
    BY <1>1, <1>8 DEF Inv, MemoryTypes
  <2>3. RowsOf(header', cache.sender) # {} /\ LastRow(header', cache.sender) = row
    BY <1>3, <1>4, <2>1, AppendOwn
  <2>4. SetOK'
    BY <1>1, <1>2, <2>2, <2>3 DEF SetOK, Recorded
  <2>5. FaultFree'
    <3>1. RowsInBody => RowsInBody'
      <4>1. row.at + row.size <= Len(body)
        BY <1>2 DEF Reads
      <4>2. QED
        BY <1>1, <1>3, <1>4, <2>1, <4>1, AppendRows DEF RowsInBody
    <3>2. Complete' = Complete
      BY <1>1 DEF Complete
    <3>3. QED
      BY <1>1, <1>2, <1>8, <2>2, <3>1, <3>2 DEF FaultFree, Inv
  <2>6. QED
    BY <1>4, <1>7, <1>8, <2>1, <2>2, <2>4, <2>5
<1>9. CASE Fail /\ op' = Idle /\ UNCHANGED header
  <2>1. faults' \in Nat /\ faults' # 0
    BY <1>4, <1>9 DEF Fail
  <2>2. op'.name = "idle"
    BY <1>9 DEF Idle
  <2>3. SetOK' /\ FaultFree'
    BY <1>1, <2>1, <2>2 DEF SetOK, FaultFree
  <2>4. QED
    BY <1>7, <1>9, <2>1, <2>2, <2>3
<1>10. QED
  BY <1>8, <1>9 DEF FlushHeader

-----------------------------------------------------------------------------
(* Numbers.                                                                *)

(* setSeqNum() changes the pair and the cache, and nothing when it fails   *)
(* but the cache.                                                          *)
LEMMA PairWritten ==
    ASSUME Inv, NEW c, NEW good, NEW bad, SetSeqNum(c, good, bad)
    PROVE  /\ cache' = c /\ faults' \in Nat
           /\ UNCHANGED <<exists, body, header, session, status, offsets, bodyBuf,
                          headerBuf, bodyErr>>
           /\ \/ /\ seqnums' = <<c.sender, c.target>> /\ op' = good /\ faults' = faults
              \/ /\ seqnums' = seqnums /\ op' = bad /\ faults' # faults /\ faults' # 0
<1>1. faults \in Nat
  BY DEF Inv, MemoryTypes
<1>2. QED
  BY <1>1 DEF SetSeqNum, Fail

LEMMA TargetStep ==
    ASSUME Inv, Working("idle"), NEW x \in Numbers, cache.target <= x, x <= MaxIn,
           SetSeqNum([cache EXCEPT !.target = x], Idle, Idle),
           covered \subseteq covered', covered' \subseteq Numbers,
           1..(x - 1) \subseteq covered',
           \A n \in covered' : n \in covered \/ n <= x,
           inHand' = 0, lag' = (lag \/ faults' # faults), UNCHANGED <<wire, cut>>
    PROVE  Inv'
<1> DEFINE c == [cache EXCEPT !.target = x]
<1>1. /\ cache' = c /\ faults' \in Nat
      /\ UNCHANGED <<exists, body, header, session, status, offsets, bodyBuf,
                     headerBuf, bodyErr>>
      /\ \/ /\ seqnums' = <<c.sender, c.target>> /\ op' = Idle /\ faults' = faults
         \/ /\ seqnums' = seqnums /\ op' = Idle /\ faults' # faults /\ faults' # 0
  BY PairWritten
<1>2. InUse /\ op.name = "idle" /\ Complete /\ InUse' /\ op' = Idle /\ op'.name = "idle"
  BY <1>1 DEF Working, InUse, Inv, PhaseOK, Idle
<1>3. /\ cache \in [sender : Numbers, target : Numbers, created : 0..MaxTime]
      /\ seqnums \in Numbers \X Numbers /\ lag \in BOOLEAN
  BY <1>2 DEF Inv, TypeOK, MemoryTypes, Complete
<1>4. /\ cache'.sender = cache.sender /\ cache'.target = x /\ cache'.created = cache.created
      /\ cache' \in [sender : Numbers, target : Numbers, created : 0..MaxTime]
  BY <1>1, <1>3
<1>5. /\ seqnums' \in Numbers \X Numbers /\ seqnums' # <<>> /\ Complete'
      /\ seqnums' = <<cache.sender, x>> \/ (seqnums' = seqnums /\ lag' /\ faults' # 0)
  <2>1. CASE seqnums' = <<c.sender, c.target>>
    <3>1. c.sender = cache.sender /\ c.target = x
      BY <1>1, <1>4
    <3>2. seqnums' = <<cache.sender, x>> /\ cache.sender \in Numbers
      BY <1>3, <2>1, <3>1
    <3>3. QED
      BY <1>1, <1>2, <3>2 DEF Complete
  <2>2. CASE seqnums' = seqnums /\ faults' # faults /\ faults' # 0
    BY <1>1, <1>2, <1>3, <2>2 DEF Complete
  <2>3. QED
    BY <1>1, <2>1, <2>2
<1>6. TypeOK'
  <2>1. inHand' \in 0..MaxNum
    BY FileStoreAssumption
  <2>2. QED
    BY <1>1, <1>2, <1>4, <1>5, <2>1 DEF Inv, TypeOK
<1>7. MemoryTypes'
  BY <1>1, <1>2, <1>3 DEF Inv, MemoryTypes, Idle, Names
<1>8. FilesOK' /\ PhaseOK' /\ OpenOK' /\ OpensOK'
  BY <1>1, <1>2, <1>5 DEF FilesOK, PhaseOK, OpenOK, OpensOK, InUse, Complete, Files
<1>9. SetOK'
  BY <1>1, <1>2, <1>4 DEF Inv, SetOK
<1>10. NumbersOK'
  <2>1. seqnums[1] \in Nat /\ seqnums[2] \in Nat /\ cache.sender \in Nat /\ cache.target \in Nat /\ x \in Nat
    BY <1>3 DEF Numbers
  <2>2. seqnums[1] <= cache.sender /\ seqnums[2] <= cache.target /\ cache.created = session[1]
    BY <1>2 DEF Inv, NumbersOK
  <2>3. 1..(seqnums[2] - 1) \subseteq covered /\ seqnums[2] <= MaxIn
    BY <1>2 DEF Inv, NumbersOK
  <2>4. CASE seqnums' = <<cache.sender, x>>
    BY <1>1, <1>4, <2>1, <2>2, <2>4 DEF NumbersOK
  <2>5. CASE seqnums' = seqnums /\ lag'
    BY <1>1, <1>4, <2>1, <2>2, <2>3, <2>5 DEF NumbersOK
  <2>6. QED
    BY <1>5, <2>4, <2>5
<1>11. CountedOK'
  <2>1. \A n \in Numbers : n < cache.sender => \E m \in Texts : Recorded(n, m)'
    BY <1>1, <1>2 DEF Inv, CountedOK, Recorded
  <2>2. seqnums'[1] <= cache.sender
    BY <1>2, <1>3, <1>5 DEF Inv, NumbersOK, Numbers
  <2>3. \A n \in Numbers : n < seqnums'[1] => n < cache.sender
    BY <1>3, <1>5, <2>2 DEF Numbers
  <2>4. QED
    BY <1>4, <2>1, <2>3 DEF CountedOK
<1>12. OffsetsOK'
  BY <1>1, <1>2, <1>4 DEF Inv, OffsetsOK
<1>13. WireOK'
  <2> SUFFICES ASSUME ~lag' PROVE WireOK'
    BY DEF WireOK
  <2>1. ~lag /\ seqnums'[1] = cache.sender /\ cache.sender = seqnums[1]
    BY <1>2, <1>3, <1>5 DEF Inv, NumbersOK
  <2>2. QED
    BY <1>1, <2>1 DEF Inv, WireOK, Recorded
<1>14. FaultFree'
  <2> SUFFICES ASSUME faults' = 0 PROVE FaultFree'
    BY DEF FaultFree
  <2>1. faults = 0 /\ seqnums'[2] = x
    BY <1>1, <1>5
  <2>2. ~lag /\ ~bodyErr /\ bodyBuf = <<>> /\ headerBuf = <<>> /\ RowsInBody
    BY <1>2, <2>1 DEF Inv, FaultFree
  <2>3. \A n \in covered : n <= x
    <3>1. seqnums[2] = cache.target /\ \A n \in covered : n <= seqnums[2]
      BY <1>2, <2>1, <2>2 DEF Inv, FaultFree, NumbersOK
    <3>2. covered \subseteq Nat /\ cache.target \in Nat /\ x \in Nat
      BY <1>3 DEF Inv, TypeOK, Numbers
    <3>3. QED
      BY <3>1, <3>2
  <2>4. QED
    BY <1>1, <2>1, <2>2, <2>3 DEF FaultFree, RowsInBody
<1>15. HasLast(header')
  BY <1>1 DEF Inv
<1>16. QED
  BY <1>6, <1>7, <1>8, <1>9, <1>10, <1>11, <1>12, <1>13, <1>14, <1>15 DEF Inv

LEMMA CountDeliveredInv == ASSUME Inv, CountDelivered PROVE Inv'
<1>1. Working("idle") /\ inHand # 0 /\ InUse
  BY DEF CountDelivered, Working, InUse
<1>2. inHand = cache.target /\ inHand \in covered /\ inHand < MaxIn
  BY <1>1 DEF Inv, NumbersOK
<1>3. 1..(cache.target - 1) \subseteq covered
  BY <1>1 DEF Inv, NumbersOK
<1>4. cache.target \in Nat /\ cache.target >= 1 /\ MaxIn \in Nat /\ MaxIn <= MaxNum /\ MaxNum \in Nat
  BY StoreClientAssumption, FileStoreAssumption DEF Inv, TypeOK, Numbers
<1> DEFINE x == cache.target + 1
<1>5. x \in Numbers /\ cache.target <= x /\ x <= MaxIn /\ 1..(x - 1) \subseteq covered
  BY <1>2, <1>3, <1>4 DEF Numbers
<1>6. SetSeqNum([cache EXCEPT !.target = x], Idle, Idle)
  BY DEF CountDelivered, incrNextTargetMsgSeqNum
<1>7. covered \subseteq Numbers
  BY DEF Inv, TypeOK
<1> HIDE DEF x
<1>8. QED
  BY <1>1, <1>5, <1>6, <1>7, TargetStep DEF CountDelivered

LEMMA FillInv == ASSUME Inv, NEW n \in Numbers, Fill(n) PROVE Inv'
<1>1. Working("idle") /\ inHand = 0 /\ InUse /\ n > cache.target /\ n <= MaxIn
  BY DEF Fill, Working, InUse
<1>2. cache.target \in Nat /\ cache.target >= 1 /\ n \in Nat /\ n <= MaxNum /\ MaxNum \in Nat
  BY FileStoreAssumption DEF Inv, TypeOK, Numbers
<1>3. 1..(cache.target - 1) \subseteq covered /\ covered \subseteq Numbers
  BY <1>1 DEF Inv, NumbersOK, TypeOK
<1>4. covered' = covered \cup (cache.target..(n - 1))
  BY DEF Fill
<1>5. /\ covered' \subseteq Numbers /\ 1..(n - 1) \subseteq covered'
      /\ \A k \in covered' : k \in covered \/ k <= n
  <2>1. \A k \in cache.target..(n - 1) : k \in 1..MaxNum /\ k <= n
    BY <1>2
  <2>2. \A k \in 1..(n - 1) : k \in 1..(cache.target - 1) \/ k \in cache.target..(n - 1)
    BY <1>2
  <2>3. QED
    BY <1>3, <1>4, <2>1, <2>2 DEF Numbers
<1>6. SetSeqNum([cache EXCEPT !.target = n], Idle, Idle)
  BY DEF Fill, setNextTargetMsgSeqNum
<1>7. cache.target <= n
  BY <1>1, <1>2
<1>8. QED
  BY <1>1, <1>4, <1>5, <1>6, <1>7, TargetStep DEF Fill


LEMMA CountInv == ASSUME Inv, Count PROVE Inv'
<1> DEFINE c == [cache EXCEPT !.sender = @ + 1]
           done == [op EXCEPT !.name = "counted"]
           text == op.text[1]
<1>1. Working("stored") /\ SetSeqNum(c, done, Idle)
  BY DEF Count, incrNextSenderMsgSeqNum
<1>2. /\ cache' = c /\ faults' \in Nat
      /\ UNCHANGED <<exists, body, header, session, status, offsets, bodyBuf,
                     headerBuf, bodyErr>>
      /\ \/ /\ seqnums' = <<c.sender, c.target>> /\ op' = done /\ faults' = faults
         \/ /\ seqnums' = seqnums /\ op' = Idle /\ faults' # faults /\ faults' # 0
  BY <1>1, PairWritten
<1>3. UNCHANGED <<wire, covered, inHand, stops, cut>> /\ lag' = (lag \/ faults' # faults)
  BY DEF Count
<1>4. InUse /\ op.name = "stored" /\ Complete
  BY <1>1 DEF Working, InUse, Inv, PhaseOK
<1>5. /\ cache \in [sender : Numbers, target : Numbers, created : 0..MaxTime]
      /\ seqnums \in Numbers \X Numbers /\ lag \in BOOLEAN
      /\ op \in [name : Names, text : {<<>>} \cup {<<m>> : m \in Texts}, step : 0..10]
  BY <1>4 DEF Inv, TypeOK, MemoryTypes, Complete
<1>6. /\ cache.sender < MaxNum /\ op.text # <<>> /\ Recorded(cache.sender, text)
      /\ offsets[cache.sender] = LastRow(header, cache.sender) /\ headerBuf = <<>>
  BY <1>4 DEF Inv, SetOK
<1>7. /\ cache.sender + 1 \in Numbers /\ cache.sender \in Nat /\ cache.sender >= 1
      /\ cache.sender + 1 - 1 = cache.sender /\ text \in Texts
  BY <1>5, <1>6, FileStoreAssumption DEF Numbers
<1>8. /\ cache'.sender = cache.sender + 1 /\ cache'.target = cache.target
      /\ cache'.created = cache.created
      /\ cache' \in [sender : Numbers, target : Numbers, created : 0..MaxTime]
  BY <1>2, <1>5, <1>7
<1>9. /\ seqnums' \in Numbers \X Numbers /\ seqnums' # <<>> /\ Complete'
      /\ \/ seqnums' = <<cache.sender + 1, cache.target>> /\ lag' = lag /\ op' = done
         \/ seqnums' = seqnums /\ lag' /\ faults' # 0 /\ op' = Idle
  <2>1. CASE seqnums' = <<c.sender, c.target>> /\ op' = done /\ faults' = faults
    <3>1. c.sender = cache.sender + 1 /\ c.target = cache.target
      BY <1>2, <1>8
    <3>2. seqnums' = <<cache.sender + 1, cache.target>>
      BY <2>1, <3>1
    <3>3. QED
      BY <1>2, <1>3, <1>4, <1>5, <1>7, <2>1, <3>2 DEF Complete
  <2>2. CASE seqnums' = seqnums /\ op' = Idle /\ faults' # faults /\ faults' # 0
    BY <1>2, <1>3, <1>4, <1>5, <2>2 DEF Complete
  <2>3. QED
    BY <1>2, <2>1, <2>2
<1>10. /\ op'.name \in {"idle", "counted"} /\ (op'.name = "counted" => op'.text = op.text)
       /\ op' \in [name : Names, text : {<<>>} \cup {<<m>> : m \in Texts}, step : 0..10]
       /\ InUse'
  BY <1>2, <1>4, <1>5, <1>9 DEF Idle, Names, InUse
<1>11. TypeOK'
  BY <1>2, <1>3, <1>8, <1>9, <1>10 DEF Inv, TypeOK
<1>12. MemoryTypes'
  BY <1>2, <1>3, <1>10 DEF Inv, MemoryTypes
<1>13. FilesOK' /\ PhaseOK' /\ OpenOK' /\ OpensOK'
  BY <1>2, <1>4, <1>9, <1>10 DEF FilesOK, PhaseOK, OpenOK, OpensOK, InUse, Complete, Files
<1>14. SetOK'
  BY <1>2, <1>6, <1>7, <1>8, <1>10 DEF SetOK, Recorded
<1>15. NumbersOK'
  <2>1. seqnums[1] \in Nat /\ seqnums[2] \in Nat /\ cache.target \in Nat
    BY <1>5 DEF Numbers
  <2>2. /\ seqnums[1] <= cache.sender /\ seqnums[2] <= cache.target /\ cache.created = session[1]
        /\ 1..(cache.target - 1) \subseteq covered /\ cache.target <= MaxIn
        /\ ~lag => cache.sender = seqnums[1] /\ cache.target = seqnums[2]
    BY <1>4 DEF Inv, NumbersOK
  <2>3. inHand # 0 => inHand = cache.target /\ inHand \in covered /\ inHand < MaxIn
    BY DEF Inv, NumbersOK
  <2>4. CASE seqnums' = <<cache.sender + 1, cache.target>>
    BY <1>2, <1>3, <1>7, <1>8, <2>1, <2>2, <2>3, <2>4 DEF NumbersOK
  <2>5. CASE seqnums' = seqnums /\ lag'
    <3>1. 1..(seqnums[2] - 1) \subseteq covered /\ seqnums[2] <= MaxIn
      BY <1>4 DEF Inv, NumbersOK
    <3>2. QED
      BY <1>2, <1>3, <1>7, <1>8, <2>1, <2>2, <2>3, <2>5, <3>1 DEF NumbersOK
  <2>6. QED
    BY <1>9, <2>4, <2>5
<1>16. ASSUME NEW n \in Numbers, n < cache.sender + 1
       PROVE  \E m \in Texts : Recorded(n, m)'
  <2>1. CASE n = cache.sender
    BY <1>2, <1>6, <1>7, <2>1 DEF Recorded
  <2>2. CASE n # cache.sender
    <3>1. n < cache.sender
      BY <1>7, <1>16, <2>2 DEF Numbers
    <3>2. QED
      BY <1>2, <1>4, <3>1 DEF Inv, CountedOK, Recorded
  <2>3. QED
    BY <2>1, <2>2
<1>17. CountedOK'
  <2>1. \A n \in Numbers : n < seqnums'[1] => n < cache.sender + 1
    <3>1. seqnums[1] <= cache.sender /\ seqnums[1] \in Nat
      BY <1>4, <1>5 DEF Inv, NumbersOK, Numbers
    <3>2. QED
      BY <1>7, <1>9, <3>1 DEF Numbers
  <2>2. QED
    BY <1>8, <1>16, <2>1 DEF CountedOK
<1>18. OffsetsOK'
  <2> SUFFICES ASSUME NEW n \in DOMAIN offsets', n < cache'.sender
               PROVE  offsets'[n] = LastRow(header', n)
    BY DEF OffsetsOK
  <2>1. n \in DOMAIN offsets /\ n \in Numbers
    BY <1>2 DEF Inv, TypeOK
  <2>2. CASE n = cache.sender
    BY <1>2, <1>6, <2>2
  <2>3. CASE n # cache.sender
    <3>1. n < cache.sender
      BY <1>7, <1>8, <2>1, <2>3 DEF Numbers
    <3>2. QED
      BY <1>2, <1>4, <2>1, <3>1 DEF Inv, OffsetsOK
  <2>4. QED
    BY <2>2, <2>3
<1>19. WireOK'
  <2> SUFFICES ASSUME ~lag', NEW n \in Numbers, NEW m \in wire'[n]
               PROVE  n < seqnums'[1] /\ Recorded(n, m)'
    BY DEF WireOK
  <2>1. ~lag /\ seqnums'[1] = cache.sender + 1 /\ cache.sender = seqnums[1]
    BY <1>4, <1>5, <1>9 DEF Inv, NumbersOK
  <2>2. n < seqnums[1] /\ Recorded(n, m)
    BY <1>3, <2>1 DEF Inv, WireOK
  <2>3. QED
    BY <1>2, <1>7, <2>1, <2>2 DEF Recorded, Numbers
<1>20. FaultFree'
  <2> SUFFICES ASSUME faults' = 0 PROVE FaultFree'
    BY DEF FaultFree
  <2>1. faults = 0 /\ seqnums'[2] = cache.target /\ lag' = lag
    BY <1>2, <1>3, <1>9
  <2>2. /\ ~lag /\ ~bodyErr /\ bodyBuf = <<>> /\ headerBuf = <<>> /\ RowsInBody
        /\ \A n \in covered : n <= seqnums[2]
    BY <1>4, <2>1 DEF Inv, FaultFree
  <2>3. seqnums[2] = cache.target
    BY <1>4, <2>2 DEF Inv, NumbersOK
  <2>4. QED
    BY <1>2, <1>3, <2>1, <2>2, <2>3 DEF FaultFree, RowsInBody
<1>21. HasLast(header')
  BY <1>2 DEF Inv
<1>22. QED
  BY <1>11, <1>12, <1>13, <1>14, <1>15, <1>17, <1>18, <1>19, <1>20, <1>21 DEF Inv

-----------------------------------------------------------------------------
(* What the counterparty and the application see.                          *)

LEMMA OutsideStep ==
    ASSUME Inv, InUse, op.name \in {"idle", "counted"},
           op'.name = "idle", op' \in {op, Idle},
           UNCHANGED <<files, memory, faults, lag, cut>>,
           wire' \in [Numbers -> SUBSET Texts], WireOK',
           covered \subseteq covered', covered' \subseteq Numbers,
           \A n \in covered' : n \in covered \/ n = cache.target,
           inHand' \in 0..MaxNum,
           inHand' # 0 => inHand' = cache.target /\ inHand' \in covered' /\ inHand' < MaxIn
    PROVE  Inv'
<1> USE DEF files, memory
<1>1. Complete /\ Complete' /\ InUse'
  BY DEF Inv, PhaseOK, InUse, Complete
<1>2. TypeOK'
  BY DEF Inv, TypeOK
<1>3. MemoryTypes'
  BY DEF Inv, MemoryTypes, Idle, Names
<1>4. FilesOK' /\ PhaseOK' /\ OpenOK' /\ OpensOK'
  BY <1>1 DEF FilesOK, PhaseOK, OpenOK, OpensOK, InUse, Complete, Files
<1>5. SetOK'
  BY <1>1 DEF Inv, SetOK
<1>6. NumbersOK'
  BY <1>1 DEF Inv, NumbersOK
<1>7. CountedOK' /\ OffsetsOK'
  BY <1>1 DEF Inv, CountedOK, OffsetsOK, Recorded
<1>8. FaultFree'
  <2> SUFFICES ASSUME faults' = 0 PROVE FaultFree'
    BY DEF FaultFree
  <2>1. /\ ~lag /\ ~bodyErr /\ bodyBuf = <<>> /\ headerBuf = <<>> /\ RowsInBody
        /\ \A n \in covered : n <= seqnums[2]
    BY <1>1 DEF Inv, FaultFree
  <2>2. seqnums[2] = cache.target /\ cache.target \in Nat
    BY <2>1 DEF Inv, NumbersOK, TypeOK, Numbers
  <2>3. \A n \in covered' : n <= seqnums'[2]
    BY <2>1, <2>2
  <2>4. QED
    BY <2>1, <2>3 DEF FaultFree, RowsInBody
<1>9. HasLast(header')
  BY DEF Inv
<1>10. QED
  BY <1>2, <1>3, <1>4, <1>5, <1>6, <1>7, <1>8, <1>9 DEF Inv

LEMMA TransmitInv == ASSUME Inv, Transmit PROVE Inv'
<1> DEFINE n == cache.sender - 1
           text == op.text[1]
<1>1. InUse /\ op.name = "counted" /\ op' = Idle /\ op'.name = "idle"
  BY DEF Transmit, Working, InUse, Idle
<1>2. UNCHANGED <<files, memory, faults, covered, inHand, lag, cut>>
  BY DEF Transmit
<1>3. cache.sender > 1 /\ op.text # <<>> /\ Recorded(n, text)
  BY <1>1 DEF Inv, SetOK
<1>4. n \in Numbers /\ n < cache.sender /\ text \in Texts
  <2>1. cache.sender \in Numbers
    BY DEF Inv, TypeOK
  <2>2. n \in Numbers /\ n < cache.sender
    BY <1>3, <2>1, FileStoreAssumption DEF Numbers
  <2>3. text \in Texts
    BY <1>3 DEF Inv, MemoryTypes
  <2>4. QED
    BY <2>2, <2>3
<1>5. wire \in [Numbers -> SUBSET Texts] /\ covered \subseteq Numbers /\ inHand \in 0..MaxNum
  BY DEF Inv, TypeOK
<1>6. wire' = wire \/ wire' = [wire EXCEPT ![n] = @ \cup {text}]
  BY DEF Transmit
<1>7. wire' \in [Numbers -> SUBSET Texts]
  BY <1>4, <1>5, <1>6
<1>8. WireOK'
  <2> SUFFICES ASSUME ~lag', NEW k \in Numbers, NEW m \in wire'[k]
               PROVE  k < seqnums'[1] /\ Recorded(k, m)'
    BY DEF WireOK
  <2>1. ~lag /\ seqnums' = seqnums /\ body' = body /\ header' = header
    BY <1>2 DEF files
  <2>2. seqnums[1] = cache.sender
    BY <1>1, <2>1 DEF Inv, NumbersOK
  <2>3. CASE m \in wire[k]
    BY <2>1, <2>3 DEF Inv, WireOK, Recorded
  <2>4. CASE m \notin wire[k]
    <3>1. k = n /\ m = text
      BY <1>4, <1>5, <1>6, <2>4
    <3>2. QED
      BY <1>3, <1>4, <2>1, <2>2, <3>1 DEF Recorded
  <2>5. QED
    BY <2>3, <2>4
<1>9. inHand # 0 => inHand = cache.target /\ inHand \in covered /\ inHand < MaxIn
  BY DEF Inv, NumbersOK
<1> HIDE DEF n, text
<1>10. QED
  BY <1>1, <1>2, <1>5, <1>7, <1>8, <1>9, OutsideStep

LEMMA ResendInv == ASSUME Inv, NEW n \in Numbers, Resend(n) PROVE Inv'
<1>1. InUse /\ op.name = "idle" /\ op' = op /\ inHand = 0
  BY DEF Resend, Working, InUse, storeVars
<1>2. UNCHANGED <<files, memory, faults, covered, inHand, lag, cut>>
  BY DEF Resend, storeVars
<1>3. PICK m \in Texts : Reads(body, offsets[n], m) /\ wire' = [wire EXCEPT ![n] = @ \cup {m}]
  BY DEF Resend
<1>4. wire \in [Numbers -> SUBSET Texts] /\ covered \subseteq Numbers /\ inHand \in 0..MaxNum
  BY DEF Inv, TypeOK
<1>5. wire' \in [Numbers -> SUBSET Texts]
  BY <1>3, <1>4
<1>6. n < cache.sender /\ offsets[n] = LastRow(header, n) /\ RowsOf(header, n) # {}
  BY <1>1 DEF Resend, Inv, OffsetsOK, CountedOK, Recorded
<1>7. WireOK'
  <2> SUFFICES ASSUME ~lag', NEW k \in Numbers, NEW j \in wire'[k]
               PROVE  k < seqnums'[1] /\ Recorded(k, j)'
    BY DEF WireOK
  <2>1. ~lag /\ seqnums' = seqnums /\ body' = body /\ header' = header
    BY <1>2 DEF files
  <2>2. seqnums[1] = cache.sender
    BY <1>1, <2>1 DEF Inv, NumbersOK
  <2>3. CASE j \in wire[k]
    BY <2>1, <2>3 DEF Inv, WireOK, Recorded
  <2>4. CASE j \notin wire[k]
    <3>1. k = n /\ j = m
      BY <1>3, <1>4, <2>4
    <3>2. QED
      BY <1>3, <1>6, <2>1, <2>2, <3>1 DEF Recorded
  <2>5. QED
    BY <2>3, <2>4
<1>8. QED
  BY <1>1, <1>2, <1>4, <1>5, <1>7, OutsideStep

LEMMA DeliverInv == ASSUME Inv, Deliver PROVE Inv'
<1>1. InUse /\ op.name = "idle" /\ op' = op /\ cache.target < MaxIn
  BY DEF Deliver, Working, InUse, storeVars
<1>2. /\ UNCHANGED <<files, memory, faults, wire, lag, cut>>
      /\ inHand' = cache.target /\ covered' = covered \cup {cache.target}
  BY DEF Deliver, storeVars
<1>3. wire \in [Numbers -> SUBSET Texts] /\ covered \subseteq Numbers /\ cache.target \in Numbers
  BY DEF Inv, TypeOK
<1>4. inHand' \in 0..MaxNum
  BY <1>2, <1>3 DEF Numbers
<1>5. WireOK'
  BY <1>2 DEF Inv, WireOK, Recorded, files
<1>6. QED
  BY <1>1, <1>2, <1>3, <1>4, <1>5, OutsideStep

-----------------------------------------------------------------------------
(* The start, a reset, and open() in between.                              *)

LEMMA OpeningInv ==
    ASSUME op'.name = "open", status' = "up", TypeOK', MemoryTypes', HasLast(header'),
           FilesOK', OpenOK', wire' = [n \in Numbers |-> {}], covered' = {},
           inHand' = 0, ~lag'
    PROVE  Inv'
<1>1. ~Complete' /\ ~InUse' /\ bodyBuf' = <<>> /\ headerBuf' = <<>> /\ ~bodyErr'
  BY DEF OpenOK, InUse
<1>2. PhaseOK' /\ SetOK' /\ NumbersOK' /\ CountedOK' /\ OffsetsOK' /\ OpensOK'
  BY <1>1 DEF PhaseOK, SetOK, NumbersOK, CountedOK, OffsetsOK, OpensOK
<1>3. WireOK' /\ FaultFree'
  BY <1>1 DEF WireOK, FaultFree
<1>4. QED
  BY <1>2, <1>3 DEF Inv

LEMMA EmptyTypes ==
    /\ <<>> \in Content /\ <<>> \in Seq(Rows) /\ Len(<<>>) = 0 /\ HasLast(<<>>)
    /\ \A k \in 0..10 :
        Opening(k) \in [name : Names, text : {<<>>} \cup {<<m>> : m \in Texts}, step : 0..10]
<1>1. <<>> \in Content /\ <<>> \in Seq(Rows) /\ Len(<<>>) = 0
  BY DEF Content
<1>2. HasLast(<<>>)
  BY DEF HasLast, RowsOf
<1>3. QED
  BY <1>1, <1>2 DEF Opening, Names

LEMMA FreshTypes ==
    ASSUME NEW t \in 0..MaxTime
    PROVE  /\ Fresh(t) \in [sender : Numbers, target : Numbers, created : 0..MaxTime]
           /\ Fresh(t).sender = 1 /\ Fresh(t).target = 1 /\ Fresh(t).created = t
           /\ DOMAIN NoOffsets = {}
  BY FileStoreAssumption DEF Fresh, Numbers, NoOffsets

LEMMA ResetInv ==
    ASSUME Inv, cache.created < MaxTime, ResetStore(cache.created + 1)
    PROVE  Inv'
<1> DEFINE t == cache.created + 1
<1>1. InUse /\ Complete /\ op' = Opening(2) /\ status' = "up"
  BY DEF ResetStore, Reset, Working, InUse, Inv, PhaseOK
<1>2. /\ cache' = Fresh(t) /\ offsets' = NoOffsets
      /\ bodyBuf' = <<>> /\ headerBuf' = <<>> /\ bodyErr' = FALSE
      /\ wire' = [n \in Numbers |-> {}] /\ covered' = {} /\ lag' = FALSE /\ inHand' = 0
      /\ UNCHANGED <<faults, cut>>
  BY DEF ResetStore, Reset
<1>3. /\ exists' = exists \ {"body"} /\ body' = <<>>
      /\ UNCHANGED <<header, seqnums, session>>
  BY DEF ResetStore, Reset, Unlink, FileOrder
<1>4. exists' = {"header", "seqnums", "session"}
  BY <1>1, <1>3 DEF Complete, Files
<1>5. t \in 0..MaxTime /\ t # 0
  BY FileStoreAssumption DEF Inv, TypeOK
<1>6. /\ cache' \in [sender : Numbers, target : Numbers, created : 0..MaxTime]
      /\ cache'.sender = 1 /\ cache'.target = 1 /\ cache'.created # 0 /\ DOMAIN offsets' = {}
  BY <1>2, <1>5, FreshTypes
<1>7. TypeOK'
  <2>1. /\ body' \in Seq(Texts \X Nat) /\ wire' \in [Numbers -> SUBSET Texts] /\ inHand' \in 0..MaxNum
    BY <1>2, <1>3, EmptyTypes, FileStoreAssumption DEF Content
  <2>2. exists' \subseteq Files /\ op'.name \in {"idle", "set", "stored", "counted", "open"}
    BY <1>1, <1>4 DEF Files, Opening
  <2>3. QED
    BY <1>1, <1>2, <1>3, <1>6, <2>1, <2>2 DEF Inv, TypeOK
<1>8. MemoryTypes'
  <2>1. op' \in [name : Names, text : {<<>>} \cup {<<m>> : m \in Texts}, step : 0..10]
    BY <1>1, 2 \in 0..10, EmptyTypes
  <2>2. bodyBuf' \in Content /\ headerBuf' \in Seq(Rows) /\ Len(headerBuf') <= 1
    BY <1>2, EmptyTypes
  <2>3. QED
    BY <1>2, <2>1, <2>2 DEF Inv, MemoryTypes
<1>9. HasLast(header') /\ FilesOK'
  BY <1>3, <1>4 DEF Inv, FilesOK
<1>10. OpenOK'
  <2>1. op'.step = 2 /\ ~Complete'
    BY <1>1, <1>4 DEF Opening, Complete, Files
  <2>2. QED
    BY <1>2, <1>4, <1>6, <2>1 DEF OpenOK
<1>11. op'.name = "open"
  BY <1>1 DEF Opening
<1>12. QED
  BY <1>1, <1>2, <1>7, <1>8, <1>9, <1>10, <1>11, OpeningInv

(* One system call of open().                                              *)
LEMMA OpenStepFacts ==
    ASSUME Inv, OpenStep, UNCHANGED history
    PROVE  /\ op.name = "open" /\ status = "up" /\ ~Complete /\ op.step \in 2..10
           /\ UNCHANGED <<status, cache, offsets, bodyBuf, headerBuf, bodyErr, faults,
                          wire, covered, inHand, lag, cut>>
           /\ wire = [n \in Numbers |-> {}] /\ covered = {} /\ inHand = 0 /\ ~lag
           /\ op.step < 10 => op' = Opening(op.step + 1)
           /\ op.step = 10 => op' = Idle
<1>1. op.name = "open" /\ status = "up" /\ UNCHANGED <<memory, faults>>
  BY DEF OpenStep, Working
<1>2. ~Complete /\ op.step \in 2..10
  BY <1>1 DEF Inv, OpenOK
<1>3. wire = [n \in Numbers |-> {}] /\ covered = {} /\ inHand = 0 /\ ~lag
  BY <1>2 DEF Inv, PhaseOK
<1>4. op' = IF op.step = 10 THEN Idle ELSE Opening(op.step + 1)
  BY DEF OpenStep
<1>5. QED
  BY <1>1, <1>2, <1>3, <1>4 DEF memory, history

(* The files after it.                                                     *)
FilesAfter(e, b, h, s) ==
    /\ exists' = e /\ body' = b /\ header' = h /\ seqnums' = s /\ session' = session

LEMMA OpenStepFiles ==
    ASSUME Inv, OpenStep, op.step < 10
    PROVE  /\ op.step = 2 => FilesAfter({"seqnums", "session"}, body, <<>>, seqnums)
           /\ op.step = 3 => FilesAfter({"session"}, body, header, <<>>)
           /\ op.step = 4 => /\ exists' = {} /\ session' = <<>>
                             /\ body' = body /\ header' = header /\ seqnums' = seqnums
           /\ op.step = 5 => FilesAfter({"body"}, body, header, seqnums)
           /\ op.step = 6 => FilesAfter({"body", "header"}, body, header, seqnums)
           /\ op.step = 7 => FilesAfter({"body", "header", "seqnums"}, body, header, seqnums)
           /\ op.step = 8 => FilesAfter(Files, body, header, seqnums)
           /\ op.step = 9 => FilesAfter(Files, body, header, <<1, 1>>)
<1>1. op.name = "open" /\ OpenOK
  BY DEF OpenStep, Working, Inv
<1>2. CASE op.step = 2
  BY <1>1, <1>2 DEF OpenStep, OpenOK, Unlink, FileOrder, FilesAfter
<1>3. CASE op.step = 3
  BY <1>1, <1>3 DEF OpenStep, OpenOK, Unlink, FileOrder, FilesAfter
<1>4. CASE op.step = 4
  BY <1>1, <1>4 DEF OpenStep, OpenOK, Unlink, FileOrder
<1>5. CASE op.step = 5
  BY <1>1, <1>5 DEF OpenStep, OpenOK, FileOrder, FilesAfter
<1>6. CASE op.step = 6
  BY <1>1, <1>6 DEF OpenStep, OpenOK, FileOrder, FilesAfter
<1>7. CASE op.step = 7
  BY <1>1, <1>7 DEF OpenStep, OpenOK, FileOrder, FilesAfter
<1>8. CASE op.step = 8
  BY <1>1, <1>8 DEF OpenStep, OpenOK, FileOrder, FilesAfter, Files
<1>9. CASE op.step = 9
  BY <1>1, <1>9 DEF OpenStep, OpenOK, FilesAfter
<1>10. QED
  BY <1>1, <1>2, <1>3, <1>4, <1>5, <1>6, <1>7, <1>8, <1>9 DEF OpenOK

LEMMA OpenTypes ==
    ASSUME Inv, OpenStep, UNCHANGED history
    PROVE  /\ TypeOK' /\ MemoryTypes' /\ HasLast(header')
           /\ cache.created # 0 /\ bodyBuf = <<>> /\ headerBuf = <<>> /\ ~bodyErr
           /\ cache.sender = 1 /\ cache.target = 1 /\ DOMAIN offsets = {}
<1>1. /\ op.name = "open" /\ op.step \in 2..10
      /\ UNCHANGED <<status, cache, offsets, bodyBuf, headerBuf, bodyErr, faults,
                     wire, covered, inHand, lag, cut>>
      /\ op.step < 10 => op' = Opening(op.step + 1)
      /\ op.step = 10 => op' = Idle
  BY OpenStepFacts
<1>2. OpenOK /\ TypeOK /\ MemoryTypes /\ HasLast(header)
  BY DEF Inv
<1>3. /\ op' \in [name : Names, text : {<<>>} \cup {<<m>> : m \in Texts}, step : 0..10]
      /\ op'.name \in {"idle", "set", "stored", "counted", "open"}
  <2>1. CASE op.step = 10
    BY <1>1, <2>1 DEF Idle, Names
  <2>2. CASE op.step # 10
    <3>1. op.step < 10 /\ op.step + 1 \in 0..10
      BY <1>1, <2>2
    <3>2. QED
      BY <1>1, <3>1, EmptyTypes DEF Opening
  <2>3. QED
    BY <2>1, <2>2
<1>4. /\ exists' \subseteq Files /\ body' \in {body, <<>>} /\ header' \in {header, <<>>}
      /\ seqnums' \in {seqnums, <<>>, <<cache.sender, cache.target>>}
      /\ session' \in {session, <<>>, <<cache.created>>}
  <2>1. CASE op.step = 10
    BY <1>2, <2>1 DEF OpenStep, TypeOK
  <2>2. CASE op.step \in {2, 3, 4}
    BY <1>1, <2>2, OpenStepFiles DEF FilesAfter, Files
  <2>3. CASE op.step \in {5, 6, 7, 8}
    BY <1>1, <2>3, OpenStepFiles DEF FilesAfter, Files
  <2>4. CASE op.step = 9
    BY <1>1, <1>2, <2>4, OpenStepFiles DEF FilesAfter, OpenOK
  <2>5. op.step \in {2, 3, 4} \/ op.step \in {5, 6, 7, 8} \/ op.step = 9 \/ op.step = 10
    BY <1>1
  <2>6. QED
    BY <2>1, <2>2, <2>3, <2>4, <2>5
<1>5. HasLast(header')
  BY <1>2, <1>4, EmptyTypes
<1>6. TypeOK'
  <2>1. body' \in Seq(Texts \X Nat) /\ header' \in Seq([seq : Numbers, at : Nat, size : Nat])
    BY <1>2, <1>4, EmptyTypes DEF TypeOK, Content, Rows
  <2>2. seqnums' \in {<<>>} \cup (Numbers \X Numbers)
    BY <1>2, <1>4 DEF TypeOK
  <2>3. session' \in {<<>>} \cup {<<t>> : t \in 0..MaxTime}
    BY <1>2, <1>4 DEF TypeOK
  <2>4. QED
    BY <1>1, <1>2, <1>3, <1>4, <2>1, <2>2, <2>3 DEF TypeOK
<1>7. MemoryTypes'
  BY <1>1, <1>2, <1>3 DEF MemoryTypes
<1>8. QED
  BY <1>1, <1>2, <1>5, <1>6, <1>7 DEF OpenOK


LEMMA OpenLast ==
    ASSUME Inv, OpenStep, UNCHANGED history, op.step = 10
    PROVE  Inv'
<1>1. /\ op.name = "open" /\ status = "up" /\ op' = Idle /\ covered = {} /\ inHand = 0 /\ ~lag
      /\ UNCHANGED <<status, cache, offsets, bodyBuf, headerBuf, bodyErr, faults,
                     wire, covered, inHand, lag, cut>>
      /\ wire = [n \in Numbers |-> {}]
  BY OpenStepFacts
<1>2. /\ TypeOK' /\ MemoryTypes' /\ HasLast(header') /\ bodyBuf = <<>> /\ headerBuf = <<>>
      /\ ~bodyErr /\ cache.sender = 1 /\ cache.target = 1 /\ DOMAIN offsets = {}
  BY OpenTypes
<1>3. exists = Files /\ header = <<>> /\ body = <<>> /\ seqnums = <<1, 1>>
  BY <1>1 DEF Inv, OpenOK
<1>4. session' = <<cache.created>> /\ UNCHANGED <<exists, body, header, seqnums>>
  BY DEF OpenStep
<1>5. /\ Complete' /\ InUse' /\ op'.name = "idle" /\ seqnums'[1] = 1 /\ seqnums'[2] = 1
      /\ session'[1] = cache.created /\ 1 <= MaxIn
  BY <1>1, <1>3, <1>4, StoreClientAssumption DEF Complete, InUse, Idle
<1>6. FilesOK' /\ PhaseOK' /\ OpenOK' /\ OpensOK'
  BY <1>1, <1>3, <1>4, <1>5 DEF FilesOK, PhaseOK, OpenOK, OpensOK, InUse, Files
<1>7. SetOK' /\ OffsetsOK'
  BY <1>1, <1>2, <1>5 DEF SetOK, OffsetsOK
<1>8. NumbersOK'
  BY <1>1, <1>2, <1>5 DEF NumbersOK
<1>9. CountedOK' /\ WireOK'
  BY <1>1, <1>2, <1>5 DEF CountedOK, WireOK, Numbers
<1>10. FaultFree'
  BY <1>1, <1>2, <1>3, <1>4 DEF FaultFree, RowsInBody
<1>11. QED
  BY <1>2, <1>6, <1>7, <1>8, <1>9, <1>10 DEF Inv

LEMMA OpenInv == ASSUME Inv, OpenStep, UNCHANGED history PROVE Inv'
<1>1. /\ op.name = "open" /\ status = "up" /\ op.step \in 2..10 /\ covered = {}
      /\ inHand = 0 /\ ~lag /\ wire = [n \in Numbers |-> {}]
      /\ UNCHANGED <<status, cache, offsets, bodyBuf, headerBuf, bodyErr, faults,
                     wire, covered, inHand, lag, cut>>
      /\ op.step < 10 => op' = Opening(op.step + 1)
  BY OpenStepFacts
<1>2. /\ TypeOK' /\ MemoryTypes' /\ HasLast(header')
      /\ cache.created # 0 /\ bodyBuf = <<>> /\ headerBuf = <<>> /\ ~bodyErr
      /\ cache.sender = 1 /\ cache.target = 1 /\ DOMAIN offsets = {}
  BY OpenTypes
<1>3. OpenOK /\ FilesOK
  BY DEF Inv
<1>4. CASE op.step = 10
  BY <1>4, OpenLast
<1>5. CASE op.step < 10
  <2>1. op'.name = "open" /\ op'.step = op.step + 1
    BY <1>1, <1>5 DEF Opening
  <2>2. FilesOK'
    <3>1. CASE op.step \in {2, 3, 4}
      BY <1>1, <1>3, <3>1, OpenStepFiles DEF FilesAfter, FilesOK, OpenOK
    <3>2. CASE op.step \in {5, 6, 7}
      BY <1>1, <1>3, <3>2, OpenStepFiles DEF FilesAfter, FilesOK, OpenOK
    <3>3. CASE op.step \in {8, 9}
      BY <1>1, <1>3, <3>3, OpenStepFiles DEF FilesAfter, FilesOK, OpenOK, Files
    <3>4. QED
      BY <1>1, <1>5, <3>1, <3>2, <3>3
  <2> DEFINE Frame == /\ op'.step \in 2..10
                      /\ cache'.sender = 1 /\ cache'.target = 1 /\ cache'.created # 0
                      /\ bodyBuf' = <<>> /\ headerBuf' = <<>> /\ ~bodyErr' /\ DOMAIN offsets' = {}
  <2>3. Frame
    BY <1>1, <1>2, <1>5, <2>1
  <2>4. OpenOK'
    <3>1. CASE op.step = 2
      <4>1. FilesAfter({"seqnums", "session"}, body, <<>>, seqnums)
        BY <3>1, OpenStepFiles
      <4>2. op'.step = 3 /\ ~Complete'
        BY <2>1, <3>1, <4>1 DEF FilesAfter, Complete, Files
      <4>3. QED
        BY <2>3, <4>1, <4>2 DEF OpenOK, FilesAfter
    <3>2. CASE op.step = 3
      <4>1. FilesAfter({"session"}, body, header, <<>>)
        BY <3>2, OpenStepFiles
      <4>2. op'.step = 4 /\ ~Complete'
        BY <2>1, <3>2, <4>1 DEF FilesAfter, Complete, Files
      <4>3. QED
        BY <2>3, <4>1, <4>2 DEF OpenOK, FilesAfter
    <3>3. CASE op.step = 4
      <4>1. /\ exists' = {} /\ session' = <<>> /\ body' = body /\ header' = header
            /\ seqnums' = seqnums
        BY <3>3, OpenStepFiles
      <4>2. op'.step = 5 /\ ~Complete'
        BY <2>1, <3>3, <4>1 DEF Complete
      <4>3. body = <<>> /\ header = <<>> /\ seqnums = <<>>
        BY <1>1, <1>3, <3>3 DEF OpenOK, FilesOK
      <4>4. QED
        BY <2>3, <4>1, <4>2, <4>3 DEF OpenOK
    <3>4. ASSUME op.step \in 5..8
          PROVE  body = <<>> /\ header = <<>> /\ seqnums = <<>> /\ session = <<>>
      BY <1>1, <1>3, <3>4 DEF OpenOK
    <3>5. CASE op.step = 5
      <4>1. FilesAfter({"body"}, <<>>, <<>>, <<>>) /\ session' = <<>>
        BY <3>4, <3>5, OpenStepFiles DEF FilesAfter
      <4>2. op'.step = 6 /\ ~Complete'
        BY <2>1, <3>5, <4>1 DEF Complete
      <4>3. QED
        BY <2>3, <4>1, <4>2 DEF OpenOK, FilesAfter
    <3>6. CASE op.step = 6
      <4>1. FilesAfter({"body", "header"}, <<>>, <<>>, <<>>) /\ session' = <<>>
        BY <3>4, <3>6, OpenStepFiles DEF FilesAfter
      <4>2. op'.step = 7 /\ ~Complete'
        BY <2>1, <3>6, <4>1 DEF Complete
      <4>3. QED
        BY <2>3, <4>1, <4>2 DEF OpenOK, FilesAfter
    <3>7. CASE op.step = 7
      <4>1. FilesAfter({"body", "header", "seqnums"}, <<>>, <<>>, <<>>) /\ session' = <<>>
        BY <3>4, <3>7, OpenStepFiles DEF FilesAfter
      <4>2. op'.step = 8 /\ ~Complete'
        BY <2>1, <3>7, <4>1 DEF Complete
      <4>3. QED
        BY <2>3, <4>1, <4>2 DEF OpenOK, FilesAfter
    <3>8. CASE op.step = 8
      <4>1. FilesAfter(Files, <<>>, <<>>, <<>>) /\ session' = <<>>
        BY <3>4, <3>8, OpenStepFiles DEF FilesAfter
      <4>2. op'.step = 9 /\ ~Complete'
        BY <2>1, <3>8, <4>1 DEF Complete
      <4>3. QED
        BY <2>3, <4>1, <4>2 DEF OpenOK, FilesAfter
    <3>9. CASE op.step = 9
      <4>1. FilesAfter(Files, body, header, <<1, 1>>)
        BY <3>9, OpenStepFiles
      <4>2. body = <<>> /\ header = <<>> /\ session = <<>>
        BY <1>1, <1>3, <3>9 DEF OpenOK
      <4>3. op'.step = 10 /\ ~Complete'
        BY <2>1, <3>9, <4>1, <4>2 DEF Complete, FilesAfter
      <4>4. QED
        BY <2>3, <4>1, <4>2, <4>3 DEF OpenOK, FilesAfter
    <3>10. QED
      BY <1>1, <1>5, <3>1, <3>2, <3>3, <3>5, <3>6, <3>7, <3>8, <3>9
  <2>5. QED
    BY <1>1, <1>2, <2>1, <2>2, <2>4, OpeningInv
<1>6. QED
  BY <1>1, <1>4, <1>5

-----------------------------------------------------------------------------
(* Stopping, and loading what is there.                                    *)

(* What the files hold when they grow above the numbers written.           *)
FilesGrow ==
    Grows(seqnums[1]) /\ UNCHANGED <<exists, seqnums, session, wire, covered, lag>>

LEMMA FilesGrown ==
    ASSUME Inv, Complete, FilesGrow
    PROVE  /\ Complete' /\ HasLast(header') /\ FilesOK' /\ WireOK'
           /\ body' \in Content /\ header' \in Seq(Rows)
           /\ \A n \in Numbers : n < seqnums[1] =>
                /\ \E m \in Texts : Recorded(n, m)'
                /\ LastRow(header', n) = LastRow(header, n)
           /\ RowsInBody /\ header' = header => RowsInBody'
<1>1. Complete' /\ FilesOK'
  BY DEF FilesGrow, Complete, FilesOK, Files
<1>2. /\ seqnums[1] \in Nat
      /\ body \in Content /\ header \in Seq(Rows) /\ HasLast(header)
  BY DEF Complete, Inv, TypeOK, Numbers, Content, Rows
<1>3. /\ body' \in Content /\ header' \in Seq(Rows) /\ HasLast(header')
      /\ \A n \in Numbers : n < seqnums[1] /\ RowsOf(header, n) # {} =>
           RowsOf(header', n) # {} /\ LastRow(header', n) = LastRow(header, n)
      /\ \A n \in Numbers : \A m \in Texts :
           n < seqnums[1] /\ Recorded(n, m) => Recorded(n, m)'
  BY <1>2, GrowthKeeps DEF FilesGrow
<1>4. ASSUME NEW n \in Numbers, n < seqnums[1]
      PROVE  /\ \E m \in Texts : Recorded(n, m)'
             /\ LastRow(header', n) = LastRow(header, n)
  <2>1. PICK m \in Texts : Recorded(n, m)
    BY <1>4 DEF Inv, CountedOK
  <2>2. QED
    BY <1>3, <1>4, <2>1 DEF Recorded
<1>5. WireOK'
  BY <1>3 DEF FilesGrow, Inv, WireOK, TypeOK
<1>6. ASSUME RowsInBody, header' = header PROVE RowsInBody'
  <2>1. PICK p \in Content : body' = body \o p
    BY DEF FilesGrow, Grows
  <2>2. Len(body') = Len(body) + Len(p) /\ Len(body) \in Nat /\ Len(p) \in Nat
    BY <1>2, <2>1 DEF Content
  <2>3. ASSUME NEW i \in DOMAIN header PROVE header[i].at + header[i].size <= Len(body')
    BY <1>2, <1>6, <2>2, <2>3, RowFields DEF RowsInBody
  <2>4. QED
    BY <1>6, <2>3 DEF RowsInBody
<1>7. QED
  BY <1>1, <1>3, <1>4, <1>5, <1>6

(* A store in use writes above the numbers written.                        *)
LEMMA UseGrows ==
    ASSUME Inv, InUse, Grows(cache.sender)
    PROVE  Complete /\ Grows(seqnums[1])
<1>1. /\ Complete /\ seqnums[1] \in Nat /\ cache.sender \in Nat
      /\ seqnums[1] <= cache.sender
  BY DEF Inv, PhaseOK, NumbersOK, Complete, TypeOK, Numbers
<1>2. \A r \in Rows : r.seq >= cache.sender => r.seq >= seqnums[1]
  BY <1>1 DEF Rows, Numbers
<1>3. QED
  BY <1>1, <1>2 DEF Grows

LEMMA CloseGrows ==
    ASSUME Inv, InUse, op.name = "idle", CloseStreams
    PROVE  /\ Grows(cache.sender) /\ bodyBuf' = <<>> /\ headerBuf' = <<>> /\ faults' \in Nat
           /\ faults' = 0 => faults = 0 /\ header' = header
<1>1. /\ bodyBuf \in Content /\ header \o <<>> = header
      /\ \/ header \o headerBuf = header
         \/ \E r \in Rows : r.seq = cache.sender /\ header \o headerBuf = header \o <<r>>
  BY FlushGrows
<1>2. faults \in Nat /\ cache.sender \in Nat
  BY DEF Inv, TypeOK, MemoryTypes, Numbers
<1>3. \E p \in Content : body' = body \o p
  BY <1>1, PrefixType DEF CloseStreams
<1>4. header' = header \/ \E r \in Rows : r.seq >= cache.sender /\ header' = header \o <<r>>
  <2>1. \A r \in Rows : r.seq = cache.sender => r.seq >= cache.sender
    BY <1>2
  <2>2. header' = header \/ header' = header \o headerBuf
    BY DEF CloseStreams
  <2>3. QED
    BY <1>1, <2>1, <2>2
<1>5. faults' = faults \/ faults' = faults + 1
  BY DEF CloseStreams, Fail
<1>6. ASSUME faults' = 0 PROVE faults = 0 /\ header' = header
  <2>1. faults = 0 /\ faults' # faults + 1
    BY <1>2, <1>5, <1>6
  <2>2. headerBuf = <<>>
    BY <2>1 DEF Inv, FaultFree
  <2>3. header' = header \o headerBuf
    BY <2>1 DEF CloseStreams, Fail
  <2>4. QED
    BY <1>1, <2>1, <2>2, <2>3
<1>7. bodyBuf' = <<>> /\ headerBuf' = <<>>
  BY DEF CloseStreams
<1>8. Grows(cache.sender)
  BY <1>3, <1>4 DEF Grows
<1>9. QED
  BY <1>2, <1>5, <1>6, <1>7, <1>8

LEMMA StoppedInv ==
    ASSUME Inv, status = "up", status' = "down", op' \in {op, Idle}, op'.name = "idle",
           cache' = Fresh(0), offsets' = NoOffsets, bodyBuf' = <<>>, headerBuf' = <<>>, ~bodyErr', bodyErr' \in BOOLEAN,
           UNCHANGED <<exists, seqnums, session, wire, covered, lag>>,
           inHand' = 0, cut' = (cut \/ op.name = "open"), faults' \in Nat,
           InUse => Grows(cache.sender),
           ~InUse => body' = body /\ header' = header,
           faults' = 0 => faults = 0 /\ header' = header
    PROVE  Inv'
<1>1. op'.name = "idle" /\ ~InUse'
  BY DEF InUse
<1>2. /\ cache' \in [sender : Numbers, target : Numbers, created : 0..MaxTime]
      /\ DOMAIN offsets' = {}
  BY FreshTypes, FileStoreAssumption
<1>3. ASSUME body' \in Content, header' \in Seq(Rows) PROVE TypeOK' /\ MemoryTypes'
  <2>1. TypeOK'
    BY <1>1, <1>2, <1>3, FileStoreAssumption DEF Inv, TypeOK, Content, Rows
  <2>2. bodyBuf' \in Content /\ headerBuf' \in Seq(Rows) /\ Len(headerBuf') <= 1
    BY EmptyTypes
  <2>3. op' \in [name : Names, text : {<<>>} \cup {<<m>> : m \in Texts}, step : 0..10]
    BY DEF Idle, Names, Inv, MemoryTypes
  <2>4. lag' \in BOOLEAN /\ cut' \in BOOLEAN
    BY DEF Inv, MemoryTypes
  <2>5. QED
    BY <2>1, <2>2, <2>3, <2>4 DEF MemoryTypes
<1>4. OpenOK' /\ SetOK' /\ OffsetsOK'
  BY <1>1 DEF OpenOK, SetOK, OffsetsOK
<1>5. NumbersOK'
  BY <1>1 DEF Inv, NumbersOK, Complete
<1>6. CASE InUse
  <2>1. Complete /\ FilesGrow
    BY <1>6, UseGrows DEF FilesGrow
  <2>2. /\ Complete' /\ HasLast(header') /\ FilesOK' /\ WireOK'
        /\ body' \in Content /\ header' \in Seq(Rows)
        /\ \A n \in Numbers : n < seqnums[1] => \E m \in Texts : Recorded(n, m)'
        /\ RowsInBody /\ header' = header => RowsInBody'
    BY <2>1, FilesGrown
  <2>3. TypeOK' /\ MemoryTypes'
    BY <1>3, <2>2
  <2>4. PhaseOK' /\ OpensOK' /\ CountedOK'
    BY <1>1, <2>2 DEF PhaseOK, OpensOK, CountedOK
  <2>5. FaultFree'
    BY <2>1, <2>2 DEF Inv, FaultFree
  <2>6. QED
    BY <1>4, <1>5, <2>2, <2>3, <2>4, <2>5 DEF Inv
<1>7. CASE ~InUse
  <2>1. body' = body /\ header' = header /\ op.name = "open"
    BY <1>7 DEF InUse
  <2>2. ~Complete /\ ~Complete'
    BY <2>1 DEF Inv, OpenOK, Complete
  <2>3. HasLast(header') /\ FilesOK' /\ body' \in Content /\ header' \in Seq(Rows)
    BY <2>1 DEF Inv, FilesOK, TypeOK, Content, Rows
  <2>4. TypeOK' /\ MemoryTypes'
    BY <1>3, <2>3
  <2>5. wire = [n \in Numbers |-> {}] /\ covered = {} /\ ~lag
    BY <2>2 DEF Inv, PhaseOK
  <2>6. PhaseOK' /\ OpensOK' /\ CountedOK' /\ WireOK'
    BY <1>1, <2>1, <2>2, <2>5 DEF PhaseOK, OpensOK, CountedOK, WireOK
  <2>7. FaultFree'
    BY <2>2, <2>5 DEF FaultFree
  <2>8. QED
    BY <1>4, <1>5, <2>3, <2>4, <2>6, <2>7 DEF Inv
<1>8. QED
  BY <1>6, <1>7

LEMMA StopInv == ASSUME Inv, Stop PROVE Inv'
<1>1. /\ cut' = (cut \/ op.name = "open") /\ inHand' = 0 /\ UNCHANGED <<wire, covered, lag>>
  BY DEF Stop
<1>2. CASE Crash
  <2>1. /\ status = "up" /\ status' = "down" /\ op' = Idle /\ op'.name = "idle"
        /\ cache' = Fresh(0)
        /\ offsets' = NoOffsets /\ bodyBuf' = <<>> /\ headerBuf' = <<>> /\ bodyErr' = FALSE
        /\ UNCHANGED <<exists, header, seqnums, session, faults>>
    BY <1>2 DEF Crash, Idle
  <2>2. body \in Content /\ bodyBuf \in Content /\ faults \in Nat
    BY DEF Inv, TypeOK, MemoryTypes, Content
  <2>3. \E p \in Content : body' = body \o p
    <3>1. CASE op.name = "set" /\ op.step = 1
      BY <1>2, <2>2, <3>1, PrefixType DEF Crash
    <3>2. CASE ~(op.name = "set" /\ op.step = 1)
      <4>1. body' = body
        BY <1>2, <3>2 DEF Crash
      <4>2. body' = body \o <<>> /\ <<>> \in Content
        BY <2>2, <4>1, ConcatEmptySeq DEF Content
      <4>3. QED
        BY <4>2
    <3>3. QED
      BY <3>1, <3>2
  <2>4. ~InUse => body' = body
    BY <1>2 DEF InUse, Crash
  <2>5. Grows(cache.sender)
    BY <2>1, <2>3 DEF Grows
  <2>6. QED
    BY <1>1, <2>1, <2>2, <2>4, <2>5, StoppedInv
<1>3. CASE Close
  <2>1. /\ InUse /\ status = "up" /\ op.name = "idle" /\ status' = "down" /\ cache' = Fresh(0)
        /\ offsets' = NoOffsets /\ bodyErr' = FALSE /\ CloseStreams
        /\ UNCHANGED <<exists, seqnums, session, op>>
    BY <1>3 DEF Close, Working, InUse
  <2>2. /\ Grows(cache.sender) /\ bodyBuf' = <<>> /\ headerBuf' = <<>> /\ faults' \in Nat
        /\ faults' = 0 => faults = 0 /\ header' = header
    BY <2>1, CloseGrows
  <2>3. QED
    BY <1>1, <2>1, <2>2, StoppedInv
<1>4. QED
  BY <1>2, <1>3 DEF Stop

(* open() that throws leaves the files as a stop at that moment does.      *)
LEMMA GiveUpInv == ASSUME Inv, OpenGivesUp PROVE Inv'
<1>1. /\ status = "up" /\ op.name = "open" /\ status' = "down"
      /\ op' = Idle /\ op'.name = "idle"
      /\ cache' = Fresh(0) /\ offsets' = NoOffsets
      /\ bodyBuf' = <<>> /\ headerBuf' = <<>> /\ bodyErr' = FALSE
      /\ UNCHANGED <<exists, body, header, seqnums, session>>
  BY DEF OpenGivesUp, OpenFails, Working, Idle, files
<1>2. faults' = faults + 1 /\ faults \in Nat
  BY DEF OpenGivesUp, OpenFails, Fail, Inv, MemoryTypes
<1>3. cut' = (cut \/ op.name = "open") /\ inHand' = 0 /\ UNCHANGED <<wire, covered, lag>>
  BY <1>1 DEF OpenGivesUp
<1>4. ~InUse /\ faults' \in Nat /\ faults' # 0
  BY <1>1, <1>2 DEF InUse
<1>5. QED
  BY <1>1, <1>3, <1>4, StoppedInv


(* Memory is read from the files; the old streams may still write.         *)
LEMMA LoadInv ==
    ASSUME Inv, CanLoad, FilesGrow, cache' = LoadedCache, offsets' = LoadedOffsets(header),
           status' = "up", op' \in {op, Idle}, op'.name = "idle",
           bodyBuf' = <<>>, headerBuf' = <<>>, bodyErr' = FALSE,
           inHand = 0, inHand' = 0, UNCHANGED cut, faults' \in Nat,
           faults' = 0 => faults = 0 /\ header' = header
    PROVE  Inv'
<1>1. Complete /\ Complete' /\ InUse'
  BY DEF CanLoad, Readable, Complete, InUse, FilesGrow
<1>2. /\ HasLast(header') /\ FilesOK' /\ WireOK' /\ body' \in Content /\ header' \in Seq(Rows)
      /\ \A n \in Numbers : n < seqnums[1] =>
           /\ \E m \in Texts : Recorded(n, m)'
           /\ LastRow(header', n) = LastRow(header, n)
      /\ RowsInBody /\ header' = header => RowsInBody'
  BY <1>1, FilesGrown
<1>3. /\ seqnums \in Numbers \X Numbers /\ session[1] \in 0..MaxTime
      /\ header \in Seq(Rows)
  BY <1>1 DEF Complete, Inv, TypeOK, Rows
<1>4. /\ cache' \in [sender : Numbers, target : Numbers, created : 0..MaxTime]
      /\ cache'.sender = seqnums[1] /\ cache'.target = seqnums[2] /\ cache'.created = session[1]
  BY <1>3 DEF LoadedCache
<1>5. /\ DOMAIN offsets' \subseteq Numbers
      /\ \A n \in DOMAIN offsets' : offsets'[n] = LastRow(header, n)
  <2>1. DOMAIN offsets' = {header[i].seq : i \in DOMAIN header}
    BY DEF LoadedOffsets
  <2>2. \A i \in DOMAIN header : header[i].seq \in Numbers
    BY <1>3, RowFields
  <2>3. QED
    BY <2>1, <2>2 DEF LoadedOffsets
<1>6. UNCHANGED <<exists, seqnums, session, wire, covered, lag>>
  BY DEF FilesGrow
<1>7. TypeOK'
  BY <1>2, <1>4, <1>5, <1>6, FileStoreAssumption DEF Inv, TypeOK, Content, Rows
<1>8. MemoryTypes'
  <2>1. bodyBuf' \in Content /\ headerBuf' \in Seq(Rows) /\ Len(headerBuf') <= 1
    BY EmptyTypes
  <2>2. op' \in [name : Names, text : {<<>>} \cup {<<m>> : m \in Texts}, step : 0..10]
    BY DEF Idle, Names, Inv, MemoryTypes
  <2>3. QED
    BY <1>6, <2>1, <2>2 DEF Inv, MemoryTypes
<1>9. PhaseOK' /\ OpenOK' /\ OpensOK' /\ SetOK'
  BY <1>1 DEF PhaseOK, OpenOK, OpensOK, SetOK
<1>10. NumbersOK'
  <2>1. 1..(seqnums[2] - 1) \subseteq covered /\ seqnums[2] <= MaxIn
    BY <1>1 DEF Inv, NumbersOK
  <2>2. seqnums[1] <= seqnums[1] /\ seqnums[2] <= seqnums[2]
    BY <1>3 DEF Numbers
  <2>3. QED
    BY <1>4, <1>6, <2>1, <2>2 DEF NumbersOK
<1>11. CountedOK'
  BY <1>2, <1>4, <1>6 DEF CountedOK
<1>12. OffsetsOK'
  BY <1>2, <1>4, <1>5 DEF OffsetsOK
<1>13. FaultFree'
  BY <1>1, <1>2, <1>6 DEF Inv, FaultFree
<1>14. QED
  BY <1>2, <1>7, <1>8, <1>9, <1>10, <1>11, <1>12, <1>13 DEF Inv

LEMMA RefreshInv == ASSUME Inv, RefreshStore PROVE Inv'
<1>1. /\ InUse /\ op.name = "idle" /\ status' = "up" /\ op' = op /\ CanLoad /\ inHand = 0
      /\ cache' = LoadedCache /\ offsets' = LoadedOffsets(header) /\ bodyErr' = FALSE
      /\ CloseStreams
      /\ UNCHANGED <<exists, seqnums, session, wire, covered, lag, inHand, cut>>
  BY DEF RefreshStore, Refresh, Working, InUse, history
<1>2. /\ Grows(cache.sender) /\ bodyBuf' = <<>> /\ headerBuf' = <<>> /\ faults' \in Nat
      /\ faults' = 0 => faults = 0 /\ header' = header
  BY <1>1, CloseGrows
<1>3. FilesGrow
  BY <1>1, <1>2, UseGrows DEF FilesGrow
<1>4. QED
  BY <1>1, <1>2, <1>3, LoadInv

LEMMA StartInv == ASSUME Inv, StartStore(1) PROVE Inv'
<1>1. /\ status = "down" /\ bodyBuf' = <<>> /\ headerBuf' = <<>> /\ bodyErr' = FALSE
      /\ UNCHANGED <<exists, body, header, seqnums, session, faults,
                     wire, covered, lag, inHand, cut>>
  BY DEF StartStore, Start, history, files
<1>2. op.name = "idle" /\ inHand = 0 /\ bodyBuf = <<>> /\ headerBuf = <<>> /\ ~bodyErr
  BY <1>1 DEF Inv, PhaseOK
<1>3. body \in Content /\ header \in Seq(Rows) /\ HasLast(header) /\ faults \in Nat
  BY DEF Inv, TypeOK, MemoryTypes, Content, Rows
<1>4. CASE /\ CanLoad
           /\ cache' = LoadedCache /\ offsets' = LoadedOffsets(header)
           /\ status' = "up" /\ op' = Idle
  <2>1. body' = body \o <<>> /\ <<>> \in Content
    BY <1>1, <1>3, ConcatEmptySeq DEF Content
  <2>2. FilesGrow
    BY <1>1, <2>1 DEF FilesGrow, Grows
  <2>3. op'.name = "idle"
    BY <1>4 DEF Idle
  <2>4. QED
    BY <1>1, <1>2, <1>3, <1>4, <2>2, <2>3, LoadInv
<1>5. CASE /\ IsNewStore
           /\ cache' = Fresh(1) /\ offsets' = NoOffsets
           /\ status' = "up" /\ op' = Opening(IF "body" \in exists THEN 6 ELSE 5)
  <2>1. exists = {} \/ exists = {"body"}
    BY <1>5 DEF IsNewStore, Inv, TypeOK, Files
  <2>2. header = <<>> /\ seqnums = <<>> /\ session = <<>> /\ body = <<>>
    BY <1>5, <2>1 DEF IsNewStore, Inv, FilesOK
  <2>3. ~Complete /\ ~Complete'
    BY <1>1, <2>2 DEF Complete
  <2>4. wire = [n \in Numbers |-> {}] /\ covered = {} /\ ~lag
    BY <2>3 DEF Inv, PhaseOK
  <2>5. 1 \in 0..MaxTime
    BY FileStoreAssumption
  <2>6. /\ cache' \in [sender : Numbers, target : Numbers, created : 0..MaxTime]
        /\ cache'.sender = 1 /\ cache'.target = 1 /\ cache'.created = 1 /\ DOMAIN offsets' = {}
    BY <1>5, <2>5, FreshTypes
  <2>7. /\ op'.name = "open"
        /\ op' \in [name : Names, text : {<<>>} \cup {<<m>> : m \in Texts}, step : 0..10]
        /\ \/ exists = {} /\ op'.step = 5
           \/ exists = {"body"} /\ op'.step = 6
    <3>1. CASE exists = {}
      BY <1>5, <3>1, EmptyTypes, 5 \in 0..10 DEF Opening
    <3>2. CASE exists = {"body"}
      BY <1>5, <3>2, EmptyTypes, 6 \in 0..10 DEF Opening
    <3>3. QED
      BY <2>1, <3>1, <3>2
  <2>8. TypeOK'
    BY <1>1, <1>3, <1>5, <2>6, <2>7 DEF Inv, TypeOK, Content, Rows
  <2>9. MemoryTypes'
    <3>1. bodyBuf' \in Content /\ headerBuf' \in Seq(Rows) /\ Len(headerBuf') <= 1
      BY <1>1, EmptyTypes
    <3>2. QED
      BY <1>1, <2>7, <3>1 DEF Inv, MemoryTypes
  <2>10. FilesOK' /\ HasLast(header')
    BY <1>1, <1>3 DEF Inv, FilesOK
  <2>11. OpenOK'
    BY <1>1, <2>2, <2>3, <2>6, <2>7 DEF OpenOK
  <2>12. QED
    BY <1>1, <1>2, <1>5, <2>4, <2>7, <2>8, <2>9, <2>10, <2>11, OpeningInv
<1>6. CASE status' = "refused" /\ UNCHANGED <<cache, offsets, op>>
  <2>1. ~InUse /\ ~InUse' /\ (Complete' <=> Complete)
    BY <1>1, <1>6 DEF InUse, Complete
  <2>2. TypeOK'
    BY <1>1, <1>6 DEF Inv, TypeOK
  <2>3. MemoryTypes'
    <3>1. bodyBuf' \in Content /\ headerBuf' \in Seq(Rows) /\ Len(headerBuf') <= 1
      BY <1>1, EmptyTypes
    <3>2. QED
      BY <1>1, <1>6, <3>1 DEF Inv, MemoryTypes
  <2>4. FilesOK' /\ PhaseOK' /\ OpenOK' /\ SetOK' /\ OffsetsOK' /\ OpensOK'
    BY <1>1, <1>2, <1>6, <2>1
       DEF Inv, FilesOK, PhaseOK, OpenOK, SetOK, OffsetsOK, OpensOK, IsNewStore
  <2>5. NumbersOK' /\ CountedOK' /\ WireOK'
    BY <1>1, <1>2, <1>6, <2>1 DEF Inv, NumbersOK, CountedOK, WireOK, Recorded
  <2>6. FaultFree'
    BY <1>1, <1>2, <1>6, <2>1 DEF Inv, FaultFree, RowsInBody
  <2>7. HasLast(header')
    BY <1>1, <1>3
  <2>8. QED
    BY <2>2, <2>3, <2>4, <2>5, <2>6, <2>7 DEF Inv
<1>7. QED
  BY <1>4, <1>5, <1>6 DEF StartStore, Start

LEMMA ReadInv == ASSUME Inv, ReadStore PROVE Inv'
<1>1. /\ InUse /\ op.name = "idle" /\ bodyBuf # <<>> /\ bodyBuf' = <<>>
      /\ UNCHANGED <<exists, header, seqnums, session, status, cache, offsets, headerBuf, op,
                     wire, covered, inHand, lag, cut>>
  BY DEF ReadStore, Get, Working, InUse, history
<1>2. bodyBuf \in Content /\ faults \in Nat /\ bodyErr \in BOOLEAN /\ faults # 0
  BY <1>1 DEF Inv, MemoryTypes, FaultFree
<1>3. \E p \in Content : body' = body \o p
  BY <1>2, PrefixType DEF ReadStore, Get
<1>4. bodyErr' \in BOOLEAN /\ (faults' = faults \/ faults' = faults + 1)
  BY <1>2 DEF ReadStore, Get, Fail
<1>5. faults' \in Nat /\ faults' # 0
  BY <1>2, <1>4
<1>6. QED
  BY <1>1, <1>3, <1>4, <1>5, IdleGrows

-----------------------------------------------------------------------------
(* The invariant holds.                                                    *)

LEMMA InitInv == ASSUME Init PROVE Inv
<1> USE DEF Init, StoreInit
<1>1. TypeOK
  BY FreshTypes, EmptyTypes, FileStoreAssumption DEF TypeOK, Content, Rows, Idle
<1>2. MemoryTypes
  <2>1. bodyBuf \in Content /\ headerBuf \in Seq(Rows) /\ Len(headerBuf) <= 1
    BY EmptyTypes
  <2>2. op \in [name : Names, text : {<<>>} \cup {<<m>> : m \in Texts}, step : 0..10]
    BY DEF Idle, Names
  <2>3. QED
    BY <2>1, <2>2 DEF MemoryTypes
<1>3. ~Complete /\ ~InUse /\ op.name = "idle"
  BY DEF Complete, InUse, Idle
<1>4. FilesOK /\ PhaseOK /\ OpenOK /\ SetOK /\ NumbersOK /\ CountedOK /\ OffsetsOK
  BY <1>3 DEF FilesOK, PhaseOK, OpenOK, SetOK, NumbersOK, CountedOK, OffsetsOK
<1>5. WireOK /\ FaultFree /\ OpensOK
  BY <1>3 DEF WireOK, FaultFree, OpensOK, IsNewStore
<1>6. HasLast(header)
  BY EmptyTypes
<1>7. QED
  BY <1>1, <1>2, <1>4, <1>5, <1>6 DEF Inv

LEMMA StutterInv == ASSUME Inv, UNCHANGED vars PROVE Inv'
<1> USE DEF vars, storeVars, history, files, memory
<1>1. TypeOK' /\ MemoryTypes' /\ HasLast(header')
  BY DEF Inv, TypeOK, MemoryTypes
<1>2. /\ (Complete' <=> Complete) /\ (InUse' <=> InUse) /\ (IsNewStore' <=> IsNewStore)
      /\ (RowsInBody' <=> RowsInBody)
  BY DEF Complete, InUse, IsNewStore, RowsInBody
<1>3. FilesOK' /\ PhaseOK' /\ OpenOK' /\ NumbersOK' /\ FaultFree' /\ OpensOK'
  BY <1>2 DEF Inv, FilesOK, PhaseOK, OpenOK, NumbersOK, FaultFree, OpensOK
<1>4. SetOK' /\ CountedOK' /\ OffsetsOK' /\ WireOK'
  BY <1>2 DEF Inv, SetOK, CountedOK, OffsetsOK, WireOK, Recorded
<1>5. QED
  BY <1>1, <1>3, <1>4 DEF Inv

LEMMA NextInv == ASSUME Inv, [Next]_vars PROVE Inv'
<1>1. ASSUME NEW m \in Texts, Send(m) PROVE Inv'
  BY <1>1, SendInv
<1>2. CASE SetGoesOn
  BY <1>2, FlushBodyInv, FlushHeaderInv DEF SetGoesOn
<1>3. CASE Count
  BY <1>3, CountInv
<1>4. CASE Transmit
  BY <1>4, TransmitInv
<1>5. ASSUME NEW n \in Numbers, Resend(n) \/ Fill(n) PROVE Inv'
  BY <1>5, ResendInv, FillInv
<1>6. CASE Deliver
  BY <1>6, DeliverInv
<1>7. CASE CountDelivered
  BY <1>7, CountDeliveredInv
<1>8. CASE cache.created < MaxTime /\ ResetStore(cache.created + 1)
  BY <1>8, ResetInv
<1>9. CASE StartStore(1)
  BY <1>9, StartInv
<1>10. CASE RefreshStore
  BY <1>10, RefreshInv
<1>11. CASE ReadStore
  BY <1>11, ReadInv
<1>12. CASE OpenGoesOn
  BY <1>12, OpenInv DEF OpenGoesOn
<1>13. CASE Stop
  BY <1>13, StopInv
<1>14. CASE UNCHANGED vars
  BY <1>14, StutterInv
<1>15. CASE OpenGivesUp
  BY <1>15, GiveUpInv
<1>16. QED
  BY <1>1, <1>2, <1>3, <1>4, <1>5, <1>6, <1>7, <1>8, <1>9, <1>10, <1>11, <1>12, <1>13, <1>14,
     <1>15 DEF Next

(* The invariant holds in every reachable state, for any texts, any        *)
(* lengths of theirs and any number of failed writes, stops and resets.    *)
THEOREM StoreInv == Spec => []Inv
<1>1. Init => Inv
  BY InitInv
<1>2. Inv /\ [Next]_vars => Inv'
  BY NextInv
<1>3. QED
  BY <1>1, <1>2, PTL DEF Spec

(* The files and the memory of the store keep their types.                 *)
THEOREM StoreTypeCorrect == Spec => []TypeOK
<1>1. Inv => TypeOK
  BY DEF Inv
<1>2. QED
  BY <1>1, StoreInv, PTL

(* What was transmitted under a number is what a start after a stop at any *)
(* moment reads back under it (persist() before send()).                   *)
THEOREM SentSurvives == Spec => []SentRecoverable
<1>1. Inv => SentRecoverable
  BY DEF Inv, WireOK, SentRecoverable, Recorded
<1>2. QED
  BY <1>1, StoreInv, PTL

(* No number is seen with two texts by the counterparty: what a restart    *)
(* sends next is above everything transmitted, and a resend reads the one  *)
(* text of the last row.                                                   *)
THEOREM SingleText == Spec => []OneTextPerNumber
<1>1. ASSUME Inv PROVE OneTextPerNumber
  <2> SUFFICES ASSUME ~lag, NEW n \in Numbers PROVE Cardinality(wire[n]) <= 1
    BY DEF OneTextPerNumber
  <2>1. \A m \in wire[n] : m \in Texts /\ Recorded(n, m)
    BY <1>1 DEF Inv, TypeOK, WireOK
  <2>2. \A m, k \in wire[n] : m = k
    BY <2>1, ReadsOne DEF Recorded
  <2>3. CASE wire[n] = {}
    BY <2>3, FS_EmptySet
  <2>4. CASE wire[n] # {}
    <3>1. PICK m : wire[n] = {m}
      BY <2>2, <2>4
    <3>2. Cardinality({m}) = 1
      BY FS_Singleton, Zenon
    <3>3. QED
      BY <3>1, <3>2
  <2>5. QED
    BY <2>3, <2>4
<1>2. QED
  BY <1>1, StoreInv, PTL

(* The number a start expects has nothing undelivered below it.            *)
THEOREM NoneSkipped == Spec => []NothingSkipped
<1>1. Inv => NothingSkipped
  BY DEF Inv, NumbersOK, NothingSkipped, CanLoad, Readable, Complete
<1>2. QED
  BY <1>1, StoreInv, PTL

(* Without failed writes, and unless open() was interrupted, the store can *)
(* be opened again after a stop at any moment: the text is in the body     *)
(* before its row is in the index.                                         *)
THEOREM StoreOpens == Spec => []AlwaysOpens
<1>1. Inv => AlwaysOpens
  BY DEF Inv, OpensOK, FaultFree, AlwaysOpens, CanOpen, CanLoad, Readable, Complete
<1>2. QED
  BY <1>1, StoreInv, PTL


(* fromApp is called a second time with nothing but the number that was in *)
(* hand: the files count at most one number less than the application has. *)
THEOREM RedeliversLast == Spec => OnlyLastRedelivered
<1>1. ASSUME Inv, [Next]_vars
      PROVE  [(faults = 0 /\ inHand' # inHand /\ inHand' # 0)
                => \A n \in covered : n <= inHand']_vars
  <2> SUFFICES ASSUME Next, faults = 0, inHand' # inHand, inHand' # 0
               PROVE  \A n \in covered : n <= inHand'
    BY <1>1 DEF vars
  <2>1. Deliver
    <3>1. (\E m \in Texts : Send(m)) \/ SetGoesOn \/ Count \/ Transmit => inHand' = inHand
      BY DEF Send, SetGoesOn, Count, Transmit, history
    <3>2. (\E n \in Numbers : Resend(n) \/ Fill(n)) => inHand' = inHand
      BY DEF Resend, Fill
    <3>3. CountDelivered \/ Stop \/ OpenGivesUp => inHand' = 0
      BY DEF CountDelivered, Stop, OpenGivesUp
    <3>4. cache.created < MaxTime /\ ResetStore(cache.created + 1) => inHand' = inHand
      BY DEF ResetStore
    <3>5. StartStore(1) \/ RefreshStore \/ ReadStore \/ OpenGoesOn => inHand' = inHand
      BY DEF StartStore, RefreshStore, ReadStore, OpenGoesOn, history
    <3>6. QED
      BY <3>1, <3>2, <3>3, <3>4, <3>5 DEF Next
  <2>2. InUse /\ inHand' = cache.target
    BY <2>1 DEF Deliver, Working, InUse
  <2>3. Complete /\ ~lag /\ \A n \in covered : n <= seqnums[2]
    BY <1>1, <2>2 DEF Inv, PhaseOK, FaultFree
  <2>4. seqnums[2] = cache.target
    BY <1>1, <2>2, <2>3 DEF Inv, NumbersOK
  <2>5. QED
    BY <2>2, <2>3, <2>4
<1>2. QED
  BY <1>1, StoreInv, PTL DEF Spec, OnlyLastRedelivered
-----------------------------------------------------------------------------
(* The four files implement DurableStore.                                  *)

(* The text a body b and an index h hold under a number below s.           *)
TextIn(b, h, s, n) ==
    LET found == {m \in Texts : /\ n < s
                                /\ RowsOf(h, n) # {}
                                /\ Reads(b, LastRow(h, n), m)}
    IN IF found = {} THEN NoText ELSE CHOOSE m \in found : TRUE

(* The record the files hold.                                              *)
FileRecord == [n \in Numbers |-> IF Complete THEN TextUnder(n) ELSE NoText]
FileSender == IF Complete THEN seqnums[1] ELSE 1
FileTarget == IF Complete THEN seqnums[2] ELSE 1
FileCreated == IF Complete THEN session[1] ELSE 0

LEMMA TextInIs ==
    ASSUME NEW b, NEW h, NEW s, NEW n, NEW m \in Texts,
           n < s, RowsOf(h, n) # {}, Reads(b, LastRow(h, n), m)
    PROVE  TextIn(b, h, s, n) = m
<1> DEFINE found == {k \in Texts : n < s /\ RowsOf(h, n) # {} /\ Reads(b, LastRow(h, n), k)}
<1>1. found = {m}
  BY ReadsOne
<1>2. QED
  BY <1>1 DEF TextIn

LEMMA TextInAbove ==
    ASSUME NEW b, NEW h, NEW s, NEW n, ~(n < s)
    PROVE  TextIn(b, h, s, n) = NoText
  BY DEF TextIn

LEMMA TextInType ==
    ASSUME NEW b, NEW h, NEW s, NEW n
    PROVE  TextIn(b, h, s, n) \in Texts \cup {NoText}
  BY DEF TextIn

LEMMA RecordIs ==
    /\ \A n \in Numbers : FileRecord[n] =
            IF Complete THEN TextIn(body, header, seqnums[1], n) ELSE NoText
    /\ \A n \in Numbers : FileRecord'[n] =
            IF Complete' THEN TextIn(body', header', seqnums'[1], n) ELSE NoText
  BY DEF FileRecord, TextUnder, TextIn

LEMMA SameRecord ==
    ASSUME Complete' <=> Complete, seqnums' = seqnums \/ ~Complete, session' = session \/ ~Complete,
           \A n \in Numbers : FileRecord'[n] = FileRecord[n]
    PROVE  UNCHANGED Durable!dvars
<1>1. FileRecord' = FileRecord
  BY DEF FileRecord
<1>2. UNCHANGED <<FileSender, FileTarget, FileCreated>>
  BY DEF FileSender, FileTarget, FileCreated
<1>3. Complete' = Complete
  BY DEF Complete
<1>4. QED
  BY <1>1, <1>2, <1>3 DEF Durable!dvars, FileRecord, FileSender, FileTarget, FileCreated

LEMMA NoRecord == ASSUME ~Complete, ~Complete' PROVE UNCHANGED Durable!dvars
<1>1. \A n \in Numbers : FileRecord'[n] = FileRecord[n]
  BY RecordIs
<1>2. QED
  BY <1>1, SameRecord

LEMMA FilesSame == ASSUME UNCHANGED files PROVE UNCHANGED Durable!dvars
<1>1. (Complete' <=> Complete) /\ UNCHANGED <<body, header, seqnums, session>>
  BY DEF files, Complete
<1>2. \A n \in Numbers : FileRecord'[n] = FileRecord[n]
  BY <1>1, RecordIs
<1>3. QED
  BY <1>1, <1>2, SameRecord

(* Text and rows above the numbers written do not show.                    *)
LEMMA GrowthHidden ==
    ASSUME Inv, Complete, Grows(seqnums[1]), UNCHANGED <<exists, seqnums, session>>
    PROVE  UNCHANGED Durable!dvars
<1>1. Complete'
  BY DEF Complete
<1>2. ASSUME NEW n \in Numbers PROVE FileRecord'[n] = FileRecord[n]
  <2>1. CASE ~(n < seqnums[1])
    BY <1>1, <2>1, RecordIs, TextInAbove
  <2>2. CASE n < seqnums[1]
    <3>1. PICK m \in Texts : Recorded(n, m)
      BY <2>2 DEF Inv, CountedOK
    <3>2. seqnums[1] \in Nat /\ body \in Content /\ header \in Seq(Rows) /\ HasLast(header)
      BY DEF Complete, Inv, TypeOK, Numbers, Content, Rows
    <3>3. Recorded(n, m)'
      BY <2>2, <3>1, <3>2, GrowthKeeps
    <3>4. TextIn(body, header, seqnums[1], n) = m
      BY <2>2, <3>1, TextInIs DEF Recorded
    <3>5. TextIn(body', header', seqnums'[1], n) = m
      BY <2>2, <3>3, TextInIs DEF Recorded
    <3>6. QED
      BY <1>1, <3>4, <3>5, RecordIs
  <2>3. QED
    BY <2>1, <2>2
<1>3. QED
  BY <1>1, <1>2, SameRecord


(* set() and get() append, and above the numbers counted.                  *)
LEMMA WritesGrow ==
    ASSUME Inv, (\E m \in Texts : Send(m)) \/ SetGoesOn \/ ReadStore
    PROVE  InUse /\ Grows(cache.sender) /\ UNCHANGED <<exists, seqnums, session>>
<1>1. InUse /\ UNCHANGED <<exists, seqnums, session>>
  BY DEF Send, SetSeek, SetGoesOn, FlushBody, FlushHeader, ReadStore, Get, Working, InUse
<1>2. /\ bodyBuf \in Content /\ body \in Content /\ cache.sender \in Nat
      /\ \/ header \o headerBuf = header
         \/ \E r \in Rows : r.seq = cache.sender /\ header \o headerBuf = header \o <<r>>
  <2>1. body \in Content /\ cache.sender \in Nat
    BY DEF Inv, TypeOK, Numbers, Content
  <2>2. QED
    BY <1>1, <2>1, FlushGrows
<1>3. \E p \in Content : body' = body \o p
  <2>1. body' = body => body' = body \o <<>> /\ <<>> \in Content
    BY <1>2, ConcatEmptySeq DEF Content
  <2>2. body' = body \/ body' = body \o bodyBuf \/ \E p \in Prefixes(bodyBuf) : body' = body \o p
    BY DEF Send, SetSeek, SetGoesOn, FlushBody, FlushHeader, ReadStore, Get
  <2>3. QED
    BY <1>2, <2>1, <2>2, PrefixType
<1>4. header' = header \/ \E r \in Rows : r.seq >= cache.sender /\ header' = header \o <<r>>
  <2>1. header' = header \/ header' = header \o headerBuf
    BY DEF Send, SetSeek, SetGoesOn, FlushBody, FlushHeader, ReadStore, Get
  <2>2. \A r \in Rows : r.seq = cache.sender => r.seq >= cache.sender
    BY <1>2
  <2>3. QED
    BY <1>2, <2>1, <2>2
<1>5. QED
  BY <1>1, <1>3, <1>4 DEF Grows

(* A new pair of numbers: what was recorded stays.                         *)
LEMMA PairAdvances ==
    ASSUME Inv, Working("stored") \/ Working("idle"),
           NEW c \in [sender : Numbers, target : Numbers, created : 0..MaxTime],
           cache.sender <= c.sender, cache.target <= c.target,
           NEW good, NEW bad, SetSeqNum(c, good, bad)
    PROVE  Durable!Advance \/ UNCHANGED Durable!dvars
<1>1. InUse /\ Complete /\ UNCHANGED <<exists, body, header, session>>
  BY DEF Working, InUse, Inv, PhaseOK, SetSeqNum
<1>2. CASE seqnums' = seqnums
  BY <1>1, <1>2, FilesSame DEF files
<1>3. CASE seqnums' = <<c.sender, c.target>>
  <2>1. /\ seqnums'[1] = c.sender /\ seqnums'[2] = c.target /\ Complete'
        /\ c.sender \in Numbers /\ c.target \in Numbers
    BY <1>1, <1>3 DEF Complete
  <2>2. seqnums[1] <= c.sender /\ seqnums[2] <= c.target
    <3>1. /\ seqnums[1] \in Nat /\ seqnums[2] \in Nat /\ c.sender \in Nat /\ c.target \in Nat
          /\ cache.sender \in Nat /\ cache.target \in Nat
      BY <1>1, <2>1 DEF Complete, Inv, TypeOK, Numbers
    <3>2. seqnums[1] <= cache.sender /\ seqnums[2] <= cache.target
      BY <1>1 DEF Inv, NumbersOK
    <3>3. QED
      BY <3>1, <3>2
  <2>3. ASSUME NEW n \in Numbers
        PROVE  FileRecord'[n] \in IF n < seqnums[1] THEN {FileRecord[n]}
                                  ELSE IF n < seqnums'[1] THEN Texts \cup {NoText}
                                  ELSE {NoText}
    <3>1. CASE n < seqnums[1]
      <4>1. n < seqnums'[1]
        BY <1>1, <2>1, <2>2, <3>1 DEF Complete, Inv, TypeOK, Numbers
      <4>2. PICK m \in Texts : Recorded(n, m)
        BY <1>1, <3>1 DEF Inv, CountedOK
      <4>3. TextIn(body, header, seqnums[1], n) = m
        BY <3>1, <4>2, TextInIs DEF Recorded
      <4>4. TextIn(body', header', seqnums'[1], n) = m
        BY <1>1, <4>1, <4>2, TextInIs DEF Recorded
      <4>5. QED
        BY <1>1, <2>1, <3>1, <4>3, <4>4, RecordIs
    <3>2. CASE ~(n < seqnums[1])
      <4>1. FileRecord'[n] = TextIn(body', header', seqnums'[1], n)
        BY <2>1, RecordIs
      <4>2. QED
        BY <3>2, <4>1, TextInType, TextInAbove
    <3>3. QED
      BY <3>1, <3>2
  <2>4. /\ FileSender = seqnums[1] /\ FileSender' = seqnums'[1]
        /\ FileTarget = seqnums[2] /\ FileTarget' = seqnums'[2] /\ FileCreated' = FileCreated
    BY <1>1, <2>1 DEF FileSender, FileTarget, FileCreated
  <2>5. /\ Complete /\ Complete'
        /\ FileSender' \in Numbers /\ FileSender' >= FileSender
        /\ FileTarget' \in Numbers /\ FileTarget' >= FileTarget
        /\ \A n \in Numbers :
            FileRecord'[n] \in IF n < FileSender THEN {FileRecord[n]}
                               ELSE IF n < FileSender' THEN Texts \cup {NoText}
                               ELSE {NoText}
        /\ UNCHANGED FileCreated
    BY <1>1, <2>1, <2>2, <2>3, <2>4
  <2>6. QED
    BY <2>5 DEF Durable!Advance, FileSender, FileTarget, FileCreated, FileRecord
<1>4. QED
  BY <1>2, <1>3 DEF SetSeqNum

LEMMA RecordLost == ASSUME Complete, ~Complete' PROVE Durable!Lose
<1>1. FileRecord' = [n \in Numbers |-> NoText] /\ FileSender' = 1 /\ FileTarget' = 1 /\ FileCreated' = 0
  BY DEF FileRecord, FileSender, FileTarget, FileCreated
<1>2. QED
  BY <1>1 DEF Durable!Lose, Durable!Empty, FileRecord, FileSender, FileTarget, FileCreated

LEMMA RecordRenewed ==
    ASSUME ~Complete, Complete', seqnums' = <<1, 1>>, session'[1] \in 1..MaxTime
    PROVE  Durable!Renew
<1>1. ASSUME NEW n \in Numbers PROVE FileRecord'[n] = NoText
  <2>1. ~(n < seqnums'[1])
    BY DEF Numbers
  <2>2. QED
    BY <2>1, RecordIs, TextInAbove
<1>2. FileRecord' = [n \in Numbers |-> NoText]
  BY <1>1 DEF FileRecord
<1>3. FileSender' = 1 /\ FileTarget' = 1 /\ FileCreated' \in 1..MaxTime
  BY DEF FileSender, FileTarget, FileCreated
<1>4. QED
  BY <1>2, <1>3 DEF Durable!Renew, Durable!Empty, FileRecord, FileSender, FileTarget, FileCreated

LEMMA OpenRefines ==
    ASSUME Inv, OpenGoesOn
    PROVE  Durable!Renew \/ UNCHANGED Durable!dvars
<1>1. OpenStep /\ UNCHANGED history /\ Inv'
  BY OpenInv DEF OpenGoesOn
<1>2. op.name = "open" /\ ~Complete /\ op.step \in 2..10
  BY <1>1, OpenStepFacts
<1>3. CASE op.step < 10
  <2>1. op'.name = "open"
    BY <1>1, <1>3, OpenStepFacts DEF Opening
  <2>2. ~Complete'
    BY <1>1, <2>1 DEF Inv, OpenOK
  <2>3. QED
    BY <1>2, <2>2, NoRecord
<1>4. CASE op.step = 10
  <2>1. exists = Files /\ seqnums = <<1, 1>> /\ cache.created \in 1..MaxTime
    BY <1>2, <1>4, FileStoreAssumption DEF Inv, OpenOK, TypeOK
  <2>2. session' = <<cache.created>> /\ UNCHANGED <<exists, seqnums>>
    BY <1>1, <1>4 DEF OpenStep
  <2>3. Complete' /\ seqnums' = <<1, 1>> /\ session'[1] \in 1..MaxTime
    BY <2>1, <2>2 DEF Complete
  <2>4. QED
    BY <1>2, <2>3, RecordRenewed
<1>5. QED
  BY <1>2, <1>3, <1>4

LEMMA StopRefines == ASSUME Inv, Stop PROVE UNCHANGED Durable!dvars
<1>1. CASE Crash
  <2>1. UNCHANGED <<exists, header, seqnums, session>>
    BY <1>1 DEF Crash
  <2>2. CASE op.name = "set" /\ op.step = 1
    <3>1. InUse
      BY <1>1, <2>2 DEF Crash, InUse
    <3>2. Grows(cache.sender)
      BY <1>1, <2>1, <2>2, PrefixType DEF Crash, Grows, Inv, MemoryTypes
    <3>3. QED
      BY <2>1, <3>1, <3>2, UseGrows, GrowthHidden
  <2>3. CASE ~(op.name = "set" /\ op.step = 1)
    BY <1>1, <2>1, <2>3, FilesSame DEF Crash, files
  <2>4. QED
    BY <2>2, <2>3
<1>2. CASE Close
  <2>1. InUse /\ op.name = "idle" /\ CloseStreams /\ UNCHANGED <<exists, seqnums, session>>
    BY <1>2 DEF Close, Working, InUse
  <2>2. Grows(cache.sender)
    BY <2>1, CloseGrows
  <2>3. QED
    BY <2>1, <2>2, UseGrows, GrowthHidden
<1>3. QED
  BY <1>1, <1>2 DEF Stop


(* Every step of the session on its files is a step of DurableStore, or    *)
(* does not show there.                                                    *)
LEMMA StepRefines ==
    ASSUME Inv, [Next]_vars
    PROVE  Durable!DNext \/ UNCHANGED Durable!dvars
<1>1. ASSUME (\E m \in Texts : Send(m)) \/ SetGoesOn \/ ReadStore
      PROVE  UNCHANGED Durable!dvars
  BY <1>1, WritesGrow, UseGrows, GrowthHidden
<1>2. /\ cache \in [sender : Numbers, target : Numbers, created : 0..MaxTime]
      /\ cache.sender \in Nat /\ cache.target \in Nat /\ MaxNum \in Nat
  BY FileStoreAssumption DEF Inv, TypeOK, Numbers
<1>3. CASE Count
  <2> DEFINE c == [cache EXCEPT !.sender = @ + 1]
  <2>1. Working("stored") /\ SetSeqNum(c, [op EXCEPT !.name = "counted"], Idle)
    BY <1>3 DEF Count, incrNextSenderMsgSeqNum
  <2>2. cache.sender < MaxNum
    BY <2>1 DEF Working, Inv, SetOK, InUse
  <2>3. c.sender = cache.sender + 1 /\ c.target = cache.target /\ cache.sender + 1 \in Numbers
    BY <1>2, <2>2 DEF Inv, TypeOK, Numbers
  <2>4. /\ c \in [sender : Numbers, target : Numbers, created : 0..MaxTime]
        /\ cache.sender <= c.sender /\ cache.target <= c.target
    BY <1>2, <2>3
  <2> HIDE DEF c
  <2>5. QED
    BY <2>1, <2>4, PairAdvances DEF Durable!DNext
<1>4. CASE CountDelivered
  <2> DEFINE c == [cache EXCEPT !.target = @ + 1]
  <2>1. Working("idle") /\ SetSeqNum(c, Idle, Idle) /\ inHand # 0
    BY <1>4 DEF CountDelivered, incrNextTargetMsgSeqNum
  <2>2. cache.target < MaxIn
    BY <2>1 DEF Inv, NumbersOK
  <2>3. c.sender = cache.sender /\ c.target = cache.target + 1 /\ cache.target + 1 \in Numbers
    BY <1>2, <2>2, StoreClientAssumption DEF Inv, TypeOK, Numbers
  <2>4. /\ c \in [sender : Numbers, target : Numbers, created : 0..MaxTime]
        /\ cache.sender <= c.sender /\ cache.target <= c.target
    BY <1>2, <2>3
  <2> HIDE DEF c
  <2>5. QED
    BY <2>1, <2>4, PairAdvances DEF Durable!DNext
<1>5. ASSUME NEW n \in Numbers, Fill(n) PROVE Durable!DNext \/ UNCHANGED Durable!dvars
  <2> DEFINE c == [cache EXCEPT !.target = n]
  <2>1. Working("idle") /\ SetSeqNum(c, Idle, Idle) /\ n > cache.target
    BY <1>5 DEF Fill, setNextTargetMsgSeqNum
  <2>2. n \in Nat /\ c.sender = cache.sender /\ c.target = n
    BY <1>2 DEF Numbers
  <2>3. /\ c \in [sender : Numbers, target : Numbers, created : 0..MaxTime]
        /\ cache.sender <= c.sender /\ cache.target <= c.target
    BY <1>2, <2>1, <2>2
  <2> HIDE DEF c
  <2>4. QED
    BY <2>1, <2>3, PairAdvances DEF Durable!DNext
<1>6. ASSUME ResetStore(cache.created + 1) PROVE Durable!DNext
  <2>1. InUse /\ exists' = exists \ {"body"}
    BY <1>6 DEF ResetStore, Reset, Working, InUse, Unlink, FileOrder
  <2>2. Complete /\ ~Complete'
    BY <2>1 DEF Inv, PhaseOK, Complete, Files
  <2>3. QED
    BY <2>2, RecordLost DEF Durable!DNext
<1>7. CASE RefreshStore
  <2>1. InUse /\ op.name = "idle" /\ CloseStreams /\ UNCHANGED <<exists, seqnums, session>>
    BY <1>7 DEF RefreshStore, Refresh, Working, InUse
  <2>2. Grows(cache.sender)
    BY <2>1, CloseGrows
  <2>3. QED
    BY <2>1, <2>2, UseGrows, GrowthHidden
<1>8. CASE \/ Transmit \/ (\E n \in Numbers : Resend(n)) \/ Deliver \/ StartStore(1)
           \/ OpenGivesUp \/ UNCHANGED vars
  <2>1. UNCHANGED files
    BY <1>8 DEF Transmit, Resend, Deliver, StartStore, Start, OpenGivesUp, OpenFails, vars, storeVars
  <2>2. QED
    BY <2>1, FilesSame
<1>9. CASE OpenGoesOn
  BY <1>9, OpenRefines DEF Durable!DNext
<1>10. CASE Stop
  BY <1>10, StopRefines
<1>11. QED
  BY <1>1, <1>3, <1>4, <1>5, <1>6, <1>7, <1>8, <1>9, <1>10 DEF Next

LEMMA InitRefines == ASSUME Init PROVE Durable!DInit
<1>1. ~Complete
  BY DEF Init, StoreInit, Complete
<1>2. /\ FileRecord = [n \in Numbers |-> NoText] /\ FileSender = 1 /\ FileTarget = 1
      /\ FileCreated = 0 /\ Complete = FALSE
  BY <1>1 DEF FileRecord, FileSender, FileTarget, FileCreated
<1>3. QED
  BY <1>2 DEF Durable!DInit, Durable!Empty, FileRecord, FileSender, FileTarget, FileCreated

(* The four files, written one after the other by a process that may stop  *)
(* between any two writes, implement a record that changes in single       *)
(* steps: numbers and texts only grow, and a reset replaces all or         *)
(* nothing.                                                                *)
THEOREM FilesAreDurable == Spec => KeepsRecords
<1>1. Init => Durable!DInit
  BY InitRefines
<1>2. Inv /\ [Next]_vars => [Durable!DNext]_(Durable!dvars)
  BY StepRefines
<1>3. QED
  BY <1>1, <1>2, StoreInv, PTL DEF Spec, KeepsRecords, Durable!DSpec
=============================================================================
