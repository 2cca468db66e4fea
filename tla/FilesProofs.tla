----------------------------- MODULE FilesProofs -----------------------------
(***************************************************************************)
(* Proofs about Files for any nodes, paths, handles, lengths and bytes:    *)
(* what write_all_at and read_at do to the contents of a file, and when    *)
(* an offset can be past its end.                                          *)
(***************************************************************************)
EXTENDS Files, SequenceTheorems, TLAPS

-----------------------------------------------------------------------------
(* The inductive invariant.                                                 *)

Content == Seq(Bytes \cup {0})
FileData ==
  [inode : Nat, can_write : BOOLEAN, path : Paths, on : Nodes, holder : Nodes]

\* The types of the files' contents and of what is open.
TypeOK ==
  /\ data \in Seq(Content)
  /\ DOMAIN files \subseteq Handles
  /\ \A h \in DOMAIN files : files[h] \in FileData
  /\ seen \in [Handles -> Nat]

\* Every path and every File leads to an inode that there is.
InodesExist ==
  /\ \A n \in DOMAIN fs : \A p \in DOMAIN fs[n] : fs[n][p] \in Inodes
  /\ \A h \in DOMAIN files : files[h].inode \in Inodes

\* A File has the inode of the path it was opened by, as long as there is its node: no
\* path ever gets another inode or is removed, and a deleted node does not come back.
PathsKept ==
  /\ unused \cap DOMAIN fs = {}
  /\ \A h \in DOMAIN files : files[h].on \notin unused
  /\ \A h \in DOMAIN files : files[h].on \in DOMAIN fs =>
       /\ files[h].path \in DOMAIN fs[files[h].on]
       /\ fs[files[h].on][files[h].path] = files[h].inode

\* What a task was told of the length is still there, unless the file was cut.
SeenWithin ==
  /\ \A h \in Handles \ DOMAIN files : seen[h] = 0
  /\ \A h \in DOMAIN files \ cut : seen[h] <= LenOf(h)

FilesInv == TypeOK /\ InodesExist /\ PathsKept /\ SeenWithin /\ PanicMeansTruncated

-----------------------------------------------------------------------------
(* Contents of a file.                                                      *)

\* W is the sequences A, B, C and D one after the other.
Joined(W, A, B, C, D) ==
  /\ Len(W) = Len(A) + Len(B) + Len(C) + Len(D)
  /\ \A k \in 1 .. Len(A) : W[k] = A[k]
  /\ \A k \in 1 .. Len(B) : W[Len(A) + k] = B[k]
  /\ \A k \in 1 .. Len(C) : W[Len(A) + Len(B) + k] = C[k]
  /\ \A k \in 1 .. Len(D) : W[Len(A) + Len(B) + Len(C) + k] = D[k]

\* That is what concatenation gives.
LEMMA FourParts ==
  ASSUME NEW S, NEW A \in Seq(S), NEW B \in Seq(S), NEW C \in Seq(S), NEW D \in Seq(S)
  PROVE  A \o B \o C \o D \in Seq(S) /\ Joined(A \o B \o C \o D, A, B, C, D)
<1>1. Len(A) \in Nat /\ Len(B) \in Nat /\ Len(C) \in Nat /\ Len(D) \in Nat
  OBVIOUS
<1>2. /\ A \o B \in Seq(S) /\ Len(A \o B) = Len(A) + Len(B)
      /\ \A k \in 1 .. Len(A) : (A \o B)[k] = A[k]
      /\ \A k \in 1 .. Len(B) : (A \o B)[Len(A) + k] = B[k]
  BY <1>1
<1>3. PICK X : X = A \o B
  OBVIOUS
<1>4. /\ X \o C \in Seq(S) /\ Len(X \o C) = Len(X) + Len(C)
      /\ \A k \in 1 .. Len(X) : (X \o C)[k] = X[k]
      /\ \A k \in 1 .. Len(C) : (X \o C)[Len(X) + k] = C[k]
  BY <1>1, <1>2, <1>3
<1>5. PICK Y : Y = X \o C
  OBVIOUS
<1>6. /\ Y \o D \in Seq(S) /\ Len(Y \o D) = Len(Y) + Len(D)
      /\ \A k \in 1 .. Len(Y) : (Y \o D)[k] = Y[k]
      /\ \A k \in 1 .. Len(D) : (Y \o D)[Len(Y) + k] = D[k]
  BY <1>1, <1>4, <1>5
<1>7. PICK Z : Z = Y \o D
  OBVIOUS
<1>8. /\ Z \in Seq(S) /\ Len(Z) = Len(A) + Len(B) + Len(C) + Len(D)
      /\ \A k \in 1 .. Len(A) : Z[k] = A[k]
      /\ \A k \in 1 .. Len(B) : Z[Len(A) + k] = B[k]
      /\ \A k \in 1 .. Len(C) : Z[Len(A) + Len(B) + k] = C[k]
      /\ \A k \in 1 .. Len(D) : Z[Len(A) + Len(B) + Len(C) + k] = D[k]
  <2>1. Len(X) = Len(A) + Len(B) /\ Len(Y) = Len(A) + Len(B) + Len(C)
    BY <1>2, <1>3, <1>4, <1>5
  <2>2. \A k \in 1 .. Len(Y) : Z[k] = Y[k]
    BY <1>6, <1>7
  <2>3. \A k \in 1 .. Len(X) : Y[k] = X[k]
    BY <1>4, <1>5
  <2>4. \A k \in 1 .. Len(A) : X[k] = A[k]
    BY <1>2, <1>3
  <2>5. \A k \in 1 .. Len(B) : X[Len(A) + k] = B[k]
    BY <1>2, <1>3
  <2>6. \A k \in 1 .. Len(C) : Y[Len(X) + k] = C[k]
    BY <1>4, <1>5
  <2>7. \A k \in 1 .. Len(D) : Z[Len(Y) + k] = D[k]
    BY <1>6, <1>7
  <2>8. Z \in Seq(S) /\ Len(Z) = Len(Y) + Len(D)
    BY <1>6, <1>7
  <2>9. \A k \in 1 .. Len(A) : Z[k] = A[k]
    BY <1>1, <2>1, <2>2, <2>3, <2>4
  <2>10. ASSUME NEW k \in 1 .. Len(B)
         PROVE  Z[Len(A) + k] = B[k]
    <3>1. Len(A) + k \in 1 .. Len(X) /\ Len(A) + k \in 1 .. Len(Y)
      BY <1>1, <2>1
    <3> QED
      BY <2>2, <2>3, <2>5, <3>1
  <2>11. \A k \in 1 .. Len(C) : Z[Len(A) + Len(B) + k] = C[k]
    BY <1>1, <2>1, <2>2, <2>6
  <2>12. \A k \in 1 .. Len(D) : Z[Len(A) + Len(B) + Len(C) + k] = D[k]
    BY <2>1, <2>7
  <2> QED
    BY <2>1, <2>8, <2>9, <2>10, <2>11, <2>12
<1>9. Z = A \o B \o C \o D
  BY <1>3, <1>5, <1>7
<1> QED
  BY <1>8, <1>9 DEF Joined

\* write_all_at: the length is that of the file, or the end of the buffer if it reaches
\* further, and every byte is the buffer's where the buffer is.
LEMMA WriteContents ==
  ASSUME NEW S, NEW d \in Seq(S), NEW buf \in Seq(S), NEW offset \in 0 .. Len(d)
  PROVE  /\ WriteAllAt(d, buf, offset) \in Seq(S)
         /\ Len(WriteAllAt(d, buf, offset)) =
              IF offset + Len(buf) > Len(d) THEN offset + Len(buf) ELSE Len(d)
         /\ \A k \in 1 .. Len(WriteAllAt(d, buf, offset)) :
              WriteAllAt(d, buf, offset)[k] = Written(d, buf, offset, k)
<1> DEFINE end == MinLen(Len(d), offset + Len(buf))
<1> DEFINE len == end - offset
<1>1. Len(d) \in Nat /\ Len(buf) \in Nat /\ offset \in Nat
  OBVIOUS
<1>2. end \in offset .. Len(d) /\ len \in 0 .. Len(buf) /\ end \in Nat
  BY <1>1 DEF MinLen
<1>3. (\A k \in 1 .. Len(d) : d[k] \in S) /\ (\A k \in 1 .. Len(buf) : buf[k] \in S)
  BY ElementOfSeq
<1>12. end = IF Len(d) <= offset + Len(buf) THEN Len(d) ELSE offset + Len(buf)
  BY DEF MinLen
<1> HIDE DEF end
<1>4. /\ SubSeq(d, 1, offset) \in Seq(S) /\ Len(SubSeq(d, 1, offset)) = offset
      /\ \A k \in 1 .. offset : SubSeq(d, 1, offset)[k] = d[k]
  <2>1. \A k \in 1 .. offset : d[k] \in S
    BY <1>1, <1>3
  <2> QED
    BY <1>1, <2>1, SubSeqProperties
<1>5. /\ SubSeq(buf, 1, len) \in Seq(S) /\ Len(SubSeq(buf, 1, len)) = len
      /\ \A k \in 1 .. len : SubSeq(buf, 1, len)[k] = buf[k]
  <2>1. \A k \in 1 .. len : buf[k] \in S
    BY <1>1, <1>2, <1>3
  <2>2. len \in Nat
    BY <1>1, <1>2
  <2> HIDE DEF len
  <2> QED
    BY <2>1, <2>2, SubSeqProperties
<1>6. /\ SubSeq(d, end + 1, Len(d)) \in Seq(S)
      /\ Len(SubSeq(d, end + 1, Len(d))) = Len(d) - end
      /\ \A k \in 1 .. Len(d) - end : SubSeq(d, end + 1, Len(d))[k] = d[end + k]
  <2>1. \A k \in end + 1 .. Len(d) : d[k] \in S
    BY <1>1, <1>2, <1>3
  <2>2. end + 1 \in Int /\ Len(d) \in Int
    BY <1>1, <1>2
  <2>3. /\ SubSeq(d, end + 1, Len(d)) \in Seq(S)
        /\ Len(SubSeq(d, end + 1, Len(d))) =
             IF end + 1 <= Len(d) THEN Len(d) - (end + 1) + 1 ELSE 0
        /\ \A k \in 1 .. Len(d) - (end + 1) + 1 :
             SubSeq(d, end + 1, Len(d))[k] = d[end + 1 + k - 1]
    BY <2>1, <2>2, SubSeqProperties
  <2> QED
    BY <1>1, <1>2, <2>3
<1>7. /\ SubSeq(buf, len + 1, Len(buf)) \in Seq(S)
      /\ Len(SubSeq(buf, len + 1, Len(buf))) = Len(buf) - len
      /\ \A k \in 1 .. Len(buf) - len : SubSeq(buf, len + 1, Len(buf))[k] = buf[len + k]
  <2>0. len \in 0 .. Len(buf)
    BY <1>2
  <2> HIDE DEF len
  <2>1. \A k \in len + 1 .. Len(buf) : buf[k] \in S
    BY <1>1, <2>0, <1>3
  <2>2. len + 1 \in Int /\ Len(buf) \in Int
    BY <1>1, <2>0
  <2>3. /\ SubSeq(buf, len + 1, Len(buf)) \in Seq(S)
        /\ Len(SubSeq(buf, len + 1, Len(buf))) =
             IF len + 1 <= Len(buf) THEN Len(buf) - (len + 1) + 1 ELSE 0
        /\ \A k \in 1 .. Len(buf) - (len + 1) + 1 :
             SubSeq(buf, len + 1, Len(buf))[k] = buf[len + 1 + k - 1]
    BY <2>1, <2>2, SubSeqProperties
  <2> QED
    BY <1>1, <2>0, <2>3
<1>8. PICK A : A = SubSeq(d, 1, offset)
  OBVIOUS
<1>9. PICK B : B = SubSeq(buf, 1, len)
  OBVIOUS
<1>10. PICK C : C = SubSeq(d, end + 1, Len(d))
  OBVIOUS
<1>11. PICK D : D = SubSeq(buf, len + 1, Len(buf))
  OBVIOUS
<1>13. PICK W : W = A \o B \o C \o D
  OBVIOUS
<1>14. W = WriteAllAt(d, buf, offset)
  BY <1>8, <1>9, <1>10, <1>11, <1>13 DEF WriteAllAt, end
<1>15. /\ A \in Seq(S) /\ B \in Seq(S) /\ C \in Seq(S) /\ D \in Seq(S)
       /\ Len(A) = offset /\ Len(B) = len /\ Len(C) = Len(d) - end
       /\ Len(D) = Len(buf) - len
  BY <1>4, <1>5, <1>6, <1>7, <1>8, <1>9, <1>10, <1>11
<1>16. /\ \A k \in 1 .. offset : A[k] = d[k]
       /\ \A k \in 1 .. len : B[k] = buf[k]
       /\ \A k \in 1 .. Len(d) - end : C[k] = d[end + k]
       /\ \A k \in 1 .. Len(buf) - len : D[k] = buf[len + k]
  BY <1>4, <1>5, <1>6, <1>7, <1>8, <1>9, <1>10, <1>11
<1>17. /\ W \in Seq(S) /\ Len(W) = offset + len + (Len(d) - end) + (Len(buf) - len)
       /\ \A k \in 1 .. offset : W[k] = A[k]
       /\ \A k \in 1 .. len : W[offset + k] = B[k]
       /\ \A k \in 1 .. Len(d) - end : W[offset + len + k] = C[k]
       /\ \A k \in 1 .. Len(buf) - len : W[offset + len + (Len(d) - end) + k] = D[k]
  <2>1. W \in Seq(S) /\ Joined(W, A, B, C, D)
    BY <1>13, <1>15, FourParts
  <2> QED
    BY <1>15, <2>1 DEF Joined
<1>18. Len(W) = IF offset + Len(buf) > Len(d) THEN offset + Len(buf) ELSE Len(d)
  <2>1. Len(W) = offset + len + (Len(d) - end) + (Len(buf) - len)
    BY <1>17
  <2>2. len \in Nat /\ end \in Nat /\ len = end - offset
    BY <1>2
  <2> HIDE DEF len
  <2>3. Len(W) = offset + (Len(d) - end) + Len(buf)
    BY <1>1, <2>1, <2>2
  <2>4. CASE Len(d) <= offset + Len(buf)
    <3>1. end = Len(d)
      BY <1>12, <2>4
    <3>2. Len(W) = offset + Len(buf)
      BY <1>1, <2>3, <3>1
    <3> QED
      BY <1>1, <2>4, <3>2
  <2>5. CASE ~(Len(d) <= offset + Len(buf))
    <3>1. end = offset + Len(buf)
      BY <1>12, <2>5
    <3>2. Len(W) = Len(d)
      BY <1>1, <2>3, <3>1
    <3> QED
      BY <1>1, <2>5, <3>2
  <2> QED
    BY <2>4, <2>5
<1>19. ASSUME NEW k \in 1 .. Len(W)
       PROVE  W[k] = Written(d, buf, offset, k)
  <2>1. CASE k <= offset
    <3>1. k \in 1 .. offset /\ k \notin offset + 1 .. offset + Len(buf)
      BY <1>1, <1>19, <2>1
    <3> QED
      BY <1>16, <1>17, <3>1 DEF Written
  <2>2. CASE offset < k /\ k <= end
    <3>1. PICK j \in 1 .. len : k = offset + j
      BY <1>1, <1>2, <1>18, <1>19, <2>2
    <3>2. k \in offset + 1 .. offset + Len(buf) /\ k - offset = j
      BY <1>1, <1>2, <3>1
    <3> QED
      BY <1>16, <1>17, <3>1, <3>2 DEF Written
  <2>3. CASE end < k /\ k <= Len(d)
    <3>1. PICK j \in 1 .. Len(d) - end : k = end + j
      BY <1>1, <1>2, <1>18, <1>19, <2>3
    <3>2. k \notin offset + 1 .. offset + Len(buf) /\ offset + len + j = k
      BY <1>1, <1>2, <1>12, <2>3, <3>1
    <3> QED
      BY <1>16, <1>17, <3>1, <3>2 DEF Written
  <2>4. CASE Len(d) < k
    <3>1. end = Len(d)
      BY <1>1, <1>12, <1>18, <1>19, <2>4
    <3>2. PICK j \in 1 .. Len(buf) - len : k = Len(d) + j
      BY <1>1, <1>2, <1>18, <1>19, <2>4, <3>1
    <3>3. /\ offset + len + (Len(d) - end) + j = k /\ k - offset = len + j
          /\ k \in offset + 1 .. offset + Len(buf)
      BY <1>1, <1>2, <3>1, <3>2
    <3> QED
      BY <1>16, <1>17, <3>2, <3>3 DEF Written
  <2> QED
    BY <1>1, <1>2, <1>18, <1>19, <2>1, <2>2, <2>3, <2>4
<1> QED
  BY <1>14, <1>17, <1>18, <1>19

\* read_at after write_all_at, at the same offset and of the same length, gives the buffer.
LEMMA ReadBack ==
  ASSUME NEW S, NEW d \in Seq(S), NEW buf \in Seq(S), NEW offset \in 0 .. Len(d)
  PROVE  ReadAt(WriteAllAt(d, buf, offset), Len(buf), offset) = buf
<1>1. PICK W : W = WriteAllAt(d, buf, offset)
  OBVIOUS
<1>2. /\ W \in Seq(S)
      /\ Len(W) = IF offset + Len(buf) > Len(d) THEN offset + Len(buf) ELSE Len(d)
      /\ \A k \in 1 .. Len(W) : W[k] = Written(d, buf, offset, k)
  BY <1>1, WriteContents
<1>3. Len(d) \in Nat /\ Len(buf) \in Nat /\ offset \in Nat
  OBVIOUS
<1>4. MinLen(Len(W), offset + Len(buf)) = offset + Len(buf)
  BY <1>2, <1>3 DEF MinLen
<1>5. ReadAt(W, Len(buf), offset) = SubSeq(W, offset + 1, offset + Len(buf))
  BY <1>4 DEF ReadAt
<1>6. PICK R : R = SubSeq(W, offset + 1, offset + Len(buf))
  OBVIOUS
<1>7. \A k \in offset + 1 .. offset + Len(buf) : k \in 1 .. Len(W)
  BY <1>2, <1>3
<1>8. \A k \in offset + 1 .. offset + Len(buf) : W[k] \in S
  BY <1>2, <1>7, ElementOfSeq
<1>9. /\ R \in Seq(S)
      /\ Len(R) = IF offset + 1 <= offset + Len(buf)
                  THEN offset + Len(buf) - (offset + 1) + 1 ELSE 0
      /\ \A j \in 1 .. offset + Len(buf) - (offset + 1) + 1 : R[j] = W[offset + 1 + j - 1]
  BY <1>3, <1>6, <1>8, SubSeqProperties
<1>10. Len(R) = Len(buf) /\ \A j \in 1 .. Len(buf) : R[j] = W[offset + j]
  BY <1>3, <1>9
<1>11. ASSUME NEW j \in 1 .. Len(buf)
       PROVE  R[j] = buf[j]
  <2>1. offset + j \in offset + 1 .. offset + Len(buf) /\ offset + j - offset = j
    BY <1>3
  <2> QED
    BY <1>2, <1>7, <1>10, <2>1 DEF Written
<1>12. R = buf
  BY <1>9, <1>10, <1>11, SeqEqual
<1> QED
  BY <1>1, <1>5, <1>6, <1>12

\* The buffers of the clients are sequences of their bytes.
LEMMA BufIsSeq == \A buf \in Bufs : buf \in Seq(Bytes \cup {0})
<1> SUFFICES ASSUME NEW buf \in Bufs PROVE buf \in Seq(Bytes \cup {0})
  OBVIOUS
<1>1. PICK m \in 0 .. MaxLen : buf \in [1 .. m -> Bytes]
  BY DEF Bufs, BoundedSeq, SeqOf
<1>2. m \in Nat
  BY FilesAssumption
<1> QED
  BY <1>1, <1>2

\* Vec::resize gives contents of the new length.
LEMMA ResizeContents ==
  ASSUME NEW d \in Content, NEW size \in Nat
  PROVE  Resize(d, size) \in Content /\ Len(Resize(d, size)) = size
<1>1. Resize(d, size) \in [1 .. size -> Bytes \cup {0}]
  <2>1. ASSUME NEW k \in 1 .. size
        PROVE  (IF k <= Len(d) THEN d[k] ELSE 0) \in Bytes \cup {0}
    <3>1. CASE k <= Len(d)
      BY <3>1, ElementOfSeq DEF Content
    <3> QED
      BY <3>1
  <2> QED
    BY <2>1 DEF Resize
<1>2. Resize(d, size) \in Content
  BY <1>1 DEF Content
<1> QED
  BY <1>1, <1>2, LenProperties DEF Content

-----------------------------------------------------------------------------
(* The invariant is kept.                                                   *)

\* What the invariant says of the contents and lengths, by inode.
LEMMA InodeFacts ==
  ASSUME TypeOK, InodesExist
  PROVE  /\ Len(data) \in Nat
         /\ \A i \in Inodes : data[i] \in Content /\ Len(data[i]) \in Nat
         /\ \A h \in DOMAIN files : files[h].inode \in Inodes /\ LenOf(h) \in Nat
<1>1. Len(data) \in Nat
  BY DEF TypeOK
<1>2. ASSUME NEW i \in Inodes
      PROVE  data[i] \in Content /\ Len(data[i]) \in Nat
  <2>1. data[i] \in Content
    BY <1>2, ElementOfSeq DEF TypeOK, Inodes
  <2> QED
    BY <2>1 DEF Content
<1> QED
  BY <1>1, <1>2 DEF InodesExist, LenOf

\* A step that changes the contents of one inode only, and notes who may have seen more
\* than there is now, keeps the invariant: truncation, set_len and writes.
LEMMA ContentStep ==
  ASSUME FilesInv, NEW i \in Inodes, NEW d \in Content,
         data' = [data EXCEPT ![i] = d], UNCHANGED <<fs, unused, files, seen, panic>>,
         cut' = cut \cup OnInode(i) \/ (cut' = cut /\ Len(d) >= Len(data[i]))
  PROVE  FilesInv'
<1> USE DEF FilesInv
<1>0. /\ Len(data) \in Nat
      /\ \A j \in Inodes : data[j] \in Content /\ Len(data[j]) \in Nat
      /\ \A h \in DOMAIN files : files[h].inode \in Inodes /\ LenOf(h) \in Nat
  BY InodeFacts
<1>1. /\ data' \in Seq(Content) /\ Len(data') = Len(data)
      /\ \A j \in Inodes : data'[j] = IF j = i THEN d ELSE data[j]
  BY ExceptSeq DEF TypeOK, Inodes
<1>2. TypeOK'
  BY <1>1 DEF TypeOK
<1>3. InodesExist' /\ PathsKept'
  BY <1>1 DEF InodesExist, PathsKept, Inodes
<1>4. SeenWithin'
  <2>1. \A h \in Handles \ DOMAIN files' : seen'[h] = 0
    BY DEF SeenWithin
  <2>2. ASSUME NEW h \in DOMAIN files' \ cut'
        PROVE  seen'[h] <= LenOf(h)'
    <3>1. h \in DOMAIN files \ cut /\ seen'[h] = seen[h] /\ seen[h] <= LenOf(h)
      BY <2>2 DEF SeenWithin
    <3>2. LenOf(h)' = IF files[h].inode = i THEN Len(d) ELSE LenOf(h)
      BY <1>0, <1>1, <3>1 DEF LenOf
    <3>3. CASE files[h].inode = i
      <4>1. h \in Handles
        BY <3>1 DEF TypeOK
      <4>2. h \in OnInode(i)
        BY <3>1, <3>3, <4>1 DEF OnInode, Open
      <4>3. Len(d) >= Len(data[i])
        BY <2>2, <4>2
      <4>4. LenOf(h) = Len(data[i]) /\ Len(d) \in Nat /\ LenOf(h) \in Nat /\ seen[h] \in Nat
        BY <1>0, <3>1, <3>3, <4>1 DEF LenOf, Content, TypeOK
      <4> QED
        BY <3>1, <3>2, <3>3, <4>3, <4>4
    <3> QED
      BY <3>1, <3>2, <3>3
  <2> QED
    BY <2>1, <2>2 DEF SeenWithin
<1>5. PanicMeansTruncated'
  BY DEF PanicMeansTruncated
<1> QED
  BY <1>2, <1>3, <1>4, <1>5

\* A step opens h on inode i, which is there or was just made, by path p of node n: it
\* leaves the others their inodes and paths, and cuts whom it takes their contents from.
Opens(h, n, p, i, w) ==
  /\ ~Open(h) /\ n \in DOMAIN fs
  /\ files' = With(files, h,
       [inode |-> i, can_write |-> w, path |-> p, on |-> n, holder |-> n])
  /\ data' \in Seq(Content) /\ i \in 1 .. Len(data') /\ Len(data') >= Len(data)
  /\ \A j \in Inodes \ {i} : data'[j] = data[j]
  /\ i \in Inodes => data'[i] = data[i] \/ OnInode(i) \subseteq cut'
  /\ cut \subseteq cut'
  /\ \/ fs' = [fs EXCEPT ![n] = With(@, p, i)]
     \/ fs' = fs /\ p \in DOMAIN fs[n]
  /\ p \in DOMAIN fs[n] => fs[n][p] = i
  /\ UNCHANGED <<unused, seen, panic>>

\* Such a step keeps the invariant.
LEMMA OpenStep ==
  ASSUME FilesInv, NEW h \in Handles, NEW n \in Nodes, NEW p \in Paths, NEW i,
         NEW w \in BOOLEAN, Opens(h, n, p, i, w)
  PROVE  FilesInv'
<1> USE DEF FilesInv, Opens
<1>0. /\ Len(data) \in Nat
      /\ \A j \in Inodes : data[j] \in Content /\ Len(data[j]) \in Nat
      /\ \A g \in DOMAIN files : files[g].inode \in Inodes /\ LenOf(g) \in Nat
  BY InodeFacts
<1>1. /\ DOMAIN files' = DOMAIN files \cup {h} /\ h \notin DOMAIN files
      /\ \A g \in DOMAIN files : files'[g] = files[g]
      /\ files'[h] = [inode |-> i, can_write |-> w, path |-> p, on |-> n, holder |-> n]
  BY DEF With, Open
<1>2. /\ DOMAIN fs' = DOMAIN fs
      /\ \A m \in DOMAIN fs \ {n} : fs'[m] = fs[m]
      /\ DOMAIN fs'[n] = DOMAIN fs[n] \cup {p} /\ fs'[n][p] = i
      /\ \A q \in DOMAIN fs[n] : fs'[n][q] = fs[n][q]
  BY DEF With
<1>3. Len(data') \in Nat /\ Inodes \subseteq Inodes' /\ i \in Inodes'
  <2>1. Len(data') \in Nat
    OBVIOUS
  <2> QED
    BY <1>0, <2>1 DEF Inodes
<1>4. TypeOK'
  <2>1. i \in Nat
    BY <1>3
  <2>2. files'[h] \in FileData
    BY <1>1, <2>1 DEF FileData
  <2>3. DOMAIN files' \subseteq Handles /\ \A g \in DOMAIN files' : files'[g] \in FileData
    BY <1>1, <2>2 DEF TypeOK
  <2> QED
    BY <2>3 DEF TypeOK
<1>5. InodesExist'
  BY <1>1, <1>2, <1>3 DEF InodesExist
<1>6. PathsKept'
  <2>1. n \notin unused
    BY DEF PathsKept
  <2>2. files'[h].on = n /\ files'[h].path = p /\ files'[h].inode = i
    BY <1>1
  <2>3. ASSUME NEW g \in DOMAIN files', files'[g].on \in DOMAIN fs'
        PROVE  /\ files'[g].path \in DOMAIN fs'[files'[g].on]
               /\ fs'[files'[g].on][files'[g].path] = files'[g].inode
    <3>1. CASE g = h
      BY <1>2, <2>2, <3>1
    <3>2. CASE g # h
      <4>1. g \in DOMAIN files /\ files'[g] = files[g] /\ files[g].on \in DOMAIN fs
        BY <1>1, <1>2, <2>3, <3>2
      <4>2. /\ files[g].path \in DOMAIN fs[files[g].on]
            /\ fs[files[g].on][files[g].path] = files[g].inode
        BY <4>1 DEF PathsKept
      <4> QED
        BY <1>2, <4>1, <4>2
    <3> QED
      BY <3>1, <3>2
  <2>4. \A g \in DOMAIN files' : files'[g].on \notin unused'
    BY <1>1, <2>1, <2>2 DEF PathsKept
  <2>5. unused' \cap DOMAIN fs' = {}
    BY <1>2 DEF PathsKept
  <2> QED
    BY <2>3, <2>4, <2>5 DEF PathsKept
<1>7. SeenWithin'
  <2>1. \A g \in Handles \ DOMAIN files' : seen'[g] = 0
    BY <1>1 DEF SeenWithin
  <2>2. ASSUME NEW g \in DOMAIN files' \ cut'
        PROVE  seen'[g] <= LenOf(g)'
    <3>1. CASE g = h
      <4>1. seen'[g] = 0
        BY <1>1, <3>1 DEF SeenWithin
      <4>2. LenOf(g)' = Len(data'[i])
        BY <1>1, <3>1 DEF LenOf
      <4>3. Len(data'[i]) \in Nat
        <5>1. data'[i] \in Content
          BY ElementOfSeq
        <5> QED
          BY <5>1 DEF Content
      <4> QED
        BY <4>1, <4>2, <4>3
    <3>2. CASE g # h
      <4>1. g \in DOMAIN files \ cut /\ seen'[g] = seen[g] /\ seen[g] <= LenOf(g)
            /\ files'[g] = files[g] /\ g \in Handles
        BY <1>1, <2>2, <3>2 DEF SeenWithin, TypeOK
      <4>2. g \in OnInode(files[g].inode) /\ files[g].inode \in Inodes
        BY <1>0, <4>1 DEF OnInode, Open
      <4>3. data'[files[g].inode] = data[files[g].inode]
        BY <2>2, <4>2
      <4> QED
        BY <4>1, <4>3 DEF LenOf
    <3> QED
      BY <3>1, <3>2
  <2> QED
    BY <2>1, <2>2 DEF SeenWithin
<1>8. PanicMeansTruncated'
  BY DEF PanicMeansTruncated
<1> QED
  BY <1>4, <1>5, <1>6, <1>7, <1>8

\* A step that drops the files of G, with what their tasks were told, keeps the invariant,
\* whether their node stays or goes.
LEMMA DropStep ==
  ASSUME FilesInv, NEW G, files' = Without(files, G),
         seen' = [h \in Handles |-> IF h \in G THEN 0 ELSE seen[h]], cut' = cut \ G,
         fs' = fs \/ \E n \in Nodes : fs' = Without(fs, {n}),
         panic = Running, UNCHANGED <<unused, data, panic>>
  PROVE  FilesInv'
<1> USE DEF FilesInv
<1>1. /\ DOMAIN files' = DOMAIN files \ G
      /\ \A h \in DOMAIN files' : files'[h] = files[h]
  BY DEF Without
<1>2. DOMAIN fs' \subseteq DOMAIN fs /\ \A m \in DOMAIN fs' : fs'[m] = fs[m]
  BY DEF Without
<1>3. TypeOK'
  BY <1>1 DEF TypeOK
<1>4. InodesExist'
  BY <1>1, <1>2 DEF InodesExist, Inodes
<1>5. PathsKept'
  BY <1>1, <1>2 DEF PathsKept
<1>6. SeenWithin'
  BY <1>1 DEF SeenWithin, LenOf, TypeOK
<1>7. PanicMeansTruncated'
  BY DEF PanicMeansTruncated, Running
<1> QED
  BY <1>3, <1>4, <1>5, <1>6, <1>7

\* A step that tells h a length of its file keeps the invariant.
LEMMA ToldStep ==
  ASSUME FilesInv, NEW h \in Handles, Open(h), seen' = [seen EXCEPT ![h] = LenOf(h)],
         cut' = cut \ {h}, panic = Running, UNCHANGED <<fs, unused, data, files, panic>>
  PROVE  FilesInv'
<1> USE DEF FilesInv
<1>0. LenOf(h) \in Nat
  BY InodeFacts DEF Open
<1>1. TypeOK' /\ InodesExist' /\ PathsKept'
  BY <1>0 DEF TypeOK, InodesExist, PathsKept, Inodes
<1>2. SeenWithin'
  BY <1>0 DEF SeenWithin, LenOf, TypeOK, Open
<1>3. PanicMeansTruncated'
  BY DEF PanicMeansTruncated, Running
<1> QED
  BY <1>1, <1>2, <1>3

\* A read or write at an offset the task was told of, but past the end, panics; it was
\* told of it before the file was cut.
LEMMA PanicStep ==
  ASSUME FilesInv, NEW h \in Handles, Open(h), NEW o \in 0 .. MaxLen, o <= seen[h],
         PanicAt(h, o)
  PROVE  FilesInv'
<1> USE DEF FilesInv
<1>1. TypeOK' /\ InodesExist' /\ PathsKept' /\ SeenWithin'
  BY DEF PanicAt, TypeOK, InodesExist, Inodes, PathsKept, SeenWithin, LenOf
<1>2. h \in cut
  <2>1. LenOf(h) \in Nat /\ seen[h] \in Nat /\ o \in Nat
    BY InodeFacts, FilesAssumption DEF Open, TypeOK
  <2>2. ~(seen[h] <= LenOf(h))
    BY <2>1 DEF PanicAt
  <2> QED
    BY <2>2 DEF SeenWithin, Open
<1>3. PanicMeansTruncated'
  BY <1>2 DEF PanicAt, PanicMeansTruncated
<1> QED
  BY <1>1, <1>3

\* Every step of a File keeps the invariant.
LEMMA FileStepKeeps ==
  ASSUME FilesInv, panic = Running, NEW h \in Handles, FileStep(h)
  PROVE  FilesInv'
<1> USE DEF FilesInv
<1>0. /\ Len(data) \in Nat
      /\ \A i \in Inodes : data[i] \in Content /\ Len(data[i]) \in Nat
      /\ \A g \in DOMAIN files : files[g].inode \in Inodes /\ LenOf(g) \in Nat
  BY InodeFacts
<1>1. CASE Close(h)
  <2>1. seen' = [g \in Handles |-> IF g \in {h} THEN 0 ELSE seen[g]]
    BY <1>1 DEF Close, TypeOK
  <2> QED
    BY <1>1, <2>1, DropStep DEF Close
<1>2. CASE Stat(h)
  BY <1>2, ToldStep DEF Stat
<1>3. CASE StatPath(h)
  <2>1. fs[files[h].on][files[h].path] = files[h].inode
    BY <1>3 DEF StatPath, Open, PathsKept
  <2> QED
    BY <1>3, <2>1, ToldStep DEF StatPath, LenOf
<1>4. ASSUME NEW n \in Nodes, Pass(h, n)
      PROVE  FilesInv'
  <2>1. /\ DOMAIN files' = DOMAIN files
        /\ files'[h] = [files[h] EXCEPT !.holder = n]
        /\ \A g \in DOMAIN files \ {h} : files'[g] = files[g]
    BY <1>4 DEF Pass, Open
  <2>2. files[h] \in FileData
    BY <1>4 DEF Pass, Open, TypeOK
  <2>3. files'[h] \in FileData /\ files'[h].inode = files[h].inode
        /\ files'[h].on = files[h].on /\ files'[h].path = files[h].path
    BY <2>1, <2>2 DEF FileData
  <2>4. TypeOK' /\ InodesExist' /\ PathsKept'
    BY <1>4, <2>1, <2>3 DEF Pass, TypeOK, InodesExist, PathsKept, Inodes
  <2>5. SeenWithin'
    BY <1>4, <2>1, <2>3 DEF Pass, SeenWithin, LenOf
  <2>6. PanicMeansTruncated'
    BY <1>4 DEF Pass, PanicMeansTruncated
  <2> QED
    BY <2>4, <2>5, <2>6
<1>5. ASSUME NEW n \in Nodes, NEW p \in Paths, OpenFile(h, n, p)
      PROVE  FilesInv'
  <2>1. /\ n \in DOMAIN fs /\ p \in DOMAIN fs[n] /\ ~Open(h)
        /\ UNCHANGED <<fs, unused, data, seen, cut, panic>>
    BY <1>5 DEF OpenFile
  <2>2. fs[n][p] \in Inodes
    BY <2>1 DEF InodesExist
  <2>3. With(files, h, [inode |-> fs[n][p], can_write |-> FALSE, path |-> p, on |-> n,
                        holder |-> n]) = files'
    BY <1>5 DEF OpenFile
  <2>4. data \in Seq(Content) /\ fs[n][p] \in 1 .. Len(data)
    BY <2>2 DEF TypeOK, Inodes
  <2>5. Opens(h, n, p, fs[n][p], FALSE)
    BY <1>0, <2>1, <2>3, <2>4 DEF Opens
  <2> QED
    BY <2>5, OpenStep
<1>6. ASSUME NEW n \in Nodes, NEW p \in Paths, CreateFile(h, n, p)
      PROVE  FilesInv'
  <2> DEFINE i == InodeFor(n, p)
  <2>1. /\ n \in DOMAIN fs /\ ~Open(h)
        /\ data' = IF i \in Inodes THEN [data EXCEPT ![i] = <<>>] ELSE Append(data, <<>>)
        /\ fs' = [fs EXCEPT ![n] = With(@, p, i)]
        /\ files' = With(files, h,
             [inode |-> i, can_write |-> TRUE, path |-> p, on |-> n, holder |-> n])
        /\ cut' = cut \cup OnInode(i)
        /\ UNCHANGED <<unused, seen, panic>>
    BY <1>6 DEF CreateFile
  <2>2. p \in DOMAIN fs[n] => i = fs[n][p] /\ i \in Inodes
    BY <2>1 DEF InodeFor, InodesExist
  <2>3. p \notin DOMAIN fs[n] => i = Len(data) + 1 /\ i \notin Inodes
    BY <1>0 DEF InodeFor, Inodes
  <2>4. <<>> \in Content
    BY DEF Content
  <2>5. CASE p \in DOMAIN fs[n]
    <3>1. /\ data' \in Seq(Content) /\ Len(data') = Len(data)
          /\ \A j \in Inodes \ {i} : data'[j] = data[j]
      BY <2>1, <2>2, <2>4, <2>5, ExceptSeq DEF TypeOK, Inodes
    <3>2. i \in 1 .. Len(data') /\ OnInode(i) \subseteq cut'
      BY <2>1, <2>2, <2>5, <3>1 DEF Inodes
    <3>3. Opens(h, n, p, i, TRUE)
      BY <1>0, <2>1, <2>2, <2>5, <3>1, <3>2 DEF Opens
    <3> QED
      BY <3>3, OpenStep
  <2>6. CASE p \notin DOMAIN fs[n]
    <3>1. data' = Append(data, <<>>)
      BY <2>1, <2>3, <2>6
    <3>2. /\ data' \in Seq(Content) /\ Len(data') = Len(data) + 1
          /\ \A j \in Inodes : data'[j] = data[j]
      BY <3>1, <2>4, AppendProperties DEF TypeOK, Inodes
    <3>3. i \in 1 .. Len(data')
      BY <1>0, <2>3, <2>6, <3>2
    <3>4. Opens(h, n, p, i, TRUE)
      <4>1. Len(data') >= Len(data) /\ i \notin Inodes
        BY <1>0, <2>3, <2>6, <3>2
      <4>2. cut \subseteq cut'
        BY <2>1
      <4> HIDE DEF i, FilesInv
      <4> QED
        BY <2>1, <2>6, <3>2, <3>3, <4>1, <4>2 DEF Opens
    <3> QED
      BY <3>4, OpenStep
  <2> QED
    BY <2>5, <2>6
<1>7. ASSUME NEW o \in 0 .. MaxLen, Read(h, o)
      PROVE  FilesInv'
  BY <1>7, PanicStep DEF Read
<1>8. ASSUME NEW o \in 0 .. MaxLen, SetLen(h, o)
      PROVE  FilesInv'
  <2> DEFINE i == files[h].inode
  <2>1. i \in Inodes /\ data[i] \in Content /\ o \in Nat
    BY <1>0, <1>8, FilesAssumption DEF SetLen, Open
  <2>2. Resize(data[i], o) \in Content /\ Len(Resize(data[i], o)) = o
    BY <2>1, ResizeContents
  <2>3. data' = [data EXCEPT ![i] = Resize(data[i], o)]
    BY <1>8 DEF SetLen
  <2>4. cut' = cut \cup OnInode(i) \/ (cut' = cut /\ Len(Resize(data[i], o)) >= Len(data[i]))
    BY <1>0, <1>8, <2>1, <2>2 DEF SetLen, LenOf
  <2>5. UNCHANGED <<fs, unused, files, seen, panic>>
    BY <1>8 DEF SetLen
  <2> HIDE DEF i
  <2> QED
    BY <2>1, <2>2, <2>3, <2>4, <2>5, ContentStep
<1>9. ASSUME NEW buf \in Bufs, NEW o \in 0 .. MaxLen, Write(h, buf, o)
      PROVE  FilesInv'
  <2>1. CASE PanicAt(h, o)
    BY <1>9, <2>1, PanicStep DEF Write
  <2>2. CASE ~PanicAt(h, o)
    <3> DEFINE i == files[h].inode
    <3> DEFINE d == WriteAllAt(data[i], buf, o)
    <3>1. /\ i \in Inodes /\ data[i] \in Content /\ o \in 0 .. Len(data[i])
          /\ data' = [data EXCEPT ![i] = d] /\ UNCHANGED <<fs, unused, files, seen, cut, panic>>
      BY <1>0, <1>9, <2>2 DEF Write, Open, LenOf
    <3>2. buf \in Seq(Bytes \cup {0}) /\ Len(buf) \in Nat
      BY BufIsSeq
    <3>3. d \in Content
      BY <3>1, <3>2, WriteContents DEF Content
    <3>4. Len(d) = IF o + Len(buf) > Len(data[i]) THEN o + Len(buf) ELSE Len(data[i])
      BY <3>1, <3>2, WriteContents DEF Content
    <3>5. Len(d) >= Len(data[i])
      BY <1>0, <3>1, <3>2, <3>4
    <3> HIDE DEF i, d
    <3> QED
      BY <3>1, <3>3, <3>5, ContentStep
  <2> QED
    BY <2>1, <2>2
<1> QED
  BY <1>1, <1>2, <1>3, <1>4, <1>5, <1>6, <1>7, <1>8, <1>9 DEF FileStep

\* Every step of the runtime on a node keeps the invariant.
LEMMA NodeStepKeeps ==
  ASSUME FilesInv, panic = Running, NEW n \in Nodes, NodeStep(n)
  PROVE  FilesInv'
<1> USE DEF FilesInv
<1>1. CASE CreateNode(n)
  <2>1. /\ DOMAIN fs' = DOMAIN fs \cup {n} /\ n \in unused /\ n \notin DOMAIN fs
        /\ fs'[n] = <<>> /\ \A m \in DOMAIN fs : fs'[m] = fs[m]
    BY <1>1 DEF CreateNode, With, PathsKept
  <2>2. DOMAIN fs'[n] = {}
    BY <2>1
  <2>3. TypeOK' /\ InodesExist'
    BY <1>1, <2>1, <2>2 DEF CreateNode, TypeOK, InodesExist, Inodes
  <2>4. PathsKept'
    BY <1>1, <2>1 DEF CreateNode, PathsKept
  <2>5. SeenWithin' /\ PanicMeansTruncated'
    BY <1>1 DEF CreateNode, SeenWithin, LenOf, PanicMeansTruncated
  <2> QED
    BY <2>3, <2>4, <2>5
<1>2. CASE ResetNode(n) \/ DeleteNode(n)
  BY <1>2, DropStep DEF ResetNode, DeleteNode, DropTasks, PowerFail
<1>3. CASE NoNode(n)
  BY <1>3 DEF NoNode, TypeOK, InodesExist, Inodes, PathsKept, SeenWithin, LenOf,
     PanicMeansTruncated
<1> QED
  BY <1>1, <1>2, <1>3 DEF NodeStep

-----------------------------------------------------------------------------
(* The theorems.                                                            *)

\* There is no file yet.
LEMMA FilesInit == Init => FilesInv
<1> SUFFICES ASSUME Init PROVE FilesInv
  OBVIOUS
<1>1. DOMAIN files = {} /\ files = <<>> /\ data = <<>>
  BY DEF Init
<1>2. \A n \in DOMAIN fs : fs[n] = <<>> /\ DOMAIN fs[n] = {}
  BY DEF Init
<1>3. TypeOK /\ InodesExist
  BY <1>1, <1>2 DEF Init, TypeOK, InodesExist
<1>4. PathsKept
  BY <1>1 DEF Init, PathsKept
<1>5. SeenWithin /\ PanicMeansTruncated
  BY <1>1 DEF Init, SeenWithin, PanicMeansTruncated, Running
<1> QED
  BY <1>3, <1>4, <1>5 DEF FilesInv

\* The invariant of paths, inodes and open files, through every order of opening, writing,
\* truncating, passing on, and of building, killing and deleting nodes.
THEOREM FilesInvariant == Spec => []FilesInv
<1>1. FilesInv /\ [Next]_vars => FilesInv'
  <2> SUFFICES ASSUME FilesInv, [Next]_vars PROVE FilesInv'
    OBVIOUS
  <2>1. CASE UNCHANGED vars
    BY <2>1 DEF vars, FilesInv, TypeOK, InodesExist, Inodes, PathsKept, SeenWithin, LenOf,
       PanicMeansTruncated
  <2>2. CASE Next
    BY <2>2, FileStepKeeps, NodeStepKeeps DEF Next
  <2> QED
    BY <2>1, <2>2
<1> QED
  BY <1>1, FilesInit, PTL DEF Spec

\* File::read_at and write_all_at: whoever stays within a length it was told of panics only
\* after the file was truncated since.
THEOREM OnlyTruncationPanics == Spec => []PanicMeansTruncated
<1>1. FilesInv => PanicMeansTruncated
  BY DEF FilesInv
<1> QED
  BY <1>1, FilesInvariant, PTL

\* write_all_at and read_at, on whatever contents a file has come to have: the buffer and
\* nothing else is written, nothing is cut off, and it reads back.
THEOREM WritesSplice == Spec => []WriteSplices
<1>1. FilesInv => WriteSplices
  <2> SUFFICES ASSUME FilesInv, NEW i \in Inodes, NEW buf \in Bufs, NEW o \in 0 .. Len(data[i])
               PROVE  LET new == WriteAllAt(data[i], buf, o) IN
                      /\ Len(new) = IF o + Len(buf) > Len(data[i]) THEN o + Len(buf)
                                    ELSE Len(data[i])
                      /\ \A k \in DOMAIN new : new[k] = Written(data[i], buf, o, k)
                      /\ ReadAt(new, Len(buf), o) = buf
    BY DEF WriteSplices
  <2>1. PICK S : S = Bytes \cup {0}
    OBVIOUS
  <2>2. data[i] \in Seq(S) /\ buf \in Seq(S)
    BY <2>1, InodeFacts, BufIsSeq DEF FilesInv, Content
  <2>3. PICK new : new = WriteAllAt(data[i], buf, o)
    OBVIOUS
  <2>4. /\ new \in Seq(S)
        /\ Len(new) = IF o + Len(buf) > Len(data[i]) THEN o + Len(buf) ELSE Len(data[i])
        /\ \A k \in 1 .. Len(new) : new[k] = Written(data[i], buf, o, k)
    BY <2>2, <2>3, WriteContents
  <2>5. DOMAIN new = 1 .. Len(new)
    BY <2>4
  <2>6. ReadAt(new, Len(buf), o) = buf
    BY <2>2, <2>3, ReadBack
  <2> QED
    BY <2>3, <2>4, <2>5, <2>6
<1> QED
  BY <1>1, FilesInvariant, PTL

=============================================================================
