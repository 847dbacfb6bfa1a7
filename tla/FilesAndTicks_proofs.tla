----------------------- MODULE FilesAndTicks_proofs -----------------------
(***************************************************************************)
(* Proofs about the two jobs that put data together from the transactions  *)
(* a node answers with, through a file in between.                         *)
(*                                                                         *)
(* FileTransfer, for every set of files, every fragment size, offset and   *)
(* number of ticks and restarts.  Inv is the inductive invariant: what a   *)
(* transaction on its way to the chain or on it must look like (ChainInv), *)
(* what uploadFile keeps in its locals (UploadInv) and what downloadFile   *)
(* has put together so far (DownloadInv).                                  *)
(*                                                                         *)
(* TickTransactions, for every number of slots, flags per byte and unasked *)
(* packets.  TickInv is the inductive invariant; its part CleanInv says    *)
(* where in the answer the loop of getTickTransactions is as long as       *)
(* nothing was lost or pushed.                                             *)
(***************************************************************************)
EXTENDS FileTransfer, TickTransactions, TLAPS, WellFoundedInduction, SequenceTheorems, FiniteSetTheorems

(* tx is a fragment of the file f.  Its index is one of the file's exactly  *)
(* when the segment it holds is not empty: see Counts.                      *)
OfFile(tx, f) ==
  /\ tx.kind = "fragment" /\ tx.index \in Nat /\ tx.index * Full < f
  /\ tx.content = Segment(f, tx.index)

HeaderOf(tx, f) ==
  tx.kind = "header" /\ tx.fileSize = f /\ tx.numberOfFragments = NumberOfFragments(f)

Continues(tx, f) ==
  /\ OfFile(tx, f) /\ tx.prev \in ledger
  /\ IF tx.index = 0 THEN HeaderOf(tx.prev, f)
     ELSE OfFile(tx.prev, f) /\ tx.prev.index = tx.index - 1

Sound(tx) == tx.tick \in Nat /\ \E f \in FileSizes : HeaderOf(tx, f) \/ Continues(tx, f)

ChainInv ==
  /\ nodeTick \in 0..MaxTick
  /\ \A tx \in pending \cup ledger : Sound(tx)

(* frags[i] is what the upload of file appends after i-1 fragments.         *)
IsFragment(tx, i) ==
  /\ OfFile(tx, file) /\ tx.index = i - 1
  /\ tx.prev = IF i = 1 THEN header ELSE frags[i - 1]

UploadInv ==
  /\ upc \in {"header", "headerSent", "fragment", "fragmentSent", "done"}
  /\ file \in FileSizes /\ restarts \in 0..MaxRestarts
  /\ frags \in Seq(ledger) /\ Len(frags) <= NumberOfFragments(file)
  /\ \A i \in 1..Len(frags) : IsFragment(frags[i], i)
  /\ upc \in {"header", "headerSent"} => header = None /\ frags = <<>>
  /\ upc = "headerSent" => HeaderOf(sent, file)
  /\ upc \in {"fragment", "fragmentSent", "done"} => header \in ledger /\ HeaderOf(header, file)
  /\ upc = "fragmentSent" =>
       IsFragment(sent, Len(frags) + 1) /\ Len(frags) < NumberOfFragments(file)
  /\ upc = "done" => Len(frags) = NumberOfFragments(file)

(* While fragments are read: every read so far has put at least one byte in *)
(* front of the data.  As long as no read has failed, the fragment in the   *)
(* buffer is the one the loop is at, and the data is a piece of its file    *)
(* from that fragment on; once one has failed, the buffer is behind the     *)
(* loop, and stays behind it.                                               *)
Reading ==
  /\ buffer \in ledger /\ buffer.kind = "fragment" /\ want = buffer.prev
  /\ buffer.index \in left..(nFragment - 1)
  /\ fileData \in Seq(Nat \X Nat) /\ Len(fileData) >= nFragment - left
  /\ buffer.index = left =>
       \E f \in FileSizes : \E e \in 1..f :
         /\ OfFile(buffer, f) /\ left * Full < e
         /\ fileData = SubSeq(Bytes(f), left * Full + 1, e)

DownloadInv ==
  /\ dpc \in {"idle", "reading", "written", "refused"}
  /\ left \in Nat /\ nFragment \in Nat
  /\ dpc = "reading" => Reading
  /\ dpc = "written" => \E f \in FileSizes : fileData = Bytes(f)

Inv == ChainInv /\ UploadInv /\ DownloadInv

-----------------------------------------------------------------------------
(* Natural numbers.                                                         *)

LessThan == {ss \in Nat \X Nat : ss[1] < ss[2]}

LEMMA LessThanWellFounded == IsWellFoundedOn(LessThan, Nat)
  BY NatLessThanWellFounded DEF OpToRel, LessThan

LEMMA LeastNatural ==
  ASSUME NEW T, T \subseteq Nat, T # {}
  PROVE  \E n \in T : \A k \in T : n <= k
<1>1. PICK n \in T : \A k \in T : ~ (<<k, n>> \in LessThan)
  BY WFMin, LessThanWellFounded
<1>2. \A k \in T : ~ (k < n)
  BY <1>1 DEF LessThan
<1> QED
  BY <1>2

(* Induction, for a property given as the set of the numbers that have it.  *)
LEMMA SetInduction ==
  ASSUME NEW T, 0 \in T, \A n \in Nat : n \in T => n + 1 \in T
  PROVE  Nat \subseteq T
<1> SUFFICES ASSUME ~(Nat \subseteq T) PROVE FALSE
  OBVIOUS
<1>1. PICK n \in Nat \ T : \A k \in Nat \ T : n <= k
  <2>1. Nat \ T \subseteq Nat /\ Nat \ T # {}
    OBVIOUS
  <2> QED
    BY <2>1, LeastNatural
<1>2. n # 0 /\ n \in Nat
  BY <1>1
<1>3. n - 1 \in Nat /\ n - 1 \in T
  BY <1>1, <1>2
<1>4. n - 1 + 1 = n
  BY <1>2
<1>5. n - 1 + 1 \in T
  BY <1>3
<1> QED
  BY <1>1, <1>4, <1>5

LEMMA DivisionFacts ==
  ASSUME NEW a \in Nat, NEW b \in Nat \ {0}
  PROVE  /\ a \div b \in Nat
         /\ (a \div b) * b <= a /\ a < (a \div b) * b + b
  OBVIOUS

LEMMA ProductFacts ==
  ASSUME NEW a \in Nat, NEW b \in Nat, NEW c \in Nat \ {0}
  PROVE  /\ a * c \in Nat
         /\ a < b => a * c + c <= b * c
         /\ a <= b => a * c <= b * c
         /\ (a + 1) * c = a * c + c
         /\ a > 0 => a * c >= c
  OBVIOUS

-----------------------------------------------------------------------------
(* The file, its segments and their number.                                 *)

LEMMA CountIsNatural ==
  ASSUME NEW f \in FileSizes
  PROVE  NumberOfFragments(f) \in Nat
  BY FileAssumption, DivisionFacts DEF NumberOfFragments

(* Segment i exists exactly when the file has bytes at its place.           *)
LEMMA Counts ==
  ASSUME NEW f \in FileSizes, NEW i \in Nat
  PROVE  i < NumberOfFragments(f) <=> i * Full < f
<1>1. f \in Nat \ {0} /\ Full \in Nat \ {0}
  BY FileAssumption
<1> DEFINE n == NumberOfFragments(f)
<1>2. n \in Nat /\ n * Full <= f + Full - 1 /\ f + Full - 1 < n * Full + Full
  <2>1. f + Full - 1 \in Nat
    BY <1>1
  <2> QED
    BY <1>1, <2>1, DivisionFacts DEF NumberOfFragments
<1> HIDE DEF n
<1>3. CASE i < n
  <2>1. i * Full + Full <= n * Full /\ i * Full \in Nat /\ n * Full \in Nat
    BY <1>1, <1>2, <1>3, ProductFacts
  <2> QED
    BY <1>1, <1>2, <1>3, <2>1 DEF n
<1>4. CASE ~(i < n)
  <2>1. n * Full <= i * Full /\ i * Full \in Nat /\ n * Full \in Nat
    <3>1. n <= i
      BY <1>2, <1>4
    <3> QED
      BY <1>1, <1>2, <3>1, ProductFacts
  <2>2. f <= n * Full
    BY <1>1, <1>2, <2>1
  <2> QED
    BY <1>1, <1>4, <2>1, <2>2 DEF n
<1> QED
  BY <1>3, <1>4

LEMMA BytesFacts ==
  ASSUME NEW f \in FileSizes
  PROVE  /\ Bytes(f) \in Seq(Nat \X Nat) /\ Len(Bytes(f)) = f
         /\ \A i \in 1..f : Bytes(f)[i] = <<f, i>>
  BY FileAssumption DEF Bytes

(* What SubSeqProperties says of a stretch of a sequence.                   *)
LEMMA StretchFacts ==
  ASSUME NEW S, NEW s \in Seq(S), NEW a \in Nat, NEW z \in Nat, a + z <= Len(s)
  PROVE  /\ SubSeq(s, a + 1, a + z) \in Seq(S)
         /\ Len(SubSeq(s, a + 1, a + z)) = z
         /\ \A i \in 1..z : SubSeq(s, a + 1, a + z)[i] = s[a + i]
<1>1. \A k \in (a + 1)..(a + z) : s[k] \in S
  BY ElementOfSeq
<1>2. /\ SubSeq(s, a + 1, a + z) \in Seq(S)
      /\ Len(SubSeq(s, a + 1, a + z)) = IF a + 1 <= a + z THEN a + z - (a + 1) + 1 ELSE 0
      /\ \A i \in 1..(a + z - (a + 1) + 1) : SubSeq(s, a + 1, a + z)[i] = s[a + 1 + i - 1]
  <2>1. a + 1 \in Int /\ a + z \in Int
    OBVIOUS
  <2> QED
    BY <1>1, <2>1, SubSeqProperties
<1>3. \A i \in 1..z : a + 1 + i - 1 = a + i
  OBVIOUS
<1> QED
  BY <1>2, <1>3

LEMMA AdjacentStretches ==
  ASSUME NEW S, NEW s \in Seq(S), NEW m \in Nat, NEW k \in Nat, NEW n \in Nat,
         m <= k, k <= n, n <= Len(s)
  PROVE  SubSeq(s, m + 1, k) \o SubSeq(s, k + 1, n) = SubSeq(s, m + 1, n)
<1> DEFINE h == m + 1
<1>1. h \in 1..(Len(s) + 1) /\ k \in (h - 1)..Len(s) /\ n \in k..Len(s)
  OBVIOUS
<1> HIDE DEF h
<1>2. SubSeq(s, h, k) \o SubSeq(s, k + 1, n) = SubSeq(s, h, n)
  BY <1>1, ConcatAdjacentSubSeq
<1> QED
  BY <1>2 DEF h

LEMMA FirstStretches ==
  ASSUME NEW S, NEW s \in Seq(S), NEW k \in Nat, NEW n \in Nat, k <= n, n <= Len(s)
  PROVE  SubSeq(s, 1, k) \o SubSeq(s, k + 1, n) = SubSeq(s, 1, n)
<1>1. 1 \in 1..(Len(s) + 1) /\ k \in (1 - 1)..Len(s) /\ n \in k..Len(s)
  OBVIOUS
<1> QED
  BY <1>1, ConcatAdjacentSubSeq

(* A segment is not empty, begins with the byte after the segments before   *)
(* it, and ends where the next one begins or at the end of the file.        *)
LEMMA SegmentFacts ==
  ASSUME NEW f \in FileSizes, NEW i \in Nat, i * Full < f
  PROVE  /\ SegmentSize(f, i) \in 1..f /\ i * Full + SegmentSize(f, i) <= f
         /\ (i + 1) * Full < f => SegmentSize(f, i) = Full
         /\ (i + 1) * Full >= f => i * Full + SegmentSize(f, i) = f
         /\ Segment(f, i) \in Seq(Nat \X Nat) /\ Len(Segment(f, i)) = SegmentSize(f, i)
         /\ Segment(f, i)[1] = <<f, i * Full + 1>>
<1>1. f \in Nat \ {0} /\ Full \in Nat \ {0} /\ i * Full \in Nat /\ (i + 1) * Full = i * Full + Full
  BY FileAssumption, ProductFacts
<1> DEFINE a == i * Full
           z == SegmentSize(f, i)
<1>2. /\ z \in 1..f /\ a + z <= f /\ a \in Nat
      /\ a + Full < f => z = Full
      /\ a + Full >= f => a + z = f
  BY <1>1 DEF SegmentSize
<1> HIDE DEF a, z
<1>4. /\ SubSeq(Bytes(f), a + 1, a + z) \in Seq(Nat \X Nat)
      /\ Len(SubSeq(Bytes(f), a + 1, a + z)) = z
      /\ SubSeq(Bytes(f), a + 1, a + z)[1] = Bytes(f)[a + 1]
  <2>1. z \in Nat /\ 1 \in 1..z
    BY <1>1, <1>2
  <2>2. Bytes(f) \in Seq(Nat \X Nat) /\ a + z <= Len(Bytes(f))
    BY <1>2, BytesFacts
  <2>3. /\ SubSeq(Bytes(f), a + 1, a + z) \in Seq(Nat \X Nat)
        /\ Len(SubSeq(Bytes(f), a + 1, a + z)) = z
        /\ \A k \in 1..z : SubSeq(Bytes(f), a + 1, a + z)[k] = Bytes(f)[a + k]
    <3> DEFINE S == Nat \X Nat
               s == Bytes(f)
    <3>1. s \in Seq(S) /\ a \in Nat /\ z \in Nat /\ a + z <= Len(s)
      BY <1>2, <2>1, <2>2
    <3> HIDE DEF S, s
    <3>2. /\ SubSeq(s, a + 1, a + z) \in Seq(S)
          /\ Len(SubSeq(s, a + 1, a + z)) = z
          /\ \A k \in 1..z : SubSeq(s, a + 1, a + z)[k] = s[a + k]
      BY <3>1, StretchFacts
    <3> QED
      BY <3>2 DEF S, s
  <2> QED
    BY <2>1, <2>3
<1>5. Bytes(f)[a + 1] = <<f, a + 1>>
  <2>1. a + 1 \in 1..f
    BY <1>1, <1>2
  <2> QED
    BY <2>1 DEF Bytes
<1> QED
  BY <1>1, <1>2, <1>4, <1>5 DEF Segment, a, z

(* The content of a fragment tells its file.                                *)
LEMMA OneFile ==
  ASSUME NEW f \in FileSizes, NEW g \in FileSizes, NEW tx, OfFile(tx, f), OfFile(tx, g)
  PROVE  f = g
<1>1. tx.content[1] = <<f, tx.index * Full + 1>>
  BY SegmentFacts DEF OfFile
<1>2. tx.content[1] = <<g, tx.index * Full + 1>>
  BY SegmentFacts DEF OfFile
<1> QED
  BY <1>1, <1>2

-----------------------------------------------------------------------------
(* The chain only grows, and what is sound stays so.                        *)

LEMMA SoundGrows ==
  ASSUME ledger \subseteq ledger'
  PROVE  \A tx : Sound(tx) => Sound(tx)'
  BY DEF Sound, Continues, HeaderOf, OfFile

LEMMA LedgerGrows ==
  ASSUME [Next]_vars
  PROVE  /\ ledger \subseteq ledger'
         /\ ~(nodeTick < MaxTick /\ ProcessTick) => nodeTick' = nodeTick /\ ledger' = ledger
  BY DEF Next, vars, chain, Upload, Download, ProcessTick, SendHeader, VerifyHeader, SendFragment,
         VerifyFragment, FinishUpload, Restart, ReadTrailer, ReadFragment, ReadHeader, Broadcast

LEMMA HeaderIsSound ==
  ASSUME NEW f \in FileSizes, NEW t \in Nat
  PROVE  HeaderOf(Header(f, t), f) /\ Sound(Header(f, t))
  BY DEF HeaderOf, Header, Sound

(* What uploadFragment sends continues what was found before.               *)
LEMMA FragmentIsSound ==
  ASSUME Inv, upc = "fragment", Len(frags) < NumberOfFragments(file), NEW t \in Nat
  PROVE  LET tx == Fragment(Len(frags), PrevDigest, Segment(file, Len(frags)), t) IN
           IsFragment(tx, Len(frags) + 1) /\ Sound(tx)
<1> DEFINE n == Len(frags)
           tx == Fragment(n, PrevDigest, Segment(file, n), t)
<1>1. /\ n \in Nat /\ file \in FileSizes /\ frags \in Seq(ledger)
      /\ header \in ledger /\ HeaderOf(header, file)
  BY DEF Inv, UploadInv
<1>2. n * Full < file
  BY <1>1, Counts
<1>3. /\ tx.kind = "fragment" /\ tx.index = n /\ tx.prev = PrevDigest
      /\ tx.content = Segment(file, n) /\ tx.tick = t
  BY DEF Fragment
<1> HIDE DEF tx
<1>4. OfFile(tx, file)
  BY <1>1, <1>2, <1>3 DEF OfFile
<1>5. CASE n = 0
  <2>1. PrevDigest = header
    BY <1>1, <1>5 DEF PrevDigest
  <2>2. Continues(tx, file)
    BY <1>1, <1>3, <1>4, <1>5, <2>1 DEF Continues
  <2> QED
    BY <1>1, <1>3, <1>4, <1>5, <2>1, <2>2 DEF IsFragment, Sound, tx
<1>6. CASE n # 0
  <2>1. n \in 1..Len(frags) /\ PrevDigest = frags[n]
    BY <1>1, <1>6 DEF PrevDigest, Last
  <2>2. frags[n] \in ledger /\ OfFile(frags[n], file) /\ frags[n].index = n - 1
    BY <1>1, <2>1 DEF Inv, UploadInv, IsFragment
  <2>3. Continues(tx, file)
    BY <1>3, <1>4, <1>6, <2>1, <2>2 DEF Continues
  <2>4. n + 1 # 1 /\ n + 1 - 1 = n
    BY <1>1, <1>6
  <2> QED
    BY <1>1, <1>3, <1>4, <2>1, <2>3, <2>4 DEF IsFragment, Sound, tx
<1> QED
  BY <1>5, <1>6

LEMMA InvInit == Init => Inv
<1> SUFFICES ASSUME Init PROVE Inv
  OBVIOUS
<1>1. ChainInv
  BY FileAssumption DEF Init, ChainInv
<1>2. UploadInv
  BY FileAssumption, CountIsNatural DEF Init, UploadInv
<1>3. DownloadInv
  BY DEF Init, DownloadInv
<1> QED
  BY <1>1, <1>2, <1>3 DEF Inv

LEMMA ChainStep == Inv /\ [Next]_vars => ChainInv'
<1> SUFFICES ASSUME Inv, [Next]_vars PROVE ChainInv'
  OBVIOUS
<1>1. \A tx : Sound(tx) => Sound(tx)'
  BY LedgerGrows, SoundGrows
<1>2. nodeTick \in 0..MaxTick /\ \A tx \in pending \cup ledger : Sound(tx)
  BY DEF Inv, ChainInv
<1>3. CASE ProcessTick
  <2>1. nodeTick' \in 0..MaxTick /\ pending' \cup ledger' \subseteq pending \cup ledger
    BY <1>2, <1>3, FileAssumption DEF ProcessTick
  <2> QED
    BY <1>1, <1>2, <2>1 DEF ChainInv
<1>4. CASE SendHeader
  <2>1. PICK t \in PolledTick : Broadcast(Header(file, t + Offset))
    BY <1>4 DEF SendHeader
  <2>2. t + Offset \in Nat /\ file \in FileSizes
    BY FileAssumption, <1>2 DEF Inv, UploadInv, PolledTick
  <2>3. Sound(Header(file, t + Offset))
    BY <2>2, HeaderIsSound
  <2>4. /\ nodeTick' = nodeTick /\ ledger' = ledger
        /\ pending' \subseteq pending \cup {Header(file, t + Offset)}
    BY <2>1 DEF Broadcast
  <2> QED
    BY <1>1, <1>2, <2>3, <2>4 DEF ChainInv
<1>5. CASE SendFragment
  <2> DEFINE Sent(t) == Fragment(Len(frags), PrevDigest, Segment(file, Len(frags)), t)
  <2>1. PICK t \in PolledTick : Broadcast(Sent(t + Offset))
    BY <1>5 DEF SendFragment
  <2>2. t + Offset \in Nat
    BY FileAssumption, <1>2 DEF PolledTick
  <2>3. Sound(Sent(t + Offset))
    BY <1>5, <2>2, FragmentIsSound DEF SendFragment
  <2> HIDE DEF Sent
  <2>4. nodeTick' = nodeTick /\ ledger' = ledger /\ pending' \subseteq pending \cup {Sent(t + Offset)}
    BY <2>1 DEF Broadcast
  <2> QED
    BY <1>1, <1>2, <2>3, <2>4 DEF ChainInv
<1>6. CASE UNCHANGED chain
  BY <1>1, <1>2, <1>6 DEF ChainInv, chain
<1> QED
  BY <1>3, <1>4, <1>5, <1>6 DEF Next, vars, Upload, Download, VerifyHeader,
     VerifyFragment, FinishUpload, Restart, ReadTrailer, ReadFragment, ReadHeader

LEMMA SeqGrows ==
  ASSUME NEW S, NEW T, S \subseteq T, NEW s \in Seq(S)
  PROVE  s \in Seq(T)
  OBVIOUS

(* A step that leaves uploadFile's locals alone.                            *)
LEMMA UploadQuiet ==
  ASSUME UploadInv, UNCHANGED uploader, ledger \subseteq ledger'
  PROVE  UploadInv'
<1> USE DEF UploadInv, uploader
<1>1. frags' \in Seq(ledger')
  BY SeqGrows
<1> QED
  BY <1>1 DEF IsFragment, HeaderOf, OfFile

LEMMA UploadStep == Inv /\ [Next]_vars => UploadInv'
<1> SUFFICES ASSUME Inv, [Next]_vars PROVE UploadInv'
  OBVIOUS
<1>1. UploadInv /\ ChainInv /\ file \in FileSizes /\ NumberOfFragments(file) \in Nat
  BY CountIsNatural DEF Inv, UploadInv
<1>2. ledger \subseteq ledger'
  BY LedgerGrows
<1>3. ASSUME frags' = <<>>, header' = None, upc' = "header", file' \in FileSizes,
             restarts' \in 0..MaxRestarts
      PROVE  UploadInv'
  BY <1>3, CountIsNatural DEF UploadInv
<1>4. ASSUME UNCHANGED <<file, header, frags, restarts, ledger>>
      PROVE  /\ file' \in FileSizes /\ restarts' \in 0..MaxRestarts
             /\ frags' \in Seq(ledger') /\ Len(frags)' <= NumberOfFragments(file)'
             /\ \A i \in 1..Len(frags)' : IsFragment(frags[i], i)'
  BY <1>1, <1>4 DEF UploadInv, IsFragment, OfFile
<1>5. CASE SendHeader
  <2>1. PICK t \in PolledTick : Broadcast(Header(file, t + Offset))
    BY <1>5 DEF SendHeader
  <2>2. t + Offset \in Nat
    BY <1>1, FileAssumption DEF ChainInv, PolledTick
  <2>3. sent' = Header(file, t + Offset) /\ HeaderOf(sent', file)
    BY <1>1, <2>1, <2>2, HeaderIsSound DEF Broadcast
  <2>4. /\ UNCHANGED <<file, header, frags, restarts, ledger>> /\ upc' = "headerSent"
        /\ header = None /\ frags = <<>>
    BY <1>1, <1>5, <2>1 DEF SendHeader, Broadcast, UploadInv
  <2>5. HeaderOf(sent, file)'
    BY <2>3, <2>4 DEF HeaderOf
  <2> QED
    BY <1>4, <2>4, <2>5 DEF UploadInv
<1>6. CASE VerifyHeader
  <2>1. CASE header' = None /\ upc' = "header"
    BY <1>1, <1>3, <1>6, <2>1 DEF VerifyHeader, UploadInv
  <2>2. CASE sent \in ledger /\ header' = sent /\ upc' = "fragment"
    BY <1>1, <1>6, <2>2 DEF VerifyHeader, UploadInv, HeaderOf, chain
  <2> QED
    BY <1>6, <2>1, <2>2 DEF VerifyHeader, GetTxInfo
<1>7. CASE SendFragment
  <2> DEFINE Sent(t) == Fragment(Len(frags), PrevDigest, Segment(file, Len(frags)), t)
  <2>1. PICK t \in PolledTick : Broadcast(Sent(t + Offset))
    BY <1>7 DEF SendFragment
  <2>2. t + Offset \in Nat
    BY <1>1, FileAssumption DEF ChainInv, PolledTick
  <2>3. IsFragment(Sent(t + Offset), Len(frags) + 1)
    BY <1>7, <2>2, FragmentIsSound DEF SendFragment
  <2> HIDE DEF Sent
  <2>4. /\ UNCHANGED <<file, header, frags, restarts, ledger>> /\ upc' = "fragmentSent"
        /\ sent' = Sent(t + Offset) /\ Len(frags) < NumberOfFragments(file)
        /\ upc = "fragment"
    BY <1>7, <2>1 DEF SendFragment, Broadcast
  <2>5. IsFragment(sent, Len(frags) + 1)'
    BY <2>3, <2>4 DEF IsFragment, OfFile
  <2>6. header' \in ledger' /\ HeaderOf(header, file)'
    BY <1>1, <2>4 DEF UploadInv, HeaderOf
  <2> QED
    BY <1>4, <2>4, <2>5, <2>6 DEF UploadInv
<1>8. CASE VerifyFragment
  <2>1. /\ UNCHANGED <<file, header, restarts, ledger>> /\ upc' = "fragment"
        /\ header' \in ledger' /\ HeaderOf(header, file)'
    BY <1>1, <1>8 DEF VerifyFragment, UploadInv, HeaderOf, chain
  <2>2. CASE UNCHANGED frags
    BY <1>4, <2>1, <2>2 DEF UploadInv
  <2>3. CASE sent \in ledger /\ frags' = Append(frags, sent)
    <3> DEFINE n == Len(frags)
    <3>1. /\ n \in Nat /\ frags \in Seq(ledger) /\ n < NumberOfFragments(file)
          /\ \A i \in 1..n : IsFragment(frags[i], i)
          /\ IsFragment(sent, n + 1)
      BY <1>1, <1>8 DEF UploadInv, VerifyFragment
    <3>2. /\ frags' \in Seq(ledger) /\ Len(frags') = n + 1
          /\ \A i \in 1..n : frags'[i] = frags[i]
          /\ frags'[n + 1] = sent
      BY <2>3, <3>1, AppendProperties
    <3> HIDE DEF n
    <3>3. ASSUME NEW i \in 1..(n + 1) PROVE IsFragment(frags[i], i)'
      <4>1. i # 1 => frags'[i - 1] = frags[i - 1]
        <5>1. i # 1 => i - 1 \in 1..n
          BY <3>1
        <5> QED
          BY <3>2, <5>1
      <4>2. IsFragment(frags'[i], i)
        <5>1. CASE i = n + 1
          BY <3>1, <3>2, <5>1
        <5>2. CASE i \in 1..n
          BY <3>1, <3>2, <5>2
        <5> QED
          BY <3>1, <5>1, <5>2
      <4> QED
        BY <2>1, <4>1, <4>2 DEF IsFragment, OfFile
    <3>4. Len(frags)' <= NumberOfFragments(file)'
      BY <1>1, <2>1, <3>1, <3>2
    <3> QED
      BY <1>1, <2>1, <3>2, <3>3, <3>4 DEF UploadInv
  <2> QED
    BY <1>8, <2>2, <2>3 DEF VerifyFragment, GetTxInfo
<1>9. CASE FinishUpload
  <2>1. /\ UNCHANGED <<file, header, frags, restarts, ledger>> /\ upc' = "done"
        /\ Len(frags) = NumberOfFragments(file)
        /\ header' \in ledger' /\ HeaderOf(header, file)'
    BY <1>1, <1>9 DEF FinishUpload, UploadInv, HeaderOf, chain
  <2> QED
    BY <1>4, <2>1 DEF UploadInv
<1>10. CASE Restart
  <2>1. restarts' \in 0..MaxRestarts
    BY <1>1, <1>10, FileAssumption DEF Restart, UploadInv
  <2> QED
    BY <1>3, <1>10, <2>1 DEF Restart
<1>11. CASE UNCHANGED uploader
  BY <1>1, <1>2, <1>11, UploadQuiet
<1> QED
  BY <1>5, <1>6, <1>7, <1>8, <1>9, <1>10, <1>11 DEF Next, vars, Upload, Download, ProcessTick,
     ReadTrailer, ReadFragment, ReadHeader

(* A step that leaves downloadFile's locals alone.                          *)
LEMMA DownloadQuiet ==
  ASSUME DownloadInv, UNCHANGED downloader, ledger \subseteq ledger'
  PROVE  DownloadInv'
<1>1. Reading => Reading'
  BY DEF Reading, downloader, OfFile
<1> QED
  BY <1>1 DEF DownloadInv, downloader

(* A fragment on the chain.                                                 *)
LEMMA OnChain ==
  ASSUME ChainInv, NEW tx \in ledger, tx.kind = "fragment"
  PROVE  \E f \in FileSizes : Continues(tx, f)
  BY DEF ChainInv, Sound, HeaderOf

LEMMA ContentFacts ==
  ASSUME NEW f \in FileSizes, NEW tx, OfFile(tx, f)
  PROVE  tx.content \in Seq(Nat \X Nat) /\ Len(tx.content) \in Nat \ {0}
  BY SMTT(60), SegmentFacts, FileAssumption DEF OfFile

LEMMA ReadTrailerStep ==
  ASSUME Inv, ReadTrailer
  PROVE  DownloadInv'
<1>1. ChainInv /\ DownloadInv /\ ledger' = ledger
  BY DEF Inv, ReadTrailer, chain
<1>2. CASE dpc' = "refused" /\ UNCHANGED <<fileData, nFragment, left, want>>
  BY <1>1, <1>2 DEF DownloadInv
<1>3. CASE \E trailer \in ledger :
             /\ Reads(trailer) /\ trailer.kind = "fragment"
             /\ fileData' = trailer.content
             /\ nFragment' = trailer.index + 1 /\ left' = trailer.index
             /\ want' = trailer.prev
             /\ dpc' = "reading"
  <2>1. PICK tx \in ledger :
          /\ buffer' = tx /\ tx.kind = "fragment" /\ fileData' = tx.content
          /\ nFragment' = tx.index + 1 /\ left' = tx.index /\ want' = tx.prev
          /\ dpc' = "reading"
    BY <1>3 DEF Reads
  <2>2. PICK f \in FileSizes : OfFile(tx, f)
    BY <1>1, <2>1, OnChain DEF Continues
  <2> DEFINE i == tx.index
             z == SegmentSize(f, i)
  <2>3. /\ i \in Nat /\ i * Full < f /\ i * Full \in Nat /\ f \in Nat
        /\ z \in 1..f /\ i * Full + z <= f
    BY <2>2, SegmentFacts, ProductFacts, FileAssumption DEF OfFile
  <2>4. tx.content = SubSeq(Bytes(f), i * Full + 1, i * Full + z)
    BY <2>2 DEF OfFile, Segment
  <2>5. tx.content \in Seq(Nat \X Nat) /\ Len(tx.content) \in Nat \ {0}
    BY <2>2, ContentFacts
  <2> HIDE DEF z, i
  <2>6. i * Full + z \in 1..f /\ i * Full < i * Full + z
    BY <2>3
  <2>7. left' = i /\ nFragment' = i + 1 /\ buffer'.index = i /\ OfFile(buffer, f)'
    BY <2>1, <2>2 DEF i, OfFile
  <2>8. i \in i..(i + 1 - 1) /\ i + 1 - i = 1 /\ i + 1 \in Nat
    BY <2>3
  <2>9. buffer'.index \in left'..(nFragment' - 1)
    BY <2>7, <2>8
  <2>10. \E g \in FileSizes : \E e \in 1..g :
          /\ OfFile(buffer, g)' /\ left' * Full < e
          /\ fileData' = SubSeq(Bytes(g), left' * Full + 1, e)
    BY <2>1, <2>4, <2>6, <2>7
  <2>11. Len(fileData)' >= nFragment' - left'
    BY <2>1, <2>5, <2>7, <2>8
  <2>12. Reading'
    BY <1>1, <2>1, <2>5, <2>9, <2>10, <2>11 DEF Reading
  <2> QED
    BY <2>1, <2>3, <2>7, <2>8, <2>12 DEF DownloadInv
<1> QED
  BY <1>2, <1>3 DEF ReadTrailer

LEMMA ReadFragmentStep ==
  ASSUME Inv, ReadFragment
  PROVE  DownloadInv'
<1>1. /\ ChainInv /\ DownloadInv /\ Reading /\ ledger' = ledger
      /\ left \in Nat \ {0} /\ nFragment \in Nat
      /\ nFragment' = nFragment /\ left' = left - 1 /\ dpc' = dpc /\ dpc = "reading"
      /\ fileData' = buffer'.content \o fileData /\ want' = buffer'.prev
  BY DEF DownloadInv, Inv, ReadFragment, chain
<1>2. PICK f \in FileSizes : Continues(buffer, f)
  BY <1>1, OnChain DEF Reading
<1>3. PICK g \in FileSizes : /\ OfFile(buffer', g) /\ buffer' \in ledger
                             /\ \/ buffer' = buffer
                                \/ /\ buffer' = want /\ buffer.index # 0
                                   /\ buffer'.index = buffer.index - 1 /\ g = f
  <2>1. CASE buffer' = buffer
    BY <1>1, <1>2, <2>1 DEF Reading, Continues
  <2>2. CASE want.kind = "fragment" /\ want \in ledger /\ buffer' = want
    <3>1. want = buffer.prev /\ buffer.index # 0
      BY <1>1, <1>2, <2>2 DEF Reading, Continues, HeaderOf
    <3> QED
      BY <1>2, <2>2, <3>1 DEF Continues
  <2> QED
    BY <2>1, <2>2 DEF ReadFragment, Reads, ReadFails
<1>4. /\ buffer'.content \in Seq(Nat \X Nat) /\ Len(buffer'.content) \in Nat \ {0}
      /\ buffer'.kind = "fragment" /\ buffer'.index \in Nat /\ buffer.index \in Nat
  BY <1>2, <1>3, ContentFacts DEF OfFile, Continues
<1>5. fileData' \in Seq(Nat \X Nat) /\ Len(fileData') = Len(buffer'.content) + Len(fileData)
  BY <1>1, <1>4, ConcatProperties DEF Reading
<1>6. Len(fileData)' >= nFragment' - left'
  BY SMTT(30), <1>1, <1>4, <1>5 DEF Reading
<1>7. buffer'.index \in left'..(nFragment' - 1)
  <2>1. buffer.index \in left..(nFragment - 1)
    BY <1>1 DEF Reading
  <2>2. buffer'.index \in {buffer.index, buffer.index - 1}
    BY <1>3
  <2> QED
    BY <1>1, <1>4, <2>1, <2>2
<1>8. ASSUME buffer'.index = left'
      PROVE  \E h \in FileSizes : \E e \in 1..h :
               /\ OfFile(buffer, h)' /\ left' * Full < e
               /\ fileData' = SubSeq(Bytes(h), left' * Full + 1, e)
  <2>1. buffer' # buffer
    BY <1>1, <1>4, <1>8 DEF Reading
  <2>2. /\ buffer' = want /\ buffer'.index = buffer.index - 1 /\ g = f
        /\ buffer.index = left
    BY <1>1, <1>3, <1>4, <1>8, <2>1 DEF Reading
  <2>3. PICK h \in FileSizes : \E e \in 1..h :
          /\ OfFile(buffer, h) /\ left * Full < e
          /\ fileData = SubSeq(Bytes(h), left * Full + 1, e)
    BY <1>1, <2>2 DEF Reading
  <2>4. h = f
    BY <1>2, <2>3, OneFile DEF Continues
  <2>5. PICK e \in 1..f : left * Full < e /\ fileData = SubSeq(Bytes(f), left * Full + 1, e)
    BY <2>3, <2>4
  <2> DEFINE p == left - 1
  <2>6. /\ p \in Nat /\ p + 1 = left /\ p * Full \in Nat /\ left * Full = p * Full + Full
        /\ Full \in Nat \ {0} /\ f \in Nat
    BY <1>1, ProductFacts, FileAssumption
  <2> HIDE DEF p
  <2>7. left * Full < f /\ p * Full < f
    BY <2>5, <2>6
  <2>8. buffer'.content = SubSeq(Bytes(f), p * Full + 1, p * Full + Full)
    <3>1. SegmentSize(f, p) = Full
      BY <2>6, <2>7, SegmentFacts
    <3>2. buffer'.content = Segment(f, p)
      BY <1>1, <1>3, <1>8, <2>2 DEF OfFile, p
    <3> QED
      BY <3>1, <3>2 DEF Segment
  <2>9. SubSeq(Bytes(f), p * Full + 1, left * Full) \o SubSeq(Bytes(f), left * Full + 1, e)
          = SubSeq(Bytes(f), p * Full + 1, e)
    <3>1. Bytes(f) \in Seq(Nat \X Nat) /\ Len(Bytes(f)) = f
      BY BytesFacts
    <3> DEFINE m == p * Full
               k == left * Full
    <3>2. m \in Nat /\ k \in Nat /\ e \in Nat /\ m <= k /\ k <= e /\ e <= Len(Bytes(f))
      BY SMTT(60), <2>5, <2>6, <2>7, <3>1
    <3> HIDE DEF m, k
    <3>3. SubSeq(Bytes(f), m + 1, k) \o SubSeq(Bytes(f), k + 1, e) = SubSeq(Bytes(f), m + 1, e)
      BY <3>1, <3>2, AdjacentStretches
    <3> QED
      BY <3>3 DEF m, k
  <2>10. fileData' = SubSeq(Bytes(f), p * Full + 1, e)
    BY <1>1, <2>5, <2>6, <2>8, <2>9
  <2>11. p * Full < e
    BY <2>5, <2>6
  <2>12. OfFile(buffer, f)' /\ left' = p
    BY <1>1, <1>3, <2>2 DEF OfFile, p
  <2> QED
    BY <2>10, <2>11, <2>12
<1>9. Reading'
  BY <1>1, <1>3, <1>4, <1>5, <1>6, <1>7, <1>8 DEF Reading
<1> QED
  BY <1>1, <1>9 DEF DownloadInv

LEMMA ReadHeaderStep ==
  ASSUME Inv, ReadHeader
  PROVE  DownloadInv'
<1>1. /\ ChainInv /\ DownloadInv /\ Reading /\ left = 0 /\ nFragment \in Nat
      /\ UNCHANGED <<nFragment, left, fileData>>
      /\ dpc' \in {"written", "refused"}
  BY DEF DownloadInv, Inv, ReadHeader
<1>2. PICK f \in FileSizes : Continues(buffer, f)
  BY <1>1, OnChain DEF Reading
<1>3. ASSUME dpc' = "written"
      PROVE  \E g \in FileSizes : fileData = Bytes(g)
  <2>1. SizeField(buffer') = Len(fileData)
    BY <1>3 DEF ReadHeader, HeaderAgrees
  <2>2. buffer.index < Len(fileData) /\ buffer.index \in Nat /\ Len(fileData) \in Nat
    BY <1>1, <1>2 DEF Reading, Continues, OfFile
  <2>3. /\ buffer' = want /\ want = buffer.prev
    <3>1. buffer' # buffer
      <4>1. SizeField(buffer) = buffer.index
        BY <1>1 DEF SizeField, Reading
      <4> QED
        BY <2>1, <2>2, <4>1
    <3> QED
      BY <1>1, <3>1 DEF ReadHeader, Reads, ReadFails, Reading
  <2>4. buffer.index = 0
    <3> SUFFICES ASSUME buffer.index # 0 PROVE FALSE
      OBVIOUS
    <3>1. OfFile(want, f) /\ want.index = buffer.index - 1
      BY <1>2, <2>3 DEF Continues
    <3>2. SizeField(want) = buffer.index - 1
      BY <3>1 DEF SizeField, OfFile
    <3> QED
      BY <2>1, <2>2, <2>3, <3>2
  <2>5. HeaderOf(want, f)
    BY <1>2, <2>3, <2>4 DEF Continues
  <2>6. Len(fileData) = f
    BY <2>1, <2>3, <2>5 DEF SizeField, HeaderOf
  <2>7. PICK g \in FileSizes : \E e \in 1..g :
          OfFile(buffer, g) /\ fileData = SubSeq(Bytes(g), 0 * Full + 1, e)
    BY <1>1, <2>4 DEF Reading
  <2>8. g = f
    BY <1>2, <2>7, OneFile DEF Continues
  <2>9. PICK e \in 1..f : fileData = SubSeq(Bytes(f), 1, e)
    <3>1. 0 * Full + 1 = 1
      BY FileAssumption
    <3> QED
      BY <2>7, <2>8, <3>1
  <2>10. Len(fileData) = e
    <3>1. e \in Nat /\ 0 + 1 = 1 /\ 0 + e = e /\ 0 \in Nat /\ 0 + e <= f
      BY FileAssumption
    <3>2. Len(SubSeq(Bytes(f), 0 + 1, 0 + e)) = e
      BY <3>1, StretchFacts, BytesFacts
    <3> QED
      BY <2>9, <3>1, <3>2
  <2>11. fileData = SubSeq(Bytes(f), 1, Len(Bytes(f)))
    BY <2>6, <2>9, <2>10, BytesFacts
  <2> QED
    BY <2>11, BytesFacts, SubSeqFull
<1> QED
  BY <1>1, <1>3 DEF DownloadInv

LEMMA DownloadStep == Inv /\ [Next]_vars => DownloadInv'
<1> SUFFICES ASSUME Inv, [Next]_vars PROVE DownloadInv'
  OBVIOUS
<1>1. CASE Download
  BY <1>1, ReadTrailerStep, ReadFragmentStep, ReadHeaderStep DEF Download
<1>2. CASE UNCHANGED downloader
  BY <1>2, LedgerGrows, DownloadQuiet DEF Inv
<1> QED
  BY <1>1, <1>2 DEF Next, vars, Upload, ProcessTick, SendHeader, VerifyHeader, SendFragment,
     VerifyFragment, FinishUpload, Restart

THEOREM Invariance == Spec => []Inv
<1>1. Init => Inv
  BY InvInit
<1>2. Inv /\ [Next]_vars => Inv'
  BY ChainStep, UploadStep, DownloadStep DEF Inv
<1> QED
  BY <1>1, <1>2, PTL DEF Spec

-----------------------------------------------------------------------------
(* A function that satisfies the recursion FlattenSeq is defined by is the  *)
(* one FlattenSeq chooses.                                                  *)
Flattened(s, h, n) == \A i \in 1..n : h[i] = IF i = 1 THEN s[i] ELSE h[i - 1] \o s[i]

LEMMA FlattenIs ==
  ASSUME NEW s, NEW n \in Nat \ {0}, Len(s) = n, NEW S, NEW h \in [1..n -> S],
         Flattened(s, h, n)
  PROVE  FlattenSeq(s) = h[n]
<1> USE DEF Flattened
<1> DEFINE Flattens(g) == g = [i \in 1..n |-> IF i = 1 THEN s[i] ELSE g[i - 1] \o s[i]]
           g == CHOOSE x : Flattens(x)
<1>1. FlattenSeq(s) = g[n]
  BY DEF FlattenSeq
<1>2. Flattens(g)
  <2>1. Flattens(h)
    <3> DEFINE r == [i \in 1..n |-> IF i = 1 THEN s[i] ELSE h[i - 1] \o s[i]]
    <3>1. \A i \in 1..n : r[i] = h[i]
      OBVIOUS
    <3>2. DOMAIN r = 1..n /\ r = [i \in DOMAIN r |-> r[i]] /\ h = [i \in 1..n |-> h[i]]
      OBVIOUS
    <3> HIDE DEF r
    <3>3. r = h
      BY <3>1, <3>2
    <3> QED
      BY <3>3 DEF r
  <2> HIDE DEF Flattens
  <2> QED
    BY <2>1
<1> HIDE DEF g
<1> DEFINE T == {k \in Nat : k \in 1..n => g[k] = h[k]}
<1>3. 0 \in T
  OBVIOUS
<1>4. ASSUME NEW k \in Nat, k \in T PROVE k + 1 \in T
  <2> SUFFICES ASSUME k + 1 \in 1..n PROVE g[k + 1] = h[k + 1]
    OBVIOUS
  <2> DEFINE j == k + 1
  <2>1. j \in 1..n /\ j - 1 = k /\ (j # 1 => k \in 1..n)
    OBVIOUS
  <2> HIDE DEF j
  <2>2. j # 1 => g[j - 1] = h[j - 1]
    BY <1>4, <2>1
  <2>3. g[j] = IF j = 1 THEN s[j] ELSE g[j - 1] \o s[j]
    BY <1>2, <2>1
  <2>4. h[j] = IF j = 1 THEN s[j] ELSE h[j - 1] \o s[j]
    BY <2>1
  <2> QED
    BY <2>2, <2>3, <2>4 DEF j
<1> HIDE DEF T
<1>5. n \in T
  BY <1>3, <1>4, SetInduction
<1> QED
  BY <1>1, <1>5 DEF T

(* The segments of a file, one after the other, are the file.               *)
LEMMA SegmentsSpellFile ==
  ASSUME NEW f \in FileSizes, NEW s, s = [i \in 1..NumberOfFragments(f) |-> Segment(f, i - 1)]
  PROVE  FlattenSeq(s) = Bytes(f)
<1> DEFINE n == NumberOfFragments(f)
           EndOf(i) == (i - 1) * Full + SegmentSize(f, i - 1)
           h == [i \in 1..n |-> SubSeq(Bytes(f), 1, EndOf(i))]
<1>1. f \in Nat \ {0} /\ Full \in Nat \ {0} /\ n \in Nat
      /\ Bytes(f) \in Seq(Nat \X Nat) /\ Len(Bytes(f)) = f
  BY FileAssumption, CountIsNatural, BytesFacts
<1>2. n # 0
  <2>1. 0 * Full < f
    BY <1>1
  <2> QED
    BY <1>1, <2>1, Counts
<1>3. Len(s) = n /\ \A i \in 1..n : s[i] = Segment(f, i - 1)
  BY <1>1
<1>4. ASSUME NEW i \in 1..n
      PROVE  /\ i - 1 \in Nat /\ (i - 1) * Full \in Nat /\ (i - 1) * Full < f
             /\ EndOf(i) \in Nat /\ (i - 1) * Full <= EndOf(i) /\ EndOf(i) <= f
             /\ i # 1 => EndOf(i - 1) = (i - 1) * Full
             /\ i = n => EndOf(i) = f
  <2> DEFINE p == i - 1
  <2>1. p \in Nat /\ p < n /\ p + 1 = i /\ p * Full \in Nat
    BY <1>1, ProductFacts
  <2> HIDE DEF p
  <2>2. p * Full < f
    BY <1>1, <2>1, Counts
  <2>3. /\ SegmentSize(f, p) \in 1..f /\ p * Full + SegmentSize(f, p) <= f
        /\ i * Full >= f => p * Full + SegmentSize(f, p) = f
    BY <2>1, <2>2, SegmentFacts
  <2>4. i = n => i * Full >= f
    <3>1. ~(n * Full < f)
      BY <1>1, Counts
    <3>2. n * Full \in Nat
      BY <1>1, ProductFacts
    <3> QED
      BY <1>1, <3>1, <3>2
  <2>5. i # 1 => EndOf(i - 1) = p * Full
    <3> SUFFICES ASSUME i # 1 PROVE EndOf(p) = p * Full
      BY DEF p
    <3> DEFINE q == p - 1
    <3>1. q \in Nat /\ q + 1 = p /\ q < n /\ p * Full = q * Full + Full
      BY <1>1, <2>1, ProductFacts
    <3> HIDE DEF q
    <3>2. q * Full < f
      BY <1>1, <3>1, Counts
    <3>3. SegmentSize(f, q) = Full
      BY <2>2, <3>1, <3>2, SegmentFacts
    <3> QED
      BY <3>1, <3>3 DEF q
  <2>6. i - 1 = p
    BY DEF p
  <2>7. EndOf(i) = p * Full + SegmentSize(f, p)
    BY <2>6
  <2> HIDE DEF EndOf
  <2>8. EndOf(i) \in Nat /\ p * Full <= EndOf(i) /\ EndOf(i) <= f /\ (i = n => EndOf(i) = f)
    <3> DEFINE a == p * Full
               z == SegmentSize(f, p)
    <3>1. a \in Nat /\ z \in 1..f /\ f \in Nat /\ a + z <= f /\ (i = n => a + z = f)
      BY <1>1, <2>1, <2>3, <2>4
    <3>2. EndOf(i) = a + z
      BY <2>7
    <3> HIDE DEF a, z
    <3>3. EndOf(i) \in Nat /\ a <= EndOf(i) /\ EndOf(i) <= f /\ (i = n => EndOf(i) = f)
      BY <3>1, <3>2
    <3> QED
      BY <3>3 DEF a
  <2> QED
    BY <2>1, <2>2, <2>5, <2>6, <2>8
<1> HIDE DEF n
<1>5. ASSUME NEW i \in 1..n
      PROVE  h[i] = IF i = 1 THEN s[i] ELSE h[i - 1] \o s[i]
  <2> DEFINE m == (i - 1) * Full
  <2>1. /\ m \in Nat /\ m <= EndOf(i) /\ EndOf(i) \in Nat /\ EndOf(i) <= f
        /\ i # 1 => EndOf(i - 1) = m
    BY <1>4
  <2>2. s[i] = SubSeq(Bytes(f), m + 1, EndOf(i))
    BY <1>3 DEF Segment
  <2>3. h[i] = SubSeq(Bytes(f), 1, EndOf(i))
    OBVIOUS
  <2>4. CASE i = 1
    <3>1. m + 1 = 1
      BY <1>1, <2>4
    <3> QED
      BY <2>2, <2>3, <2>4, <3>1
  <2>5. CASE i # 1
    <3>1. i - 1 \in 1..n
      BY <1>1, <2>5
    <3>2. h[i - 1] = SubSeq(Bytes(f), 1, m)
      BY <2>1, <2>5, <3>1
    <3> HIDE DEF m, EndOf, h
    <3>3. SubSeq(Bytes(f), 1, m) \o SubSeq(Bytes(f), m + 1, EndOf(i)) = SubSeq(Bytes(f), 1, EndOf(i))
      BY <1>1, <2>1, FirstStretches
    <3>4. h[i] = h[i - 1] \o s[i]
      BY <2>2, <2>3, <3>2, <3>3
    <3> QED
      BY <2>5, <3>4
  <2> QED
    BY <2>4, <2>5
<1> DEFINE S == {h[i] : i \in 1..n}
<1>6. h \in [1..n -> S]
  OBVIOUS
<1> HIDE DEF S
<1>7. h[n] = Bytes(f)
  <2>1. n \in 1..n
    BY <1>1, <1>2
  <2>2. h[n] = SubSeq(Bytes(f), 1, f)
    BY <1>4, <2>1
  <2> QED
    BY <1>1, <2>2, SubSeqFull
<1> HIDE DEF h
<1> HIDE DEF EndOf
<1> QED
  <2>1. \A i \in 1..n : h[i] = IF i = 1 THEN s[i] ELSE h[i - 1] \o s[i]
    BY <1>5
  <2>2. Flattened(s, h, n)
    BY <2>1 DEF Flattened
  <2>3. FlattenSeq(s) = h[n]
    <3>1. n \in Nat \ {0} /\ Len(s) = n
      BY <1>1, <1>2, <1>3
    <3> QED
      BY <1>6, <2>2, <3>1, FlattenIs
  <2> QED
    BY <1>7, <2>3

-----------------------------------------------------------------------------
(* What the state holds is what the specification says it may: the ticks    *)
(* and restarts within their bounds, no more fragments than the file has.   *)
THEOREM TypeCorrect == Spec => []TypeOK
<1>1. Inv => TypeOK
  <2> SUFFICES ASSUME Inv PROVE TypeOK
    OBVIOUS
  <2>1. \A tx \in Transactions : tx.kind \in TxKinds /\ tx.tick \in Nat
    BY DEF Inv, ChainInv, Transactions, Sound, HeaderOf, Continues, OfFile, TxKinds
  <2>2. header.kind \in {"none", "header"}
    BY DEF Inv, UploadInv, HeaderOf, None
  <2> QED
    BY <2>1, <2>2 DEF Inv, ChainInv, UploadInv, DownloadInv, TypeOK
<1> QED
  BY <1>1, Invariance, PTL

(* Whatever was retried, resubmitted or restarted, a fragment on its way to *)
(* the chain or on it continues a transaction that is on the chain          *)
(* (uploadFile's loop and uploadFragment).                                  *)
THEOREM LinksHold == Spec => []LinksResolve
<1>1. Inv => LinksResolve
  <2> SUFFICES ASSUME Inv, NEW tx \in Fragments
               PROVE  /\ tx.prev \in ledger
                      /\ IF tx.index = 0 THEN tx.prev.kind = "header"
                         ELSE tx.prev.kind = "fragment" /\ tx.prev.index = tx.index - 1
    BY DEF LinksResolve
  <2>1. PICK f \in FileSizes : Continues(tx, f)
    BY DEF Inv, ChainInv, Fragments, Transactions, Sound, HeaderOf
  <2> QED
    BY <2>1 DEF Continues, HeaderOf, OfFile
<1> QED
  BY <1>1, Invariance, PTL

(* The list of hashes uploadFile prints at the end is a complete chain: all *)
(* of it is included, and it spells the file from its first to its last     *)
(* byte, for every file size and fragment size.                             *)
THEOREM UploadIsComplete == Spec => []UploadedChain
<1>1. Inv => UploadedChain
  <2> SUFFICES ASSUME Inv, upc = "done" PROVE
        /\ header \in ledger /\ header.fileSize = file /\ Len(frags) = header.numberOfFragments
        /\ \A i \in DOMAIN frags :
             /\ frags[i] \in ledger
             /\ frags[i].prev = IF i = 1 THEN header ELSE frags[i - 1]
        /\ FlattenSeq([i \in DOMAIN frags |-> frags[i].content]) = Bytes(file)
    BY DEF UploadedChain
  <2>1. /\ header \in ledger /\ HeaderOf(header, file) /\ file \in FileSizes
        /\ frags \in Seq(ledger) /\ Len(frags) = NumberOfFragments(file)
        /\ \A i \in 1..Len(frags) : IsFragment(frags[i], i)
    BY DEF Inv, UploadInv
  <2>2. DOMAIN frags = 1..NumberOfFragments(file)
    BY <2>1, LenProperties
  <2>3. \A i \in DOMAIN frags :
          /\ frags[i] \in ledger
          /\ frags[i].prev = IF i = 1 THEN header ELSE frags[i - 1]
          /\ frags[i].content = Segment(file, i - 1)
    BY <2>1, <2>2, ElementOfSeq DEF IsFragment, OfFile
  <2>4. [i \in DOMAIN frags |-> frags[i].content]
          = [i \in 1..NumberOfFragments(file) |-> Segment(file, i - 1)]
    BY <2>2, <2>3
  <2>5. FlattenSeq([i \in DOMAIN frags |-> frags[i].content]) = Bytes(file)
    BY <2>1, <2>4, SegmentsSpellFile
  <2> QED
    BY <2>1, <2>3, <2>5 DEF HeaderOf
<1> QED
  BY <1>1, Invariance, PTL

(* A download that writes a file writes one that was uploaded, byte for     *)
(* byte, whichever fragment it was started from and however many reads      *)
(* failed on the way (downloadFile).                                        *)
THEOREM DownloadIsSound == Spec => []DownloadSound
  BY Invariance, PTL DEF Inv, DownloadInv, DownloadSound

-----------------------------------------------------------------------------
(* A tick and the requests for its transactions.                            *)

SlotsOK ==
  /\ job \in {"check", "file"} /\ target \in Txs
  /\ slots \in [Indices -> Txs \cup {Zero}]
  /\ \A i, j \in Taken(slots) : slots[i] = slots[j] => i = j

Asked == ToSet(slots) \ {Zero}

(* h holds every transaction of the tick, each once.                        *)
Delivery(h) == h \in Seq(Txs) /\ Len(h) = CountTx(slots) /\ ToSet(h) = Asked

(* The answer from the packet in current on is what is left of h.           *)
Expected(h, k) == IF k = Len(h) + 1 THEN End ELSE h[k]

InOrder(h) ==
  /\ Len(txs) <= Len(h) /\ \A j \in 1..Len(txs) : txs[j] = h[j]
  /\ current = Expected(h, Len(txs) + 1)
  /\ Len(answer) = Len(h) - Len(txs)
  /\ \A j \in 1..Len(answer) : answer[j] = Expected(h, Len(txs) + 1 + j)

CleanInv ==
  /\ pc = "first" =>
       \E h : /\ Delivery(h) /\ txs = <<>> /\ Len(answer) = Len(h) + 1
              /\ \A j \in 1..Len(answer) : answer[j] = Expected(h, j)
  /\ pc = "receive" => \E h : Delivery(h) /\ InOrder(h)
  /\ pc = "received" => Delivery(txs)
  /\ verdict = "missing" => target \notin ToSet(slots)

TickInv ==
  /\ TickTypeOK /\ SlotsOK
  /\ pc \in {"tickData", "request"} => txs = <<>>
  /\ verdict = "missing" => pc = "ended"
  /\ pc = "receipt" => job = "check"
  /\ Dense /\ pc \in {"request", "first", "receive", "received"} => nTx = CountTx(slots)
  /\ clean /\ Dense => CleanInv
  /\ pc = "ended" /\ job = "file" /\ verdict \in {"found", "missing"} =>
       result = InTickOrder(FromFile(CountTx(slots)))

LEMMA TakenFacts ==
  ASSUME SlotsOK
  PROVE  /\ Indices \subseteq Nat /\ Taken(slots) \subseteq Indices
         /\ IsFiniteSet(Taken(slots)) /\ CountTx(slots) \in 0..Slots
         /\ Asked = {slots[i] : i \in Taken(slots)} /\ Asked \subseteq Txs
         /\ DOMAIN slots = Indices
<1>1. IsFiniteSet(Indices) /\ Cardinality(Indices) = Slots /\ Indices \subseteq Nat
  BY TickAssumption, FS_Interval DEF Indices
<1>2. Taken(slots) \in SUBSET Indices
  BY DEF Taken
<1>3. /\ IsFiniteSet(Taken(slots)) /\ Cardinality(Taken(slots)) <= Slots
      /\ Cardinality(Taken(slots)) \in Nat
  BY <1>1, <1>2, FS_Subset, FS_CardinalityType
<1>4. CountTx(slots) \in 0..Slots
  BY <1>3, TickAssumption DEF CountTx
<1>5. DOMAIN slots = Indices
  BY DEF SlotsOK
<1>6. ToSet(slots) = {slots[i] : i \in Indices}
  BY <1>5 DEF ToSet
<1>7. Asked = {slots[i] : i \in Taken(slots)} /\ Asked \subseteq Txs
  BY <1>6 DEF Asked, Taken, SlotsOK
<1> QED
  BY <1>1, <1>2, <1>3, <1>4, <1>5, <1>7

(* LastTx is well defined.                                                  *)
LEMMA LastTxFacts ==
  ASSUME SlotsOK
  PROVE  /\ LastTx(slots) \in 0..Slots
         /\ LastTx(slots) = 0 \/ LastTx(slots) \in Taken(slots)
         /\ \A i \in Taken(slots) : i <= LastTx(slots)
<1> DEFINE Above == {n \in 0..Slots : \A i \in Taken(slots) : i <= n}
<1>1. Slots \in Above /\ Above \subseteq Nat
  BY TickAssumption DEF Taken, Indices
<1>2. PICK n \in Above : \A k \in Above : n <= k
  BY <1>1, LeastNatural
<1>3. n = 0 \/ n \in Taken(slots)
  <2> SUFFICES ASSUME n # 0, n \notin Taken(slots) PROVE FALSE
    OBVIOUS
  <2>1. n \in 1..Slots
    BY <1>2, TickAssumption
  <2>2. \A i \in Taken(slots) : i \in Int /\ i <= n /\ i # n
    BY <1>2 DEF Taken, Indices
  <2>3. \A i \in Taken(slots) : i <= n - 1
    BY <2>1, <2>2
  <2>4. n - 1 \in Above
    BY <2>1, <2>3, TickAssumption
  <2> QED
    BY <1>2, <2>1, <2>4
<1>4. \E m \in 0..Slots : (m = 0 \/ m \in Taken(slots)) /\ \A i \in Taken(slots) : i <= m
  BY <1>2, <1>3
<1> QED
  BY <1>4 DEF LastTx

(* In a tick without a gap the slots in use are the first ones, and the two *)
(* ways to count them agree.                                                *)
LEMMA DenseFacts ==
  ASSUME SlotsOK, Dense
  PROVE  Taken(slots) = 1..CountTx(slots) /\ LastTx(slots) = CountTx(slots)
<1> DEFINE m == LastTx(slots)
<1>1. /\ m \in 0..Slots /\ (m = 0 \/ m \in Taken(slots))
      /\ \A i \in Taken(slots) : i <= m
  BY LastTxFacts
<1> HIDE DEF m
<1>2. 1..m \subseteq Taken(slots)
  BY <1>1 DEF Dense
<1>3. Taken(slots) \subseteq 1..m
  BY <1>1, TickAssumption DEF Taken, Indices
<1>4. Taken(slots) = 1..m
  BY <1>2, <1>3
<1>5. Cardinality(1..m) = m
  BY <1>1, FS_Interval, TickAssumption
<1> QED
  BY <1>4, <1>5 DEF CountTx, m

(* As many transactions as digests: no digest is in the tick twice.         *)
LEMMA AskedCount ==
  ASSUME SlotsOK
  PROVE  IsFiniteSet(Asked) /\ Cardinality(Asked) = CountTx(slots)
<1> DEFINE g == [i \in Taken(slots) |-> slots[i]]
<1>1. g \in Bijection(Taken(slots), Asked)
  <2>1. g \in [Taken(slots) -> Asked]
    BY TakenFacts
  <2>2. \A i, j \in Taken(slots) : g[i] = g[j] => i = j
    BY DEF SlotsOK
  <2>3. \A x \in Asked : \E i \in Taken(slots) : g[i] = x
    BY TakenFacts
  <2> QED
    BY <2>1, <2>2, <2>3 DEF Bijection, Injection, Surjection, IsInjective
<1>2. ExistsBijection(Taken(slots), Asked)
  BY <1>1 DEF ExistsBijection
<1> QED
  BY <1>2, TakenFacts, FS_Bijection DEF CountTx

(* The request leaves no transaction out.                                   *)
LEMMA RequestedAll ==
  ASSUME SlotsOK, Dense
  PROVE  Requested(CountTx(slots)) = Taken(slots)
<1> DEFINE c == CountTx(slots)
<1>1. c \in Nat /\ Taken(slots) = 1..c
  BY TakenFacts, DenseFacts, TickAssumption
<1> HIDE DEF c
<1> DEFINE d == (c + Group - 1) \div Group
<1>2. d \in Nat /\ c + Group - 1 < d * Group + Group
  BY <1>1, TickAssumption, DivisionFacts
<1> HIDE DEF d
<1>3. Group * d = d * Group /\ d * Group \in Nat
  BY <1>2, TickAssumption
<1>4. \A i \in 1..c : i <= Group * d
  BY <1>1, <1>2, <1>3, TickAssumption
<1> QED
  BY <1>1, <1>4 DEF Requested, c, d

(* What SendRequest's node may answer, when it holds all that is asked.     *)
LEMMA DeliveryFacts ==
  ASSUME SlotsOK, NEW S \in SUBSET Asked, NEW held \in SetToAllKPermutations(S)
  PROVE  /\ held \in Seq(Txs) /\ Len(held) <= CountTx(slots)
         /\ ToSet(held) = Asked => Delivery(held)
<1>1. PICK s \in SUBSET S : held \in SetToSeqs(s)
  BY DEF SetToAllKPermutations
<1>2. held \in [1..Cardinality(s) -> s]
  BY <1>1 DEF SetToSeqs
<1>3. s \subseteq Asked /\ IsFiniteSet(s) /\ Cardinality(s) <= CountTx(slots)
  BY <1>1, AskedCount, FS_Subset
<1>4. Cardinality(s) \in Nat /\ s \subseteq Txs
  BY <1>3, FS_CardinalityType, TakenFacts
<1>5. held \in Seq(Txs) /\ Len(held) = Cardinality(s) /\ ToSet(held) \subseteq s
  <2>1. held \in [1..Cardinality(s) -> Txs]
    BY <1>2, <1>4
  <2>2. held \in Seq(Txs)
    BY <1>4, <2>1, IsASeq
  <2>3. Len(held) = Cardinality(s)
    BY <1>4, <2>1, <2>2, LenProperties
  <2>4. ToSet(held) \subseteq s
    BY <1>2 DEF ToSet
  <2> QED
    BY <2>2, <2>3, <2>4
<1>6. ToSet(held) = Asked => s = Asked
  BY <1>3, <1>5
<1> QED
  BY <1>3, <1>5, <1>6, AskedCount DEF Delivery

LEMMA ExpectedFacts ==
  ASSUME SlotsOK, NEW h, Delivery(h)
  PROVE  /\ Len(h) \in Nat /\ DOMAIN h = 1..Len(h) /\ Len(h) <= Slots
         /\ \A k \in 1..Len(h) : Expected(h, k) = h[k] /\ h[k] \in Txs
         /\ Expected(h, Len(h) + 1) = End
         /\ \A k \in 1..(Len(h) + 1) : Expected(h, k) \in Txs \cup {End}
<1>1. h \in Seq(Txs) /\ Len(h) <= Slots
  BY TakenFacts, TickAssumption DEF Delivery
<1>2. Len(h) \in Nat /\ DOMAIN h = 1..Len(h) /\ \A k \in 1..Len(h) : h[k] \in Txs
  BY <1>1, LenProperties, ElementOfSeq
<1> QED
  BY <1>1, <1>2 DEF Expected

(* A stretch that begins with the whole of a delivery is that delivery.     *)
LEMMA WholeDelivery ==
  ASSUME SlotsOK, NEW h, Delivery(h), NEW s \in Seq(Txs \cup {Stray}),
         Len(s) = Len(h), \A j \in 1..Len(s) : s[j] = h[j]
  PROVE  Delivery(s)
<1>1. h \in Seq(Txs)
  BY DEF Delivery
<1>2. s = h
  BY <1>1, SeqEqual
<1> QED
  BY <1>2

-----------------------------------------------------------------------------
(* Every step keeps the types.                                              *)

LEMMA ReadPacketHeaderType ==
  ASSUME TickTypeOK, ReadPacketHeader
  PROVE  /\ answer' \in Seq(Packets) /\ current' \in Packets \cup {NoHeader}
         /\ pushed' \in 0..MaxPush /\ noisy' \in BOOLEAN /\ clean' \in BOOLEAN
<1>1. answer \in Seq(Packets) /\ pushed \in 0..MaxPush /\ MaxPush \in Nat
  BY TickAssumption DEF TickTypeOK
<1>2. CASE NextPacket
  <2>1. Tail(answer) \in Seq(Packets) /\ Head(answer) \in Packets
    BY <1>1, <1>2, HeadTailProperties DEF NextPacket
  <2> QED
    BY <1>2, <2>1 DEF NextPacket, TickTypeOK
<1>3. CASE Unasked
  <2>1. pushed' \in 0..MaxPush
    BY <1>1, <1>3 DEF Unasked
  <2>2. current' \in Packets \cup {NoHeader} /\ answer' = answer
    BY <1>3 DEF Unasked, Packets
  <2>3. clean' = FALSE /\ noisy' = noisy /\ noisy \in BOOLEAN
    BY <1>3 DEF Unasked, TickTypeOK
  <2> QED
    BY <1>1, <2>1, <2>2, <2>3
<1>4. CASE Noise
  <2>1. PICK k \in 0..Len(answer) : answer' = SubSeq(answer, k + 1, Len(answer))
    BY <1>4 DEF Noise
  <2>2. answer' \in Seq(Packets)
    <3>1. Len(answer) \in Nat /\ \A i \in (k + 1)..Len(answer) : answer[i] \in Packets
      BY <1>1, LenProperties, ElementOfSeq
    <3> QED
      BY <1>1, <2>1, <3>1, SubSeqProperties
  <2>3. pushed' \in 0..MaxPush
    BY <1>1, <1>4 DEF Noise
  <2>4. current' \in Packets \cup {NoHeader}
    BY <1>4 DEF Noise, Packets
  <2>5. clean' = FALSE /\ noisy' = TRUE
    BY <1>4 DEF Noise
  <2> QED
    BY <2>2, <2>3, <2>4, <2>5
<1>5. CASE TimesOut
  BY <1>1, <1>5 DEF TimesOut, TickTypeOK
<1> QED
  BY <1>2, <1>3, <1>4, <1>5 DEF ReadPacketHeader

(* One more packet, when nothing is lost: the next of the delivery, or the  *)
(* end of the answer.                                                       *)
LEMMA CleanRead ==
  ASSUME TickTypeOK, ReadPacketHeader, clean'
  PROVE  /\ clean
         /\ \/ NextPacket
            \/ answer = <<>> /\ current' = NoHeader
  BY DEF ReadPacketHeader, NextPacket, Unasked, Noise, TimesOut, TickTypeOK

LEMMA NoHeaderIsNone ==
  /\ NoHeader \notin Txs \cup {End, Stray, Zero}
  /\ \A p \in Txs \cup {End} : IsTransaction(p) <=> p \in Txs
  /\ ~IsTransaction(End)
  BY TickAssumption DEF IsTransaction

(* The loop body and the header before it, when everything arrives.         *)
LEMMA FirstHeaderClean ==
  ASSUME TickTypeOK, SlotsOK, NEW h, Delivery(h), txs = <<>>, Len(answer) = Len(h) + 1,
         \A j \in 1..Len(answer) : answer[j] = Expected(h, j),
         FirstHeader, clean'
  PROVE  pc' = "receive" /\ InOrder(h)'
<1>1. answer \in Seq(Packets) /\ Len(h) \in Nat
  BY ExpectedFacts DEF TickTypeOK
<1>2. answer # <<>>
  BY <1>1, EmptySeq
<1>3. NextPacket /\ txs' = txs
  BY <1>2, CleanRead DEF FirstHeader
<1>4. /\ current' = answer[1] /\ Len(answer') = Len(answer) - 1
      /\ \A j \in 1..Len(answer') : answer'[j] = answer[j + 1]
  BY <1>1, <1>2, <1>3, HeadTailProperties DEF NextPacket
<1>5. current' = Expected(h, 1) /\ \A j \in 1..Len(answer') : answer'[j] = Expected(h, j + 1)
  BY <1>1, <1>4
<1>6. current' # NoHeader
  BY <1>1, <1>5, ExpectedFacts, NoHeaderIsNone
<1>7. pc' = "receive"
  BY <1>6 DEF FirstHeader
<1>8. Len(txs') = 0
  BY <1>3, EmptySeq
<1>9. Expected(h, 1)' = Expected(h, 1) /\ \A j : Expected(h, j)' = Expected(h, j)
  BY DEF Expected
<1> QED
  BY <1>1, <1>4, <1>5, <1>7, <1>8, <1>9 DEF InOrder

LEMMA ReceiveClean ==
  ASSUME TickTypeOK, SlotsOK, NEW h, Delivery(h), InOrder(h), nTx = CountTx(slots),
         ReceiveTransaction, clean'
  PROVE  \/ pc' = "receive" /\ InOrder(h)'
         \/ pc' = "received" /\ Delivery(txs')
<1> DEFINE m == Len(txs)
<1>1. /\ txs \in Seq(Txs \cup {Stray}) /\ answer \in Seq(Packets)
      /\ Len(h) \in Nat /\ m \in Nat /\ m <= Len(h) /\ nTx = Len(h)
  BY ExpectedFacts, LenProperties DEF TickTypeOK, InOrder, Delivery
<1>2. CASE m = Len(h)
  <2>1. current = End /\ Len(answer) = 0
    BY <1>1, <1>2 DEF InOrder, Expected
  <2>2. txs' = txs /\ pc' = "received"
    BY <1>1, <1>2, <2>1, NoHeaderIsNone DEF ReceiveTransaction
  <2>3. Delivery(txs)
    BY <1>1, <1>2, WholeDelivery DEF InOrder
  <2> QED
    BY <2>2, <2>3
<1>3. CASE m < Len(h)
  <2>1. current = h[m + 1] /\ current \in Txs /\ m + 1 \in 1..Len(h)
    BY <1>1, <1>3, ExpectedFacts DEF InOrder, Expected
  <2>2. txs' = Append(txs, current)
    BY <2>1, NoHeaderIsNone DEF ReceiveTransaction
  <2>3. /\ txs' \in Seq(Txs \cup {Stray}) /\ Len(txs') = m + 1
        /\ \A j \in 1..m : txs'[j] = txs[j]
        /\ txs'[m + 1] = current
    BY <1>1, <2>1, <2>2, AppendProperties
  <2>4. \A j \in 1..Len(txs') : txs'[j] = h[j]
    <3>1. \A j \in 1..m : txs[j] = h[j]
      BY DEF InOrder
    <3>2. \A j \in 1..(m + 1) : j \in 1..m \/ j = m + 1
      BY <1>1
    <3> QED
      BY <2>1, <2>3, <3>1, <3>2
  <2>5. answer # <<>>
    BY <1>1, <1>3, EmptySeq DEF InOrder
  <2>6. NextPacket
    BY <2>5, CleanRead DEF ReceiveTransaction
  <2>7. /\ current' = answer[1] /\ Len(answer') = Len(answer) - 1
        /\ \A j \in 1..Len(answer') : answer'[j] = answer[j + 1]
    BY <1>1, <2>5, <2>6, HeadTailProperties DEF NextPacket
  <2>8. CASE Len(txs') = nTx
    <3>1. pc' = "received"
      BY <2>8 DEF ReceiveTransaction
    <3>2. Delivery(txs')
      BY <1>1, <2>3, <2>4, <2>8, WholeDelivery
    <3> QED
      BY <3>1, <3>2
  <2>9. CASE Len(txs') # nTx
    <3>1. current' = Expected(h, m + 2)
      BY <1>1, <1>3, <2>7 DEF InOrder
    <3>2. current' # NoHeader
      BY <1>1, <1>3, <3>1, ExpectedFacts, NoHeaderIsNone
    <3>3. pc' = "receive"
      BY <2>9, <3>2 DEF ReceiveTransaction
    <3>4. \A j \in 1..Len(answer') : answer'[j] = Expected(h, m + 2 + j)
      <4>1. \A j \in 1..Len(answer) : answer[j] = Expected(h, m + 1 + j)
        BY DEF InOrder
      <4>2. Len(answer) \in Nat
        BY <1>1, LenProperties
      <4> QED
        BY <1>1, <2>7, <4>1, <4>2
    <3>5. Len(answer') = Len(h) - (m + 1)
      BY <1>1, <2>7 DEF InOrder
    <3>6. \A j : Expected(h, j)' = Expected(h, j)
      BY DEF Expected
    <3>7. m + 1 + 1 = m + 2
      BY <1>1
    <3> QED
      BY <1>1, <1>3, <2>3, <2>4, <3>1, <3>3, <3>4, <3>5, <3>6, <3>7 DEF InOrder
  <2> QED
    BY <2>8, <2>9
<1> QED
  BY <1>1, <1>2, <1>3

(* CheckTxOnFile, when everything arrived: every digest finds its           *)
(* transaction.                                                             *)
LEMMA FromFileFacts ==
  ASSUME TickTypeOK, SlotsOK
  PROVE  LET n == CountTx(slots) IN
         /\ DOMAIN FromFile(n) = 1..n
         /\ InTickOrder(FromFile(n)) \in Seq(Txs \cup {Zero})
         /\ \A i \in 1..n : slots[i] \in ToSet(FromFile(n)) => InTickOrder(FromFile(n))[i] = slots[i]
         /\ ToSet(InTickOrder(FromFile(n))) \subseteq ToSet(slots) \cup {Zero}
<1> DEFINE n == CountTx(slots)
           r == InTickOrder(FromFile(n))
<1>1. n \in Nat /\ 1..n \subseteq Indices
  BY TakenFacts, TickAssumption DEF Indices
<1> HIDE DEF n
<1>2. DOMAIN FromFile(n) = 1..n
  BY DEF FromFile
<1>3. r = [i \in 1..n |-> IF slots[i] \in ToSet(FromFile(n)) THEN slots[i] ELSE Zero]
  BY <1>2 DEF InTickOrder
<1> HIDE DEF r
<1>4. r \in [1..n -> Txs \cup {Zero}]
  BY <1>1, <1>3 DEF SlotsOK
<1>5. r \in Seq(Txs \cup {Zero})
  BY <1>1, <1>4, IsASeq
<1>6. ToSet(r) \subseteq ToSet(slots) \cup {Zero}
  BY <1>1, <1>3, TakenFacts DEF ToSet
<1> QED
  BY <1>2, <1>3, <1>5, <1>6 DEF n, r

LEMMA MissingInFile ==
  ASSUME TickTypeOK, SlotsOK, Dense, Delivery(txs),
         target \notin ToSet(InTickOrder(FromFile(CountTx(slots))))
  PROVE  target \notin ToSet(slots)
<1> DEFINE n == CountTx(slots)
           r == InTickOrder(FromFile(n))
<1> SUFFICES ASSUME target \in ToSet(slots) PROVE FALSE
  OBVIOUS
<1>1. target \in Asked
  BY TickAssumption DEF SlotsOK, Asked
<1>2. PICK i \in Taken(slots) : slots[i] = target
  BY <1>1, TakenFacts
<1>3. i \in 1..n
  BY DenseFacts
<1>4. txs \in Seq(Txs) /\ Len(txs) = n /\ ToSet(txs) = Asked
  BY DEF Delivery
<1>5. PICK j \in 1..n : txs[j] = target
  BY <1>1, <1>4, LenProperties DEF ToSet
<1>6. FromFile(n)[j] = target
  BY <1>4, <1>5 DEF FromFile
<1>7. DOMAIN FromFile(n) = 1..n
  BY FromFileFacts
<1>8. target \in ToSet(FromFile(n))
  BY <1>5, <1>6, <1>7 DEF ToSet
<1>9. r[i] = target
  BY <1>2, <1>3, <1>8, FromFileFacts
<1>10. DOMAIN r = 1..n
  BY <1>7 DEF InTickOrder
<1>11. target \in ToSet(r)
  BY <1>3, <1>9, <1>10 DEF ToSet
<1> QED
  BY <1>11

LEMMA TickInvInit == TickInit => TickInv
<1> SUFFICES ASSUME TickInit PROVE TickInv
  OBVIOUS
<1>1. SlotsOK
  BY DEF TickInit, SlotsOK
<1>2. answer \in Seq(Packets) /\ txs \in Seq(Txs \cup {Stray}) /\ result \in Seq(Txs \cup {Zero})
  BY EmptySeq DEF TickInit
<1>3. nTx \in 0..Slots /\ pushed \in 0..MaxPush
  BY TickAssumption DEF TickInit
<1>4. TickTypeOK
  BY <1>1, <1>2, <1>3 DEF TickInit, SlotsOK, TickTypeOK
<1> QED
  BY <1>1, <1>4 DEF TickInit, TickInv, CleanInv

(* The parts of the invariant that are about the tick itself.               *)
LEMMA TickUnchanged ==
  ASSUME SlotsOK, UNCHANGED tick
  PROVE  /\ SlotsOK' /\ Dense' = Dense /\ CountTx(slots)' = CountTx(slots)
         /\ CountTx(slots') = CountTx(slots) /\ Asked' = Asked
         /\ \A h : Delivery(h)' = Delivery(h)
         /\ \A h, k : Expected(h, k)' = Expected(h, k)
  BY DEF tick, SlotsOK, Taken, Dense, CountTx, Asked, Delivery, Expected

LEMMA GetTickDataStep == TickInv /\ GetTickData => TickInv'
<1> SUFFICES ASSUME TickInv, GetTickData PROVE TickInv'
  OBVIOUS
<1>1. SlotsOK /\ SlotsOK' /\ Dense' = Dense /\ CountTx(slots)' = CountTx(slots)
  BY TickUnchanged DEF TickInv, GetTickData
<1>2. UNCHANGED <<job, target, slots, answer, current, pushed, noisy, txs, result, clean>>
  BY DEF GetTickData, tick, stream
<1>3. txs = <<>> /\ verdict # "missing" /\ pc = "tickData"
  BY DEF TickInv, GetTickData
<1>4. CASE pc' = "request" /\ verdict' = verdict /\
           nTx' = IF job = "check" THEN CountTx(slots) ELSE LastTx(slots)
  <2>1. nTx' \in 0..Slots /\ (Dense => nTx' = CountTx(slots))
    BY <1>1, <1>4, TakenFacts, LastTxFacts, DenseFacts
  <2>2. TickTypeOK'
    BY <1>1, <1>2, <1>4, <2>1 DEF TickInv, TickTypeOK, Indices
  <2> QED
    BY <1>1, <1>2, <1>3, <1>4, <2>1, <2>2 DEF TickInv, CleanInv
<1>5. CASE pc' = "ended" /\ verdict' = "noData" /\ nTx' = nTx
  <2>1. TickTypeOK'
    BY <1>1, <1>2, <1>5 DEF TickInv, TickTypeOK, Indices
  <2> QED
    BY <1>1, <1>2, <1>3, <1>5, <2>1 DEF TickInv, CleanInv
<1> QED
  BY <1>4, <1>5 DEF GetTickData

LEMMA SendRequestStep == TickInv /\ SendRequest => TickInv'
<1> SUFFICES ASSUME TickInv, SendRequest PROVE TickInv'
  OBVIOUS
<1>1. SlotsOK /\ SlotsOK' /\ Dense' = Dense /\ CountTx(slots)' = CountTx(slots)
  BY TickUnchanged DEF TickInv, SendRequest
<1>2. /\ UNCHANGED <<job, target, slots, nTx, current, pushed, noisy, txs, result, verdict>>
      /\ pc = "request" /\ pc' = "first"
  BY DEF SendRequest, tick
<1>3. txs = <<>> /\ verdict # "missing" /\ (Dense => nTx = CountTx(slots))
  BY <1>2 DEF TickInv
<1> DEFINE asked == {slots[i] : i \in Requested(nTx)}
<1>4. asked \subseteq Asked
  BY <1>1, TakenFacts DEF Requested
<1>5. Dense => asked = Asked
  BY <1>1, <1>3, TakenFacts, RequestedAll
<1>6. CASE answer' = <<>> /\ clean' = FALSE
  <2>1. answer' \in Seq(Packets)
    BY <1>6, EmptySeq
  <2>2. TickTypeOK'
    BY <1>1, <1>2, <1>6, <2>1 DEF TickInv, TickTypeOK, Indices
  <2> QED
    BY <1>1, <1>2, <1>3, <1>6, <2>2 DEF TickInv
<1>7. ASSUME NEW held \in SetToAllKPermutations(asked), answer' = Append(held, End),
             clean' = (ToSet(held) = asked)
      PROVE  TickInv'
  <2> HIDE DEF asked
  <2>1. held \in Seq(Txs) /\ (ToSet(held) = Asked => Delivery(held))
    BY <1>1, <1>4, <1>7, DeliveryFacts
  <2>2. held \in Seq(Packets) /\ End \in Packets /\ Len(held) \in Nat
    <3>1. Txs \subseteq Packets
      BY DEF Packets
    <3>2. Len(held) \in Nat /\ \A i \in 1..Len(held) : held[i] \in Packets
      BY <2>1, <3>1, LenProperties, ElementOfSeq
    <3>3. held = [i \in 1..Len(held) |-> held[i]]
      BY <2>1, LenProperties
    <3> HIDE <1>7
    <3>4. [i \in 1..Len(held) |-> held[i]] \in Seq(Packets)
      BY <3>2, IsASeq
    <3> QED
      BY <3>2, <3>3, <3>4 DEF Packets
  <2>3. /\ answer' \in Seq(Packets) /\ Len(answer') = Len(held) + 1
        /\ \A j \in 1..Len(held) : answer'[j] = held[j]
        /\ answer'[Len(held) + 1] = End
    BY <1>7, <2>2, AppendProperties
  <2>4. \A j \in 1..Len(answer') : answer'[j] = Expected(held, j)
    BY <2>2, <2>3 DEF Expected
  <2>5. TickTypeOK'
    BY <1>1, <1>2, <1>7, <2>3 DEF TickInv, TickTypeOK, Indices
  <2>6. ASSUME clean', Dense PROVE CleanInv'
    <3>1. Delivery(held)
      BY <1>5, <1>7, <2>1, <2>6
    <3>2. Delivery(held)' /\ \A j : Expected(held, j)' = Expected(held, j)
      BY <1>1, <3>1, TickUnchanged DEF SendRequest
    <3> QED
      BY <1>2, <1>3, <2>3, <2>4, <3>2 DEF CleanInv
  <2> QED
    BY <1>1, <1>2, <1>3, <2>5, <2>6 DEF TickInv
<1> QED
  BY <1>6, <1>7 DEF SendRequest

LEMMA FirstHeaderStep == TickInv /\ FirstHeader => TickInv'
<1> SUFFICES ASSUME TickInv, FirstHeader PROVE TickInv'
  OBVIOUS
<1>1. SlotsOK /\ SlotsOK' /\ Dense' = Dense /\ CountTx(slots)' = CountTx(slots)
  BY TickUnchanged DEF TickInv, FirstHeader
<1>2. /\ UNCHANGED <<job, target, slots, nTx, txs, result, verdict>>
      /\ pc = "first" /\ pc' \in {"receive", "received"}
  BY DEF FirstHeader, tick
<1>3. verdict # "missing" /\ (Dense => nTx = CountTx(slots)) /\ TickTypeOK
  BY <1>2 DEF TickInv
<1>4. TickTypeOK'
  <2>1. /\ answer' \in Seq(Packets) /\ current' \in Packets \cup {NoHeader}
        /\ pushed' \in 0..MaxPush /\ noisy' \in BOOLEAN /\ clean' \in BOOLEAN
    BY <1>3, ReadPacketHeaderType DEF FirstHeader
  <2> QED
    BY <1>2, <1>3, <2>1 DEF TickTypeOK, Indices
<1>5. ASSUME clean', Dense PROVE CleanInv'
  <2>1. clean
    BY <1>3, <1>5, CleanRead DEF FirstHeader
  <2>2. PICK h : /\ Delivery(h) /\ txs = <<>> /\ Len(answer) = Len(h) + 1
                 /\ \A j \in 1..Len(answer) : answer[j] = Expected(h, j)
    BY <1>2, <1>5, <2>1 DEF TickInv, CleanInv
  <2>3. pc' = "receive" /\ InOrder(h)'
    BY <1>1, <1>3, <1>5, <2>2, FirstHeaderClean
  <2>4. Delivery(h)'
    BY <1>1, <2>2, TickUnchanged DEF FirstHeader
  <2> QED
    BY <1>2, <1>3, <2>3, <2>4 DEF CleanInv
<1> QED
  BY <1>1, <1>2, <1>3, <1>4, <1>5 DEF TickInv

LEMMA ReceiveTransactionStep == TickInv /\ ReceiveTransaction => TickInv'
<1> SUFFICES ASSUME TickInv, ReceiveTransaction PROVE TickInv'
  OBVIOUS
<1>1. SlotsOK /\ SlotsOK' /\ Dense' = Dense /\ CountTx(slots)' = CountTx(slots)
  BY TickUnchanged DEF TickInv, ReceiveTransaction
<1>2. /\ UNCHANGED <<job, target, slots, nTx, result, verdict>>
      /\ pc = "receive" /\ pc' \in {"receive", "received"}
      /\ txs' = IF IsTransaction(current) THEN Append(txs, current) ELSE txs
  BY DEF ReceiveTransaction, tick
<1>3. verdict # "missing" /\ (Dense => nTx = CountTx(slots)) /\ TickTypeOK
  BY <1>2 DEF TickInv
<1>4. TickTypeOK'
  <2>1. /\ answer' \in Seq(Packets) /\ current' \in Packets \cup {NoHeader}
        /\ pushed' \in 0..MaxPush /\ noisy' \in BOOLEAN /\ clean' \in BOOLEAN
    BY <1>3, ReadPacketHeaderType DEF ReceiveTransaction
  <2>2. txs' \in Seq(Txs \cup {Stray})
    BY <1>2, <1>3, AppendProperties DEF TickTypeOK, IsTransaction
  <2> QED
    BY <1>2, <1>3, <2>1, <2>2 DEF TickTypeOK, Indices
<1>5. ASSUME clean', Dense PROVE CleanInv'
  <2>1. clean
    BY <1>3, <1>5, CleanRead DEF ReceiveTransaction
  <2>2. PICK h : Delivery(h) /\ InOrder(h)
    BY <1>2, <1>5, <2>1 DEF TickInv, CleanInv
  <2>3. \/ pc' = "receive" /\ InOrder(h)'
        \/ pc' = "received" /\ Delivery(txs')
    BY <1>1, <1>3, <1>5, <2>2, ReceiveClean
  <2>4. Delivery(h)'
    BY <1>1, <2>2, TickUnchanged DEF ReceiveTransaction
  <2>5. Delivery(txs') => Delivery(txs)'
    BY <1>2 DEF Delivery, CountTx, Taken, Asked, Indices
  <2> QED
    BY <1>2, <1>3, <2>3, <2>4, <2>5 DEF CleanInv
<1> QED
  BY <1>1, <1>2, <1>3, <1>4, <1>5 DEF TickInv

LEMMA BodyTimesOutStep == TickInv /\ BodyTimesOut => TickInv'
<1> SUFFICES ASSUME TickInv, BodyTimesOut PROVE TickInv'
  OBVIOUS
<1>1. SlotsOK /\ SlotsOK'
  BY TickUnchanged DEF TickInv, BodyTimesOut
<1>2. /\ UNCHANGED <<job, target, slots, nTx, answer, current, pushed, noisy, txs, result>>
      /\ pc' = "ended" /\ verdict' = "aborted" /\ clean' = FALSE
  BY DEF BodyTimesOut, tick, stream
<1>3. TickTypeOK'
  BY <1>2 DEF TickInv, TickTypeOK, Indices
<1> QED
  BY <1>1, <1>2, <1>3 DEF TickInv

LEMMA SearchTickStep == TickInv /\ SearchTick => TickInv'
<1> SUFFICES ASSUME TickInv, SearchTick PROVE TickInv'
  OBVIOUS
<1>1. SlotsOK /\ SlotsOK' /\ Dense' = Dense
  BY TickUnchanged DEF TickInv, SearchTick
<1>2. /\ UNCHANGED <<job, target, slots, nTx, answer, current, pushed, noisy, txs, result, clean>>
      /\ pc = "received" /\ job = "check" /\ pc' \in {"receipt", "ended"}
      /\ pc' = "ended" <=> verdict' = "missing"
      /\ verdict' = IF target \in ToSet(txs) THEN "found" ELSE "missing"
  BY DEF SearchTick, tick, stream, Verdict
<1>3. TickTypeOK'
  BY <1>2 DEF TickInv, TickTypeOK, Indices
<1>4. ASSUME clean', Dense PROVE CleanInv'
  <2>1. ToSet(txs) = Asked
    BY <1>2, <1>4 DEF TickInv, CleanInv, Delivery
  <2>2. verdict' = "missing" => target \notin ToSet(slots)
    BY <1>1, <1>2, <2>1, TickAssumption DEF Asked, SlotsOK
  <2> QED
    BY <1>2, <2>2 DEF CleanInv
<1> QED
  BY <1>1, <1>2, <1>3, <1>4 DEF TickInv

LEMMA PrintReceiptStep == TickInv /\ PrintReceipt => TickInv'
<1> SUFFICES ASSUME TickInv, PrintReceipt PROVE TickInv'
  OBVIOUS
<1>1. SlotsOK /\ SlotsOK' /\ Dense' = Dense
  BY TickUnchanged DEF TickInv, PrintReceipt
<1>2. /\ UNCHANGED <<job, target, slots, nTx, answer, current, pushed, noisy, txs, result, clean>>
      /\ pc = "receipt" /\ pc' = "ended" /\ verdict' \in {"found", "aborted"}
  BY DEF PrintReceipt, tick, stream
<1>3. TickTypeOK'
  BY <1>2 DEF TickInv, TickTypeOK, Indices
<1>4. job # "file"
  BY <1>2 DEF TickInv
<1> QED
  BY <1>1, <1>2, <1>3, <1>4 DEF TickInv, CleanInv

LEMMA CheckTxOnFileStep == TickInv /\ CheckTxOnFile => TickInv'
<1> SUFFICES ASSUME TickInv, CheckTxOnFile PROVE TickInv'
  OBVIOUS
<1>1. SlotsOK /\ SlotsOK' /\ Dense' = Dense
  BY TickUnchanged DEF TickInv, CheckTxOnFile
<1> DEFINE r == InTickOrder(FromFile(CountTx(slots)))
<1>2. /\ UNCHANGED <<job, target, slots, nTx, answer, current, pushed, noisy, txs, clean>>
      /\ pc = "received" /\ pc' = "ended" /\ result' = r
      /\ verdict' = IF target \in ToSet(r) THEN "found" ELSE "missing"
  BY DEF CheckTxOnFile, tick, stream, Verdict
<1>3. r' = r
  BY <1>2 DEF InTickOrder, FromFile, CountTx, Taken, Indices
<1>4. r \in Seq(Txs \cup {Zero})
  BY <1>1, FromFileFacts DEF TickInv
<1> HIDE DEF r
<1>5. TickTypeOK'
  BY <1>2, <1>4 DEF TickInv, TickTypeOK, Indices
<1>6. ASSUME clean', Dense PROVE CleanInv'
  <2>1. Delivery(txs)
    BY <1>2, <1>6 DEF TickInv, CleanInv
  <2>2. verdict' = "missing" => target \notin ToSet(slots)
    BY <1>1, <1>2, <1>6, <2>1, MissingInFile DEF TickInv, r
  <2> QED
    BY <1>2, <2>2 DEF CleanInv
<1> QED
  BY <1>1, <1>2, <1>3, <1>5, <1>6 DEF TickInv, r

LEMMA TickStutter == TickInv /\ UNCHANGED tickVars => TickInv'
<1> SUFFICES ASSUME TickInv, UNCHANGED tickVars PROVE TickInv'
  OBVIOUS
<1>1. SlotsOK' /\ Dense' = Dense /\ CountTx(slots)' = CountTx(slots)
  BY TickUnchanged DEF TickInv, tickVars
<1>2. UNCHANGED <<job, target, slots, pc, nTx, answer, current, pushed, noisy, txs,
                  result, verdict, clean>>
  BY DEF tickVars, tick, stream
<1>3. TickTypeOK'
  BY <1>2 DEF TickInv, TickTypeOK, Indices
<1>4. CleanInv' = CleanInv
  BY <1>2 DEF CleanInv, Delivery, InOrder, Expected, CountTx, Taken, Asked, Indices
<1>5. InTickOrder(FromFile(CountTx(slots)))' = InTickOrder(FromFile(CountTx(slots)))
  BY <1>2 DEF InTickOrder, FromFile, CountTx, Taken, Indices
<1> QED
  BY <1>1, <1>2, <1>3, <1>4, <1>5 DEF TickInv

THEOREM TickInvariance == TickSpec => []TickInv
<1>1. TickInv /\ [TickNext]_tickVars => TickInv'
  BY GetTickDataStep, SendRequestStep, FirstHeaderStep, ReceiveTransactionStep,
     BodyTimesOutStep, SearchTickStep, PrintReceiptStep, CheckTxOnFileStep, TickStutter
     DEF TickNext, Terminated
<1> QED
  BY <1>1, TickInvInit, PTL DEF TickSpec

(* What is read is of the tick or passed for it, and there is room for it.  *)
THEOREM TickTypeCorrect == TickSpec => []TickTypeOK
  BY TickInvariance, PTL DEF TickInv

(* checkTxOnTick and checkTxOnFile: on a tick without a gap whose answer    *)
(* arrives whole, "Can NOT find tx" is right, for every number of slots,    *)
(* every order of the answer, and whichever of the two counts is used.      *)
THEOREM MissingMeansAbsent == TickSpec => []MissingIsAbsent
  BY TickInvariance, PTL DEF TickInv, CleanInv, MissingIsAbsent

(* What is left of the answer, what was received and the packet in current  *)
(* are together no more than the request can bring and what came besides.   *)
HeaderRead == IF current = NoHeader THEN 0 ELSE 1

(* While nothing came besides, END_RESPOND is still to come or came last.   *)
Regular ==
  /\ ~noisy /\ current # Other
  /\ \A j \in 1..Len(answer) : answer[j] # Other
  /\ answer # <<>> => answer[Len(answer)] = End
  /\ answer = <<>> => current \in {NoHeader, End}

StreamInv ==
  /\ pc \in {"tickData", "request", "first"} => current = NoHeader /\ txs = <<>> /\ ~noisy
  /\ pc \in {"request", "first", "receive", "received"} => CountTx(slots) <= nTx
  /\ pc \in {"first", "receive", "received"} =>
       /\ Len(answer) + Len(txs) + HeaderRead <= nTx + 1 + pushed
       /\ pushed = 0 => Regular
  /\ pc = "received" /\ current # NoHeader => Len(txs) = nTx

(* In a tick with gaps the file asks for more than it has.                  *)
LEMMA CountAtMostLast ==
  ASSUME SlotsOK
  PROVE  CountTx(slots) <= LastTx(slots)
<1>1. LastTx(slots) \in Nat /\ Taken(slots) \subseteq 1..LastTx(slots)
  BY LastTxFacts, TickAssumption DEF Taken, Indices
<1>2. IsFiniteSet(1..LastTx(slots)) /\ Cardinality(1..LastTx(slots)) = LastTx(slots)
  BY <1>1, FS_Interval
<1> QED
  BY <1>1, <1>2, FS_Subset DEF CountTx

(* A header that is read takes a packet of the answer or counts as pushed.  *)
LEMMA HeaderCount ==
  ASSUME TickTypeOK, ReadPacketHeader
  PROVE  /\ Len(answer) \in Nat /\ Len(answer') \in Nat /\ pushed \in Nat /\ pushed' \in Nat
         /\ HeaderRead \in 0..1 /\ HeaderRead' \in 0..1
         /\ Len(answer') + HeaderRead' + pushed <= Len(answer) + pushed'
<1>1. /\ answer \in Seq(Packets) /\ answer' \in Seq(Packets)
      /\ pushed \in Nat /\ pushed' \in Nat
  BY ReadPacketHeaderType, TickAssumption DEF TickTypeOK
<1>2. /\ Len(answer) \in Nat /\ Len(answer') \in Nat
      /\ HeaderRead \in 0..1 /\ HeaderRead' \in 0..1
  BY <1>1, LenProperties DEF HeaderRead
<1>3. CASE NextPacket
  <2>1. Len(answer') = Len(answer) - 1 /\ pushed' = pushed
    BY <1>1, <1>3, HeadTailProperties DEF NextPacket
  <2> QED
    BY <1>1, <1>2, <2>1
<1>4. CASE Unasked
  <2>1. answer' = answer /\ pushed' = pushed + 1
    BY <1>4 DEF Unasked
  <2> QED
    BY <1>1, <1>2, <2>1
<1>5. CASE Noise
  <2>1. PICK k \in 0..Len(answer) : answer' = SubSeq(answer, k + 1, Len(answer))
    BY <1>5 DEF Noise
  <2>2. \A i \in (k + 1)..Len(answer) : answer[i] \in Packets
    BY <1>1, <1>2, ElementOfSeq
  <2>3. Len(answer') = IF k + 1 <= Len(answer) THEN Len(answer) - (k + 1) + 1 ELSE 0
    BY <1>1, <1>2, <2>1, <2>2, SubSeqProperties
  <2>4. CASE pushed' = pushed + 1
    BY <1>1, <1>2, <2>3, <2>4
  <2>5. CASE answer' # answer /\ pushed' = pushed
    <3>1. k # 0
      <4> SUFFICES ASSUME k = 0 PROVE FALSE
        OBVIOUS
      <4>1. answer' = SubSeq(answer, 1, Len(answer))
        BY <2>1
      <4>2. \A i \in 1..Len(answer) : answer'[i] = answer[i]
        BY <1>1, <1>2, <2>2, <4>1, SubSeqProperties
      <4>3. answer' = answer
        BY <1>1, <1>2, <2>3, <4>2, SeqEqual
      <4> QED
        BY <2>5, <4>3
    <3> QED
      BY <1>1, <1>2, <2>3, <2>5, <3>1
  <2> QED
    BY <1>5, <2>4, <2>5 DEF Noise
<1>6. CASE TimesOut
  BY <1>1, <1>2, <1>6 DEF TimesOut, HeaderRead
<1> QED
  BY <1>1, <1>2, <1>3, <1>4, <1>5, <1>6 DEF ReadPacketHeader

LEMMA HeaderRegular ==
  ASSUME TickTypeOK, ReadPacketHeader, pushed = 0 => Regular, pushed' = 0
  PROVE  Regular'
<1>1. pushed \in Nat /\ answer \in Seq(Packets)
  BY TickAssumption DEF TickTypeOK
<1>2. pushed = 0 /\ Regular
  BY <1>1, HeaderCount DEF ReadPacketHeader, NextPacket, Unasked, Noise, TimesOut, Regular
<1>3. NextPacket \/ TimesOut
  BY <1>1, <1>2 DEF ReadPacketHeader, Unasked, Noise, Regular
<1>4. CASE TimesOut
  BY <1>2, <1>4, TickAssumption DEF TimesOut, Regular
<1>5. CASE NextPacket
  <2>1. /\ answer # <<>> /\ current' = answer[1] /\ Len(answer') = Len(answer) - 1
        /\ Len(answer) \in Nat \ {0} /\ answer' \in Seq(Packets)
        /\ \A j \in 1..Len(answer') : answer'[j] = answer[j + 1]
    BY <1>1, <1>5, HeadTailProperties, LenProperties, EmptySeq DEF NextPacket
  <2>2. current' # Other /\ \A j \in 1..Len(answer') : answer'[j] # Other
    BY <1>2, <2>1 DEF Regular
  <2>3. answer' # <<>> => answer'[Len(answer')] = End
    BY <1>2, <2>1, EmptySeq DEF Regular
  <2>4. ASSUME answer' = <<>> PROVE current' = End
    <3>1. Len(answer') = 0
      BY <2>4, EmptySeq
    <3>2. Len(answer) = 1
      BY <2>1, <3>1
    <3>3. answer[Len(answer)] = End
      BY <1>2, <2>1 DEF Regular
    <3> QED
      BY <2>1, <3>2, <3>3
  <2>5. ~noisy'
    BY <1>2, <1>5 DEF Regular, NextPacket
  <2> QED
    BY <2>2, <2>3, <2>4, <2>5 DEF Regular
<1> QED
  BY <1>3, <1>4, <1>5

LEMMA StreamInvInit == TickInit => StreamInv
  BY DEF TickInit, StreamInv

LEMMA StreamGetTickData == TickInv /\ StreamInv /\ GetTickData => StreamInv'
<1> SUFFICES ASSUME TickInv, StreamInv, GetTickData PROVE StreamInv'
  OBVIOUS
<1>1. SlotsOK /\ CountTx(slots)' = CountTx(slots)
  BY TickUnchanged DEF TickInv, GetTickData
<1>2. CountTx(slots) <= CountTx(slots) /\ CountTx(slots) <= LastTx(slots)
  BY <1>1, TakenFacts, CountAtMostLast
<1>3. pc' = "request" => CountTx(slots) <= nTx'
  BY <1>2 DEF GetTickData
<1> QED
  BY <1>1, <1>3 DEF GetTickData, StreamInv, stream

LEMMA StreamSendRequest == TickInv /\ StreamInv /\ SendRequest => StreamInv'
<1> SUFFICES ASSUME TickInv, StreamInv, SendRequest PROVE StreamInv'
  OBVIOUS
<1>1. SlotsOK /\ CountTx(slots)' = CountTx(slots)
  BY TickUnchanged DEF TickInv, SendRequest
<1>2. /\ nTx \in Nat /\ pushed \in Nat /\ CountTx(slots) \in Nat /\ CountTx(slots) <= nTx
      /\ current = NoHeader /\ ~noisy /\ Len(txs) = 0
  BY <1>1, TakenFacts, TickAssumption, EmptySeq DEF TickInv, TickTypeOK, StreamInv, SendRequest
<1>3. /\ UNCHANGED <<nTx, current, pushed, noisy, txs>> /\ pc' = "first"
      /\ HeaderRead' = 0 /\ Len(txs') = 0 /\ txs' = <<>>
  BY <1>2 DEF SendRequest, HeaderRead, StreamInv
<1> DEFINE asked == {slots[i] : i \in Requested(nTx)}
<1>4. asked \subseteq Asked
  BY <1>1, TakenFacts DEF Requested
<1>5. CASE answer' = <<>>
  <2>1. Len(answer') = 0 /\ Regular'
    BY <1>2, <1>3, <1>5, EmptySeq, TickAssumption DEF Regular
  <2> QED
    BY <1>1, <1>2, <1>3, <2>1 DEF StreamInv
<1>6. ASSUME NEW held \in SetToAllKPermutations(asked), answer' = Append(held, End)
      PROVE  StreamInv'
  <2> HIDE DEF asked
  <2>1. held \in Seq(Txs) /\ Len(held) <= CountTx(slots) /\ Len(held) \in Nat
    BY <1>1, <1>4, <1>6, DeliveryFacts, LenProperties
  <2>2. \A j \in 1..Len(held) : held[j] \in Txs \cup {End}
    BY <2>1, ElementOfSeq
  <2>3. held \in Seq(Txs \cup {End})
    <3>1. held = [i \in 1..Len(held) |-> held[i]]
      BY <2>1, LenProperties
    <3> HIDE <1>6
    <3>2. [i \in 1..Len(held) |-> held[i]] \in Seq(Txs \cup {End})
      BY <2>1, <2>2, IsASeq
    <3> QED
      BY <3>1, <3>2
  <2>4. /\ Len(answer') = Len(held) + 1
        /\ \A j \in 1..Len(held) : answer'[j] = held[j]
        /\ answer'[Len(held) + 1] = End
    BY <1>6, <2>3, AppendProperties
  <2>5. answer' # <<>>
    BY <2>1, <2>4, EmptySeq
  <2>6. \A j \in 1..Len(answer') : answer'[j] # Other
    <3>1. Other \notin Txs \cup {End}
      BY TickAssumption
    <3>2. \A j \in 1..(Len(held) + 1) : j \in 1..Len(held) \/ j = Len(held) + 1
      BY <2>1
    <3> QED
      BY <2>2, <2>4, <3>1, <3>2
  <2>7. Regular'
    BY <1>2, <1>3, <2>4, <2>5, <2>6, TickAssumption DEF Regular
  <2> QED
    BY <1>1, <1>2, <1>3, <2>1, <2>4, <2>7 DEF StreamInv
<1> QED
  BY <1>5, <1>6 DEF SendRequest

LEMMA StreamFirstHeader == TickInv /\ StreamInv /\ FirstHeader => StreamInv'
<1> SUFFICES ASSUME TickInv, StreamInv, FirstHeader PROVE StreamInv'
  OBVIOUS
<1>1. CountTx(slots)' = CountTx(slots) /\ TickTypeOK /\ ReadPacketHeader /\ pc = "first"
  BY TickUnchanged DEF TickInv, FirstHeader
<1>2. /\ nTx' = nTx /\ txs' = txs /\ pc' \in {"receive", "received"}
      /\ nTx \in Nat /\ Len(txs) \in Nat /\ (pc' = "received" => current' = NoHeader)
  BY <1>1, LenProperties, TickAssumption DEF FirstHeader, TickTypeOK
<1>3. /\ Len(answer) + Len(txs) + HeaderRead <= nTx + 1 + pushed
      /\ pushed = 0 => Regular
      /\ CountTx(slots) <= nTx
  BY <1>1 DEF StreamInv
<1>4. Len(answer') + Len(txs') + HeaderRead' <= nTx' + 1 + pushed'
  BY <1>1, <1>2, <1>3, HeaderCount
<1>5. pushed' = 0 => Regular'
  BY <1>1, <1>3, HeaderRegular
<1> QED
  BY <1>1, <1>2, <1>3, <1>4, <1>5 DEF StreamInv

LEMMA StreamReceiveTransaction == TickInv /\ StreamInv /\ ReceiveTransaction => StreamInv'
<1> SUFFICES ASSUME TickInv, StreamInv, ReceiveTransaction PROVE StreamInv'
  OBVIOUS
<1>1. CountTx(slots)' = CountTx(slots) /\ TickTypeOK /\ ReadPacketHeader /\ pc = "receive"
  BY TickUnchanged DEF TickInv, ReceiveTransaction
<1>2. /\ nTx' = nTx /\ pc' \in {"receive", "received"} /\ nTx \in Nat
      /\ txs \in Seq(Txs \cup {Stray}) /\ Len(txs) \in Nat
      /\ pc' = "received" => Len(txs') = nTx \/ current' = NoHeader
  BY <1>1, LenProperties, TickAssumption DEF ReceiveTransaction, TickTypeOK
<1>3. /\ Len(answer) + Len(txs) + HeaderRead <= nTx + 1 + pushed
      /\ pushed = 0 => Regular
      /\ CountTx(slots) <= nTx
  BY <1>1 DEF StreamInv
<1>4. Len(txs') \in Nat /\ Len(txs') <= Len(txs) + HeaderRead
  <2>1. CASE IsTransaction(current)
    <3>1. HeaderRead = 1 /\ txs' = Append(txs, current)
      BY <2>1, TickAssumption DEF HeaderRead, IsTransaction, ReceiveTransaction
    <3>2. Len(txs') = Len(txs) + 1
      BY <1>2, <2>1, <3>1, AppendProperties DEF IsTransaction
    <3> QED
      BY <1>2, <3>1, <3>2
  <2>2. CASE ~IsTransaction(current)
    BY <1>1, <1>2, <2>2, HeaderCount DEF ReceiveTransaction
  <2> QED
    BY <2>1, <2>2
<1>5. Len(answer') + Len(txs') + HeaderRead' <= nTx' + 1 + pushed'
  BY <1>1, <1>2, <1>3, <1>4, HeaderCount
<1>6. pushed' = 0 => Regular'
  BY <1>1, <1>3, HeaderRegular
<1> QED
  BY <1>1, <1>2, <1>3, <1>5, <1>6 DEF StreamInv

LEMMA StreamOther ==
  ASSUME TickInv, StreamInv, UNCHANGED <<tick, nTx, stream, txs>>,
         pc' = "ended" \/ pc' = "receipt" \/ pc' = pc
  PROVE  StreamInv'
<1>1. CountTx(slots)' = CountTx(slots) /\ UNCHANGED <<nTx, answer, current, pushed, noisy, txs>>
  BY TickUnchanged DEF TickInv, stream
<1>2. HeaderRead' = HeaderRead /\ Regular' = Regular
  BY <1>1 DEF HeaderRead, Regular
<1> QED
  BY <1>1, <1>2 DEF StreamInv

(* getTickTransactions: when its loop stops on the count, no more of the    *)
(* answer is left for the next request than came besides it, and if nothing *)
(* did, END_RESPOND has been read, for every number of slots and of         *)
(* packets, every order and gap, and whatever the headers are read from.    *)
THEOREM LoopReadsTheEnd == TickSpec => []EndIsRead
<1>1. TickInv /\ StreamInv /\ [TickNext]_tickVars => StreamInv'
  <2> SUFFICES ASSUME TickInv, StreamInv, [TickNext]_tickVars PROVE StreamInv'
    OBVIOUS
  <2>1. CASE BodyTimesOut
    BY <2>1, StreamOther DEF BodyTimesOut
  <2>2. CASE SearchTick
    BY <2>2, StreamOther DEF SearchTick
  <2>3. CASE PrintReceipt
    BY <2>3, StreamOther DEF PrintReceipt
  <2>4. CASE CheckTxOnFile
    BY <2>4, StreamOther DEF CheckTxOnFile
  <2>5. CASE UNCHANGED tickVars
    BY <2>5, StreamOther DEF tickVars
  <2> QED
    BY <2>1, <2>2, <2>3, <2>4, <2>5, StreamGetTickData, StreamSendRequest,
       StreamFirstHeader, StreamReceiveTransaction DEF TickNext, Terminated
<1>2. TickInv /\ StreamInv => EndIsRead
  <2> SUFFICES ASSUME TickInv, StreamInv, pc = "received", current # NoHeader
               PROVE  Len(answer) <= pushed /\ (pushed = 0 => current = End)
    BY DEF EndIsRead
  <2>1. answer \in Seq(Packets) /\ nTx \in Nat /\ pushed \in Nat /\ Len(answer) \in Nat
    BY TickAssumption, LenProperties DEF TickInv, TickTypeOK
  <2>2. /\ Len(txs) = nTx /\ HeaderRead = 1 /\ (pushed = 0 => Regular)
        /\ Len(answer) + Len(txs) + HeaderRead <= nTx + 1 + pushed
    BY DEF StreamInv, HeaderRead
  <2>3. Len(answer) <= pushed
    BY <2>1, <2>2
  <2>4. pushed = 0 => answer = <<>>
    BY <2>1, <2>3, EmptySeq
  <2> QED
    BY <2>2, <2>3, <2>4 DEF Regular
<1> QED
  BY <1>1, <1>2, StreamInvInit, TickInvariance, PTL DEF TickSpec
=============================================================================
