---------------------------- MODULE FileTransfer ----------------------------
(***************************************************************************)
(* uploadFile and downloadFile (file_upload.cpp).  A file is stored on the *)
(* chain as a header transaction and a list of fragment transactions, each *)
(* holding the hash of the one before it (fragment 0: of the header).  The *)
(* hash of the last fragment, the trailer, is what a download starts from. *)
(*                                                                         *)
(* The hash of a transaction is the transaction itself: K12 has no         *)
(* collisions.  The chain is external: a broadcast transaction may be      *)
(* included, at the tick it is scheduled for and at no other.              *)
(***************************************************************************)
EXTENDS Integers, Sequences, FiniteSets, SequencesExt

CONSTANTS
  FileSizes,   \* the files that may be uploaded, named by their sizes
  Full,        \* fullFragmentSize, in bytes
  IntMax,      \* 2^31 - 1: the largest int
  Offset,      \* scheduledTickOffset
  MaxTick,     \* bound: the last tick
  MaxRestarts  \* bound: how often a crashed upload is started again

(* Sizes and starts of segments are ints (file_upload.cpp:273-283): what    *)
(* the code does with a file of 2 GiB or more, whose rest int(tmp) makes    *)
(* another number, is not modelled.                                         *)
ASSUME FileAssumption ==
  /\ FileSizes \subseteq Nat \ {0}
  /\ IntMax \in Nat /\ \A f \in FileSizes : f <= IntMax
  /\ Full \in Nat \ {0} /\ Offset \in Nat
  /\ MaxTick \in Nat /\ MaxRestarts \in Nat

VARIABLES
  nodeTick, pending, ledger,        \* the chain: tick, pool, included transactions
  upc, file, header, frags, sent, restarts,   \* uploadFile
  dpc, buffer, want, left, nFragment, fileData   \* downloadFile

chain == <<nodeTick, pending, ledger>>
uploader == <<upc, file, header, frags, sent, restarts>>
downloader == <<dpc, buffer, want, left, nFragment, fileData>>
vars == <<chain, uploader, downloader>>

None == [kind |-> "none"]

(* The i-th byte of the file of size f.                                     *)
Bytes(f) == [i \in 1..f |-> <<f, i>>]

(* Mutant of NumberOfFragments: no rounding up.                             *)
NumberOfFragmentsRoundedDown(f) == f \div Full

NumberOfFragments(f) == (f + Full - 1) \div Full

(* segmentStart and segmentSize: both built from the segments before.       *)
SegmentSize(f, i) == IF f - i * Full < Full THEN f - i * Full ELSE Full
Segment(f, i) == SubSeq(Bytes(f), i * Full + 1, i * Full + SegmentSize(f, i))

Header(f, t) ==
  [kind |-> "header", fileSize |-> f, numberOfFragments |-> NumberOfFragments(f), tick |-> t]

Fragment(i, prev, content, t) ==
  [kind |-> "fragment", index |-> i, prev |-> prev, content |-> content, tick |-> t]

Init ==
  /\ nodeTick = 0 /\ pending = {} /\ ledger = {}
  /\ upc = "header" /\ file \in FileSizes /\ header = None
  /\ frags = <<>> /\ sent = None /\ restarts = 0
  /\ dpc = "idle" /\ buffer = None /\ want = None
  /\ left = 0 /\ nFragment = 0 /\ fileData = <<>>

-----------------------------------------------------------------------------
(* The chain processes a tick: of the transactions scheduled for it, some   *)
(* are included; the others never will be.                                  *)
ProcessTick ==
  /\ nodeTick < MaxTick
  /\ nodeTick' = nodeTick + 1
  /\ \E included \in SUBSET {tx \in pending : tx.tick = nodeTick} :
       ledger' = ledger \cup included
  /\ pending' = {tx \in pending : tx.tick > nodeTick}
  /\ UNCHANGED <<uploader, downloader>>

(* getTickNumberFromNode: a tick the node has reached, 0 when it fails.     *)
PolledTick == 0..nodeTick

Broadcast(tx) ==
  /\ sent' = tx
  /\ pending' = IF tx.tick >= nodeTick THEN pending \cup {tx} ELSE pending
  /\ UNCHANGED <<nodeTick, ledger>>

(* while (currentTick < txTick + 1)                                         *)
WaitIsOver == nodeTick > sent.tick

(* _GetTxInfo: 0 when the node returns the transaction, and 1 for all the   *)
(* rest: not included, no answer in time, another packet first.             *)
GetTxInfo(tx) == IF tx \in ledger THEN {0, 1} ELSE {1}

-----------------------------------------------------------------------------
(* uploadHeader                                                             *)
SendHeader ==
  /\ upc = "header"
  /\ \E t \in PolledTick : Broadcast(Header(file, t + Offset))
  /\ upc' = "headerSent"
  /\ UNCHANGED <<file, header, frags, restarts, downloader>>

VerifyHeader ==
  /\ upc = "headerSent" /\ WaitIsOver
  /\ \/ /\ 0 \in GetTxInfo(sent)
        /\ header' = sent /\ upc' = "fragment"
     \/ /\ 1 \in GetTxInfo(sent)
        /\ header' = None /\ upc' = "header"
  /\ UNCHANGED <<chain, file, frags, sent, restarts, downloader>>

(* uploadFragment                                                           *)
PrevDigest == IF frags = <<>> THEN header ELSE Last(frags)

SendFragment ==
  /\ upc = "fragment"
  /\ LET i == Len(frags) IN
       /\ i < NumberOfFragments(file)
       /\ \E t \in PolledTick :
            Broadcast(Fragment(i, PrevDigest, Segment(file, i), t + Offset))
  /\ upc' = "fragmentSent"
  /\ UNCHANGED <<file, header, frags, restarts, downloader>>

(* Mutant of VerifyFragment: the result of uploadFragment is not looked at. *)
VerifyFragmentUnchecked ==
  /\ upc = "fragmentSent" /\ WaitIsOver
  /\ frags' = Append(frags, sent)
  /\ upc' = "fragment"
  /\ UNCHANGED <<chain, file, header, sent, restarts, downloader>>

VerifyFragment ==
  /\ upc = "fragmentSent" /\ WaitIsOver
  /\ \/ /\ 0 \in GetTxInfo(sent)
        /\ frags' = Append(frags, sent)
     \/ /\ 1 \in GetTxInfo(sent)
        /\ UNCHANGED frags
  /\ upc' = "fragment"
  /\ UNCHANGED <<chain, file, header, sent, restarts, downloader>>

FinishUpload ==
  /\ upc = "fragment" /\ Len(frags) = NumberOfFragments(file)
  /\ upc' = "done"
  /\ UNCHANGED <<chain, file, header, frags, sent, restarts, downloader>>

(* The process dies, or an exception ends it; the user starts it again.     *)
(* Nothing was saved: the new upload begins with a header of its own.       *)
Restart ==
  /\ upc # "done" /\ restarts < MaxRestarts
  /\ restarts' = restarts + 1
  /\ upc' = "header" /\ header' = None /\ frags' = <<>> /\ sent' = None
  /\ file' \in FileSizes
  /\ UNCHANGED <<chain, downloader>>

-----------------------------------------------------------------------------
(* downloadFile.  _GetInputDataFromTxHash fills the buffer when it succeeds *)
(* and leaves it, and dataSize, as they were when it does not.              *)
Reads(tx) == tx \in ledger /\ buffer' = tx
ReadFails == UNCHANGED buffer

(* A hash that is not a fragment's: a header is too short, and its content  *)
(* size of dataSize - 40 < 0 makes fileData.resize throw.                   *)
ReadTrailer ==
  /\ dpc = "idle"
  /\ \E trailer \in ledger :
       \/ /\ Reads(trailer) /\ trailer.kind = "fragment"
          /\ fileData' = trailer.content
          /\ nFragment' = trailer.index + 1 /\ left' = trailer.index
          /\ want' = trailer.prev
          /\ dpc' = "reading"
       \/ /\ (Reads(trailer) /\ trailer.kind = "header") \/ ReadFails
          /\ dpc' = "refused"
          /\ UNCHANGED <<fileData, nFragment, left, want>>
  /\ UNCHANGED <<chain, uploader>>

(* The loop's body: on failure the previous fragment, still in the buffer,  *)
(* is put in front of the data again.                                       *)
ReadFragment ==
  /\ dpc = "reading" /\ left > 0
  /\ (want.kind = "fragment" /\ Reads(want)) \/ ReadFails
  /\ want' = buffer'.prev
  /\ fileData' = buffer'.content \o fileData
  /\ left' = left - 1
  /\ UNCHANGED <<chain, uploader, dpc, nFragment>>

(* The header's fields are read from the buffer whatever is in it: the      *)
(* first eight bytes of a fragment are its index, the next eight are bytes  *)
(* of a hash, which agree with any count or not.                            *)
SizeField(tx) == IF tx.kind = "header" THEN tx.fileSize ELSE tx.index
CountField(tx) ==
  IF tx.kind = "header" THEN {tx.numberOfFragments} ELSE {nFragment, nFragment + 1}

(* Mutant of HeaderAgrees: the size is not compared.                        *)
HeaderAgreesOnCount(tx, count) == count = nFragment

HeaderAgrees(tx, count) == SizeField(tx) = Len(fileData) /\ count = nFragment

ReadHeader ==
  /\ dpc = "reading" /\ left = 0
  /\ Reads(want) \/ ReadFails
  /\ \E count \in CountField(buffer') :
       dpc' = IF HeaderAgrees(buffer', count) THEN "written" ELSE "refused"
  /\ UNCHANGED <<chain, uploader, want, left, nFragment, fileData>>

-----------------------------------------------------------------------------
Upload == SendHeader \/ VerifyHeader \/ SendFragment \/ VerifyFragment \/ FinishUpload \/ Restart
Download == ReadTrailer \/ ReadFragment \/ ReadHeader

(* No step is possible once the upload and the download have ended, or wait *)
(* for a tick that is out of the bound.                                     *)
Next == Upload \/ Download \/ ProcessTick

Spec == Init /\ [][Next]_vars

-----------------------------------------------------------------------------
TxKinds == {"header", "fragment"}
Transactions == pending \cup ledger
Fragments == {tx \in Transactions : tx.kind = "fragment"}

TypeOK ==
  /\ nodeTick \in 0..MaxTick
  /\ \A tx \in Transactions : tx.kind \in TxKinds /\ tx.tick \in Nat
  /\ upc \in {"header", "headerSent", "fragment", "fragmentSent", "done"}
  /\ file \in FileSizes /\ restarts \in 0..MaxRestarts
  /\ header.kind \in {"none", "header"}
  /\ Len(frags) <= NumberOfFragments(file)
  /\ dpc \in {"idle", "reading", "written", "refused"}
  /\ left \in Nat /\ nFragment \in Nat

(* Whatever was retried, resubmitted or restarted, a fragment on its way to *)
(* the chain or on it continues a transaction that is on the chain: the     *)
(* header when it is fragment 0, else the fragment with the index before.   *)
(* (uploadFile sends fragment i only after fragment i-1 was found, and      *)
(* links it to the hash that was found.)                                    *)
LinksResolve ==
  \A tx \in Fragments :
    /\ tx.prev \in ledger
    /\ IF tx.index = 0 THEN tx.prev.kind = "header"
       ELSE tx.prev.kind = "fragment" /\ tx.prev.index = tx.index - 1

(* The list of hashes uploadFile prints at the end is a complete chain: all *)
(* of it is included, and it spells the file from its first to its last byte. *)
UploadedChain ==
  upc = "done" =>
    /\ header \in ledger /\ header.fileSize = file /\ Len(frags) = header.numberOfFragments
    /\ \A i \in DOMAIN frags :
         /\ frags[i] \in ledger
         /\ frags[i].prev = IF i = 1 THEN header ELSE frags[i - 1]
    /\ FlattenSeq([i \in DOMAIN frags |-> frags[i].content]) = Bytes(file)

(* A download that writes a file writes one that was uploaded, byte for     *)
(* byte, whichever fragment it was started from, however many reads failed  *)
(* on the way, and while other uploads go on.                               *)
DownloadSound == dpc = "written" => \E f \in FileSizes : fileData = Bytes(f)
=============================================================================
