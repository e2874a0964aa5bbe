--------------------------- MODULE Dataset_proofs ---------------------------
(***************************************************************************)
(* Proofs about the benchmark: its files, for any archives, limits,        *)
(* failures and kills; and the samples drawn from its examples, for any    *)
(* examples, labels, orders of arrival, sizes and strategies.              *)
(***************************************************************************)
EXTENDS Dataset, FiniteSetTheorems, SequenceTheorems, WellFoundedInduction, TLAPS

-----------------------------------------------------------------------------
(***************************************************************************)
(* The files of the benchmark.                                             *)
(***************************************************************************)

Files == Contents \cup {NoFile}

IsPrepared(copy) ==
  /\ copy = [from |-> copy.from, limit |-> copy.limit, splits |-> copy.splits,
             whole |-> copy.whole]
  /\ IsCopy(copy)

DataType ==
  /\ archive \in Files /\ partial \in Files
  /\ extracted = [d \in Contents |-> extracted[d]]
  /\ step # "idle" => outcome = "running"
  /\ step = "idle" => outcome # "running"

(* What each step of a command relies on.                                  *)
StepInv ==
  /\ step = "verify" => partial = digest
  /\ step = "publish" => partial = digest /\ digest \in ValidZips /\ Expected(digest)
  /\ step \in {"extract", "unpack", "record"} =>
       archive \in ValidZips /\ digest = archive /\ Expected(archive)
  /\ step = "unpack" => unpacked.content = archive
  /\ step = "record" => (command.extract => extracted[archive] # NoFile)
  /\ step \in {"remove", "normalize"} =>
       command.kind = "prepare" /\ command.limit \in Limits /\ IsSource(archive)

(* What the files are worth.                                               *)
ContentInv ==
  /\ archive \in Contents \ ValidZips =>
       /\ provenance = NoFile
       /\ \A d \in Contents : extracted[d] = NoFile
  /\ \A d \in Contents : extracted[d] # NoFile => extracted[d] = Directory(d, TRUE)
  /\ step = "remove" \/ prepared # NoFile => IsPrepared(prepared)
  /\ prepared # NoFile => prepared.whole \/ step = "remove" \/ cutShort
  /\ command # None /\ outcome = "succeeded" => (command.kind = "download" => RecordIsTrue)

DataInv == DataType /\ StepInv /\ ContentInv

-----------------------------------------------------------------------------

(* The beginning of a split is as long as its limit, or all of it.         *)
LEMMA BeginningIsPrefix ==
  ASSUME NEW limit \in Limits, NEW S, NEW lines \in Seq(S)
  PROVE  LET b == Beginning(lines, limit)
         IN  /\ b \in Seq(S) /\ Len(b) <= Len(lines) /\ Len(b) \in Nat
             /\ \A k \in 1..Len(b) : b[k] = lines[k]
             /\ Len(b) # Len(lines) => limit # Unlimited /\ Len(b) = Longest(limit)
             /\ limit # Unlimited => limit \in Nat /\ Len(b) <= Longest(limit)
<1>0. limit # Unlimited => limit \in Nat
  BY ContentsAssumption
<1>1. CASE limit = Unlimited \/ Len(lines) <= Longest(limit)
  <2>1. Beginning(lines, limit) = lines
    BY <1>1 DEF Beginning
  <2>2. Len(lines) \in Nat /\ \A k \in 1..Len(lines) : lines[k] = lines[k]
    BY LenProperties
  <2>3. limit # Unlimited => Len(lines) <= Longest(limit)
    BY <1>1
  <2> QED  BY <1>0, <2>1, <2>2, <2>3
<1>2. CASE ~(limit = Unlimited \/ Len(lines) <= Longest(limit))
  <2> DEFINE n == Longest(limit)
  <2>1. n \in Nat /\ n >= 1
    BY <1>2, ContentsAssumption DEF Longest
  <2>2. n < Len(lines) /\ Len(lines) \in Nat
    BY <1>2, <2>1, LenProperties
  <2>3. Beginning(lines, limit) = SubSeq(lines, 1, n)
    BY <1>2 DEF Beginning
  <2> HIDE DEF n
  <2>4. /\ SubSeq(lines, 1, n) \in Seq(S) /\ Len(SubSeq(lines, 1, n)) = n
        /\ \A k \in 1..n : SubSeq(lines, 1, n)[k] = lines[k]
    BY <2>1, <2>2, SubSeqProperties
  <2>5. limit # Unlimited
    BY <1>2
  <2> QED  BY <1>0, <2>1, <2>2, <2>3, <2>4, <2>5 DEF n
<1> QED  BY <1>1, <1>2

(* What the loader makes of a split is as a copy wants it.                 *)
LEMMA LoadedIsTrue ==
  ASSUME NEW limit \in Limits, NEW S, NEW lines \in Seq(S), Loads(lines, limit)
  PROVE  IsSplitOf(Examples(lines, limit), lines, limit)
<1> DEFINE b == Beginning(lines, limit)
           examples == Examples(lines, limit)
<1>1. /\ b \in Seq(S) /\ Len(b) \in Nat
      /\ \A k \in 1..Len(b) : b[k] = lines[k]
      /\ Len(b) # Len(lines) => limit # Unlimited /\ Len(b) = Longest(limit)
      /\ limit # Unlimited => limit \in Nat /\ Len(b) <= Longest(limit)
  BY BeginningIsPrefix
<1> DEFINE n == Len(b)
<1>2. n \in Nat /\ DOMAIN b = 1..n
  BY <1>1
<1>3. /\ \A i \in 1..n : IsUsable(lines[i]) /\ ~IsDuplicate(lines, i)
      /\ examples = [i \in 1..n |-> [id |-> lines[i].id, label |-> GoldLabel(lines[i])]]
  BY <1>2 DEF Loads, Examples
<1>4. /\ n # Len(lines) => limit # Unlimited /\ n >= limit /\ n > 0
      /\ limit # Unlimited => n <= limit \/ n <= 1
  BY <1>1, <1>2 DEF Longest
<1> HIDE DEF b, n, examples
<1>5. DOMAIN examples = 1..n /\ Len(examples) = n
  BY <1>2, <1>3
<1>6. \A k \in 1..n : examples[k].id = lines[k].id /\ examples[k].label = GoldLabel(lines[k])
  BY <1>3
<1>7. ASSUME NEW k \in 1..n, examples[k].label = "CONTRADICTED"
      PROVE  lines[k].proven
  BY <1>3, <1>6, <1>7 DEF IsUsable, GoldLabel
<1>9. \A k \in 1..n : lines[k].whole
  BY <1>3 DEF IsUsable
<1>8. ASSUME NEW k \in 1..n, NEW m \in 1..n, examples[k].id = examples[m].id, k # m
      PROVE  FALSE
  <2>1. lines[k].id = lines[m].id
    BY <1>6, <1>8
  <2>2. k \in Nat /\ m \in Nat /\ k >= 1 /\ m >= 1
    BY <1>2
  <2>3. k \in 1..(m - 1) \/ m \in 1..(k - 1)
    BY <1>8, <2>2
  <2> QED  BY <1>3, <2>1, <2>3 DEF IsDuplicate
<1>10. IsSplitOf(examples, lines, limit)
  BY <1>4, <1>5, <1>6, <1>7, <1>8, <1>9 DEF IsSplitOf
<1> QED  BY <1>10 DEF examples

-----------------------------------------------------------------------------

LEMMA InitData == FilesInit => DataInv
<1> SUFFICES ASSUME FilesInit
             PROVE  DataInv
  OBVIOUS
<1>1. DataType
  BY ContentsAssumption DEF FilesInit, DataType, Files
<1>2. StepInv
  BY DEF FilesInit, StepInv
<1>3. ContentInv
  BY DEF FilesInit, ContentInv
<1> QED  BY <1>1, <1>2, <1>3 DEF DataInv

(* A step that leaves the files alone, but for the partial one, and does   *)
(* not end in success or a removal.                                        *)
LEMMA FilesStay ==
  ASSUME DataInv, outcome' # "succeeded", step # "remove", step' # "remove",
         UNCHANGED <<archive, extracted, provenance, prepared, cutShort>>
  PROVE  ContentInv'
BY DEF DataInv, ContentInv

LEMMA AcquireKeeps ==
  ASSUME DataInv, NEW force \in BOOLEAN, NEW extract \in BOOLEAN,
         NEW expected \in ValidZips \cup {NoFile}, Acquire(force, extract, expected)
  PROVE  DataInv'
<1>1. /\ step = "idle" /\ outcome' = "running" /\ step' \in {"reuse", "fetch"}
      /\ UNCHANGED <<archive, partial, extracted, provenance, prepared, cutShort>>
  BY DEF Acquire
<1>2. DataType'
  BY <1>1 DEF DataInv, DataType
<1>3. StepInv'
  BY <1>1 DEF StepInv
<1>4. ContentInv'
  BY <1>1, FilesStay
<1> QED  BY <1>2, <1>3, <1>4 DEF DataInv

LEMMA ReuseKeeps ==
  ASSUME DataInv, Reuse
  PROVE  DataInv'
<1>1. /\ step = "reuse" /\ outcome = "running"
      /\ UNCHANGED <<archive, partial, extracted, provenance, prepared, cutShort, command>>
  BY DEF DataInv, DataType, Reuse, Onward, End
<1>2. \/ /\ archive \in ValidZips /\ Expected(archive) /\ digest' = archive
         /\ step' = "extract" /\ outcome' = outcome
      \/ step' = "idle" /\ outcome' = "failed"
  BY <1>1 DEF Reuse, Onward, End
<1>3. DataType'
  BY <1>1, <1>2 DEF DataInv, DataType
<1>4. StepInv'
  BY <1>1, <1>2 DEF StepInv, Expected
<1>5. ContentInv'
  BY <1>1, <1>2, FilesStay
<1> QED  BY <1>3, <1>4, <1>5 DEF DataInv

LEMMA FetchKeeps ==
  ASSUME DataInv, Fetch
  PROVE  DataInv'
<1>1. /\ step = "fetch" /\ outcome = "running"
      /\ UNCHANGED <<archive, extracted, provenance, prepared, cutShort, command, digest>>
  BY DEF DataInv, DataType, Fetch, Onward, End
<1>2. \/ partial' = Truncated /\ step' = "receive" /\ outcome' = outcome
      \/ partial' = NoFile /\ step' = "idle" /\ outcome' = "failed"
  BY DEF Fetch, Onward, End
<1>3. DataType'
  BY <1>1, <1>2, ContentsAssumption DEF DataInv, DataType, Files
<1>4. StepInv'
  BY <1>1, <1>2 DEF StepInv
<1>5. ContentInv'
  BY <1>1, <1>2, FilesStay
<1> QED  BY <1>3, <1>4, <1>5 DEF DataInv

LEMMA ReceiveKeeps ==
  ASSUME DataInv, Receive
  PROVE  DataInv'
<1>1. /\ step = "receive" /\ outcome = "running"
      /\ UNCHANGED <<archive, extracted, provenance, prepared, cutShort, command>>
  BY DEF DataInv, DataType, Receive, Onward, End
<1>2. \/ /\ partial' \in Fitting /\ digest' = partial'
         /\ step' = "verify" /\ outcome' = outcome
      \/ partial' = NoFile /\ step' = "idle" /\ outcome' = "failed"
  BY DEF Receive, Onward, End
<1>3. DataType'
  BY <1>1, <1>2, ContentsAssumption DEF DataInv, DataType, Files
<1>4. StepInv'
  BY <1>1, <1>2 DEF StepInv
<1>5. ContentInv'
  BY <1>1, <1>2, FilesStay
<1> QED  BY <1>3, <1>4, <1>5 DEF DataInv

LEMMA VerifyKeeps ==
  ASSUME DataInv, Verify
  PROVE  DataInv'
<1>1. /\ step = "verify" /\ outcome = "running" /\ partial = digest
      /\ UNCHANGED <<archive, extracted, provenance, prepared, cutShort, command, digest>>
  BY DEF DataInv, DataType, StepInv, Verify, Onward, End
<1>2. \/ /\ Expected(digest) /\ partial \in ValidZips /\ partial' = partial
         /\ step' = "publish" /\ outcome' = outcome
      \/ partial' = NoFile /\ step' = "idle" /\ outcome' = "failed"
  BY DEF Verify, Onward, End
<1>3. DataType'
  BY <1>1, <1>2 DEF DataInv, DataType, Files
<1>4. StepInv'
  BY <1>1, <1>2 DEF StepInv, Expected
<1>5. ContentInv'
  BY <1>1, <1>2, FilesStay
<1> QED  BY <1>3, <1>4, <1>5 DEF DataInv

(* A broken archive is replaced by a valid one only.                       *)
LEMMA PublishKeeps ==
  ASSUME DataInv, Publish
  PROVE  DataInv'
<1>1. /\ step = "publish" /\ outcome = "running" /\ partial' = NoFile
      /\ partial = digest /\ digest \in ValidZips /\ Expected(digest)
      /\ UNCHANGED <<extracted, provenance, prepared, cutShort, command, digest>>
  BY DEF DataInv, DataType, StepInv, Publish, Onward, End
<1>2. CASE archive' = partial /\ Onward("extract")
  <2>1. step' = "extract" /\ outcome' = "running" /\ archive' \in ValidZips
    BY <1>1, <1>2 DEF Onward
  <2>2. DataType'
    BY <1>1, <1>2, <2>1, ContentsAssumption DEF DataInv, DataType, Files
  <2>3. StepInv'
    BY <1>1, <1>2, <2>1 DEF StepInv, Expected
  <2>4. ContentInv'
    BY <1>1, <2>1 DEF DataInv, ContentInv
  <2> QED  BY <2>2, <2>3, <2>4 DEF DataInv
<1>3. CASE UNCHANGED archive /\ End("failed")
  <2>1. step' = "idle" /\ outcome' = "failed"
    BY <1>3 DEF End
  <2>2. DataType'
    BY <1>1, <1>3, <2>1 DEF DataInv, DataType, Files
  <2>3. StepInv'
    BY <2>1 DEF StepInv
  <2>4. ContentInv'
    BY <1>1, <1>3, <2>1, FilesStay
  <2> QED  BY <2>2, <2>3, <2>4 DEF DataInv
<1> QED  BY <1>2, <1>3 DEF Publish

LEMMA ExtractKeeps ==
  ASSUME DataInv, Extract
  PROVE  DataInv'
<1>1. /\ step = "extract" /\ outcome = "running"
      /\ archive \in ValidZips /\ digest = archive /\ Expected(archive)
      /\ UNCHANGED <<archive, partial, extracted, provenance, prepared, cutShort, command, digest>>
  BY DEF DataInv, DataType, StepInv, Extract, Unpack, Onward, End
<1>2. \/ /\ ~command.extract \/ extracted[digest] # NoFile
         /\ step' = "record" /\ outcome' = outcome
      \/ /\ unpacked' = Directory(archive, FALSE)
         /\ step' = "unpack" /\ outcome' = outcome
      \/ step' = "idle" /\ outcome' = "failed"
  BY DEF Extract, Unpack, Onward, End
<1>3. DataType'
  BY <1>1, <1>2 DEF DataInv, DataType
<1>4. StepInv'
  BY <1>1, <1>2 DEF StepInv, Expected, Directory
<1>5. ContentInv'
  BY <1>1, <1>2, FilesStay
<1> QED  BY <1>3, <1>4, <1>5 DEF DataInv

(* The directory that gets the name of a digest holds all of its archive.  *)
LEMMA FinishUnpackingKeeps ==
  ASSUME DataInv, FinishUnpacking
  PROVE  DataInv'
<1>1. /\ step = "unpack" /\ outcome = "running" /\ unpacked.content = archive
      /\ archive \in ValidZips /\ archive \in Contents /\ digest = archive /\ Expected(archive)
      /\ UNCHANGED <<archive, partial, provenance, prepared, cutShort, command, digest>>
  BY ContentsAssumption DEF DataInv, DataType, StepInv, FinishUnpacking, Onward, End
<1>2. CASE /\ extracted' = [extracted EXCEPT ![digest] = Directory(unpacked.content, TRUE)]
           /\ Onward("record")
  <2>1. /\ extracted' = [d \in Contents |-> extracted'[d]]
        /\ extracted'[archive] = Directory(archive, TRUE)
        /\ \A d \in Contents : d # archive => extracted'[d] = extracted[d]
    BY <1>1, <1>2 DEF DataInv, DataType
  <2>2. step' = "record" /\ outcome' = "running"
    BY <1>1, <1>2 DEF Onward
  <2>3. DataType'
    BY <1>1, <2>1, <2>2 DEF DataInv, DataType
  <2>4. StepInv'
    BY <1>1, <2>1, <2>2, DirectoryAssumption DEF StepInv, Expected
  <2>5. ContentInv'
    <3>1. \A d \in Contents : extracted'[d] # NoFile => extracted'[d] = Directory(d, TRUE)
      BY <2>1 DEF DataInv, ContentInv
    <3> QED  BY <1>1, <2>2, <3>1 DEF DataInv, ContentInv
  <2> QED  BY <2>3, <2>4, <2>5 DEF DataInv
<1>3. CASE UNCHANGED extracted /\ End("failed")
  <2>1. step' = "idle" /\ outcome' = "failed"
    BY <1>3 DEF End
  <2>2. DataType'
    BY <1>1, <1>3, <2>1 DEF DataInv, DataType
  <2>3. StepInv'
    BY <2>1 DEF StepInv
  <2>4. ContentInv'
    BY <1>1, <1>3, <2>1, FilesStay
  <2> QED  BY <2>2, <2>3, <2>4 DEF DataInv
<1> QED  BY <1>2, <1>3 DEF FinishUnpacking

LEMMA RecordKeeps ==
  ASSUME DataInv, Record
  PROVE  DataInv'
<1>1. /\ step = "record" /\ outcome = "running" /\ step' = "idle"
      /\ archive \in ValidZips /\ digest = archive /\ Expected(archive)
      /\ command.extract => extracted[archive] # NoFile
      /\ UNCHANGED <<archive, partial, extracted, prepared, cutShort, command, digest>>
  BY DEF DataInv, DataType, StepInv, Record, End
<1>2. StepInv'
  BY <1>1 DEF StepInv
<1>3. CASE /\ provenance' = [archive |-> digest,
                             extraction |-> IF command.extract THEN digest ELSE NoFile]
           /\ End("succeeded")
  <2>1. outcome' = "succeeded"
    BY <1>3 DEF End
  <2>2. DataType'
    BY <1>1, <2>1 DEF DataInv, DataType
  <2>3. RecordIsTrue'
    BY <1>1, <1>3 DEF RecordIsTrue, Expected
  <2>4. ContentInv'
    BY <1>1, <2>3 DEF DataInv, ContentInv
  <2> QED  BY <1>2, <2>2, <2>4 DEF DataInv
<1>4. CASE UNCHANGED provenance /\ End("failed")
  <2>1. outcome' = "failed"
    BY <1>4 DEF End
  <2>2. DataType'
    BY <1>1, <2>1 DEF DataInv, DataType
  <2>3. ContentInv'
    BY <1>1, <1>4, <2>1, FilesStay
  <2> QED  BY <1>2, <2>2, <2>3 DEF DataInv
<1> QED  BY <1>3, <1>4 DEF Record

LEMMA PrepareKeeps ==
  ASSUME DataInv, NEW force \in BOOLEAN, NEW limit \in Limits, Prepare(force, limit)
  PROVE  DataInv'
<1>1. /\ step = "idle"
      /\ command' = [kind |-> "prepare", force |-> force, limit |-> limit]
      /\ UNCHANGED <<archive, partial, extracted, provenance, prepared, cutShort>>
  BY DEF Prepare
<1>2. \/ step' = "idle" /\ outcome' = "failed"
      \/ /\ IsSource(archive) /\ outcome' = "running"
         /\ \/ step' = "normalize"
            \/ step' = "remove" /\ prepared # NoFile
  BY DEF Prepare
<1>3. DataType'
  BY <1>1, <1>2 DEF DataInv, DataType
<1>4. StepInv'
  BY <1>1, <1>2 DEF StepInv, IsSource
<1>5. ContentInv'
  BY <1>1, <1>2 DEF DataInv, ContentInv
<1> QED  BY <1>3, <1>4, <1>5 DEF DataInv

(* A copy loses its files before it loses its name. *)
LEMMA RemoveCopyKeeps ==
  ASSUME DataInv, RemoveCopy
  PROVE  DataInv'
<1>1. /\ step = "remove" /\ outcome = "running" /\ IsPrepared(prepared)
      /\ command.kind = "prepare" /\ command.limit \in Limits /\ IsSource(archive)
      /\ UNCHANGED <<archive, partial, extracted, unpacked, provenance, digest, command>>
  BY DEF DataInv, DataType, StepInv, ContentInv, RemoveCopy, Onward, End
<1>2. IsSource(archive)'
  BY <1>1 DEF IsSource
<1>3. CASE /\ prepared' = [prepared EXCEPT !.whole = FALSE]
           /\ Onward("remove") /\ UNCHANGED cutShort
  <2>1. step' = "remove" /\ outcome' = "running"
    BY <1>1, <1>3 DEF Onward
  <2>2. /\ prepared' = [from |-> prepared.from, limit |-> prepared.limit,
                        splits |-> prepared.splits, whole |-> FALSE]
    BY <1>1, <1>3 DEF IsPrepared
  <2>3. IsPrepared(prepared')
    <3>1. /\ prepared'.from = prepared.from /\ prepared'.limit = prepared.limit
          /\ prepared'.splits = prepared.splits /\ prepared'.whole = FALSE
      BY <2>2
    <3>2. IsCopy(prepared')
      BY <1>1, <3>1 DEF IsPrepared, IsCopy
    <3> QED  BY <2>2, <3>1, <3>2 DEF IsPrepared
  <2>4. DataType'
    BY <1>1, <2>1 DEF DataInv, DataType
  <2>5. StepInv'
    BY <1>1, <1>2, <2>1 DEF StepInv
  <2>6. ContentInv'
    BY <1>1, <1>2, <2>1, <2>3 DEF DataInv, ContentInv
  <2> QED  BY <2>4, <2>5, <2>6 DEF DataInv
<1>4. CASE prepared' = NoFile /\ Onward("normalize") /\ cutShort' = FALSE
  <2>1. step' = "normalize" /\ outcome' = "running"
    BY <1>1, <1>4 DEF Onward
  <2>2. DataType'
    BY <1>1, <2>1 DEF DataInv, DataType
  <2>3. StepInv'
    BY <1>1, <1>2, <2>1 DEF StepInv
  <2>4. ContentInv'
    BY <1>1, <1>2, <1>4, <2>1 DEF DataInv, ContentInv
  <2> QED  BY <2>2, <2>3, <2>4 DEF DataInv
<1>5. CASE /\ UNCHANGED prepared /\ End("failed")
           /\ cutShort' = (cutShort \/ ~prepared.whole)
  <2>1. step' = "idle" /\ outcome' = "failed"
    BY <1>5 DEF End
  <2>2. DataType'
    BY <1>1, <2>1 DEF DataInv, DataType
  <2>3. StepInv'
    BY <2>1 DEF StepInv
  <2>4. ContentInv'
    BY <1>1, <1>5, <2>1 DEF DataInv, ContentInv
  <2> QED  BY <2>2, <2>3, <2>4 DEF DataInv
<1> QED  BY <1>3, <1>4, <1>5 DEF RemoveCopy

LEMMA NormalizeKeeps ==
  ASSUME DataInv, Normalize
  PROVE  DataInv'
<1>1. /\ step = "normalize" /\ outcome = "running" /\ step' = "idle"
      /\ command.kind = "prepare" /\ command.limit \in Limits /\ IsSource(archive)
      /\ UNCHANGED <<archive, partial, extracted, provenance, cutShort, command>>
  BY DEF DataInv, DataType, StepInv, Normalize, End
<1>2. archive \in Contents
  BY <1>1, ContentsAssumption DEF IsSource
<1>3. StepInv'
  BY <1>1 DEF StepInv
<1> DEFINE lines == Splits[archive]
           limit == command.limit
           copy == [from |-> archive, limit |-> limit, whole |-> TRUE,
                    splits |-> [i \in DOMAIN lines |-> Examples(lines[i], limit)]]
<1>4. CASE /\ \A i \in DOMAIN lines : Loads(lines[i], limit)
           /\ prepared' = copy /\ End("succeeded")
  <2>1. outcome' = "succeeded"
    BY <1>4 DEF End
  <2>2. /\ copy.from = archive /\ copy.limit = limit /\ copy.whole = TRUE
        /\ copy.splits = [i \in DOMAIN lines |-> Examples(lines[i], limit)]
        /\ copy = [from |-> copy.from, limit |-> copy.limit, splits |-> copy.splits,
                   whole |-> copy.whole]
    OBVIOUS
  <2>3. ASSUME NEW i \in DOMAIN lines
        PROVE  IsSplitOf(Examples(lines[i], limit), lines[i], limit)
    <3>1. lines[i] \in Seq({lines[i][k] : k \in DOMAIN lines[i]})
      BY <1>2, ContentsAssumption
    <3>2. Loads(lines[i], limit) /\ limit \in Limits
      BY <1>1, <1>4
    <3> HIDE DEF limit, lines
    <3> QED  BY <3>1, <3>2, LoadedIsTrue
  <2> HIDE DEF copy
  <2>4. IsCopy(copy)
    <3>1. /\ Splits[copy.from] = lines /\ DOMAIN copy.splits = DOMAIN lines
          /\ \A i \in DOMAIN lines : copy.splits[i] = Examples(lines[i], limit)
      BY <2>2
    <3>2. copy.limit = limit
      BY <2>2
    <3> HIDE DEF lines, limit
    <3>3. \A i \in DOMAIN lines : IsSplitOf(copy.splits[i], lines[i], copy.limit)
      BY <2>3, <3>1, <3>2
    <3> QED  BY <3>1, <3>3 DEF IsCopy
  <2>5. IsPrepared(prepared') /\ prepared'.whole
    BY <1>4, <2>2, <2>4 DEF IsPrepared
  <2>6. DataType'
    BY <1>1, <2>1 DEF DataInv, DataType
  <2>7. ContentInv'
    BY <1>1, <1>2, <2>5 DEF DataInv, ContentInv
  <2> QED  BY <1>3, <2>6, <2>7 DEF DataInv
<1>5. CASE End("failed") /\ UNCHANGED prepared
  <2>1. outcome' = "failed"
    BY <1>5 DEF End
  <2>2. DataType'
    BY <1>1, <2>1 DEF DataInv, DataType
  <2>3. ContentInv'
    BY <1>1, <1>5, <2>1 DEF DataInv, ContentInv
  <2> QED  BY <1>3, <2>2, <2>3 DEF DataInv
<1> QED  BY <1>4, <1>5 DEF Normalize

LEMMA KillKeeps ==
  ASSUME DataInv, Kill
  PROVE  DataInv'
<1>1. /\ step # "idle" /\ step' = "idle" /\ outcome' = "killed"
      /\ cutShort' = (cutShort \/ (step = "remove" /\ ~prepared.whole))
      /\ UNCHANGED <<archive, partial, extracted, provenance, prepared>>
  BY DEF Kill, End
<1>2. DataType'
  BY <1>1 DEF DataInv, DataType
<1>3. StepInv'
  BY <1>1 DEF StepInv
<1>4. ContentInv'
  BY <1>1 DEF DataInv, ContentInv
<1> QED  BY <1>2, <1>3, <1>4 DEF DataInv

LEMMA NextData == DataInv /\ [Next]_<<filesVars, samplingVars>> => DataInv'
<1> SUFFICES ASSUME DataInv, [Next]_<<filesVars, samplingVars>>
             PROVE  DataInv'
  OBVIOUS
<1>1. CASE FilesNext
  BY <1>1, AcquireKeeps, ReuseKeeps, FetchKeeps, ReceiveKeeps, VerifyKeeps, PublishKeeps,
     ExtractKeeps, FinishUnpackingKeeps, RecordKeeps, PrepareKeeps, RemoveCopyKeeps,
     NormalizeKeeps, KillKeeps DEF FilesNext
<1>2. CASE UNCHANGED filesVars
  <2>1. DataType'
    BY <1>2 DEF DataInv, DataType, filesVars
  <2>2. StepInv'
    BY <1>2 DEF DataInv, StepInv, Expected, IsSource, filesVars
  <2>3. ContentInv'
    BY <1>2 DEF DataInv, ContentInv, RecordIsTrue, Expected, filesVars
  <2> QED  BY <2>1, <2>2, <2>3 DEF DataInv
<1> QED  BY <1>1, <1>2 DEF Next

(* For any archives, damaged ones among them, and whatever fails or is     *)
(* killed: what is published, extracted and recorded is whole, and what is *)
(* prepared is true to its archive and its limit.                          *)
THEOREM FilesAreWhole == Spec => []DataIsWhole
<1>1. Init => DataInv
  BY InitData DEF Init
<1>2. DataInv => DataIsWhole
  BY DEF DataInv, ContentInv, IsPrepared, DataIsWhole
<1> QED  BY <1>1, <1>2, NextData, PTL DEF Spec

-----------------------------------------------------------------------------
(***************************************************************************)
(* Finite orders.                                                          *)
(***************************************************************************)

(* A non-empty set of naturals has a least element: their initial segments *)
(* are finite, and strict inclusion orders these well.                     *)
LEMMA SomeLeast ==
  ASSUME NEW S \in SUBSET Nat, S # {}
  PROVE  \E x \in S : \A y \in S : x <= y
<1> DEFINE Below(x) == {k \in Nat : k < x}
           T == {Below(x) : x \in S}
           R == StrictSubsetOrdering(Nat)
<1>1. T \subseteq FiniteSubsetsOf(Nat) /\ T # {}
  <2>1. ASSUME NEW x \in S  PROVE Below(x) \in FiniteSubsetsOf(Nat)
    <3>1. \A k \in Below(x) : k <= x /\ Below(x) \subseteq Nat /\ x \in Nat
      OBVIOUS
    <3>2. IsFiniteSet(Below(x))
      BY FS_BoundedSetOfNaturals
    <3> QED  BY <3>2 DEF FiniteSubsetsOf
  <2> QED  BY <2>1
<1>2. IsWellFoundedOn(R, FiniteSubsetsOf(Nat))
  BY FS_StrictSubsetOrderingWellFounded
<1>3. \E X \in T : \A Y \in T : ~ (<<Y, X>> \in R)
  <2> HIDE DEF T, R
  <2> QED  BY <1>1, <1>2, WFMin
<1>4. PICK x \in S : \A y \in S : ~ (<<Below(y), Below(x)>> \in R)
  BY <1>3
<1>5. ASSUME NEW y \in S, y < x  PROVE FALSE
  <2>1. Below(y) \subseteq Below(x) /\ y \in Below(x) /\ y \notin Below(y)
    BY <1>5
  <2>2. <<Below(y), Below(x)>> \in R
    BY <2>1 DEF StrictSubsetOrdering
  <2> QED  BY <2>2, <1>4
<1> QED  BY <1>5

(* Induction on the subsets of a finite set: P is the set of the good ones. *)
LEMMA SubsetInduction ==
  ASSUME NEW S, IsFiniteSet(S), NEW P, {} \in P,
         \A s \in SUBSET S : s # {} /\ (\A x \in s : s \ {x} \in P) => s \in P
  PROVE  \A s \in SUBSET S : s \in P
<1> SUFFICES ASSUME NEW b \in SUBSET S, b \notin P  PROVE FALSE
  OBVIOUS
<1> DEFINE bad == {s \in SUBSET S : s \notin P}
           sizes == {Cardinality(s) : s \in bad}
<1>1. \A s \in SUBSET S : IsFiniteSet(s) /\ Cardinality(s) \in Nat
  BY FS_Subset, FS_CardinalityType
<1>2. sizes \in SUBSET Nat /\ sizes # {}
  BY <1>1
<1>3. PICK n \in sizes : \A m \in sizes : n <= m
  <2> HIDE DEF sizes
  <2> QED  BY <1>2, SomeLeast
<1>4. PICK s \in bad : Cardinality(s) = n
  BY <1>3
<1>5. PICK x \in s : s \ {x} \notin P
  BY <1>4
<1>6. s \ {x} \in bad
  BY <1>5
<1>7. Cardinality(s \ {x}) = Cardinality(s) - 1 /\ Cardinality(s) \in Nat
  BY <1>1, <1>5, FS_RemoveElement
<1>8. n <= Cardinality(s \ {x})
  BY <1>3, <1>6
<1> QED  BY <1>4, <1>7, <1>8

(* In a finite strict total order the elements with fewer than n before    *)
(* them are n, or all.                                                     *)
IsStrictOrder(R, S) ==
  /\ \A x \in S : <<x, x>> \notin R
  /\ \A x, y, z \in S : <<x, y>> \in R /\ <<y, z>> \in R => <<x, z>> \in R
  /\ \A x, y \in S : x # y => <<x, y>> \in R \/ <<y, x>> \in R

LEMMA FirstOnes ==
  ASSUME NEW S, IsFiniteSet(S), NEW R, IsStrictOrder(R, S), NEW n \in Nat
  PROVE  LET first == {x \in S : Cardinality({y \in S : <<y, x>> \in R}) < n} IN
         /\ IsFiniteSet(first)
         /\ Cardinality(first) = IF n <= Cardinality(S) THEN n ELSE Cardinality(S)
         /\ \A x \in first, y \in S : <<y, x>> \in R => y \in first
<1> DEFINE Before(x) == {y \in S : <<y, x>> \in R}
           rank == [x \in S |-> Cardinality(Before(x))]
           first == {x \in S : rank[x] < n}
           size == Cardinality(S)
           least == IF n <= size THEN n ELSE size
<1>1. size \in Nat
  BY FS_CardinalityType
<1>2. ASSUME NEW x \in S
      PROVE  IsFiniteSet(Before(x)) /\ rank[x] \in 0..(size - 1)
  <2>1. Before(x) \subseteq S \ {x} /\ IsFiniteSet(S \ {x}) /\ Cardinality(S \ {x}) = size - 1
    BY FS_RemoveElement DEF IsStrictOrder
  <2>2. IsFiniteSet(Before(x)) /\ Cardinality(Before(x)) <= size - 1
    BY <2>1, FS_Subset
  <2>3. Cardinality(Before(x)) \in Nat
    BY <2>2, FS_CardinalityType
  <2> HIDE DEF Before
  <2> QED  BY <1>1, <2>2, <2>3
<1>3. ASSUME NEW x \in S, NEW y \in S, <<x, y>> \in R
      PROVE  rank[x] < rank[y]
  <2>1. Before(x) \subseteq Before(y) /\ x \in Before(y) /\ x \notin Before(x)
    BY <1>3 DEF IsStrictOrder
  <2> HIDE DEF Before
  <2>2. IsFiniteSet(Before(y)) /\ IsFiniteSet(Before(x))
    BY <1>2
  <2>3. /\ Cardinality(Before(x)) <= Cardinality(Before(y))
        /\ Cardinality(Before(y)) = Cardinality(Before(x)) => Before(y) = Before(x)
    BY <2>1, <2>2, FS_Subset
  <2>4. Cardinality(Before(x)) \in Nat /\ Cardinality(Before(y)) \in Nat
    BY <2>2, FS_CardinalityType
  <2> QED  BY <2>1, <2>3, <2>4
<1> HIDE DEF rank, Before, size
<1>4. \A x, y \in S : rank[x] = rank[y] => x = y
  <2>1. \A x \in S : rank[x] \in Int
    BY <1>1, <1>2
  <2>2. ASSUME NEW x \in S, NEW y \in S, rank[x] = rank[y], x # y  PROVE FALSE
    <3>1. rank[x] < rank[y] \/ rank[y] < rank[x]
      BY <1>3, <2>2 DEF IsStrictOrder
    <3>2. rank[x] \in Int /\ rank[y] \in Int
      BY <2>1
    <3> QED  BY <2>2, <3>1, <3>2
  <2> QED  BY <2>2
<1>5. \A k \in 0..(size - 1) : \E x \in S : rank[x] = k
  <2>1. rank \in Injection(S, 0..(size - 1))
    <3>1. rank \in [S -> 0..(size - 1)]
      BY <1>2 DEF rank
    <3> QED  BY <1>4, <3>1 DEF Injection, IsInjective
  <2>2. IsFiniteSet(0..(size - 1)) /\ Cardinality(0..(size - 1)) = size
    <3>1. size - 1 \in Int /\ 0 \in Int
      BY <1>1
    <3> QED  BY <1>1, <3>1, FS_Interval
  <2>3. rank \in Surjection(S, 0..(size - 1))
    BY <2>1, <2>2, FS_Injection DEF size
  <2> QED  BY <2>3 DEF Surjection
<1>6. IsFiniteSet(first)
  BY FS_Subset
<1>7. Cardinality(first) = least
  <2> DEFINE f == [x \in first |-> rank[x]]
  <2>1. least \in Nat /\ IsFiniteSet(0..(least - 1)) /\ Cardinality(0..(least - 1)) = least
    <3>1. least \in Nat
      BY <1>1
    <3> HIDE DEF least
    <3> QED  BY <3>1, FS_Interval
  <2>2. \A x \in first : rank[x] \in 0..(least - 1)
    BY <1>1, <1>2
  <2>3. \A k \in 0..(least - 1) : \E x \in first : rank[x] = k
    <3> SUFFICES ASSUME NEW k \in 0..(least - 1)  PROVE \E x \in first : rank[x] = k
      OBVIOUS
    <3>1. k \in 0..(size - 1) /\ k < n
      BY <1>1
    <3> QED  BY <1>5, <3>1
  <2>4. f \in Injection(first, 0..(least - 1)) /\ f \in Surjection(first, 0..(least - 1))
    <3> HIDE DEF least
    <3> QED  BY <1>4, <2>2, <2>3 DEF Injection, Surjection, IsInjective
  <2> HIDE DEF f, first, least
  <2> QED  BY <2>1, <2>4, FS_Injection
<1>8. \A x \in first, y \in S : <<y, x>> \in R => y \in first
  <2>1. \A x \in S : rank[x] \in Int
    BY <1>1, <1>2
  <2> QED  BY <1>3, <2>1
<1>9. first = {x \in S : Cardinality({y \in S : <<y, x>> \in R}) < n}
  BY DEF rank, Before
<1> QED  BY <1>6, <1>7, <1>8, <1>9 DEF size

-----------------------------------------------------------------------------
(***************************************************************************)
(* The first examples of a set.                                            *)
(***************************************************************************)

IsBeginning(T, U) == T \subseteq U /\ \A x \in T, y \in U : y < x => y \in T

LEMMA TakeIsABeginning ==
  ASSUME NEW S \in SUBSET Nat, IsFiniteSet(S), NEW n \in Nat
  PROVE  /\ IsBeginning(Take(S, n), S) /\ IsFiniteSet(Take(S, n))
         /\ Cardinality(Take(S, n)) = IF n <= Cardinality(S) THEN n ELSE Cardinality(S)
<1> DEFINE R == {p \in S \X S : p[1] < p[2]}
           first == {x \in S : Cardinality({y \in S : <<y, x>> \in R}) < n}
<1>1. \A x, y \in S : <<x, y>> \in R <=> x < y
  OBVIOUS
<1>2. \A x \in S : {y \in S : <<y, x>> \in R} = {y \in S : y < x}
  BY <1>1
<1>3. first = Take(S, n)
  BY <1>2 DEF Take
<1> HIDE DEF R
<1>4. IsStrictOrder(R, S)
  <2>1. S \subseteq Nat
    OBVIOUS
  <2>2. /\ \A x \in S : <<x, x>> \notin R
        /\ \A x, y \in S : x # y => <<x, y>> \in R \/ <<y, x>> \in R
    BY <1>1, <2>1
  <2>3. ASSUME NEW x \in S, NEW y \in S, NEW z \in S, <<x, y>> \in R, <<y, z>> \in R
        PROVE  <<x, z>> \in R
    <3>1. x < y /\ y < z /\ x \in Nat /\ y \in Nat /\ z \in Nat
      BY <1>1, <2>1, <2>3
    <3>2. x < z
      BY <3>1
    <3> QED  BY <1>1, <3>2
  <2> QED  BY <2>2, <2>3 DEF IsStrictOrder
<1>5. /\ IsFiniteSet(first)
      /\ Cardinality(first) = IF n <= Cardinality(S) THEN n ELSE Cardinality(S)
      /\ \A x \in first, y \in S : <<y, x>> \in R => y \in first
  BY <1>4, FirstOnes
<1>6. first \subseteq S
  OBVIOUS
<1> HIDE DEF first
<1> QED  BY <1>1, <1>3, <1>5, <1>6 DEF IsBeginning

(* Of two beginnings one is in the other, so there is one of each size. *)
LEMMA OneBeginning ==
  ASSUME NEW S \in SUBSET Nat, IsFiniteSet(S), NEW T, NEW U,
         IsBeginning(T, S), IsBeginning(U, S), Cardinality(T) = Cardinality(U)
  PROVE  T = U
<1>1. T \subseteq S /\ U \subseteq S /\ IsFiniteSet(T) /\ IsFiniteSet(U)
  BY FS_Subset DEF IsBeginning
<1>2. T \subseteq U \/ U \subseteq T
  <2>1. SUFFICES ASSUME NEW x \in T, x \notin U, NEW y \in U, y \notin T  PROVE FALSE
    OBVIOUS
  <2>2. x \in Nat /\ y \in Nat /\ x \in S /\ y \in S
    BY <1>1
  <2>3. x < y \/ y < x
    BY <2>1, <2>2
  <2> QED  BY <2>1, <2>2, <2>3 DEF IsBeginning
<1> QED  BY <1>1, <1>2, FS_Subset

(* What is kept of a set and one more example is kept of what was kept of  *)
(* the set and that example: nothing that was dropped is missed.           *)
LEMMA KeptIsEnough ==
  ASSUME NEW S \in SUBSET Nat, IsFiniteSet(S), NEW n \in Nat, NEW x \in Nat
  PROVE  RetainBest(Take(S, n), x, n) = Take(S \cup {x}, n)
<1> DEFINE K == Take(S, n)
           U == K \cup {x}
           V == S \cup {x}
<1>1. /\ IsBeginning(K, S) /\ IsFiniteSet(K) /\ K \subseteq S
      /\ Cardinality(K) = IF n <= Cardinality(S) THEN n ELSE Cardinality(S)
  BY TakeIsABeginning DEF IsBeginning
<1> HIDE DEF K
<1>2. U \in SUBSET Nat /\ IsFiniteSet(U) /\ V \in SUBSET Nat /\ IsFiniteSet(V) /\ U \subseteq V
  BY <1>1, FS_AddElement
<1>3. Cardinality(S) \in Nat /\ Cardinality(U) \in Nat /\ Cardinality(V) \in Nat
  BY <1>2, FS_CardinalityType
<1> HIDE DEF U, V
<1>4. /\ IsBeginning(Take(U, n), U) /\ IsBeginning(Take(V, n), V)
      /\ Cardinality(Take(U, n)) = IF n <= Cardinality(U) THEN n ELSE Cardinality(U)
      /\ Cardinality(Take(V, n)) = IF n <= Cardinality(V) THEN n ELSE Cardinality(V)
  BY <1>2, TakeIsABeginning
<1>5. CASE Cardinality(S) <= n
  <2>1. Cardinality(K) = Cardinality(S)
    BY <1>1, <1>3, <1>5
  <2>2. K = S
    BY <1>1, <2>1, FS_Subset
  <2> QED  BY <2>2 DEF RetainBest, U, V, K
<1>6. CASE ~(Cardinality(S) <= n)
  <2>1. Cardinality(K) = n
    BY <1>1, <1>3, <1>6
  <2>2. Cardinality(S) <= Cardinality(V) /\ n <= Cardinality(U)
    <3>1. K \subseteq U /\ S \subseteq V
      BY DEF U, V
    <3>2. Cardinality(K) <= Cardinality(U) /\ Cardinality(S) <= Cardinality(V)
      BY <1>2, <3>1, FS_Subset
    <3> QED  BY <2>1, <3>2
  <2>3. Cardinality(Take(U, n)) = n /\ Cardinality(Take(V, n)) = n
    BY <1>3, <1>4, <1>6, <2>2
  <2>4. ASSUME NEW z \in Take(U, n), NEW y \in V, y < z, y \notin U  PROVE FALSE
    <3>1. y \in S /\ y \notin K /\ y # x /\ y \in Nat
      BY <2>4 DEF U, V
    <3>2. \A k \in K : k < y
      <4> SUFFICES ASSUME NEW k \in K, ~(k < y)  PROVE FALSE
        OBVIOUS
      <4>1. k \in Nat /\ k # y /\ y < k
        BY <1>1, <3>1
      <4> QED  BY <1>1, <3>1, <4>1 DEF IsBeginning
    <3>3. z \in U /\ z \in Nat
      BY <1>2, <1>4 DEF IsBeginning
    <3>4. z = x /\ \A k \in K : k < z
      <4>1. z \notin K
        BY <2>4, <3>1, <3>2, <3>3
      <4>2. \A k \in K : k \in Nat
        BY <1>1
      <4> QED  BY <2>4, <3>1, <3>2, <3>3, <4>1, <4>2 DEF U
    <3>5. K \subseteq {k \in U : k < z} /\ IsFiniteSet({k \in U : k < z})
      BY <1>2, <3>4, FS_Subset DEF U
    <3>6. Cardinality(K) <= Cardinality({k \in U : k < z})
      BY <3>5, FS_Subset
    <3>7. Cardinality({k \in U : k < z}) < n
      BY DEF Take
    <3>8. Cardinality({k \in U : k < z}) \in Nat
      BY <3>5, FS_CardinalityType
    <3> QED  BY <2>1, <3>6, <3>7, <3>8
  <2>5. IsBeginning(Take(U, n), V)
    BY <1>2, <1>4, <2>4 DEF IsBeginning
  <2>6. Take(U, n) = Take(V, n)
    BY <1>2, <1>4, <2>3, <2>5, OneBeginning
  <2> QED  BY <2>6 DEF RetainBest, U, V, K
<1> QED  BY <1>5, <1>6

-----------------------------------------------------------------------------
(***************************************************************************)
(* Sums: the fold behind Total exists and does not depend on the order in  *)
(* which it takes the labels.                                              *)
(***************************************************************************)

Some(s) == CHOOSE x \in s : TRUE

IsFold(it, f, S) ==
  it = [s \in SUBSET S |-> IF s = {} THEN 0 ELSE f[Some(s)] + it[s \ {Some(s)}]]

LEMMA FoldsExist ==
  ASSUME NEW S, IsFiniteSet(S), NEW f
  PROVE  \E it : IsFold(it, f, S)
<1> DEFINE Small(n) == {s \in SUBSET S : Cardinality(s) <= n}
           Good(n, it) ==
             it = [s \in Small(n) |-> IF s = {} THEN 0 ELSE f[Some(s)] + it[s \ {Some(s)}]]
           bad == {n \in Nat : ~(\E it : Good(n, it))}
<1>1. /\ \A s \in SUBSET S : IsFiniteSet(s) /\ Cardinality(s) \in Nat
      /\ \A s \in SUBSET S : Cardinality(s) <= Cardinality(S)
  BY FS_Subset, FS_CardinalityType
<1>2. \A s \in SUBSET S : s # {} => /\ Some(s) \in s
                                  /\ s \ {Some(s)} \in SUBSET S
                                  /\ Cardinality(s \ {Some(s)}) = Cardinality(s) - 1
  BY <1>1, FS_RemoveElement DEF Some
<1>3. \A s \in SUBSET S : Cardinality(s) = 0 <=> s = {}
  BY <1>1, FS_EmptySet
<1>4. bad = {}
  <2> SUFFICES ASSUME bad # {}  PROVE FALSE
    OBVIOUS
  <2>1. PICK n \in bad : \A m \in bad : n <= m
    BY SomeLeast
  <2>2. CASE n = 0
    <3> DEFINE it == [s \in Small(0) |-> 0]
    <3>1. \A s \in Small(0) : s = {}
      BY <1>1, <1>3
    <3>2. Good(0, it)
      BY <3>1
    <3> QED  BY <2>1, <2>2, <3>2
  <2>3. CASE n # 0
    <3>1. n - 1 \in Nat /\ n - 1 \notin bad /\ n \in Nat
      <4>1. n \in Nat /\ n - 1 \in Nat
        BY <2>3
      <4>2. ~(n <= n - 1)
        BY <4>1
      <4> HIDE DEF bad
      <4> QED  BY <2>1, <4>1, <4>2
    <3>2. PICK g : Good(n - 1, g)
      BY <3>1
    <3> DEFINE it == [s \in Small(n) |-> IF s = {} THEN 0 ELSE f[Some(s)] + g[s \ {Some(s)}]]
    <3>3. \A s \in Small(n) : s # {} => s \ {Some(s)} \in Small(n - 1)
      BY <1>1, <1>2, <3>1
    <3>4. \A s \in Small(n - 1) : s \in Small(n) /\ it[s] = g[s]
      <4>1. \A s \in Small(n - 1) : s \in Small(n)
        BY <1>1, <3>1
      <4>2. \A s \in Small(n - 1) : g[s] = IF s = {} THEN 0 ELSE f[Some(s)] + g[s \ {Some(s)}]
        BY <3>2
      <4> QED  BY <4>1, <4>2
    <3>5. Good(n, it)
      BY <3>3, <3>4
    <3> QED  BY <2>1, <3>5
  <2> QED  BY <2>2, <2>3
<1>5. PICK n \in Nat : n = Cardinality(S)
  BY FS_CardinalityType
<1>6. PICK it : Good(n, it)
  BY <1>4
<1>7. Small(n) = SUBSET S
  BY <1>1, <1>5
<1> QED  BY <1>6, <1>7 DEF IsFold

LEMMA SumOf ==
  ASSUME NEW S, IsFiniteSet(S), NEW f \in [S -> Nat]
  PROVE  \E it \in [SUBSET S -> Nat] :
           /\ it[{}] = 0
           /\ \A s \in SUBSET S : \A x \in s : it[s] = f[x] + it[s \ {x}]
           /\ Total(f) = it[S]
<1> DEFINE fold == CHOOSE g : IsFold(g, f, S)
<1>1. PICK it : it = fold
  OBVIOUS
<1>2. IsFold(it, f, S)
  BY <1>1, FoldsExist
<1>3. Total(f) = it[S]
  BY <1>1 DEF Total, MapThenSumSet, MapThenFoldSet, IsFold, Some
<1>4. \A s \in SUBSET S : it[s] = IF s = {} THEN 0 ELSE f[Some(s)] + it[s \ {Some(s)}]
  BY <1>2 DEF IsFold
<1>5. \A s \in SUBSET S : s # {} => Some(s) \in s
  BY DEF Some
<1>6. it[{}] = 0
  <2>1. {} \in SUBSET S
    OBVIOUS
  <2> QED  BY <1>4, <2>1
<1>7. \A s \in SUBSET S : it[s] \in Nat
  <2> DEFINE P == {s \in SUBSET S : it[s] \in Nat}
  <2>1. {} \in P
    BY <1>6
  <2>2. ASSUME NEW s \in SUBSET S, s # {}, \A x \in s : s \ {x} \in P
        PROVE  s \in P
    <3>1. Some(s) \in s /\ it[s] = f[Some(s)] + it[s \ {Some(s)}]
      BY <1>4, <1>5, <2>2
    <3>2. it[s \ {Some(s)}] \in Nat /\ f[Some(s)] \in Nat
      BY <2>2, <3>1
    <3> QED  BY <3>1, <3>2
  <2>3. \A s \in SUBSET S : s \in P
    <3> HIDE DEF P
    <3> QED  BY <2>1, <2>2, SubsetInduction
  <2> QED  BY <2>3
<1>8. \A s \in SUBSET S : \A x \in s : it[s] = f[x] + it[s \ {x}]
  <2> DEFINE P == {s \in SUBSET S : \A x \in s : it[s] = f[x] + it[s \ {x}]}
  <2>1. {} \in P
    OBVIOUS
  <2>2. ASSUME NEW s \in SUBSET S, s # {}, \A x \in s : s \ {x} \in P
        PROVE  s \in P
    <3> SUFFICES ASSUME NEW x \in s  PROVE it[s] = f[x] + it[s \ {x}]
      OBVIOUS
    <3>1. PICK c \in s : it[s] = f[c] + it[s \ {c}]
      BY <1>4, <1>5, <2>2
    <3>2. CASE x = c
      BY <3>1, <3>2
    <3>3. CASE x # c
      <4>1. /\ it[s \ {c}] = f[x] + it[(s \ {c}) \ {x}]
            /\ it[s \ {x}] = f[c] + it[(s \ {x}) \ {c}]
        BY <2>2, <3>3
      <4>2. (s \ {c}) \ {x} = (s \ {x}) \ {c}
        OBVIOUS
      <4>3. f[x] \in Nat /\ f[c] \in Nat /\ it[(s \ {x}) \ {c}] \in Nat
        BY <1>7
      <4> QED  BY <3>1, <4>1, <4>2, <4>3
    <3> QED  BY <3>2, <3>3
  <2>3. \A s \in SUBSET S : s \in P
    <3> HIDE DEF P
    <3> QED  BY <2>1, <2>2, SubsetInduction
  <2> QED  BY <2>3
<1>9. it \in [SUBSET S -> Nat]
  BY <1>2, <1>7 DEF IsFold
<1> QED  BY <1>3, <1>6, <1>8, <1>9

LEMMA OneMore ==
  ASSUME NEW S, IsFiniteSet(S), NEW x \in S, NEW T, T = S \ {x}
  PROVE  Cardinality(S) = Cardinality(T) + 1 /\ Cardinality(T) \in Nat
<1>1. IsFiniteSet(T) /\ Cardinality(T) = Cardinality(S) - 1
  BY FS_RemoveElement
<1>2. Cardinality(T) \in Nat /\ Cardinality(S) \in Nat
  BY <1>1, FS_CardinalityType
<1> QED  BY <1>1, <1>2

(* The sum of f over a part of its domain. *)
SumOver(f, s) == Total([x \in s |-> f[x]])

LEMMA SumRule ==
  ASSUME NEW S, IsFiniteSet(S), NEW f \in [S -> Nat]
  PROVE  /\ SumOver(f, {}) = 0
         /\ SumOver(f, S) = Total(f)
         /\ \A s \in SUBSET S :
              /\ SumOver(f, s) \in Nat
              /\ \A x \in s : SumOver(f, s) = f[x] + SumOver(f, s \ {x})
<1>1. PICK it \in [SUBSET S -> Nat] :
        /\ it[{}] = 0
        /\ \A s \in SUBSET S : \A x \in s : it[s] = f[x] + it[s \ {x}]
        /\ Total(f) = it[S]
  BY SumOf
<1>2. ASSUME NEW s \in SUBSET S  PROVE SumOver(f, s) = it[s]
  <2> DEFINE g == [x \in s |-> f[x]]
  <2>1. IsFiniteSet(s) /\ g \in [s -> Nat]
    BY FS_Subset
  <2> HIDE DEF g
  <2>2. PICK other \in [SUBSET s -> Nat] :
          /\ other[{}] = 0
          /\ \A t \in SUBSET s : \A x \in t : other[t] = g[x] + other[t \ {x}]
          /\ Total(g) = other[s]
    BY <2>1, SumOf
  <2> DEFINE P == {t \in SUBSET s : other[t] = it[t]}
  <2>3. {} \in P
    BY <1>1, <2>2
  <2>4. ASSUME NEW t \in SUBSET s, t # {}, \A x \in t : t \ {x} \in P
        PROVE  t \in P
    <3>1. PICK x \in t : TRUE
      BY <2>4
    <3>2. other[t] = g[x] + other[t \ {x}] /\ other[t \ {x}] = it[t \ {x}]
      BY <2>2, <2>4
    <3>3. it[t] = f[x] + it[t \ {x}]
      BY <1>1
    <3>4. g[x] = f[x]
      BY DEF g
    <3> QED  BY <3>2, <3>3, <3>4
  <2>5. s \in P
    <3>1. \A t \in SUBSET s : t \in P
      <4> HIDE DEF P
      <4> QED  BY <2>1, <2>3, <2>4, SubsetInduction
    <3> QED  BY <3>1
  <2> QED  BY <2>2, <2>5 DEF SumOver, g
<1>3. \A s \in SUBSET S : \A x \in s : s \ {x} \in SUBSET S
  OBVIOUS
<1>4. {} \in SUBSET S /\ S \in SUBSET S
  OBVIOUS
<1> QED  BY <1>1, <1>2, <1>3, <1>4

LEMMA SumOfParts ==
  ASSUME NEW S, IsFiniteSet(S), NEW f \in [S -> Nat], NEW g \in [S -> Nat], NEW h \in [S -> Nat],
         NEW a \in Nat, NEW b \in Nat
  PROVE  (\A x \in S : f[x] * a = b * g[x] + h[x])
           => Total(f) * a = b * Total(g) + Total(h)
<1>0. ASSUME NEW k \in [S -> Nat], NEW s \in SUBSET S, NEW x \in s
      PROVE  SumOver(k, s) = k[x] + SumOver(k, s \ {x})
  BY SumRule
<1> DEFINE P == {s \in SUBSET S : SumOver(f, s) * a = b * SumOver(g, s) + SumOver(h, s)}
<1>1. /\ SumOver(f, {}) = 0 /\ SumOver(g, {}) = 0 /\ SumOver(h, {}) = 0
      /\ SumOver(f, S) = Total(f) /\ SumOver(g, S) = Total(g) /\ SumOver(h, S) = Total(h)
  BY SumRule
<1>2. {} \in P
  BY <1>1
<1>3. ASSUME \A x \in S : f[x] * a = b * g[x] + h[x],
             NEW s \in SUBSET S, s # {}, \A x \in s : s \ {x} \in P
      PROVE  s \in P
  <2>1. PICK x \in s : TRUE
    BY <1>3
  <2>2. PICK A \in Nat, B \in Nat, C \in Nat :
          A = SumOver(f, s \ {x}) /\ B = SumOver(g, s \ {x}) /\ C = SumOver(h, s \ {x})
    <3>1. s \ {x} \in SUBSET S
      OBVIOUS
    <3> QED  BY <3>1, SumRule
  <2>3. SumOver(f, s) = f[x] + A /\ SumOver(g, s) = g[x] + B /\ SumOver(h, s) = h[x] + C
    <3>1. SumOver(f, s) = f[x] + SumOver(f, s \ {x})
      BY <1>0
    <3>2. SumOver(g, s) = g[x] + SumOver(g, s \ {x})
      BY <1>0
    <3>3. SumOver(h, s) = h[x] + SumOver(h, s \ {x})
      BY <1>0
    <3> QED  BY <2>2, <3>1, <3>2, <3>3
  <2>4. A * a = b * B + C
    BY <1>3, <2>2
  <2>5. f[x] * a = b * g[x] + h[x] /\ f[x] \in Nat /\ g[x] \in Nat /\ h[x] \in Nat
    BY <1>3
  <2>6. (f[x] + A) * a = b * (g[x] + B) + (h[x] + C)
    <3>1. PICK F \in Nat : F = f[x]
      BY <2>5
    <3>2. PICK G \in Nat : G = g[x]
      BY <2>5
    <3>3. PICK H \in Nat : H = h[x]
      BY <2>5
    <3>4. (F + A) * a = F * a + A * a
      OBVIOUS
    <3>5. b * (G + B) = b * G + b * B
      OBVIOUS
    <3>6. F * a = b * G + H
      BY <2>5, <3>1, <3>2, <3>3
    <3>7. F * a \in Nat /\ A * a \in Nat /\ b * G \in Nat /\ b * B \in Nat
      OBVIOUS
    <3>8. (F + A) * a = b * (G + B) + (H + C)
      BY <2>4, <3>4, <3>5, <3>6, <3>7
    <3> QED  BY <3>1, <3>2, <3>3, <3>8
  <2> QED  BY <2>3, <2>6
<1>4. ASSUME \A x \in S : f[x] * a = b * g[x] + h[x]
      PROVE  S \in P
  <2>1. \A s \in SUBSET S : s \in P
    <3>1. \A s \in SUBSET S : s # {} /\ (\A x \in s : s \ {x} \in P) => s \in P
      <4> HIDE DEF P
      <4> QED  BY <1>3, <1>4
    <3> HIDE DEF P
    <3> QED  BY <1>2, <3>1, SubsetInduction
  <2> QED  BY <2>1
<1> QED  BY <1>1, <1>4

LEMMA SumOfOnes ==
  ASSUME NEW S, IsFiniteSet(S), NEW f \in [S -> Nat], NEW g \in [S -> Nat], NEW X \in SUBSET S,
         \A x \in S : f[x] = g[x] + (IF x \in X THEN 1 ELSE 0)
  PROVE  Total(f) = Total(g) + Cardinality(X)
<1> DEFINE P == {s \in SUBSET S : SumOver(f, s) = SumOver(g, s) + Cardinality(s \cap X)}
<1>1. /\ SumOver(f, {}) = 0 /\ SumOver(g, {}) = 0
      /\ SumOver(f, S) = Total(f) /\ SumOver(g, S) = Total(g)
  BY SumRule
<1>2. {} \in P
  <2>1. {} \cap X = {} /\ Cardinality({}) = 0
    BY FS_EmptySet
  <2> QED  BY <1>1, <2>1
<1>3. ASSUME NEW s \in SUBSET S, s # {}, \A x \in s : s \ {x} \in P
      PROVE  s \in P
  <2>1. PICK x \in s : TRUE
    BY <1>3
  <2>2. PICK A \in Nat, B \in Nat :
          A = SumOver(f, s \ {x}) /\ B = SumOver(g, s \ {x})
    <3>1. s \ {x} \in SUBSET S
      OBVIOUS
    <3> QED  BY <3>1, SumRule
  <2>3. SumOver(f, s) = f[x] + A /\ SumOver(g, s) = g[x] + B
    BY <2>2, SumRule
  <2>4. A = B + Cardinality((s \ {x}) \cap X)
    BY <1>3, <2>2
  <2>5. IsFiniteSet(s \cap X) /\ IsFiniteSet((s \ {x}) \cap X)
    BY FS_Subset
  <2>6. Cardinality(s \cap X) \in Nat /\ Cardinality((s \ {x}) \cap X) \in Nat
    BY <2>5, FS_CardinalityType
  <2>7. Cardinality(s \cap X) = Cardinality((s \ {x}) \cap X) + (IF x \in X THEN 1 ELSE 0)
    <3>1. CASE x \in X
      <4>1. (s \ {x}) \cap X = (s \cap X) \ {x} /\ x \in s \cap X
        BY <3>1
      <4>2. Cardinality(s \cap X) = Cardinality((s \ {x}) \cap X) + 1
        BY <2>5, <4>1, OneMore
      <4> QED  BY <3>1, <4>2
    <3>2. CASE x \notin X
      <4>1. (s \ {x}) \cap X = s \cap X
        BY <3>2
      <4> QED  BY <2>6, <3>2, <4>1
    <3> QED  BY <3>1, <3>2
  <2>8. f[x] \in Nat /\ g[x] \in Nat /\ f[x] = g[x] + (IF x \in X THEN 1 ELSE 0)
    OBVIOUS
  <2> QED  BY <2>3, <2>4, <2>6, <2>7, <2>8
<1>4. S \in P
  <2>1. \A s \in SUBSET S : s \in P
    <3> HIDE DEF P
    <3> QED  BY <1>2, <1>3, SubsetInduction
  <2> QED  BY <2>1
<1>5. S \cap X = X
  OBVIOUS
<1> QED  BY <1>1, <1>4, <1>5

(* A sum of numbers that are at most c. *)
LEMMA SumOfBounded ==
  ASSUME NEW S, IsFiniteSet(S), NEW h \in [S -> Nat], NEW c \in Nat, \A x \in S : h[x] <= c
  PROVE  Total(h) <= c * Cardinality({x \in S : h[x] > 0})
<1> DEFINE E == {x \in S : h[x] > 0}
           P == {s \in SUBSET S : SumOver(h, s) <= c * Cardinality(s \cap E)}
<1>1. SumOver(h, {}) = 0 /\ SumOver(h, S) = Total(h)
  BY SumRule
<1>2. {} \in P
  <2>1. {} \cap E = {} /\ Cardinality({}) = 0
    BY FS_EmptySet
  <2> QED  BY <1>1, <2>1
<1>3. ASSUME NEW s \in SUBSET S, s # {}, \A x \in s : s \ {x} \in P
      PROVE  s \in P
  <2>1. PICK x \in s : TRUE
    BY <1>3
  <2>2. PICK A \in Nat : A = SumOver(h, s \ {x})
    <3>1. s \ {x} \in SUBSET S
      OBVIOUS
    <3> QED  BY <3>1, SumRule
  <2>3. SumOver(h, s) = h[x] + A
    BY <2>2, SumRule
  <2>4. A <= c * Cardinality((s \ {x}) \cap E)
    BY <1>3, <2>2
  <2>5. IsFiniteSet(s \cap E) /\ IsFiniteSet((s \ {x}) \cap E)
    BY FS_Subset
  <2>6. PICK m \in Nat : m = Cardinality((s \ {x}) \cap E)
    BY <2>5, FS_CardinalityType
  <2>7. CASE x \in E
    <3>1. (s \ {x}) \cap E = (s \cap E) \ {x} /\ x \in s \cap E
      BY <2>7
    <3>3. Cardinality(s \cap E) = m + 1
      <4> HIDE DEF E
      <4> QED  BY <2>5, <2>6, <3>1, OneMore
    <3>4. c * (m + 1) = c * m + c
      OBVIOUS
    <3>5. h[x] \in Nat /\ h[x] <= c /\ c * m \in Nat
      OBVIOUS
    <3> HIDE DEF E
    <3> QED  BY <2>3, <2>4, <2>6, <3>3, <3>4, <3>5
  <2>8. CASE x \notin E
    <3>1. (s \ {x}) \cap E = s \cap E
      BY <2>8
    <3>2. h[x] = 0
      <4>1. h[x] \in Nat /\ ~(h[x] > 0)
        BY <2>8
      <4> QED  BY <4>1
    <3> HIDE DEF E
    <3> QED  BY <2>3, <2>4, <3>1, <3>2
  <2> QED  BY <2>7, <2>8
<1>4. S \in P
  <2>1. \A s \in SUBSET S : s \in P
    <3> HIDE DEF P
    <3> QED  BY <1>2, <1>3, SubsetInduction
  <2> QED  BY <2>1
<1>5. S \cap E = E
  OBVIOUS
<1> QED  BY <1>1, <1>4, <1>5

(* The elements that count. *)
LEMMA SumOfPositive ==
  ASSUME NEW S, IsFiniteSet(S), NEW f \in [S -> Nat], NEW X \in SUBSET S,
         \A x \in S \ X : f[x] = 0
  PROVE  Total(f) = Total([x \in X |-> f[x]])
<1> DEFINE P == {s \in SUBSET S : SumOver(f, s) = SumOver(f, s \cap X)}
<1>1. {} \in P
  <2>1. {} \cap X = {}
    OBVIOUS
  <2> QED  BY <2>1
<1>2. ASSUME NEW s \in SUBSET S, s # {}, \A x \in s : s \ {x} \in P
      PROVE  s \in P
  <2>1. PICK x \in s : TRUE
    BY <1>2
  <2>2. SumOver(f, s \ {x}) = SumOver(f, (s \ {x}) \cap X) /\ SumOver(f, s) = f[x] + SumOver(f, s \ {x})
    BY <1>2, SumRule
  <2>3. CASE x \in X
    <3>1. x \in s \cap X /\ (s \cap X) \ {x} = (s \ {x}) \cap X /\ s \cap X \in SUBSET S
      BY <2>3
    <3>2. SumOver(f, s \cap X) = f[x] + SumOver(f, (s \cap X) \ {x})
      BY <3>1, SumRule
    <3> QED  BY <2>2, <3>1, <3>2
  <2>4. CASE x \notin X
    <3>1. (s \ {x}) \cap X = s \cap X /\ f[x] = 0 /\ s \cap X \in SUBSET S
      BY <2>4
    <3>2. SumOver(f, s \cap X) \in Nat
      BY <3>1, SumRule
    <3> QED  BY <2>2, <3>1, <3>2
  <2> QED  BY <2>3, <2>4
<1>3. S \in P
  <2>1. \A s \in SUBSET S : s \in P
    <3> HIDE DEF P
    <3> QED  BY <1>1, <1>2, SubsetInduction
  <2> QED  BY <2>1
<1>4. S \cap X = X
  OBVIOUS
<1> QED  BY <1>3, <1>4, SumRule DEF SumOver

LEMMA SumOfEqual ==
  ASSUME NEW S, IsFiniteSet(S), NEW c \in Nat, NEW f \in [S -> Nat], \A x \in S : f[x] = c
  PROVE  Total(f) = c * Cardinality(S)
<1> DEFINE P == {s \in SUBSET S : SumOver(f, s) = c * Cardinality(s)}
<1>1. SumOver(f, {}) = 0 /\ SumOver(f, S) = Total(f)
  BY SumRule
<1>2. {} \in P
  <2>1. Cardinality({}) = 0
    BY FS_EmptySet
  <2> QED  BY <1>1, <2>1
<1>3. ASSUME NEW s \in SUBSET S, s # {}, \A x \in s : s \ {x} \in P
      PROVE  s \in P
  <2>1. PICK x \in s : TRUE
    BY <1>3
  <2>2. IsFiniteSet(s) /\ IsFiniteSet(s \ {x})
    BY FS_Subset
  <2>3. PICK m \in Nat : m = Cardinality(s \ {x})
    BY <2>2, FS_CardinalityType
  <2>4. Cardinality(s) = m + 1
    BY <2>2, <2>3, OneMore
  <2>5. SumOver(f, s) = c + SumOver(f, s \ {x}) /\ SumOver(f, s \ {x}) = c * m
    BY <1>3, <2>3, SumRule
  <2>6. c * (m + 1) = c + c * m
    OBVIOUS
  <2> QED  BY <2>4, <2>5, <2>6
<1>4. S \in P
  <2>1. \A s \in SUBSET S : s \in P
    <3> HIDE DEF P
    <3> QED  BY <1>2, <1>3, SubsetInduction
  <2> QED  BY <2>1
<1> QED  BY <1>1, <1>4

(* Sets that have no element in common. *)
LEMMA SizeOfUnion ==
  ASSUME NEW S, IsFiniteSet(S), NEW K, NEW U, IsFiniteSet(U),
         \A x \in S : K[x] \subseteq U,
         \A x, y \in S : x # y => K[x] \cap K[y] = {}
  PROVE  Cardinality(UNION {K[x] : x \in S}) = Total([x \in S |-> Cardinality(K[x])])
<1> DEFINE f == [x \in S |-> Cardinality(K[x])]
           Of(s) == UNION {K[x] : x \in s}
           P == {s \in SUBSET S : Cardinality(Of(s)) = SumOver(f, s)}
<1>1. \A x \in S : IsFiniteSet(K[x])
  BY FS_Subset
<1>2. f \in [S -> Nat]
  BY <1>1, FS_CardinalityType
<1>3. \A x \in S : f[x] = Cardinality(K[x])
  OBVIOUS
<1> HIDE DEF f
<1>4. SumOver(f, {}) = 0 /\ SumOver(f, S) = Total(f)
  BY <1>2, SumRule
<1>5. {} \in P
  <2>1. Of({}) = {} /\ Cardinality({}) = 0
    BY FS_EmptySet
  <2> QED  BY <1>4, <2>1
<1>6. ASSUME NEW s \in SUBSET S, s # {}, \A x \in s : s \ {x} \in P
      PROVE  s \in P
  <2>1. PICK x \in s : TRUE
    BY <1>6
  <2>2. Of(s) = K[x] \cup Of(s \ {x}) /\ K[x] \cap Of(s \ {x}) = {}
    OBVIOUS
  <2>3. IsFiniteSet(K[x]) /\ IsFiniteSet(Of(s \ {x}))
    <3>1. Of(s \ {x}) \subseteq U
      OBVIOUS
    <3> HIDE DEF Of
    <3> QED  BY <1>1, <3>1, FS_Subset
  <2>4. Cardinality(Of(s \ {x})) = SumOver(f, s \ {x})
    BY <1>6
  <2>5. SumOver(f, s) = f[x] + SumOver(f, s \ {x})
    BY <1>2, SumRule
  <2> HIDE DEF Of
  <2>6. Cardinality(Of(s)) = Cardinality(K[x]) + Cardinality(Of(s \ {x}))
    <3>1. PICK M, N : M = K[x] /\ N = Of(s \ {x})
      OBVIOUS
    <3>2. Cardinality(M \cup N) = Cardinality(M) + Cardinality(N) - Cardinality(M \cap N)
      BY <2>3, <3>1, FS_Union
    <3>3. Cardinality(M \cap N) = 0 /\ Cardinality(M) \in Nat /\ Cardinality(N) \in Nat
      BY <2>2, <2>3, <3>1, FS_EmptySet, FS_CardinalityType
    <3> QED  BY <2>2, <3>1, <3>2, <3>3
  <2> QED  BY <1>3, <2>4, <2>5, <2>6
<1>7. S \in P
  <2>1. \A s \in SUBSET S : s \in P
    <3> HIDE DEF P
    <3> QED  BY <1>5, <1>6, SubsetInduction
  <2> QED  BY <2>1
<1> QED  BY <1>4, <1>7 DEF f

(* A part of something in proportion, rounded down, and what is lost by it. *)
LEMMA Rounding ==
  ASSUME NEW a \in Nat, NEW T \in Nat, T > 0
  PROVE  /\ a \div T \in Nat /\ a % T \in 0..(T - 1)
         /\ a = T * (a \div T) + (a % T)
  OBVIOUS

(* An eligible label whose share is rounded down has more examples than    *)
(* its share, so the places that rounding leaves are all given: there are  *)
(* fewer of them than labels that lost something.                          *)
LEMMA SharesAddUp ==
  ASSUME NEW count \in [Labels -> Nat], NEW size \in Nat, 0 < size, size < Total(count)
  PROVE  LET quota == StratifiedQuota(count, size)
             present == {l \in Labels : count[l] > 0}
         IN  /\ quota \in [present -> Nat] /\ Total(quota) = size
             /\ \A l \in present :
                  /\ quota[l] <= count[l]
                  /\ Total(count) * quota[l] < count[l] * size + Total(count)
                  /\ count[l] * size < Total(count) * quota[l] + Total(count)
<1> DEFINE present == {l \in Labels : count[l] > 0}
<1>1. PICK T \in Nat : T = Total(count)
  BY SumRule, LabelsAssumption
<1>2. IsFiniteSet(present)
  BY LabelsAssumption, FS_Subset
<1>3. PICK share : share = [l \in present |-> Share(count, size, l)]
  OBVIOUS
<1>4. PICK excess : excess = [l \in present |-> Excess(count, size, l)]
  OBVIOUS
<1>5. PICK some : some = [l \in present |-> count[l]]
  OBVIOUS
<1>6. /\ share \in [present -> Nat] /\ excess \in [present -> Nat] /\ some \in [present -> Nat]
      /\ \A l \in present :
           /\ some[l] * size = T * share[l] + excess[l] /\ excess[l] < T
           /\ share[l] < some[l] /\ some[l] = count[l] /\ count[l] \in Nat
  <2>1. ASSUME NEW l \in present
        PROVE  /\ share[l] \in Nat /\ excess[l] \in Nat /\ some[l] \in Nat
               /\ some[l] * size = T * share[l] + excess[l] /\ excess[l] < T
               /\ share[l] < some[l] /\ some[l] = count[l] /\ count[l] \in Nat
    <3>1. PICK c \in Nat : c = count[l] /\ c > 0
      OBVIOUS
    <3>2. PICK a \in Nat : a = c * size
      OBVIOUS
    <3>3. PICK q \in Nat, r \in Nat : /\ q = a \div T /\ r = a % T
                                     /\ a = T * q + r /\ r < T
      <4>1. T > 0
        BY <1>1
      <4> QED  BY <4>1, Rounding
    <3>4. share[l] = q /\ excess[l] = r /\ some[l] = c
      BY <1>1, <1>3, <1>4, <1>5, <3>1, <3>2, <3>3 DEF Share, Excess
    <3>5. q < c
      <4>1. SUFFICES ASSUME c <= q  PROVE FALSE
        OBVIOUS
      <4>2. c * size < c * T
        BY <1>1, <3>1
      <4>3. T * c <= T * q
        BY <4>1
      <4>4. c * T = T * c /\ c * T \in Nat /\ T * q \in Nat
        OBVIOUS
      <4> QED  BY <3>2, <3>3, <4>2, <4>3, <4>4
    <3> QED  BY <3>1, <3>2, <3>3, <3>4, <3>5
  <2> QED  BY <1>3, <1>4, <1>5, <2>1
<1>7. Total(some) = T
  <2>1. \A l \in Labels \ present : count[l] = 0
    OBVIOUS
  <2> QED  BY <1>1, <1>5, <2>1, LabelsAssumption, SumOfPositive
<1>8. PICK sum \in Nat : sum = Total(share)
  BY <1>2, <1>6, SumRule
<1>9. PICK lost \in Nat : lost = Total(excess)
  BY <1>2, <1>6, SumRule
<1>10. T * size = T * sum + lost
  <2> HIDE DEF present
  <2>1. Total(some) * size = T * Total(share) + Total(excess)
    BY <1>2, <1>6, SumOfParts
  <2> QED  BY <1>7, <1>8, <1>9, <2>1
<1> DEFINE losing == {l \in present : excess[l] > 0}
<1>11. IsFiniteSet(losing) /\ losing \subseteq present
  BY <1>2, FS_Subset
<1>12. PICK k \in Nat : k = Cardinality(losing)
  BY <1>11, FS_CardinalityType
<1>13. lost <= (T - 1) * k
  <2>1. T - 1 \in Nat /\ \A l \in present : excess[l] <= T - 1
    BY <1>1, <1>6
  <2> HIDE DEF present
  <2> QED  BY <1>2, <1>6, <1>9, <1>12, <2>1, SumOfBounded
<1>14. PICK left \in Nat : left = size - sum
  <2>1. SUFFICES sum <= size
    OBVIOUS
  <2>2. SUFFICES ASSUME sum >= size + 1  PROVE FALSE
    OBVIOUS
  <2>3. T * (size + 1) <= T * sum
    BY <2>2
  <2>4. T * (size + 1) = T * size + T
    OBVIOUS
  <2> QED  BY <1>1, <1>10, <2>3, <2>4
<1>15. left = 0 \/ left < k
  <2>1. SUFFICES ASSUME left > 0, k <= left  PROVE FALSE
    OBVIOUS
  <2>2. T * left = lost
    <3>1. size = sum + left /\ T * (sum + left) = T * sum + T * left
      BY <1>14
    <3> QED  BY <1>10, <3>1
  <2>3. T * k <= T * left
    BY <2>1
  <2>4. (T - 1) * k = T * k - k
    OBVIOUS
  <2>5. k > 0
    <3>1. SUFFICES ASSUME k = 0  PROVE FALSE
      OBVIOUS
    <3>2. lost <= 0
      BY <1>13, <3>1
    <3>3. T * left > 0
      BY <1>1, <2>1
    <3> QED  BY <2>2, <3>2, <3>3
  <2> QED  BY <1>13, <2>2, <2>3, <2>4, <2>5
<1> DEFINE R == {p \in present \X present : Precedes(count, size, p[1], p[2])}
           Ahead(l) == {m \in present : <<m, l>> \in R}
           extra == {l \in present : Cardinality(Ahead(l)) < left}
<1>16. \A l, m \in present :
         <<l, m>> \in R <=> \/ excess[l] > excess[m]
                            \/ excess[l] = excess[m] /\ LabelRank[l] < LabelRank[m]
  BY <1>4 DEF Precedes
<1>17. IsStrictOrder(R, present)
  <2>1. /\ \A l \in present : excess[l] \in Nat /\ LabelRank[l] \in Nat
        /\ \A l, m \in present : LabelRank[l] = LabelRank[m] => l = m
    BY <1>6, LabelsAssumption
  <2> HIDE DEF R, present
  <2>2. \A l \in present : <<l, l>> \notin R
    BY <1>16, <2>1
  <2>3. ASSUME NEW x \in present, NEW y \in present, NEW z \in present,
               <<x, y>> \in R, <<y, z>> \in R
        PROVE  <<x, z>> \in R
    BY <1>16, <2>1, <2>3
  <2>4. \A x, y \in present : x # y => <<x, y>> \in R \/ <<y, x>> \in R
    BY <1>16, <2>1
  <2> QED  BY <2>2, <2>3, <2>4 DEF IsStrictOrder
<1>18. /\ IsFiniteSet(extra) /\ extra \subseteq present
       /\ Cardinality(extra) = left
  <2>1. k <= Cardinality(present) /\ Cardinality(present) \in Nat
    BY <1>2, <1>11, <1>12, FS_Subset, FS_CardinalityType
  <2>2. extra \subseteq present
    OBVIOUS
  <2>3. /\ IsFiniteSet(extra)
        /\ Cardinality(extra) = IF left <= Cardinality(present) THEN left ELSE Cardinality(present)
    <3> HIDE DEF R, present
    <3> QED  BY <1>2, <1>17, FirstOnes
  <2> HIDE DEF extra, present
  <2> QED  BY <1>15, <2>1, <2>2, <2>3
<1>19. \A l \in extra : excess[l] > 0
  <2> SUFFICES ASSUME NEW l \in extra, ~(excess[l] > 0)  PROVE FALSE
    OBVIOUS
  <2>1. l \in present /\ excess[l] = 0
    BY <1>6
  <2>2. \A m \in losing : m \in Ahead(l)
    BY <1>16, <2>1
  <2>3. IsFiniteSet(Ahead(l))
    BY <1>2, FS_Subset
  <2>4. Cardinality(Ahead(l)) \in Nat /\ Cardinality(Ahead(l)) < left
    BY <2>3, FS_CardinalityType
  <2>5. k <= Cardinality(Ahead(l))
    <3> HIDE DEF Ahead, losing
    <3> QED  BY <1>12, <2>2, <2>3, FS_Subset
  <2> HIDE DEF Ahead
  <2> QED  BY <1>15, <2>4, <2>5
<1>20. PICK quota : quota = [l \in present |-> share[l] + (IF l \in extra THEN 1 ELSE 0)]
  OBVIOUS
<1>21. StratifiedQuota(count, size) = quota
  <2>1. DOMAIN count = Labels
    OBVIOUS
  <2>2. {l \in present : Share(count, size, l) < count[l]} = present
    BY <1>3, <1>6
  <2>3. \A l \in present : {m \in present : Precedes(count, size, m, l)} = Ahead(l)
    OBVIOUS
  <2>4. [l \in present |-> Share(count, size, l)] = share
    BY <1>3
  <2>5. {l \in present : Cardinality({m \in present : Precedes(count, size, m, l)}) < left} = extra
    BY <2>3
  <2>6. StratifiedQuota(count, size) =
          [l \in present |-> Share(count, size, l) + (IF l \in extra THEN 1 ELSE 0)]
    BY <1>8, <1>14, <2>1, <2>2, <2>4, <2>5 DEF StratifiedQuota
  <2>7. \A l \in present : Share(count, size, l) = share[l]
    BY <1>3
  <2> HIDE DEF extra, present
  <2> QED  BY <1>20, <2>6, <2>7
<1> HIDE DEF extra
<1>22. quota \in [present -> Nat]
  BY <1>6, <1>20
<1>23. Total(quota) = size
  <2>1. \A l \in present : quota[l] = share[l] + (IF l \in extra THEN 1 ELSE 0)
    BY <1>20
  <2> HIDE DEF present
  <2>2. Total(quota) = Total(share) + Cardinality(extra)
    BY <1>2, <1>6, <1>18, <1>22, <2>1, SumOfOnes
  <2> QED  BY <1>8, <1>14, <1>18, <2>2
<1>24. ASSUME NEW l \in present
       PROVE  /\ quota[l] <= count[l]
              /\ T * quota[l] < count[l] * size + T
              /\ count[l] * size < T * quota[l] + T
  <2>1. PICK q \in Nat : q = share[l]
    BY <1>6
  <2>2. PICK r \in Nat : r = excess[l]
    BY <1>6
  <2>3. PICK c \in Nat : c = count[l]
    BY <1>6
  <2>4. c * size = T * q + r /\ r < T /\ q < c
    BY <1>6, <2>1, <2>2, <2>3
  <2>5. T * q \in Nat /\ c * size \in Nat /\ T * (q + 1) = T * q + T
    OBVIOUS
  <2>6. CASE l \in extra
    <3>1. quota[l] = q + 1 /\ r > 0
      BY <1>19, <1>20, <2>1, <2>2, <2>6
    <3> QED  BY <2>3, <2>4, <2>5, <3>1
  <2>7. CASE l \notin extra
    <3>1. quota[l] = q
      BY <1>20, <2>1, <2>7
    <3> QED  BY <2>3, <2>4, <2>5, <3>1
  <2> QED  BY <2>6, <2>7
<1> QED  BY <1>1, <1>21, <1>22, <1>23, <1>24

(* The labels of a configuration: as many as its order is long. *)
LEMMA AsManyAsLong ==
  ASSUME NEW order \in LabelOrders
  PROVE  /\ order \in Seq(Labels) /\ Len(order) \in Nat /\ Len(order) > 0
         /\ DOMAIN order = 1..Len(order)
         /\ ToSet(order) \subseteq Labels /\ IsFiniteSet(ToSet(order))
         /\ Cardinality(ToSet(order)) = Len(order)
         /\ \A l \in ToSet(order) : \E i \in 1..Len(order) : order[i] = l
         /\ \A i \in 1..Len(order) : order[i] \in ToSet(order)
         /\ \A i, j \in 1..Len(order) : order[i] = order[j] => i = j
<1>1. /\ order \in Seq(Labels) /\ order # <<>>
      /\ \A i, j \in DOMAIN order : order[i] = order[j] => i = j
  BY LabelsAssumption
<1>2. /\ Len(order) \in Nat /\ Len(order) > 0 /\ DOMAIN order = 1..Len(order)
      /\ order \in [1..Len(order) -> Labels]
  BY <1>1
<1>3. /\ \A l \in ToSet(order) : \E i \in 1..Len(order) : order[i] = l
      /\ \A i \in 1..Len(order) : order[i] \in ToSet(order)
  BY <1>2 DEF ToSet
<1>4. ToSet(order) \subseteq Labels /\ IsFiniteSet(ToSet(order))
  <2>1. ToSet(order) \subseteq Labels
    BY <1>2, <1>3
  <2> QED  BY <2>1, LabelsAssumption, FS_Subset
<1>5. order \in Bijection(1..Len(order), ToSet(order))
  <2>1. order \in [1..Len(order) -> ToSet(order)]
    BY <1>2, <1>3
  <2> QED  BY <1>1, <1>2, <1>3, <2>1 DEF Bijection, Injection, Surjection, IsInjective
<1>6. Cardinality(ToSet(order)) = Len(order)
  <2>1. IsFiniteSet(1..Len(order)) /\ Cardinality(1..Len(order)) = Len(order)
    <3>1. Len(order) \in Int /\ 1 \in Int /\ 1 <= Len(order)
      BY <1>2
    <3> QED  BY <3>1, FS_Interval
  <2> QED  BY <1>5, <2>1, FS_Bijection DEF ExistsBijection
<1> QED  BY <1>1, <1>2, <1>3, <1>4, <1>6

(* Equal shares add up, and no two differ by more than one. *)
LEMMA EqualSharesAddUp ==
  ASSUME NEW order \in LabelOrders, NEW size \in Nat
  PROVE  LET quota == BalancedQuota(order, size)
             base == size \div Len(order)
             more == size % Len(order)
         IN  /\ quota \in [ToSet(order) -> Nat] /\ Total(quota) = size
             /\ base \in Nat
             /\ \A i \in 1..Len(order) :
                  quota[order[i]] = base + (IF i <= more THEN 1 ELSE 0)
<1>1. PICK n \in Nat : n = Len(order) /\ n > 0
  BY AsManyAsLong
<1>7. /\ size \div n \in Nat /\ size % n \in 0..(n - 1)
      /\ size = n * (size \div n) + (size % n)
  BY <1>1, Rounding
<1>8. PICK base \in Nat : base = size \div n
  BY <1>7
<1>9. PICK more \in Nat : more = size % n
  BY <1>7
<1>2. base = size \div n /\ more = size % n /\ size = n * base + more /\ more < n
  <2>1. size % n < n
    BY <1>1, <1>7
  <2> QED  BY <1>7, <1>8, <1>9, <2>1
<1>3. PICK quota : quota = BalancedQuota(order, size)
  OBVIOUS
<1>4. /\ DOMAIN quota = ToSet(order)
      /\ \A i \in 1..n : quota[order[i]] = base + (IF i <= more THEN 1 ELSE 0)
  <2>1. /\ \A i \in 1..n : order[i] \in ToSet(order)
        /\ \A i, j \in 1..n : order[i] = order[j] => i = j
        /\ DOMAIN order = 1..n
    BY <1>1, AsManyAsLong
  <2>2. \A i \in 1..n : (CHOOSE j \in DOMAIN order : order[j] = order[i]) = i
    BY <2>1
  <2> QED  BY <1>1, <1>2, <1>3, <2>1, <2>2 DEF BalancedQuota
<1>5. quota \in [ToSet(order) -> Nat]
  <2>1. \A l \in ToSet(order) : quota[l] \in Nat
    <3> SUFFICES ASSUME NEW l \in ToSet(order)  PROVE quota[l] \in Nat
      OBVIOUS
    <3>1. PICK i \in 1..n : order[i] = l
      BY <1>1, AsManyAsLong
    <3> QED  BY <1>4, <3>1
  <2>2. quota = [l \in DOMAIN quota |-> quota[l]]
    BY <1>3 DEF BalancedQuota
  <2> QED  BY <1>4, <2>1, <2>2
<1>6. Total(quota) = size
  <2>1. IsFiniteSet(ToSet(order)) /\ Cardinality(ToSet(order)) = n
    BY <1>1, AsManyAsLong
  <2> DEFINE X == {order[i] : i \in 1..more}
             g == [l \in ToSet(order) |-> base]
  <2>2. 1..more \subseteq 1..n
    BY <1>1, <1>2
  <2>3. /\ \A i \in 1..n : order[i] \in ToSet(order)
        /\ \A i, j \in 1..n : order[i] = order[j] => i = j
        /\ \A l \in ToSet(order) : \E i \in 1..n : order[i] = l
    BY <1>1, AsManyAsLong
  <2>4. X \subseteq ToSet(order)
    BY <2>2, <2>3
  <2>5. Cardinality(X) = more
    <3> DEFINE f == [i \in 1..more |-> order[i]]
    <3>1. f \in Bijection(1..more, X)
      <4>1. \A i, j \in 1..more : f[i] = f[j] => i = j
        BY <2>2, <2>3
      <4>2. f \in [1..more -> X] /\ \A x \in X : \E i \in 1..more : f[i] = x
        OBVIOUS
      <4> HIDE DEF f, X
      <4> QED  BY <4>1, <4>2 DEF Bijection, Injection, Surjection, IsInjective
    <3>2. IsFiniteSet(1..more) /\ Cardinality(1..more) = more
      <4>1. more \in Int /\ 1 \in Int
        OBVIOUS
      <4> QED  BY <4>1, FS_Interval
    <3> HIDE DEF f, X
    <3> QED  BY <3>1, <3>2, FS_Bijection DEF ExistsBijection
  <2>6. \A l \in ToSet(order) : quota[l] = g[l] + (IF l \in X THEN 1 ELSE 0)
    <3> SUFFICES ASSUME NEW l \in ToSet(order)
                 PROVE  quota[l] = g[l] + (IF l \in X THEN 1 ELSE 0)
      OBVIOUS
    <3>1. PICK i \in 1..n : order[i] = l
      BY <2>3
    <3>2. l \in X <=> i <= more
      <4>1. i <= more => i \in 1..more
        OBVIOUS
      <4>2. ASSUME l \in X  PROVE i <= more
        <5>1. PICK j \in 1..more : l = order[j]
          BY <4>2
        <5> QED  BY <2>2, <2>3, <3>1, <5>1
      <4> QED  BY <3>1, <4>1, <4>2
    <3>3. g[l] = base
      OBVIOUS
    <3> HIDE DEF g, X
    <3> QED  BY <1>4, <3>1, <3>2, <3>3
  <2>7. g \in [ToSet(order) -> Nat] /\ \A l \in ToSet(order) : g[l] = base
    OBVIOUS
  <2> HIDE DEF g, X
  <2>8. Total(g) = base * n
    BY <2>1, <2>7, SumOfEqual
  <2>9. Total(quota) = Total(g) + Cardinality(X)
    BY <1>5, <2>1, <2>4, <2>6, <2>7, SumOfOnes
  <2>10. n * base = base * n
    OBVIOUS
  <2> QED  BY <1>2, <2>5, <2>8, <2>9, <2>10
<1> QED  BY <1>1, <1>2, <1>3, <1>4, <1>5, <1>6

(* Groups have no example in common. *)
AreApart(G) == \A l, m \in Labels : l # m => G[l] \cap G[m] = {}

(* Examples are taken from the beginnings of some groups. *)
AreDrawn(S, A, G, D, K) ==
  /\ A \in SUBSET Nat /\ IsFiniteSet(A)
  /\ G \in [Labels -> SUBSET A] /\ AreApart(G)
  /\ D \subseteq Labels
  /\ \A l \in D : IsBeginning(K[l], G[l])
  /\ S = UNION {K[l] : l \in D}

(* What such a draw is made of. *)
IsMadeOf(S, A, G, D, K) ==
  /\ S \subseteq A /\ IsFiniteSet(S)
  /\ \A l \in D : S \cap G[l] = K[l]
  /\ \A l \in Labels \ D : S \cap G[l] = {}
  /\ \A l \in Labels : IsBeginning(S \cap G[l], G[l])
  /\ Cardinality(S) = Total([l \in D |-> Cardinality(K[l])])

LEMMA FromGroups ==
  ASSUME NEW S, NEW A, NEW G, NEW D, NEW K, AreDrawn(S, A, G, D, K)
  PROVE  IsMadeOf(S, A, G, D, K)
<1>0. /\ A \in SUBSET Nat /\ IsFiniteSet(A)
      /\ G \in [Labels -> SUBSET A]
      /\ \A l, m \in Labels : l # m => G[l] \cap G[m] = {}
      /\ D \subseteq Labels
      /\ \A l \in D : IsBeginning(K[l], G[l])
      /\ S = UNION {K[l] : l \in D}
  BY DEF AreDrawn, AreApart
<1>1. \A l \in D : K[l] \subseteq G[l] /\ G[l] \subseteq A
  BY <1>0 DEF IsBeginning
<1>2. S \subseteq A /\ IsFiniteSet(S)
  <2>1. S \subseteq A
    BY <1>0, <1>1
  <2> QED  BY <1>0, <2>1, FS_Subset
<1>3. \A l \in D : S \cap G[l] = K[l]
  BY <1>0, <1>1
<1>4. \A l \in Labels \ D : S \cap G[l] = {}
  BY <1>0, <1>1
<1>5. Cardinality(S) = Total([l \in D |-> Cardinality(K[l])])
  <2>1. IsFiniteSet(D) /\ \A l \in D : K[l] \subseteq A
    BY <1>0, <1>1, LabelsAssumption, FS_Subset
  <2>2. \A l, m \in D : l # m => K[l] \cap K[m] = {}
    BY <1>0, <1>1
  <2> QED  BY <1>0, <2>1, <2>2, SizeOfUnion
<1>6. \A l \in Labels : IsBeginning(S \cap G[l], G[l])
  <2> SUFFICES ASSUME NEW l \in Labels  PROVE IsBeginning(S \cap G[l], G[l])
    OBVIOUS
  <2>1. CASE l \in D
    BY <1>0, <1>3, <2>1
  <2>2. CASE l \notin D
    BY <1>4, <2>2 DEF IsBeginning
  <2> QED  BY <2>1, <2>2
<1> QED  BY <1>2, <1>3, <1>4, <1>5, <1>6 DEF IsMadeOf

LEMMA BeginningOfBeginning ==
  ASSUME NEW U \in SUBSET Nat, NEW T, NEW S, IsBeginning(T, U), IsBeginning(S, T)
  PROVE  IsBeginning(S, U)
<1>1. S \subseteq T /\ T \subseteq U
  BY DEF IsBeginning
<1>2. ASSUME NEW x \in S, NEW y \in U, y < x  PROVE y \in S
  BY <1>1, <1>2 DEF IsBeginning
<1> QED  BY <1>1, <1>2 DEF IsBeginning

(* All of a set that is small enough. *)
LEMMA TakeAll ==
  ASSUME NEW S \in SUBSET Nat, IsFiniteSet(S), NEW n \in Nat, Cardinality(S) <= n
  PROVE  Take(S, n) = S
<1>1. /\ Take(S, n) \subseteq S
      /\ Cardinality(Take(S, n)) = IF n <= Cardinality(S) THEN n ELSE Cardinality(S)
  BY TakeIsABeginning DEF IsBeginning
<1>2. Cardinality(S) \in Nat
  BY FS_CardinalityType
<1>3. Cardinality(Take(S, n)) = Cardinality(S)
  BY <1>1, <1>2
<1> QED  BY <1>1, <1>3, FS_Subset

LEMMA PartOfSum ==
  ASSUME NEW S, IsFiniteSet(S), NEW f \in [S -> Nat], NEW x \in S
  PROVE  f[x] <= Total(f)
<1>1. Total(f) = f[x] + SumOver(f, S \ {x}) /\ SumOver(f, S \ {x}) \in Nat
  <2>1. S \in SUBSET S /\ S \ {x} \in SUBSET S
    OBVIOUS
  <2> QED  BY <2>1, SumRule
<1>2. f[x] \in Nat
  OBVIOUS
<1> QED  BY <1>1, <1>2

-----------------------------------------------------------------------------
(***************************************************************************)
(* The whole stream                                                        *)
(***************************************************************************)

Configured ==
  /\ labelOf \in [Pool -> Labels]
  /\ strategy \in Strategies
  /\ wanted \in LabelOrders
  /\ target \in Nat
  /\ strategy \in Selections => target > 0

(* What has come for a store, and with a label. *)
Stored(l)  == {x \in Pool \ unread : Eligible(x) /\ Store(x) = l}
Counted(l) == {x \in Pool \ unread : Eligible(x) /\ labelOf[x] = l}

KeptInv ==
  /\ kept = [l \in Labels |-> Take(Stored(l), Capacity(l))]
  /\ available = [l \in Labels |-> Cardinality(Counted(l))]

Whole == Configured /\ KeptInv /\ unread = {}

Grouped(A, G) ==
  /\ A = {x \in Pool : Eligible(x)}
  /\ G = [l \in Labels |-> Group(l)]

LEMMA Groups ==
  ASSUME NEW A, NEW G, Whole, Grouped(A, G)
  PROVE  /\ A \in SUBSET Nat /\ IsFiniteSet(A) /\ A \subseteq Pool
         /\ Cardinality(A) <= Cardinality(Pool) /\ Cardinality(A) \in Nat
         /\ Cardinality(Pool) \in Nat
         /\ G \in [Labels -> SUBSET A]
         /\ AreApart(G)
         /\ \A l \in Labels : /\ G[l] \in SUBSET Nat /\ IsFiniteSet(G[l])
                              /\ Cardinality(G[l]) \in Nat
                              /\ Cardinality(G[l]) <= Cardinality(A)
                              /\ l \notin ToSet(wanted) => G[l] = {}
         /\ UNION {G[l] : l \in Labels} = A
<1>1. labelOf \in [Pool -> Labels]
  BY DEF Whole, Configured
<1>2. A \subseteq Pool /\ A \in SUBSET Nat
  BY PoolAssumption DEF Grouped
<1>3. IsFiniteSet(A) /\ Cardinality(A) <= Cardinality(Pool)
  BY <1>2, PoolAssumption, FS_Subset
<1>4. Cardinality(A) \in Nat /\ Cardinality(Pool) \in Nat
  BY <1>3, PoolAssumption, FS_CardinalityType
<1>5. G \in [Labels -> SUBSET A]
  BY DEF Grouped, Group
<1>6. \A l \in Labels : \A x : x \in G[l] <=> x \in A /\ labelOf[x] = l
  BY DEF Grouped, Group
<1>7. AreApart(G)
  BY <1>6 DEF AreApart
<1>8. \A l \in Labels : /\ G[l] \in SUBSET Nat /\ IsFiniteSet(G[l])
                        /\ Cardinality(G[l]) \in Nat
                        /\ Cardinality(G[l]) <= Cardinality(A)
  BY <1>2, <1>3, <1>5, FS_Subset, FS_CardinalityType
<1>9. \A l \in Labels : l \notin ToSet(wanted) => G[l] = {}
  BY <1>6 DEF Grouped, Eligible
<1>10. UNION {G[l] : l \in Labels} = A
  <2>1. \A x \in A : labelOf[x] \in Labels
    BY <1>1, <1>2
  <2> QED  BY <1>5, <1>6, <2>1
<1> QED  BY <1>2, <1>3, <1>4, <1>5, <1>7, <1>8, <1>9, <1>10

LEMMA ByLabel ==
  ASSUME NEW A, NEW G, Whole, Grouped(A, G)
  PROVE  /\ available = [l \in Labels |-> Cardinality(G[l])]
         /\ Total(available) = Cardinality(A)
         /\ strategy # "RANDOM" => kept = [l \in Labels |-> Take(G[l], Capacity(l))]
         /\ strategy = "RANDOM" => All = Take(A, Capacity(wanted[1]))
<1>1. unread = {} /\ labelOf \in [Pool -> Labels] /\ wanted \in LabelOrders
  BY DEF Whole, Configured
<1>2. \A l \in Labels : Counted(l) = G[l]
  BY <1>1 DEF Counted, Grouped, Group
<1>3. available = [l \in Labels |-> Cardinality(G[l])]
  BY <1>2 DEF Whole, KeptInv
<1>4. Total(available) = Cardinality(A)
  <2>1. /\ IsFiniteSet(A) /\ G \in [Labels -> SUBSET A]
        /\ AreApart(G)
        /\ UNION {G[l] : l \in Labels} = A
    BY Groups
  <2>2. Cardinality(UNION {G[l] : l \in Labels}) = Total([l \in Labels |-> Cardinality(G[l])])
    <3>1. \A l \in Labels : G[l] \subseteq A
      BY <2>1
    <3>2. IsFiniteSet(Labels)
      BY LabelsAssumption
    <3>3. \A l, m \in Labels : l # m => G[l] \cap G[m] = {}
      BY <2>1 DEF AreApart
    <3> QED  BY <2>1, <3>1, <3>2, <3>3, SizeOfUnion
  <2> QED  BY <1>3, <2>1, <2>2
<1>5. ASSUME strategy # "RANDOM"  PROVE kept = [l \in Labels |-> Take(G[l], Capacity(l))]
  <2>1. \A l \in Labels : Stored(l) = G[l]
    BY <1>1, <1>5 DEF Stored, Store, Grouped, Group
  <2> QED  BY <2>1 DEF Whole, KeptInv
<1>6. ASSUME strategy = "RANDOM"  PROVE All = Take(A, Capacity(wanted[1]))
  <2>1. PICK first : first = wanted[1]
    OBVIOUS
  <2>2. first \in Labels
    BY <1>1, <2>1, LabelsAssumption
  <2>3. Stored(first) = A
    BY <1>1, <1>6, <2>1 DEF Stored, Store, Grouped
  <2>4. \A l \in Labels : l # first => Stored(l) = {}
    BY <1>6, <2>1 DEF Stored, Store
  <2>5. \A l \in Labels : kept[l] = Take(Stored(l), Capacity(l))
    BY DEF Whole, KeptInv
  <2>6. \A l \in Labels : l # first => kept[l] = {}
    BY <2>4, <2>5 DEF Take
  <2>7. kept[first] = Take(A, Capacity(first))
    BY <2>2, <2>3, <2>5
  <2>8. All = kept[first]
    BY <2>2, <2>6 DEF All
  <2> QED  BY <2>1, <2>7, <2>8
<1> QED  BY <1>3, <1>4, <1>5, <1>6

(* How many examples a sample has. *)
IsSize(n, A) ==
  \/ strategy \in Selections /\ n = Len(wanted) * target
  \/ target = 0 /\ strategy = "BALANCED" /\ n = Len(wanted) * EqualShare
  \/ target = 0 /\ strategy \in {"RANDOM", "STRATIFIED"} /\ n = Cardinality(A)
  \/ /\ target > 0 /\ strategy \notin Selections
     /\ n = IF target < Cardinality(A) THEN target ELSE Cardinality(A)

IsEven(S, G) ==
  \A i, j \in 1..Len(wanted) :
    i < j => Cardinality(S \cap G[wanted[i]]) - Cardinality(S \cap G[wanted[j]]) \in {0, 1}

IsProportional(S, A, G) ==
  \A l \in Labels :
    LET exact == Cardinality(G[l]) * Cardinality(S)
        drawn == Cardinality(S \cap G[l]) * Cardinality(A)
    IN  /\ drawn < exact + Cardinality(A)
        /\ exact < drawn + Cardinality(A)

LEMMA Described ==
  ASSUME NEW A, NEW G, Whole, Grouped(A, G),
         NEW S \in SUBSET A,
         IsSize(Cardinality(S), A),
         strategy = "RANDOM" => IsBeginning(S, A),
         strategy # "RANDOM" => \A l \in Labels : IsBeginning(S \cap G[l], G[l]),
         strategy = "BALANCED" => IsEven(S, G),
         strategy \in Selections =>
           \A l \in ToSet(wanted) : Cardinality(S \cap G[l]) = target,
         strategy = "MANIFEST" => ~(Twins \subseteq S),
         strategy = "STRATIFIED" => IsProportional(S, A, G)
  PROVE  IsSample(S)
<1>1. A = {x \in Pool : Eligible(x)} /\ \A l \in Labels : Group(l) = G[l]
  BY DEF Grouped
<1>2. /\ strategy \in Strategies /\ target \in Nat
      /\ DOMAIN wanted = 1..Len(wanted) /\ ToSet(wanted) \subseteq Labels
      /\ \A i \in 1..Len(wanted) : wanted[i] \in Labels
  <2>1. wanted \in LabelOrders
    BY DEF Whole, Configured
  <2>2. PICK order \in LabelOrders : order = wanted
    BY <2>1
  <2>3. /\ DOMAIN order = 1..Len(order) /\ ToSet(order) \subseteq Labels
        /\ \A i \in 1..Len(order) : order[i] \in ToSet(order)
    BY AsManyAsLong
  <2> QED  BY <2>2, <2>3 DEF Whole, Configured
<1> DEFINE Of(l) == S \cap Group(l)
           Begins(T, U) == T \subseteq U /\ \A x \in T, y \in U : y < x => y \in T
           size ==
             CASE strategy \in Selections -> Len(wanted) * target
               [] target = 0 /\ strategy = "BALANCED" -> Len(wanted) * EqualShare
               [] target = 0 /\ strategy \in {"RANDOM", "STRATIFIED"} -> Cardinality(A)
               [] target > 0 /\ strategy \notin Selections ->
                    IF target < Cardinality(A) THEN target ELSE Cardinality(A)
<1>3. Cardinality(S) = size
  <2>1. PICK n : n = Cardinality(S)
    OBVIOUS
  <2>2. PICK a : a = Cardinality(A)
    OBVIOUS
  <2> QED  BY <1>2, <2>1, <2>2 DEF IsSize, Strategies, Selections
<1>4. /\ strategy = "RANDOM" => Begins(S, A)
      /\ strategy # "RANDOM" => \A l \in Labels : Begins(Of(l), Group(l))
  BY <1>1 DEF IsBeginning
<1>5. strategy = "BALANCED" =>
        \A i, j \in DOMAIN wanted :
          i < j => Cardinality(Of(wanted[i])) - Cardinality(Of(wanted[j])) \in {0, 1}
  BY <1>1, <1>2 DEF IsEven
<1>6. strategy \in Selections =>
        \A l \in ToSet(wanted) : Cardinality(Of(l)) = target
  BY <1>1, <1>2
<1>7. strategy = "STRATIFIED" =>
        \A l \in Labels :
          LET exact == Cardinality(Group(l)) * size
              drawn == Cardinality(Of(l)) * Cardinality(A)
          IN  /\ drawn < exact + Cardinality(A)
              /\ exact < drawn + Cardinality(A)
  <2> HIDE DEF size
  <2> QED  BY <1>1, <1>3 DEF IsProportional
<1>8. A = {x \in Pool : Eligible(x)}
  BY <1>1
<1> QED  BY <1>3, <1>4, <1>5, <1>6, <1>7, <1>8 DEF IsSample

(* What refuses a sample. *)
MayRefuse ==
  \/ \A x \in Pool : ~Eligible(x)
  \/ \E i \in DOMAIN wanted : IsTooRare(i)
  \/ strategy = "MANIFEST" /\ \A x \in Twins : Eligible(x)

MayBe(S) ==
  /\ S # Refused => IsSample(S)
  /\ S = Refused => MayRefuse

LEMMA Wanted ==
  ASSUME Whole
  PROVE  /\ DOMAIN wanted = 1..Len(wanted) /\ Len(wanted) \in Nat /\ Len(wanted) > 0
         /\ ToSet(wanted) \subseteq Labels /\ ToSet(wanted) # {} /\ IsFiniteSet(ToSet(wanted))
         /\ Cardinality(ToSet(wanted)) = Len(wanted)
         /\ \A l \in ToSet(wanted) : \E i \in 1..Len(wanted) : wanted[i] = l
         /\ \A i \in 1..Len(wanted) : wanted[i] \in ToSet(wanted)
         /\ \A i, j \in 1..Len(wanted) : wanted[i] = wanted[j] => i = j
<1>1. PICK order \in LabelOrders : order = wanted
  BY DEF Whole, Configured
<1>2. /\ DOMAIN order = 1..Len(order) /\ Len(order) \in Nat /\ Len(order) > 0
      /\ ToSet(order) \subseteq Labels /\ IsFiniteSet(ToSet(order))
      /\ Cardinality(ToSet(order)) = Len(order)
      /\ \A l \in ToSet(order) : \E i \in 1..Len(order) : order[i] = l
      /\ \A i \in 1..Len(order) : order[i] \in ToSet(order)
      /\ \A i, j \in 1..Len(order) : order[i] = order[j] => i = j
  BY AsManyAsLong
<1>3. ToSet(order) # {}
  <2>1. 1 \in 1..Len(order)
    BY <1>2
  <2> QED  BY <1>2, <2>1
<1> QED  BY <1>1, <1>2, <1>3

(* A selection fills each of the cells, or one of them cannot be filled. *)
LEMMA SelectionFits ==
  ASSUME NEW A, NEW G, Whole, Grouped(A, G), strategy \in Selections
  PROVE  MayBe(Drawn)
<1>1. PICK D : D = ToSet(wanted)
  OBVIOUS
<1>2. PICK n \in Nat : n = target
  BY DEF Whole, Configured
<1>3. PICK K : K = [l \in D |-> Take(kept[l], n)]
  OBVIOUS
<1>4. PICK S : S = UNION {K[l] : l \in D}
  OBVIOUS
<1>5. strategy # "RANDOM" /\ strategy # "BALANCED" /\ strategy # "STRATIFIED"
  BY DEF Selections
<1>6. /\ A \in SUBSET Nat /\ IsFiniteSet(A) /\ A \subseteq Pool
      /\ Cardinality(Pool) \in Nat /\ Cardinality(A) <= Cardinality(Pool)
      /\ Cardinality(A) \in Nat
      /\ G \in [Labels -> SUBSET A]
      /\ AreApart(G)
      /\ \A l \in Labels : /\ G[l] \in SUBSET Nat /\ IsFiniteSet(G[l])
                           /\ Cardinality(G[l]) \in Nat
                           /\ Cardinality(G[l]) <= Cardinality(A)
  BY Groups
<1>7. D \subseteq Labels /\ IsFiniteSet(D) /\ Cardinality(D) = Len(wanted) /\ Len(wanted) \in Nat
  BY <1>1, Wanted
<1>8. \A l \in Labels : kept[l] = G[l]
  <2> SUFFICES ASSUME NEW l \in Labels  PROVE kept[l] = G[l]
    OBVIOUS
  <2>1. kept[l] = Take(G[l], Cardinality(Pool))
    BY <1>5, ByLabel DEF Capacity
  <2>2. Cardinality(G[l]) <= Cardinality(Pool)
    BY <1>6
  <2>3. Take(G[l], Cardinality(Pool)) = G[l]
    BY <1>6, <2>2, TakeAll
  <2> QED  BY <2>1, <2>3
<1>9. OfEach([l \in ToSet(wanted) |-> target]) = S
  BY <1>1, <1>2, <1>3, <1>4 DEF OfEach
<1>10. \A l \in D : IsBeginning(K[l], G[l]) /\ Cardinality(K[l]) =
                       IF n <= Cardinality(G[l]) THEN n ELSE Cardinality(G[l])
  <2> SUFFICES ASSUME NEW l \in D
               PROVE  IsBeginning(K[l], G[l]) /\ Cardinality(K[l]) =
                        IF n <= Cardinality(G[l]) THEN n ELSE Cardinality(G[l])
    OBVIOUS
  <2>1. K[l] = Take(G[l], n) /\ G[l] \in SUBSET Nat /\ IsFiniteSet(G[l])
    BY <1>3, <1>6, <1>7, <1>8
  <2> QED  BY <2>1, TakeIsABeginning
<1>11. /\ S \subseteq A
       /\ \A l \in D : S \cap G[l] = K[l]
       /\ \A l \in Labels : IsBeginning(S \cap G[l], G[l])
       /\ Cardinality(S) = Total([l \in D |-> Cardinality(K[l])])
  <2>1. AreDrawn(S, A, G, D, K)
    BY <1>4, <1>6, <1>7, <1>10 DEF AreDrawn
  <2>2. IsMadeOf(S, A, G, D, K)
    BY <2>1, FromGroups
  <2> QED  BY <2>2 DEF IsMadeOf
<1>12. S # Refused
  BY <1>6, <1>11, RefusedAssumption
<1> DEFINE refuses == \/ \E l \in ToSet(wanted) : available[l] < target
                      \/ strategy = "MANIFEST" /\ Twins \subseteq S
<1>13. Drawn = IF refuses THEN Refused ELSE S
  <2>1. Drawn = Selected
    BY <1>5 DEF Drawn
  <2>2. Selected = IF refuses THEN Refused ELSE S
    BY <1>9 DEF Selected
  <2> HIDE DEF refuses
  <2> QED  BY <2>1, <2>2
<1>14. \A l \in D : available[l] = Cardinality(G[l])
  BY <1>7, ByLabel
<1>15. ASSUME refuses  PROVE MayRefuse
  <2>1. ASSUME NEW l \in D, available[l] < target  PROVE MayRefuse
    <3>1. PICK i \in DOMAIN wanted : wanted[i] = l
      BY <1>1, Wanted
    <3>2. Cardinality(Group(wanted[i])) < target
      BY <1>7, <1>14, <2>1, <3>1 DEF Grouped
    <3>3. IsTooRare(i)
      BY <3>2 DEF IsTooRare, Selections
    <3> QED  BY <3>3 DEF MayRefuse
  <2>2. ASSUME strategy = "MANIFEST", Twins \subseteq S  PROVE MayRefuse
    BY <1>11, <2>2 DEF MayRefuse, Grouped
  <2> QED  BY <1>1, <1>15, <2>1, <2>2
<1>16. ASSUME ~refuses  PROVE IsSample(S)
  <2>1. \A l \in D : Cardinality(K[l]) = n
    <3>1. \A l \in D : ~(Cardinality(G[l]) < n)
      BY <1>1, <1>2, <1>14, <1>16
    <3> QED  BY <1>2, <1>6, <1>7, <1>10, <3>1
  <2>2. Cardinality(S) = n * Len(wanted)
    <3> DEFINE f == [l \in D |-> Cardinality(K[l])]
    <3>1. f \in [D -> Nat] /\ \A l \in D : f[l] = n
      BY <2>1
    <3>2. Cardinality(S) = Total(f)
      BY <1>11
    <3> HIDE DEF f
    <3>3. Total(f) = n * Cardinality(D)
      BY <1>7, <3>1, SumOfEqual
    <3> QED  BY <1>7, <3>2, <3>3
  <2>3. n * Len(wanted) = Len(wanted) * n
    BY <1>7
  <2>4. IsSize(Cardinality(S), A)
    BY <1>2, <2>2, <2>3 DEF IsSize
  <2>5. \A l \in ToSet(wanted) : Cardinality(S \cap G[l]) = target
    BY <1>1, <1>2, <1>11, <2>1
  <2>6. strategy = "MANIFEST" => ~(Twins \subseteq S)
    BY <1>16
  <2> QED  BY <1>5, <1>11, <2>4, <2>5, <2>6, Described
<1> HIDE DEF refuses
<1> QED  BY <1>12, <1>13, <1>15, <1>16 DEF MayBe

(* The beginning of the whole. *)
LEMMA RandomFits ==
  ASSUME NEW A, NEW G, Whole, Grouped(A, G), strategy = "RANDOM"
  PROVE  MayBe(Drawn)
<1>1. PICK n \in Nat : n = target
  BY DEF Whole, Configured
<1>2. /\ A \in SUBSET Nat /\ IsFiniteSet(A) /\ A \subseteq Pool
      /\ Cardinality(Pool) \in Nat /\ Cardinality(A) <= Cardinality(Pool)
      /\ Cardinality(A) \in Nat
  BY Groups
<1>3. strategy \notin Selections /\ strategy # "BALANCED" /\ strategy # "STRATIFIED"
      /\ strategy # "MANIFEST"
  BY DEF Selections
<1>4. PICK m \in Nat : m = IF n = 0 THEN Cardinality(Pool) ELSE n
  BY <1>2
<1>5. All = Take(A, m)
  <2>1. Capacity(wanted[1]) = m
    BY <1>1, <1>3, <1>4 DEF Capacity
  <2> QED  BY <2>1, ByLabel
<1>6. PICK S : S = Take(A, m)
  OBVIOUS
<1>7. /\ IsBeginning(S, A) /\ S \subseteq A
      /\ Cardinality(S) = IF m <= Cardinality(A) THEN m ELSE Cardinality(A)
  BY <1>2, <1>6, TakeIsABeginning DEF IsBeginning
<1>8. Total(available) = Cardinality(A)
  BY ByLabel
<1>9. CASE Cardinality(A) = 0
  <2>1. Drawn = Refused
    BY <1>3, <1>8, <1>9 DEF Drawn
  <2>2. A = {}
    BY <1>2, <1>9, FS_EmptySet
  <2>3. MayRefuse
    BY <2>2 DEF MayRefuse, Grouped
  <2>4. ~(Drawn # Refused)
    BY <2>1
  <2> QED  BY <2>3, <2>4 DEF MayBe
<1>10. CASE Cardinality(A) > 0
  <2>1. Drawn = S
    BY <1>3, <1>5, <1>6, <1>8, <1>10 DEF Drawn
  <2>2. S # Refused
    BY <1>2, <1>7, RefusedAssumption
  <2>3. IsSize(Cardinality(S), A)
    <3>1. CASE n = 0
      BY <1>1, <1>2, <1>4, <1>7, <3>1 DEF IsSize
    <3>2. CASE n # 0
      BY <1>1, <1>2, <1>3, <1>4, <1>7, <3>2 DEF IsSize
    <3> QED  BY <3>1, <3>2
  <2>4. IsSample(S)
    BY <1>3, <1>7, <2>3, Described
  <2> QED  BY <2>1, <2>2, <2>4 DEF MayBe
<1> QED  BY <1>2, <1>9, <1>10

(* The smallest of the labels bounds an equal share. *)
LEMMA EqualShares ==
  ASSUME NEW A, NEW G, Whole, Grouped(A, G)
  PROVE  /\ EqualShare \in Nat
         /\ \A l \in ToSet(wanted) : EqualShare <= Cardinality(G[l])
         /\ \E l \in ToSet(wanted) : EqualShare = Cardinality(G[l])
<1>1. PICK D : D = ToSet(wanted)
  OBVIOUS
<1>2. D \subseteq Labels /\ D # {}
  BY <1>1, Wanted
<1>3. /\ \A l \in Labels : Cardinality(G[l]) \in Nat /\ Cardinality(G[l]) <= Cardinality(A)
      /\ Cardinality(A) <= Cardinality(Pool)
      /\ Cardinality(A) \in Nat /\ Cardinality(Pool) \in Nat
  BY Groups
<1>4. \A l \in D : available[l] = Cardinality(G[l])
  BY <1>2, ByLabel
<1> DEFINE sizes == {Cardinality(G[l]) : l \in D}
<1>5. sizes \in SUBSET Nat /\ sizes # {}
  BY <1>2, <1>3
<1>6. PICK n \in sizes : \A m \in sizes : n <= m
  <2> HIDE DEF sizes
  <2> QED  BY <1>5, SomeLeast
<1>7. PICK k \in D : n = Cardinality(G[k])
  BY <1>6
<1>8. n \in 0..Cardinality(Pool)
  <2>1. n <= Cardinality(A) /\ n \in Nat
    BY <1>2, <1>3, <1>7
  <2> HIDE DEF sizes
  <2> QED  BY <1>3, <2>1
<1> DEFINE Least(e) == /\ \A l \in D : e <= available[l]
                       /\ \E l \in D : e = available[l]
<1>9. Least(n)
  <2>1. \A l \in D : n <= available[l]
    BY <1>4, <1>6
  <2> QED  BY <1>4, <1>7, <2>1
<1>10. EqualShare = CHOOSE e \in 0..Cardinality(Pool) : Least(e)
  BY <1>1 DEF EqualShare
<1>11. EqualShare \in 0..Cardinality(Pool) /\ Least(EqualShare)
  <2> HIDE DEF Least
  <2> QED  BY <1>8, <1>9, <1>10
<1> QED  BY <1>1, <1>4, <1>11

(* A draw that takes quota[l] examples with each label. *)
IsDraw(S, A, G, quota) ==
  /\ S \subseteq A /\ S # Refused
  /\ \A l \in Labels : IsBeginning(S \cap G[l], G[l])
  /\ \A l \in DOMAIN quota : Cardinality(S \cap G[l]) = quota[l]
  /\ \A l \in Labels \ DOMAIN quota : S \cap G[l] = {}
  /\ Cardinality(S) = Total(quota)

LEMMA Draws ==
  ASSUME NEW S, NEW A, NEW G, NEW D, NEW K, AreDrawn(S, A, G, D, K), A \subseteq Pool
  PROVE  IsDraw(S, A, G, [l \in D |-> Cardinality(K[l])])
<1>1. IsMadeOf(S, A, G, D, K)
  BY FromGroups
<1>2. S \subseteq A
  BY <1>1 DEF IsMadeOf
<1>3. S # Refused
  BY <1>2, RefusedAssumption
<1>4. PICK quota : quota = [l \in D |-> Cardinality(K[l])]
  OBVIOUS
<1>5. DOMAIN quota = D /\ \A l \in D : quota[l] = Cardinality(K[l])
  BY <1>4
<1>6. IsDraw(S, A, G, quota)
  BY <1>1, <1>2, <1>3, <1>4, <1>5 DEF IsMadeOf, IsDraw
<1> QED  BY <1>4, <1>6

(* Equal shares of the beginnings of the labels. *)
LEMMA BalancedFits ==
  ASSUME NEW A, NEW G, Whole, Grouped(A, G), strategy = "BALANCED"
  PROVE  MayBe(Drawn)
<1>1. PICK D : D = ToSet(wanted)
  OBVIOUS
<1>2. PICK n \in Nat : n = target
  BY DEF Whole, Configured
<1>3. PICK order : order = wanted
  OBVIOUS
<1>4. strategy \notin Selections /\ strategy # "MANIFEST"
  BY DEF Selections
<1>5. /\ A \in SUBSET Nat /\ IsFiniteSet(A) /\ A \subseteq Pool
      /\ Cardinality(Pool) \in Nat /\ Cardinality(A) <= Cardinality(Pool)
      /\ Cardinality(A) \in Nat
      /\ G \in [Labels -> SUBSET A] /\ AreApart(G)
      /\ \A l \in Labels : /\ G[l] \in SUBSET Nat /\ IsFiniteSet(G[l])
                           /\ Cardinality(G[l]) \in Nat
                           /\ Cardinality(G[l]) <= Cardinality(A)
                           /\ l \notin D => G[l] = {}
  BY <1>1, Groups
<1>6. /\ D \subseteq Labels /\ IsFiniteSet(D) /\ Cardinality(D) = Len(order) /\ Len(order) \in Nat
      /\ Len(order) > 0 /\ DOMAIN wanted = 1..Len(order)
      /\ \A l \in D : \E i \in 1..Len(order) : order[i] = l
      /\ \A i \in 1..Len(order) : order[i] \in D
      /\ order \in LabelOrders
  <2>1. order \in LabelOrders
    BY <1>3 DEF Whole, Configured
  <2> QED  BY <1>1, <1>3, <2>1, Wanted
<1>7. /\ Total(available) = Cardinality(A)
      /\ \A l \in Labels : available[l] = Cardinality(G[l])
      /\ \A l \in Labels : kept[l] = Take(G[l], Capacity(l))
  BY ByLabel
<1>8. CASE Cardinality(A) = 0
  <2>1. Drawn = Refused
    BY <1>4, <1>7, <1>8 DEF Drawn
  <2>2. A = {}
    BY <1>5, <1>8, FS_EmptySet
  <2>3. MayRefuse
    BY <2>2 DEF MayRefuse, Grouped
  <2>4. ~(Drawn # Refused)
    BY <2>1
  <2> QED  BY <2>3, <2>4 DEF MayBe
<1>9. ASSUME Cardinality(A) > 0  PROVE Drawn = Balanced
  BY <1>4, <1>7, <1>9 DEF Drawn
<1>11. CASE Cardinality(A) > 0 /\ n = 0
  <2>1. PICK e \in Nat : e = EqualShare
    BY EqualShares
  <2>2. /\ \A l \in D : e <= Cardinality(G[l])
        /\ \E l \in D : e = Cardinality(G[l])
    BY <1>1, <2>1, EqualShares
  <2>3. PICK S : S = OfEach([l \in ToSet(wanted) |-> EqualShare])
    OBVIOUS
  <2>4. Drawn = IF e = 0 THEN Refused ELSE S
    BY <1>2, <1>9, <1>11, <2>1, <2>3 DEF Balanced
  <2>5. CASE e = 0
    <3>1. PICK l \in D : Cardinality(G[l]) = 0
      BY <2>2, <2>5
    <3>2. PICK i \in DOMAIN wanted : wanted[i] = l
      BY <1>3, <1>6
    <3>3. Cardinality(Group(wanted[i])) = 0
      BY <1>6, <3>1, <3>2 DEF Grouped
    <3>4. IsTooRare(i)
      BY <1>2, <1>4, <1>11, <3>3 DEF IsTooRare
    <3>5. MayRefuse
      BY <3>4 DEF MayRefuse
    <3>6. ~(Drawn # Refused)
      BY <2>4, <2>5
    <3> QED  BY <3>5, <3>6 DEF MayBe
  <2>6. CASE e # 0
    <3>1. PICK K : K = [l \in D |-> Take(kept[l], e)]
      OBVIOUS
    <3>2. PICK quota : quota = [l \in D |-> e]
      OBVIOUS
    <3>3. S = UNION {K[l] : l \in D}
      BY <1>1, <2>1, <2>3, <3>1 DEF OfEach
    <3>4. \A l \in D : IsBeginning(K[l], G[l]) /\ Cardinality(K[l]) = quota[l]
      <4> SUFFICES ASSUME NEW l \in D
                   PROVE  IsBeginning(K[l], G[l]) /\ Cardinality(K[l]) = quota[l]
        OBVIOUS
      <4>1. kept[l] = Take(G[l], Cardinality(Pool))
        BY <1>2, <1>6, <1>7, <1>11 DEF Capacity
      <4>2. G[l] \in SUBSET Nat /\ IsFiniteSet(G[l]) /\ Cardinality(G[l]) <= Cardinality(Pool)
            /\ Cardinality(G[l]) \in Nat
        BY <1>5, <1>6
      <4>3. Take(G[l], Cardinality(Pool)) = G[l]
        BY <1>5, <4>2, TakeAll
      <4>4. K[l] = Take(G[l], e)
        BY <3>1, <4>1, <4>3
      <4>5. e <= Cardinality(G[l])
        BY <2>2
      <4> QED  BY <3>2, <4>2, <4>4, <4>5, TakeIsABeginning
    <3>5. quota \in [D -> Nat] /\ \A l \in D : quota[l] = e
      BY <3>2
    <3>6. /\ S \subseteq A /\ S # Refused
          /\ \A l \in Labels : IsBeginning(S \cap G[l], G[l])
          /\ \A l \in D : Cardinality(S \cap G[l]) = e
          /\ Cardinality(S) = Total(quota)
      <4>1. AreDrawn(S, A, G, D, K)
        BY <1>5, <1>6, <3>3, <3>4 DEF AreDrawn
      <4>2. quota = [l \in D |-> Cardinality(K[l])] /\ A \subseteq Pool
        BY <1>5, <3>2, <3>4
      <4>3. IsDraw(S, A, G, quota)
        BY <4>1, <4>2, Draws
      <4> QED  BY <3>5, <4>3 DEF IsDraw
    <3>7. Cardinality(S) = Len(wanted) * EqualShare
      <4>1. Total(quota) = e * Cardinality(D)
        BY <1>6, <3>5, SumOfEqual
      <4>2. e * Len(order) = Len(order) * e
        BY <1>6
      <4> QED  BY <1>3, <1>6, <2>1, <3>6, <4>1, <4>2
    <3>8. IsSize(Cardinality(S), A)
      BY <1>2, <1>11, <3>7 DEF IsSize
    <3>9. IsEven(S, G)
      <4>1. \A i, j \in 1..Len(order) :
              Cardinality(S \cap G[order[i]]) - Cardinality(S \cap G[order[j]]) = 0
        BY <1>6, <3>6
      <4> QED  BY <1>3, <4>1 DEF IsEven
    <3>10. IsSample(S)
      BY <1>4, <3>6, <3>8, <3>9, Described
    <3> QED  BY <2>4, <2>6, <3>6, <3>10 DEF MayBe
  <2> QED  BY <2>5, <2>6
<1>12. CASE Cardinality(A) > 0 /\ n # 0
  <2>1. PICK quota : quota = BalancedQuota(order, n)
    OBVIOUS
  <2>2. PICK base \in Nat : base = n \div Len(order)
    BY <1>6, EqualSharesAddUp
  <2>3. PICK more : more = n % Len(order)
    OBVIOUS
  <2>4. /\ quota \in [D -> Nat] /\ Total(quota) = n
        /\ \A i \in 1..Len(order) : quota[order[i]] = base + (IF i <= more THEN 1 ELSE 0)
    <3>1. order \in LabelOrders
      BY <1>6
    <3>2. BalancedQuota(order, n) \in [ToSet(order) -> Nat] /\ Total(BalancedQuota(order, n)) = n
      BY <3>1, EqualSharesAddUp
    <3>3. \A i \in 1..Len(order) :
            BalancedQuota(order, n)[order[i]] =
              n \div Len(order) + (IF i <= n % Len(order) THEN 1 ELSE 0)
      BY <3>1, EqualSharesAddUp
    <3>4. D = ToSet(order)
      BY <1>1, <1>3
    <3> QED  BY <2>1, <2>2, <2>3, <3>2, <3>3, <3>4
  <2>5. \A l \in D : Capacity(l) = quota[l]
    BY <1>2, <1>3, <1>4, <1>12, <2>1 DEF Capacity
  <2>6. Balanced = IF \E l \in D : available[l] < Capacity(l) THEN Refused ELSE All
    BY <1>1, <1>2, <1>12 DEF Balanced
  <2>7. CASE \E l \in D : Cardinality(G[l]) < quota[l]
    <3>1. PICK l \in D : Cardinality(G[l]) < quota[l]
      BY <2>7
    <3>2. PICK i \in 1..Len(order) : order[i] = l
      BY <1>6
    <3>3. Cardinality(Group(wanted[i])) < target \div Len(wanted)
                                          + (IF i <= target % Len(wanted) THEN 1 ELSE 0)
      BY <1>2, <1>3, <1>6, <2>2, <2>3, <2>4, <3>1, <3>2 DEF Grouped
    <3>4. IsTooRare(i)
      BY <1>2, <1>4, <1>12, <3>3 DEF IsTooRare
    <3>5. MayRefuse
      BY <1>6, <3>4 DEF MayRefuse
    <3>6. \E m \in D : available[m] < Capacity(m)
      BY <1>6, <1>7, <2>5, <3>1
    <3>7. ~(Drawn # Refused)
      BY <1>9, <1>12, <2>6, <3>6
    <3> QED  BY <3>5, <3>7 DEF MayBe
  <2>8. CASE ~ \E l \in D : Cardinality(G[l]) < quota[l]
    <3>1. ~ \E m \in D : available[m] < Capacity(m)
      BY <1>6, <1>7, <2>5, <2>8
    <3>2. Drawn = All
      BY <1>9, <1>12, <2>6, <3>1
    <3>3. PICK S : S = All
      OBVIOUS
    <3>4. PICK K : K = [l \in D |-> Take(G[l], quota[l])]
      OBVIOUS
    <3>5. S = UNION {K[l] : l \in D}
      <4>1. \A l \in D : kept[l] = K[l]
        BY <1>6, <1>7, <2>5, <3>4
      <4>2. \A l \in Labels \ D : kept[l] = {}
        BY <1>5, <1>7 DEF Take
      <4> QED  BY <1>6, <3>3, <4>1, <4>2 DEF All
    <3>6. \A l \in D : IsBeginning(K[l], G[l]) /\ Cardinality(K[l]) = quota[l]
      <4> SUFFICES ASSUME NEW l \in D
                   PROVE  IsBeginning(K[l], G[l]) /\ Cardinality(K[l]) = quota[l]
        OBVIOUS
      <4>1. /\ G[l] \in SUBSET Nat /\ IsFiniteSet(G[l]) /\ Cardinality(G[l]) \in Nat
            /\ quota[l] \in Nat /\ quota[l] <= Cardinality(G[l])
        BY <1>5, <1>6, <2>4, <2>8
      <4>2. K[l] = Take(G[l], quota[l])
        BY <3>4
      <4> QED  BY <4>1, <4>2, TakeIsABeginning
    <3>7. /\ S \subseteq A /\ S # Refused
          /\ \A l \in Labels : IsBeginning(S \cap G[l], G[l])
          /\ \A l \in D : Cardinality(S \cap G[l]) = quota[l]
          /\ Cardinality(S) = n
      <4>1. AreDrawn(S, A, G, D, K)
        BY <1>5, <1>6, <3>5, <3>6 DEF AreDrawn
      <4>2. quota = [l \in D |-> Cardinality(K[l])] /\ A \subseteq Pool
        BY <1>5, <2>4, <3>6
      <4>3. IsDraw(S, A, G, quota)
        BY <4>1, <4>2, Draws
      <4> QED  BY <2>4, <4>3 DEF IsDraw
    <3>8. n <= Cardinality(A)
      BY <1>5, <3>7, FS_Subset
    <3>9. IsSize(Cardinality(S), A)
      BY <1>2, <1>4, <1>5, <1>12, <3>7, <3>8 DEF IsSize
    <3>10. IsEven(S, G)
      <4>1. \A i \in 1..Len(order) :
              Cardinality(S \cap G[order[i]]) = base + (IF i <= more THEN 1 ELSE 0)
        BY <1>6, <2>4, <3>7
      <4>2. \A i, j \in 1..Len(order) : i < j =>
              Cardinality(S \cap G[order[i]]) - Cardinality(S \cap G[order[j]]) \in {0, 1}
        <5>1. n % Len(order) \in Int
          BY <1>6
        <5> QED  BY <2>3, <4>1, <5>1
      <4> QED  BY <1>3, <4>2 DEF IsEven
    <3>11. IsSample(S)
      BY <1>4, <3>7, <3>9, <3>10, Described
    <3> QED  BY <3>2, <3>3, <3>7, <3>11 DEF MayBe
  <2> QED  BY <2>7, <2>8
<1> QED  BY <1>5, <1>8, <1>11, <1>12

(* Shares in proportion of the beginnings of the labels. *)
LEMMA StratifiedFits ==
  ASSUME NEW A, NEW G, Whole, Grouped(A, G), strategy = "STRATIFIED"
  PROVE  MayBe(Drawn)
<1>1. PICK n \in Nat : n = target
  BY DEF Whole, Configured
<1>2. strategy \notin Selections /\ strategy # "MANIFEST" /\ strategy # "BALANCED"
  BY DEF Selections
<1>3. /\ A \in SUBSET Nat /\ IsFiniteSet(A) /\ A \subseteq Pool
      /\ Cardinality(Pool) \in Nat /\ Cardinality(A) <= Cardinality(Pool)
      /\ Cardinality(A) \in Nat
      /\ G \in [Labels -> SUBSET A] /\ AreApart(G)
      /\ \A l \in Labels : /\ G[l] \in SUBSET Nat /\ IsFiniteSet(G[l])
                           /\ Cardinality(G[l]) \in Nat
                           /\ Cardinality(G[l]) <= Cardinality(A)
      /\ UNION {G[l] : l \in Labels} = A
  BY Groups
<1>4. PICK count : count = available
  OBVIOUS
<1>5. /\ Total(available) = Cardinality(A)
      /\ count = [l \in Labels |-> Cardinality(G[l])]
      /\ \A l \in Labels : kept[l] = Take(G[l], Capacity(l))
  BY <1>4, ByLabel
<1>6. count \in [Labels -> Nat] /\ Total(count) = Cardinality(A)
  BY <1>3, <1>4, <1>5
<1>7. CASE Cardinality(A) = 0
  <2>1. Drawn = Refused
    BY <1>2, <1>5, <1>7 DEF Drawn
  <2>2. A = {}
    BY <1>3, <1>7, FS_EmptySet
  <2>3. MayRefuse
    BY <2>2 DEF MayRefuse, Grouped
  <2>4. ~(Drawn # Refused)
    BY <2>1
  <2> QED  BY <2>3, <2>4 DEF MayBe
<1>8. ASSUME Cardinality(A) > 0  PROVE Drawn = Stratified
  BY <1>2, <1>5, <1>8 DEF Drawn
<1>9. CASE Cardinality(A) > 0 /\ (n = 0 \/ n >= Cardinality(A))
  <2>1. \A l \in Labels : kept[l] = G[l]
    <3> SUFFICES ASSUME NEW l \in Labels  PROVE kept[l] = G[l]
      OBVIOUS
    <3>1. PICK m \in Nat : m = IF n = 0 THEN Cardinality(Pool) ELSE n
      BY <1>3
    <3>2. Capacity(l) = m
      BY <1>1, <1>2, <3>1 DEF Capacity
    <3>3. Cardinality(G[l]) <= m /\ G[l] \in SUBSET Nat /\ IsFiniteSet(G[l])
      BY <1>3, <1>9, <3>1
    <3> QED  BY <1>5, <3>2, <3>3, TakeAll
  <2>2. All = A
    BY <1>3, <2>1 DEF All
  <2>3. Drawn = A
    <3>1. target = 0 \/ target >= Total(available)
      BY <1>1, <1>5, <1>9
    <3>2. ~(target \in 1..(Total(available) - 1))
      BY <1>1, <1>3, <1>5, <1>9
    <3>3. Stratified = All
      BY <3>1, <3>2 DEF Stratified
    <3> QED  BY <1>8, <1>9, <2>2, <3>3
  <2>4. A # Refused
    BY <1>3, RefusedAssumption
  <2>5. IsSize(Cardinality(A), A)
    <3>1. CASE n = 0
      BY <1>1, <3>1 DEF IsSize
    <3>2. CASE n # 0
      BY <1>1, <1>2, <1>3, <1>9, <3>2 DEF IsSize
    <3> QED  BY <3>1, <3>2
  <2>6. \A l \in Labels : A \cap G[l] = G[l]
    BY <1>3
  <2>7. \A l \in Labels : IsBeginning(A \cap G[l], G[l])
    BY <2>6 DEF IsBeginning
  <2>8. IsProportional(A, A, G)
    <3>1. ASSUME NEW l \in Labels
          PROVE  LET product == Cardinality(G[l]) * Cardinality(A) IN
                 product < product + Cardinality(A)
      <4>1. PICK g \in Nat : g = Cardinality(G[l])
        BY <1>3
      <4>2. PICK a \in Nat : a = Cardinality(A) /\ a > 0
        BY <1>3, <1>9
      <4>3. g * a \in Nat
        OBVIOUS
      <4>4. g * a < g * a + a
        BY <4>2, <4>3
      <4> QED  BY <4>1, <4>2, <4>4
    <3> QED  BY <2>6, <3>1 DEF IsProportional
  <2>9. IsSample(A)
    BY <1>2, <2>5, <2>7, <2>8, Described
  <2> QED  BY <2>3, <2>4, <2>9 DEF MayBe
<1>10. CASE Cardinality(A) > 0 /\ n # 0 /\ n < Cardinality(A)
  <2>1. PICK quota : quota = StratifiedQuota(count, n)
    OBVIOUS
  <2>2. PICK D : D = {l \in Labels : count[l] > 0}
    OBVIOUS
  <2>3. 0 < n /\ n < Total(count)
    BY <1>6, <1>10
  <2>4. quota \in [D -> Nat] /\ Total(quota) = n
    BY <1>6, <2>1, <2>2, <2>3, SharesAddUp
  <2>5. \A l \in D : /\ quota[l] <= count[l]
                     /\ Total(count) * quota[l] < count[l] * n + Total(count)
                     /\ count[l] * n < Total(count) * quota[l] + Total(count)
    BY <1>6, <2>1, <2>2, <2>3, SharesAddUp
  <2>6. D \subseteq Labels /\ IsFiniteSet(D)
    <3>1. D \subseteq Labels /\ IsFiniteSet(Labels)
      BY <2>2, LabelsAssumption
    <3> QED  BY <3>1, FS_Subset
  <2>7. \A l \in D : quota[l] \in Nat /\ quota[l] <= n
    BY <2>4, <2>6, PartOfSum
  <2>8. PICK S : S = OfEach(quota)
    OBVIOUS
  <2>9. Drawn = S
    <3>1. ~(target = 0 \/ target >= Total(available)) /\ target \in 1..(Total(available) - 1)
      BY <1>1, <1>3, <1>5, <1>10
    <3>2. ~(Total(quota) < target)
      BY <1>1, <2>4
    <3>3. Stratified = OfEach(quota)
      BY <1>1, <1>4, <2>1, <3>1, <3>2 DEF Stratified
    <3> QED  BY <1>8, <1>10, <2>8, <3>3
  <2>10. PICK K : K = [l \in D |-> Take(kept[l], quota[l])]
    OBVIOUS
  <2>11. S = UNION {K[l] : l \in D}
    BY <2>4, <2>8, <2>10 DEF OfEach
  <2>12. \A l \in D : IsBeginning(K[l], G[l]) /\ Cardinality(K[l]) = quota[l]
    <3> SUFFICES ASSUME NEW l \in D
                 PROVE  IsBeginning(K[l], G[l]) /\ Cardinality(K[l]) = quota[l]
      OBVIOUS
    <3>1. PICK T : T = Take(G[l], n)
      OBVIOUS
    <3>2. K[l] = Take(T, quota[l])
      <4>1. Capacity(l) = n
        BY <1>1, <1>2, <1>10 DEF Capacity
      <4> QED  BY <1>5, <2>6, <2>10, <3>1, <4>1
    <3>3. G[l] \in SUBSET Nat /\ IsFiniteSet(G[l]) /\ Cardinality(G[l]) \in Nat
      BY <1>3, <2>6
    <3>4. /\ IsBeginning(T, G[l]) /\ IsFiniteSet(T) /\ T \in SUBSET Nat
          /\ Cardinality(T) = IF n <= Cardinality(G[l]) THEN n ELSE Cardinality(G[l])
      BY <3>1, <3>3, TakeIsABeginning DEF IsBeginning
    <3>5. /\ IsBeginning(K[l], T)
          /\ Cardinality(K[l]) = IF quota[l] <= Cardinality(T) THEN quota[l] ELSE Cardinality(T)
      BY <2>7, <3>2, <3>4, TakeIsABeginning
    <3>6. quota[l] <= Cardinality(G[l])
      BY <1>5, <2>5, <2>6
    <3>7. quota[l] <= Cardinality(T)
      BY <2>7, <3>3, <3>4, <3>6
    <3>8. IsBeginning(K[l], G[l])
      BY <3>3, <3>4, <3>5, BeginningOfBeginning
    <3> QED  BY <3>5, <3>7, <3>8
  <2>13. IsDraw(S, A, G, quota)
    <3>1. AreDrawn(S, A, G, D, K)
      BY <1>3, <2>6, <2>11, <2>12 DEF AreDrawn
    <3>2. quota = [l \in D |-> Cardinality(K[l])] /\ A \subseteq Pool
      BY <1>3, <2>4, <2>12
    <3> QED  BY <3>1, <3>2, Draws
  <2>14. /\ S \subseteq A /\ S # Refused /\ Cardinality(S) = n
         /\ \A l \in Labels : IsBeginning(S \cap G[l], G[l])
         /\ \A l \in D : Cardinality(S \cap G[l]) = quota[l]
         /\ \A l \in Labels \ D : S \cap G[l] = {}
    BY <2>4, <2>13 DEF IsDraw
  <2>15. IsSize(Cardinality(S), A)
    BY <1>1, <1>2, <1>10, <2>14 DEF IsSize
  <2>16. IsProportional(S, A, G)
    <3> SUFFICES ASSUME NEW l \in Labels
                 PROVE  /\ Cardinality(S \cap G[l]) * Cardinality(A)
                             < Cardinality(G[l]) * Cardinality(S) + Cardinality(A)
                        /\ Cardinality(G[l]) * Cardinality(S)
                             < Cardinality(S \cap G[l]) * Cardinality(A) + Cardinality(A)
      BY DEF IsProportional
    <3>1. PICK a \in Nat : a = Cardinality(A) /\ a > 0
      BY <1>3, <1>10
    <3>2. PICK g \in Nat : g = Cardinality(G[l]) /\ g = count[l]
      BY <1>3, <1>5
    <3>3. CASE l \in D
      <4>1. PICK q \in Nat : q = quota[l]
        BY <2>7, <3>3
      <4>2. a * q < g * n + a /\ g * n < a * q + a
        BY <1>6, <2>5, <3>1, <3>2, <3>3, <4>1
      <4>3. a * q = q * a
        OBVIOUS
      <4> QED  BY <2>14, <3>1, <3>2, <3>3, <4>1, <4>2, <4>3
    <3>4. CASE l \notin D
      <4>1. g = 0
        BY <2>2, <3>2, <3>4
      <4>2. Cardinality(S \cap G[l]) = 0
        BY <2>14, <3>4, FS_EmptySet
      <4>3. 0 * a = 0 /\ 0 * n = 0 /\ 0 < 0 + a
        BY <3>1
      <4> QED  BY <2>14, <3>1, <3>2, <4>1, <4>2, <4>3
    <3> QED  BY <3>3, <3>4
  <2>17. IsSample(S)
    BY <1>2, <2>14, <2>15, <2>16, Described
  <2> QED  BY <2>9, <2>14, <2>17 DEF MayBe
<1>11. \/ Cardinality(A) = 0
       \/ Cardinality(A) > 0 /\ (n = 0 \/ n >= Cardinality(A))
       \/ Cardinality(A) > 0 /\ n # 0 /\ n < Cardinality(A)
  BY <1>3
<1> QED  BY <1>7, <1>9, <1>10, <1>11

(* What is drawn when the stream has ended is a sample as it is meant, or  *)
(* there is a reason for there being none.                                 *)
LEMMA DrawnFits ==
  ASSUME Whole
  PROVE  MayBe(Drawn)
<1>1. PICK A : A = {x \in Pool : Eligible(x)}
  OBVIOUS
<1>2. PICK G : G = [l \in Labels |-> Group(l)]
  OBVIOUS
<1>3. Grouped(A, G)
  BY <1>1, <1>2 DEF Grouped
<1>4. \/ strategy \in Selections \/ strategy = "RANDOM"
      \/ strategy = "BALANCED" \/ strategy = "STRATIFIED"
  BY DEF Whole, Configured, Strategies
<1> QED  BY <1>3, <1>4, SelectionFits, RandomFits, BalancedFits, StratifiedFits

-----------------------------------------------------------------------------
SamplingInv ==
  /\ unread \subseteq Pool
  /\ phase \in {"ready", "reading", "drawn", "loaded"}
  /\ phase = "ready" => unread = Pool /\ target = 0
  /\ phase # "ready" => Configured
  /\ KeptInv
  /\ phase = "drawn" =>
       \/ sample = Refused /\ strategy = "BALANCED" /\ target \in 1..(Len(wanted) - 1)
       \/ unread = {} /\ sample = Drawn
  /\ phase = "loaded" =>
       /\ unread = {} /\ sample = Drawn /\ sample # Refused
       /\ loaded # Refused =>
            /\ loaded.labels = [x \in sample |-> labelOf[x]]
            /\ loaded.demonstrated => sample \cap Shown = {}

(* A store holds no more examples than are asked for. *)
LEMMA StoresAreBounded ==
  ASSUME Configured, KeptInv, unread \subseteq Pool, target > 0, strategy \notin Selections,
         NEW l \in Labels
  PROVE  Cardinality(kept[l]) <= target
<1>1. PICK n \in Nat : n = target
  BY DEF Configured
<1>2. PICK T : T = Stored(l)
  OBVIOUS
<1>3. T \in SUBSET Nat /\ IsFiniteSet(T)
  <2>1. T \subseteq Pool
    BY <1>2 DEF Stored
  <2> QED  BY <2>1, PoolAssumption, FS_Subset
<1>4. Cardinality(T) \in Nat
  BY <1>3, FS_CardinalityType
<1>5. ASSUME NEW m \in Nat, m <= n  PROVE Cardinality(Take(T, m)) <= n
  <2>1. Cardinality(Take(T, m)) = IF m <= Cardinality(T) THEN m ELSE Cardinality(T)
    BY <1>3, TakeIsABeginning
  <2> QED  BY <1>4, <1>5, <2>1
<1>6. kept[l] = Take(T, Capacity(l))
  BY <1>2 DEF KeptInv
<1>7. CASE strategy \in {"RANDOM", "STRATIFIED"}
  <2>1. Capacity(l) = n
    BY <1>1, <1>7 DEF Capacity, Selections
  <2> QED  BY <1>1, <1>5, <1>6, <2>1
<1>8. CASE strategy = "BALANCED"
  <2>1. PICK order \in LabelOrders : order = wanted
    BY DEF Configured
  <2>2. CASE l \in ToSet(order)
    <3>1. PICK quota : quota = BalancedQuota(order, n)
      OBVIOUS
    <3>2. quota \in [ToSet(order) -> Nat] /\ Total(quota) = n
      BY <3>1, EqualSharesAddUp
    <3>3. Capacity(l) = quota[l]
      BY <1>1, <1>8, <2>1, <3>1 DEF Capacity, Selections
    <3>4. quota[l] <= n /\ quota[l] \in Nat
      BY <2>2, <3>2, AsManyAsLong, PartOfSum
    <3> QED  BY <1>1, <1>5, <1>6, <3>3, <3>4
  <2>3. CASE l \notin ToSet(order)
    <3>1. T = {}
      BY <1>2, <1>8, <2>1, <2>3 DEF Stored, Eligible, Store
    <3>2. kept[l] = {}
      BY <1>6, <3>1 DEF Take
    <3>3. Cardinality(kept[l]) = 0
      BY <3>2, FS_EmptySet
    <3> QED  BY <1>1, <3>3
  <2> QED  BY <2>2, <2>3
<1> QED  BY <1>7, <1>8 DEF Configured, Strategies

LEMMA SampleIsRight ==
  ASSUME SamplingInv
  PROVE  SampleIgnoresArrival
<1>1. ASSUME phase \in {"drawn", "loaded"}, unread = {}, sample = Drawn
      PROVE  MayBe(sample)
  <2>1. Whole
    BY <1>1 DEF SamplingInv, Whole
  <2>2. MayBe(Drawn)
    BY <2>1, DrawnFits
  <2> QED  BY <1>1, <2>2 DEF MayBe
<1>2. ASSUME phase = "drawn", sample # Refused  PROVE IsSample(sample)
  BY <1>1, <1>2 DEF SamplingInv, MayBe
<1>3. ASSUME phase = "drawn", sample = Refused  PROVE MayRefuse
  <2>1. CASE unread = {} /\ sample = Drawn
    BY <1>1, <1>3, <2>1 DEF MayBe
  <2>2. CASE strategy = "BALANCED" /\ target \in 1..(Len(wanted) - 1)
    <3>1. PICK order \in LabelOrders : order = wanted
      BY <1>3 DEF SamplingInv, Configured
    <3>2. 1 \in DOMAIN order /\ Len(order) \in Nat
      BY AsManyAsLong
    <3>3. target < Len(wanted) /\ target > 0
      BY <2>2, <3>1, <3>2
    <3>4. IsTooRare(1)
      BY <2>2, <3>3 DEF IsTooRare, Selections
    <3> QED  BY <3>1, <3>2, <3>4 DEF MayRefuse
  <2> QED  BY <1>3, <2>1, <2>2 DEF SamplingInv
<1>4. ASSUME phase = "loaded", loaded # Refused
      PROVE  /\ loaded.labels = [x \in sample |-> labelOf[x]]
             /\ IsSample(DOMAIN loaded.labels)
             /\ loaded.demonstrated => DOMAIN loaded.labels \cap Shown = {}
  <2>1. /\ loaded.labels = [x \in sample |-> labelOf[x]]
        /\ loaded.demonstrated => sample \cap Shown = {}
        /\ unread = {} /\ sample = Drawn /\ sample # Refused
    BY <1>4 DEF SamplingInv
  <2>2. DOMAIN loaded.labels = sample
    BY <2>1
  <2>3. IsSample(sample)
    BY <1>1, <1>4, <2>1 DEF MayBe
  <2> QED  BY <2>1, <2>2, <2>3
<1>5. ASSUME target > 0, strategy \notin Selections, NEW l \in Labels
      PROVE  Cardinality(kept[l]) <= target
  <2>1. phase # "ready"
    BY <1>5 DEF SamplingInv
  <2> QED  BY <1>5, <2>1, StoresAreBounded DEF SamplingInv
<1> QED  BY <1>2, <1>3, <1>4, <1>5 DEF SampleIgnoresArrival, MayRefuse

LEMMA NothingKept ==
  ASSUME NEW n
  PROVE  Take({}, n) = {} /\ Cardinality({}) = 0
BY FS_EmptySet DEF Take

LEMMA CapacityType ==
  ASSUME Configured, NEW l \in ToSet(wanted)
  PROVE  Capacity(l) \in Nat
<1>1. PICK n \in Nat : n = target
  BY DEF Configured
<1>2. PICK order \in LabelOrders : order = wanted
  BY DEF Configured
<1>3. Cardinality(Pool) \in Nat
  BY PoolAssumption, FS_CardinalityType
<1>4. CASE n = 0 \/ strategy \in Selections
  BY <1>1, <1>3, <1>4 DEF Capacity, Selections
<1>5. CASE n # 0 /\ strategy = "BALANCED"
  <2>1. BalancedQuota(order, n) \in [ToSet(order) -> Nat]
    BY EqualSharesAddUp
  <2>2. Capacity(l) = BalancedQuota(order, n)[l]
    BY <1>1, <1>2, <1>5 DEF Capacity, Selections
  <2> QED  BY <1>2, <2>1, <2>2
<1>6. CASE n # 0 /\ strategy \in {"RANDOM", "STRATIFIED"}
  BY <1>1, <1>6 DEF Capacity, Selections
<1> QED  BY <1>4, <1>5, <1>6 DEF Configured, Strategies

LEMMA SamplingStarts ==
  ASSUME SamplingInit
  PROVE  SamplingInv
<1>1. \A l \in Labels : Stored(l) = {} /\ Counted(l) = {}
  BY DEF SamplingInit, Stored, Counted
<1>2. KeptInv
  BY <1>1, NothingKept DEF KeptInv, SamplingInit
<1> QED  BY <1>2 DEF SamplingInv, SamplingInit

LEMMA ConfigureStep ==
  ASSUME SamplingInv, Configure
  PROVE  SamplingInv'
<1>1. phase = "ready" /\ unread = Pool /\ unread' = Pool
  BY DEF SamplingInv, Configure
<1>2. Configured'
  <2>1. /\ labelOf' \in [Pool -> Labels] /\ strategy' \in Strategies /\ wanted' \in LabelOrders
        /\ target' \in IF strategy' \in Selections THEN 1..(MaxSize \div 2) ELSE 0..MaxSize
    BY DEF Configure
  <2>2. target' \in Nat /\ (strategy' \in Selections => target' > 0)
    BY <2>1
  <2> QED  BY <2>1, <2>2 DEF Configured
<1>3. \A l \in Labels : Stored(l) = {} /\ Counted(l) = {}
  BY <1>1 DEF Stored, Counted
<1>4. \A l \in Labels : Stored(l)' = {} /\ Counted(l)' = {}
  BY <1>1 DEF Stored, Counted
<1>5. kept = [l \in Labels |-> {}] /\ available = [l \in Labels |-> 0]
  BY <1>3, NothingKept DEF SamplingInv, KeptInv
<1>6. KeptInv'
  <2>1. kept' = [l \in Labels |-> {}] /\ available' = [l \in Labels |-> 0]
    BY <1>5 DEF Configure
  <2>2. PICK cap : cap = [l \in Labels |-> Capacity(l)']
    OBVIOUS
  <2>3. kept' = [l \in Labels |-> Take(Stored(l)', Capacity(l)')]
    BY <1>4, <2>1, NothingKept
  <2>4. available' = [l \in Labels |-> Cardinality(Counted(l)')]
    BY <1>4, <2>1, NothingKept
  <2> QED  BY <2>3, <2>4 DEF KeptInv
<1>7. \/ /\ sample' = Refused /\ phase' = "drawn"
         /\ strategy' = "BALANCED" /\ target' \in 1..(Len(wanted') - 1)
      \/ phase' = "reading"
  BY DEF Configure
<1> QED  BY <1>1, <1>2, <1>6, <1>7 DEF SamplingInv

LEMMA ReadStep ==
  ASSUME SamplingInv, NEW x \in Pool, Read(x)
  PROVE  SamplingInv'
<1>1. /\ phase = "reading" /\ phase' = "reading" /\ x \in unread /\ unread' = unread \ {x}
      /\ Configured /\ KeptInv /\ unread \subseteq Pool
      /\ labelOf' = labelOf /\ strategy' = strategy /\ wanted' = wanted /\ target' = target
  BY DEF SamplingInv, Read
<1>2. Configured'
  BY <1>1 DEF Configured
<1>3. \A y : (Eligible(y)' <=> Eligible(y)) /\ Store(y)' = Store(y)
  BY <1>1 DEF Eligible, Store
<1>4. PICK cap : cap = [l \in Labels |-> Capacity(l)]
  OBVIOUS
<1>5. \A l \in Labels : Capacity(l)' = cap[l] /\ Capacity(l) = cap[l]
  <2>1. \A l : Capacity(l)' = Capacity(l)
    BY <1>1 DEF Capacity
  <2> QED  BY <1>4, <2>1
<1>6. PICK T : T = [l \in Labels |-> Stored(l)]
  OBVIOUS
<1>7. PICK C : C = [l \in Labels |-> Counted(l)]
  OBVIOUS
<1>8. /\ kept = [l \in Labels |-> Take(T[l], cap[l])]
      /\ available = [l \in Labels |-> Cardinality(C[l])]
  BY <1>1, <1>5, <1>6, <1>7 DEF KeptInv
<1>9. \A l \in Labels : /\ T[l] \in SUBSET Nat /\ IsFiniteSet(T[l])
                        /\ IsFiniteSet(C[l]) /\ x \notin C[l]
  <2>1. \A l \in Labels : T[l] \subseteq Pool /\ C[l] \subseteq Pool
    BY <1>6, <1>7 DEF Stored, Counted
  <2>2. \A l \in Labels : x \notin C[l]
    BY <1>1, <1>7 DEF Counted
  <2> QED  BY <2>1, <2>2, PoolAssumption, FS_Subset
<1>10. /\ \A l \in Labels : Stored(l)' = T[l] \cup {y \in {x} : Eligible(x) /\ Store(x) = l}
       /\ \A l \in Labels : Counted(l)' = C[l] \cup {y \in {x} : Eligible(x) /\ labelOf[x] = l}
  <2>1. Pool \ unread' = (Pool \ unread) \cup {x}
    BY <1>1
  <2> QED  BY <1>1, <1>3, <1>6, <1>7, <2>1 DEF Stored, Counted
<1>11. KeptInv'
  <2>1. CASE ~Eligible(x)
    <3>1. \A l \in Labels : Stored(l)' = T[l] /\ Counted(l)' = C[l]
      BY <1>10, <2>1
    <3>2. kept' = kept /\ available' = available
      BY <2>1 DEF Read
    <3>3. kept' = [l \in Labels |-> Take(Stored(l)', Capacity(l)')]
      BY <1>5, <1>8, <3>1, <3>2
    <3>4. available' = [l \in Labels |-> Cardinality(Counted(l)')]
      BY <1>8, <3>1, <3>2
    <3> QED  BY <3>3, <3>4 DEF KeptInv
  <2>2. CASE Eligible(x)
    <3>1. PICK s : s = Store(x)
      OBVIOUS
    <3>2. PICK l0 : l0 = labelOf[x]
      OBVIOUS
    <3>3. s \in ToSet(wanted) /\ l0 \in Labels /\ s \in Labels
      <4>1. PICK order \in LabelOrders : order = wanted
        BY <1>1 DEF Configured
      <4>2. 1 \in 1..Len(order) /\ ToSet(order) \subseteq Labels
            /\ \A i \in 1..Len(order) : order[i] \in ToSet(order)
        BY AsManyAsLong
      <4>3. order[1] \in ToSet(order)
        BY <4>2
      <4> QED  BY <1>1, <2>2, <3>1, <3>2, <4>1, <4>2, <4>3 DEF Configured, Eligible, Store
    <3>4. cap[s] \in Nat
      <4>1. Capacity(s) \in Nat
        BY <1>1, <3>3, CapacityType
      <4> QED  BY <1>5, <3>3, <4>1
    <3>5. kept' = [kept EXCEPT ![s] = RetainBest(@, x, cap[s])]
      BY <1>5, <2>2, <3>1, <3>3 DEF Read
    <3>6. available' = [available EXCEPT ![l0] = @ + 1]
      BY <2>2, <3>2 DEF Read
    <3>7. RetainBest(Take(T[s], cap[s]), x, cap[s]) = Take(T[s] \cup {x}, cap[s])
      BY <1>9, <3>3, <3>4, PoolAssumption, KeptIsEnough
    <3>8. \A l \in Labels : Stored(l)' = IF l = s THEN T[s] \cup {x} ELSE T[l]
      BY <1>10, <2>2, <3>1
    <3>9. \A l \in Labels : Counted(l)' = IF l = l0 THEN C[l0] \cup {x} ELSE C[l]
      BY <1>10, <2>2, <3>2
    <3>10. Cardinality(C[l0] \cup {x}) = Cardinality(C[l0]) + 1
      BY <1>9, <3>3, FS_AddElement
    <3>11. kept' = [l \in Labels |-> Take(Stored(l)', Capacity(l)')]
      BY <1>5, <1>8, <3>3, <3>5, <3>7, <3>8
    <3>12. available' = [l \in Labels |-> Cardinality(Counted(l)')]
      BY <1>8, <3>3, <3>6, <3>9, <3>10
    <3> QED  BY <3>11, <3>12 DEF KeptInv
  <2> QED  BY <2>1, <2>2
<1> QED  BY <1>1, <1>2, <1>11 DEF SamplingInv

(* What is drawn depends on nothing that drawing changes. *)
LEMMA SameSample ==
  ASSUME labelOf' = labelOf, strategy' = strategy, wanted' = wanted, target' = target,
         unread' = unread, kept' = kept, available' = available
  PROVE  /\ Drawn' = Drawn
         /\ KeptInv => KeptInv'
         /\ Configured => Configured'
<1>1. EqualShare' = EqualShare
  BY DEF EqualShare
<1>2. All' = All
  BY DEF All
<1>3. \A q : OfEach(q)' = OfEach(q)
  BY DEF OfEach
<1>4. \A l : Capacity(l)' = Capacity(l)
  BY DEF Capacity
<1>5. Balanced' = Balanced
  BY <1>1, <1>2, <1>4 DEF Balanced, OfEach
<1>6. Stratified' = Stratified
  BY <1>2 DEF Stratified, OfEach
<1>7. Selected' = Selected
  BY DEF Selected, OfEach
<1>8. Drawn' = Drawn
  BY <1>2, <1>5, <1>6, <1>7 DEF Drawn
<1>9. \A l : Stored(l)' = Stored(l) /\ Counted(l)' = Counted(l)
  BY DEF Stored, Counted, Eligible, Store
<1>10. KeptInv => KeptInv'
  BY <1>4, <1>9 DEF KeptInv
<1>11. Configured => Configured'
  BY DEF Configured
<1> QED  BY <1>8, <1>10, <1>11

LEMMA DrawStep ==
  ASSUME SamplingInv, Draw
  PROVE  SamplingInv'
<1>1. /\ phase = "reading" /\ unread = {} /\ sample' = Drawn /\ phase' = "drawn"
      /\ labelOf' = labelOf /\ strategy' = strategy /\ wanted' = wanted /\ target' = target
      /\ unread' = unread /\ kept' = kept /\ available' = available
  BY DEF Draw
<1>2. Drawn' = Drawn /\ KeptInv' /\ Configured'
  BY <1>1, SameSample DEF SamplingInv
<1> QED  BY <1>1, <1>2 DEF SamplingInv

LEMMA LoadStep ==
  ASSUME SamplingInv, Load
  PROVE  SamplingInv'
<1>1. /\ phase = "drawn" /\ phase' = "loaded" /\ strategy = "MANIFEST" /\ sample # Refused
      /\ labelOf' = labelOf /\ strategy' = strategy /\ wanted' = wanted /\ target' = target
      /\ unread' = unread /\ kept' = kept /\ available' = available /\ sample' = sample
  BY DEF Load
<1>2. unread = {} /\ sample = Drawn /\ Configured /\ KeptInv
  BY <1>1 DEF SamplingInv
<1>3. Drawn' = Drawn /\ KeptInv' /\ Configured'
  BY <1>1, <1>2, SameSample
<1>4. ASSUME loaded' # Refused
      PROVE  /\ loaded'.labels = [x \in sample |-> labelOf[x]]
             /\ loaded'.demonstrated => sample \cap Shown = {}
  <2>1. PICK entries \in {sample} \cup {sample \ {y} : y \in sample},
             hashed \in BOOLEAN, demonstrated \in BOOLEAN,
             x \in Pool, l \in Labels \cup {Altered, Missing} :
          LET now == [labelOf EXCEPT ![x] = l]
              accepted == /\ hashed /\ IsManifest(entries) /\ IsPilot(entries)
                          /\ IsFound(entries, now)
                          /\ demonstrated => ~Overlaps(entries)
          IN  loaded' = IF accepted
                        THEN [labels |-> [y \in entries |-> now[y]],
                              demonstrated |-> demonstrated]
                        ELSE Refused
    BY DEF Load
  <2>2. PICK now : now = [labelOf EXCEPT ![x] = l]
    OBVIOUS
  <2>3. /\ IsPilot(entries) /\ IsFound(entries, now)
        /\ demonstrated => ~Overlaps(entries)
        /\ loaded' = [labels |-> [y \in entries |-> now[y]], demonstrated |-> demonstrated]
    BY <1>4, <2>1, <2>2
  <2>4. IsSample(sample)
    <3>1. Whole
      BY <1>2 DEF Whole
    <3>2. MayBe(Drawn)
      BY <3>1, DrawnFits
    <3> QED  BY <1>1, <1>2, <3>2 DEF MayBe
  <2>5. PICK S : S = sample
    OBVIOUS
  <2>6. S \subseteq Pool /\ Cardinality(S) = Len(wanted) * target
    BY <1>1, <2>4, <2>5 DEF IsSample, Selections
  <2>7. entries = S
    <3>1. entries \subseteq S /\ Cardinality(entries) = Cardinality(S)
      BY <2>1, <2>3, <2>5, <2>6 DEF IsPilot
    <3>2. IsFiniteSet(S)
      BY <2>6, PoolAssumption, FS_Subset
    <3> QED  BY <3>1, <3>2, FS_Subset
  <2>8. \A y \in entries : now[y] = labelOf[y]
    BY <2>3 DEF IsFound
  <2>9. [y \in entries |-> now[y]] = [y \in sample |-> labelOf[y]]
    BY <2>5, <2>7, <2>8
  <2>10. demonstrated => sample \cap Shown = {}
    BY <2>3, <2>5, <2>7 DEF Overlaps
  <2> QED  BY <2>3, <2>9, <2>10
<1> QED  BY <1>1, <1>2, <1>3, <1>4 DEF SamplingInv

LEMMA SamplingStays ==
  ASSUME SamplingInv, UNCHANGED samplingVars
  PROVE  SamplingInv'
<1>1. /\ labelOf' = labelOf /\ strategy' = strategy /\ wanted' = wanted /\ target' = target
      /\ unread' = unread /\ kept' = kept /\ available' = available
      /\ sample' = sample /\ loaded' = loaded /\ phase' = phase
  BY DEF samplingVars
<1>2. Drawn' = Drawn /\ KeptInv' /\ (Configured => Configured')
  BY <1>1, SameSample DEF SamplingInv
<1> QED  BY <1>1, <1>2 DEF SamplingInv

(* Whatever order the examples come in, the sample is the one that was     *)
(* asked for, or there is a reason for its refusal; what a manifest of it  *)
(* gives back is that sample; and no store outgrows the limit.             *)
THEOREM Samples == Spec => []SampleIgnoresArrival
<1>1. Init => SamplingInv
  BY SamplingStarts DEF Init
<1>2. SamplingInv /\ [Next]_<<filesVars, samplingVars>> => SamplingInv'
  <2> SUFFICES ASSUME SamplingInv, [Next]_<<filesVars, samplingVars>>  PROVE SamplingInv'
    OBVIOUS
  <2>1. ASSUME SamplingNext  PROVE SamplingInv'
    BY <2>1, ConfigureStep, ReadStep, DrawStep, LoadStep DEF SamplingNext
  <2>2. ASSUME UNCHANGED samplingVars  PROVE SamplingInv'
    BY <2>2, SamplingStays
  <2> QED  BY <2>1, <2>2 DEF Next
<1>3. SamplingInv => SampleIgnoresArrival
  BY SampleIsRight
<1> QED  BY <1>1, <1>2, <1>3, PTL DEF Spec
=============================================================================
