------------------------------ MODULE DatasetFiles ------------------------------
(***************************************************************************)
(* The files of the benchmark: the archive that is downloaded, its         *)
(* extraction, the record of where it came from, and the normalized copy   *)
(* that is prepared from it.                                               *)
(*                                                                         *)
(* Commands run one at a time; each may fail at every step at which it     *)
(* talks to the network, checks what it got or writes files, and may be    *)
(* killed between any two.  The content of a file is all that is known of  *)
(* it; its digest is taken to identify it.  The server may offer something *)
(* else each time it is asked.                                             *)
(***************************************************************************)
EXTENDS Naturals, Sequences, FiniteSets

CONSTANTS
  Contents,     \* what a file may contain
  Zips,         \* the contents that look like an archive
  ValidZips,    \* those of them that pass its integrity check
  Fitting,      \* the contents within the limit on the size of a download
  Extractable,  \* those with safe entries, within the limits on extraction
  Splits,       \* content |-> the questions in each of its splits, in order;
                \* none if no files of the benchmark can be found in it
  Bad,          \* there is no label
  Limits,       \* how many examples of a split a copy may be limited to
  Unlimited,    \* all of them
  Truncated,    \* what a download that ends early leaves
  NoFile,       \* there is no such file, digest or directory
  None          \* there is no command

ASSUME ContentsAssumption ==
  /\ Zips \cup Fitting \cup Extractable \subseteq Contents
  /\ ValidZips \subseteq Zips
  /\ Truncated \in Contents \ ValidZips
  /\ NoFile \notin Contents
  /\ Limits \subseteq Nat \cup {Unlimited}
  /\ \A c \in Contents : \A i \in DOMAIN Splits[c] :
       Splits[c][i] \in Seq({Splits[c][i][k] : k \in DOMAIN Splits[c][i]})

VARIABLES
  archive,     \* the content of the archive
  partial,     \* the content of the file a download is written to
  extracted,   \* for each digest, what the directory with its name holds
  unpacked,    \* the temporary directory of the extraction under way
  provenance,  \* the record [archive, extraction] of digests
  prepared,    \* the normalized copy [from, limit, splits, whole]
  cutShort,    \* whether the removal of a normalized copy was cut short
  command,     \* the last command
  outcome,     \* "running", "succeeded", "failed" or "killed"
  step,        \* what the command does next
  digest       \* the digest of the archive the command works with

filesVars ==
  <<archive, partial, extracted, unpacked, provenance, prepared,
    cutShort, command, outcome, step, digest>>

Onward(next) == step' = next /\ UNCHANGED <<command, outcome>>

End(how) == step' = "idle" /\ outcome' = how /\ UNCHANGED command

Directory(content, whole) == [content |-> content, whole |-> whole]

ASSUME DirectoryAssumption == \A c \in Contents : Directory(c, TRUE) # NoFile

-----------------------------------------------------------------------------
(* download: the archive *)

Expected(content) == command.expected \in {NoFile, content}

Acquire(force, extract, expected) ==
  /\ step = "idle"
  /\ command' = [kind |-> "download", force |-> force, extract |-> extract,
                 expected |-> expected]
  /\ outcome' = "running"
  /\ step' = IF archive # NoFile /\ ~force THEN "reuse" ELSE "fetch"
  /\ digest' = NoFile
  /\ UNCHANGED <<archive, partial, extracted, unpacked, provenance,
                 prepared, cutShort>>

(* An archive that is there is kept, if it passes every check. *)
Reuse ==
  /\ step = "reuse"
  /\ IF archive \in ValidZips \cap Fitting /\ Expected(archive)
     THEN digest' = archive /\ Onward("extract")
     ELSE End("failed") /\ UNCHANGED digest
  /\ UNCHANGED <<archive, partial, extracted, unpacked, provenance,
                 prepared, cutShort>>

(* An older partial file is removed and the server is asked.               *)
Fetch ==
  /\ step = "fetch"
  /\ \/ partial' = Truncated /\ Onward("receive")
     \/ partial' = NoFile /\ End("failed")
  /\ UNCHANGED <<archive, extracted, unpacked, provenance, prepared,
                 cutShort, digest>>

(* The rest arrives or the stream ends early without an error; or the      *)
(* network fails, or there are more bytes than the limit allows, and the   *)
(* partial file is removed.                                                *)
Receive ==
  /\ step = "receive"
  /\ \/ \E content \in Fitting :
          partial' = content /\ digest' = content /\ Onward("verify")
     \/ partial' = NoFile /\ End("failed") /\ UNCHANGED digest
  /\ UNCHANGED <<archive, extracted, unpacked, provenance, prepared,
                 cutShort>>

Verify ==
  /\ step = "verify"
  /\ IF Expected(digest) /\ partial \in ValidZips
     THEN Onward("publish") /\ UNCHANGED partial
     ELSE partial' = NoFile /\ End("failed")
  /\ UNCHANGED <<archive, extracted, unpacked, provenance, prepared,
                 cutShort, digest>>

(* The partial file takes the place of the archive, or is removed. *)
Publish ==
  /\ step = "publish"
  /\ \/ archive' = partial /\ Onward("extract")
     \/ UNCHANGED archive /\ End("failed")
  /\ partial' = NoFile
  /\ UNCHANGED <<extracted, unpacked, provenance, prepared, cutShort,
                 digest>>

-----------------------------------------------------------------------------
(* download: the extraction and the record *)

(* A directory named after the digest is trusted.  Otherwise the archive   *)
(* is unpacked next to it; the slip unpacks it where it belongs at once.   *)
UnpackInPlace ==
  /\ unpacked' = Directory(archive, FALSE)
  /\ extracted' = [extracted EXCEPT ![digest] = Directory(archive, FALSE)]

Unpack ==
  /\ unpacked' = Directory(archive, FALSE)
  /\ UNCHANGED extracted

Extract ==
  /\ step = "extract"
  /\ \/ /\ ~command.extract \/ extracted[digest] # NoFile
        /\ Onward("record")
        /\ UNCHANGED <<unpacked, extracted>>
     \/ /\ command.extract /\ extracted[digest] = NoFile
        /\ archive \in Extractable
        /\ Unpack
        /\ Onward("unpack")
     \/ /\ command.extract /\ extracted[digest] = NoFile
        /\ archive \notin Extractable
        /\ End("failed")
        /\ UNCHANGED <<unpacked, extracted>>
  /\ UNCHANGED <<archive, partial, provenance, prepared, cutShort,
                 digest>>

(* The last entry is written and the directory gets its name, or an entry  *)
(* cannot be written and the temporary directory is removed.               *)
FinishUnpacking ==
  /\ step = "unpack"
  /\ \/ /\ extracted' = [extracted EXCEPT ![digest] = Directory(unpacked.content, TRUE)]
        /\ Onward("record")
     \/ UNCHANGED extracted /\ End("failed")
  /\ unpacked' = NoFile
  /\ UNCHANGED <<archive, partial, provenance, prepared, cutShort,
                 digest>>

(* The record takes the place of the last one at once, or stays. *)
Record ==
  /\ step = "record"
  /\ \/ /\ provenance' = [archive |-> digest,
                          extraction |-> IF command.extract THEN digest ELSE NoFile]
        /\ End("succeeded")
     \/ UNCHANGED provenance /\ End("failed")
  /\ UNCHANGED <<archive, partial, extracted, unpacked, prepared,
                 cutShort, digest>>

-----------------------------------------------------------------------------
(* prepare: the normalized copy *)

(* The loader yields the examples of a split up to the limit, if there is  *)
(* one, which it looks at after an example: a limit of zero is one of one. *)
(* It is strict: it fails at a record or question it cannot use and at an  *)
(* identifier it has seen, unless it has stopped before.                   *)
Longest(limit) == IF limit = 0 THEN 1 ELSE limit

Beginning(lines, limit) ==
  IF limit = Unlimited \/ Len(lines) <= Longest(limit) THEN lines
  ELSE SubSeq(lines, 1, Longest(limit))

(* A question [id, answer, proven, whole]: its answer is "true", "false",  *)
(* "unknown" or something else, it may come with the metadata of a proof,  *)
(* and it is not whole if it or its record lacks a field, or if the entry  *)
(* of the archive is damaged and cannot be read any further.               *)
GoldLabel(question) ==
  CASE question.answer = "true"                       -> "ENTAILED"
    [] question.answer = "false" /\ question.proven   -> "CONTRADICTED"
    [] question.answer = "unknown"                    -> "UNKNOWN"
    [] OTHER                                          -> Bad

IsUsable(question) == question.whole /\ GoldLabel(question) # Bad

IsDuplicate(lines, i) == \E j \in 1..(i - 1) : lines[j].id = lines[i].id

Loads(lines, limit) ==
  \A i \in DOMAIN Beginning(lines, limit) : IsUsable(lines[i]) /\ ~IsDuplicate(lines, i)

Examples(lines, limit) ==
  [i \in DOMAIN Beginning(lines, limit) |->
     [id |-> lines[i].id, label |-> GoldLabel(lines[i])]]

(* The loader opens what looks like an archive, if it finds files of the   *)
(* benchmark in it.  It does not check that their content is intact.       *)
IsSource(content) == content \in Zips /\ Splits[content] # <<>>

Prepare(force, limit) ==
  /\ step = "idle"
  /\ command' = [kind |-> "prepare", force |-> force, limit |-> limit]
  /\ LET refused == ~IsSource(archive) \/ (prepared # NoFile /\ ~force)
     IN  /\ outcome' = IF refused THEN "failed" ELSE "running"
         /\ step' = CASE refused -> "idle"
                      [] ~refused /\ prepared # NoFile -> "remove"
                      [] OTHER -> "normalize"
  /\ UNCHANGED <<archive, partial, extracted, unpacked, provenance,
                 prepared, cutShort, digest>>

(* Files of the old copy are removed one by one before the new one exists; *)
(* one that cannot be removed ends the command.                            *)
RemoveCopy ==
  /\ step = "remove"
  /\ \/ /\ prepared.whole
        /\ prepared' = [prepared EXCEPT !.whole = FALSE]
        /\ Onward("remove")
        /\ UNCHANGED cutShort
     \/ /\ ~prepared.whole
        /\ prepared' = NoFile
        /\ Onward("normalize")
        /\ cutShort' = FALSE
     \/ /\ UNCHANGED prepared
        /\ End("failed")
        /\ cutShort' = (cutShort \/ ~prepared.whole)
  /\ UNCHANGED <<archive, partial, extracted, unpacked, provenance,
                 digest>>

(* The records are written split by split to a temporary directory, which  *)
(* gets its name after its manifest; a bad record, an entry that cannot be *)
(* read or a file that cannot be written ends the command.                 *)
Normalize ==
  /\ step = "normalize"
  /\ LET lines == Splits[archive]
         limit == command.limit
     IN  \/ /\ \A i \in DOMAIN lines : Loads(lines[i], limit)
            /\ prepared' = [from |-> archive, limit |-> limit, whole |-> TRUE,
                            splits |-> [i \in DOMAIN lines |-> Examples(lines[i], limit)]]
            /\ End("succeeded")
         \/ End("failed") /\ UNCHANGED prepared
  /\ UNCHANGED <<archive, partial, extracted, unpacked, provenance,
                 cutShort, digest>>

-----------------------------------------------------------------------------
(* The environment *)

(* The command is killed: its files stay, its temporary directory under a  *)
(* name nobody looks for.                                                  *)
Kill ==
  /\ step # "idle"
  /\ End("killed")
  /\ unpacked' = NoFile
  /\ cutShort' = (cutShort \/ (step = "remove" /\ ~prepared.whole))
  /\ UNCHANGED <<archive, partial, extracted, provenance, prepared,
                 digest>>

-----------------------------------------------------------------------------

FilesInit ==
  /\ archive \in {NoFile} \cup (Contents \ (ValidZips \cap Fitting))  \* by hand
  /\ partial = NoFile
  /\ extracted = [content \in Contents |-> NoFile]
  /\ unpacked = NoFile
  /\ provenance = NoFile
  /\ prepared = NoFile
  /\ cutShort = FALSE
  /\ command = None
  /\ outcome = "succeeded"
  /\ step = "idle"
  /\ digest = NoFile

FilesNext ==
  \/ \E force, extract \in BOOLEAN, expected \in ValidZips \cup {NoFile} :
       Acquire(force, extract, expected)
  \/ Reuse \/ Fetch \/ Receive \/ Verify \/ Publish
  \/ Extract \/ FinishUnpacking \/ Record
  \/ \E force \in BOOLEAN, limit \in Limits : Prepare(force, limit)
  \/ RemoveCopy \/ Normalize
  \/ Kill

-----------------------------------------------------------------------------
(* Properties *)

(* After a command that succeeded, the record tells which archive is there *)
(* and where it is extracted.                                              *)
RecordIsTrue ==
  /\ archive \in ValidZips /\ Expected(archive)
  /\ provenance.archive = archive
  /\ provenance.extraction \in {NoFile, archive}
  /\ command.extract => extracted[archive] # NoFile

(* The examples copied of a split are its first ones, each of a question   *)
(* that was read in full and no two with one identifier, and an example is *)
(* contradicted only if the archive has a proof of the opposite.  They are *)
(* all there is, or as many as the limit asks for; a limit never gives     *)
(* more than it says, but for the one example of a limit of zero.          *)
IsSplitOf(examples, lines, limit) ==
  /\ \A k \in DOMAIN examples :
       /\ lines[k].whole /\ examples[k].id = lines[k].id
       /\ examples[k].label = "CONTRADICTED" => lines[k].proven
  /\ \A k, m \in DOMAIN examples : examples[k].id = examples[m].id => k = m
  /\ Len(examples) # Len(lines) =>
       limit # Unlimited /\ Len(examples) >= limit /\ Len(examples) > 0
  /\ limit # Unlimited => Len(examples) <= limit \/ Len(examples) <= 1

IsCopy(copy) ==
  LET lines == Splits[copy.from]
  IN  /\ DOMAIN copy.splits = DOMAIN lines
      /\ \A i \in DOMAIN lines : IsSplitOf(copy.splits[i], lines[i], copy.limit)

(* Whenever a command is killed or fails, and whatever the server sends:   *)
(* a download never leaves a broken archive (one that was put there by     *)
(* hand stays, but is neither extracted nor recorded); a directory named   *)
(* after a digest holds the whole archive with that digest; a prepared     *)
(* copy is true to its archive, be that damaged or not, and whole unless   *)
(* its removal was cut short; and the record is true when the download has *)
(* succeeded (datasets/acquisition.py, preparation.py, proofwriter.py).    *)
DataIsWhole ==
  /\ archive \in Contents \ ValidZips =>
       /\ provenance = NoFile
       /\ \A d \in Contents : extracted[d] = NoFile
  /\ \A d \in Contents :
       extracted[d] # NoFile => extracted[d] = Directory(d, TRUE)
  /\ prepared # NoFile =>
       /\ IsCopy(prepared)
       /\ prepared.whole \/ step = "remove" \/ cutShort
  /\ command # None /\ outcome = "succeeded" =>
       (command.kind = "download" => RecordIsTrue)
=============================================================================
