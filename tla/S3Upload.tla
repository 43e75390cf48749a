------------------------------ MODULE S3Upload ------------------------------
(***************************************************************************)
(* put of the S3 adapter for a streamed body.  The stream brings chunks of *)
(* any length; the adapter cuts it into parts of one size, sends them one  *)
(* by one and asks the store to put them together.  Bytes are counted, not *)
(* looked at: the bytes of a part are a stretch of the stream, from its    *)
(* first byte on.  Requests fail, with or without the store having done    *)
(* what they asked, and the process may die.                               *)
(***************************************************************************)
EXTENDS Integers, Sequences, FiniteSets

CONSTANTS PartSize,    \* partSizeBytes
          Cap,         \* maxUploadBytes
          MaxChunk, MaxStream   \* bounds for the model checker

S3UploadConstants == {PartSize, Cap, MaxChunk, MaxStream} \subseteq Nat \ {0}

VARIABLES source,   \* what the stream has brought, and whether it has ended
          put,      \* the call: stage, bytes cut off so far, the part in hand
          bucket,   \* the store: the multipart upload under way, the object
          lost      \* history: the requests whose outcome the caller never saw

uploadVars == <<source, put, bucket, lost>>

Nothing == [from |-> 0, size |-> 0]

S3UploadInit ==
  /\ source = [brought |-> 0, ended |-> FALSE]
  /\ put = [stage |-> "reading", taken |-> 0, part |-> Nothing, last |-> FALSE, multi |-> FALSE]
  /\ bucket = [parts |-> <<>>, open |-> FALSE, object |-> <<>>, stored |-> FALSE]
  /\ lost = {}

Held == source.brought - put.taken

(* The body is wrapped: one byte over the cap is an error of the stream. *)
Read ==
  /\ put.stage = "reading" /\ ~source.ended /\ Held < PartSize
  /\ \E n \in 1..MaxChunk :
       /\ source.brought + n <= MaxStream
       /\ source.brought + n <= Cap
       /\ source' = [source EXCEPT !.brought = @ + n]
  /\ UNCHANGED <<put, bucket, lost>>

SourceEnds ==
  /\ put.stage = "reading" /\ ~source.ended /\ Held < PartSize
  /\ source' = [source EXCEPT !.ended = TRUE]
  /\ UNCHANGED <<put, bucket, lost>>

(* The stream breaks, or exceeds the cap. *)
SourceFails ==
  /\ put.stage = "reading" /\ ~source.ended /\ Held < PartSize
  /\ put' = [put EXCEPT !.stage = IF put.multi THEN "abort" ELSE "failed"]
  /\ UNCHANGED <<source, bucket, lost>>

(* Mutants: a chunk is handed on as it came, what is over is dropped. *)
CutPart_Drop ==
  /\ put.stage = "reading" /\ (source.ended \/ Held >= PartSize)
  /\ LET size == IF Held >= PartSize THEN PartSize ELSE Held
         last == Held < PartSize
     IN  put' = [put EXCEPT
                   !.taken = source.brought,
                   !.part = [from |-> put.taken, size |-> size],
                   !.last = last,
                   !.stage = CASE ~put.multi /\ last  -> "whole"
                               [] ~put.multi /\ ~last -> "create"
                               [] put.multi /\ size = 0 -> "complete"
                               [] OTHER -> "send"]
  /\ UNCHANGED <<source, bucket, lost>>

CutPart_AsItCame ==
  /\ put.stage = "reading" /\ (source.ended \/ Held >= PartSize)
  /\ LET last == Held < PartSize
     IN  put' = [put EXCEPT
                   !.taken = source.brought,
                   !.part = [from |-> put.taken, size |-> Held],
                   !.last = last,
                   !.stage = CASE ~put.multi /\ last  -> "whole"
                               [] ~put.multi /\ ~last -> "create"
                               [] put.multi /\ Held = 0 -> "complete"
                               [] OTHER -> "send"]
  /\ UNCHANGED <<source, bucket, lost>>

(* readAtLeast: exactly one part, the overshoot carried to the next call, or
   everything that is left.  What is left may be nothing at all.           *)
CutPart ==
  /\ put.stage = "reading" /\ (source.ended \/ Held >= PartSize)
  /\ LET size == IF Held >= PartSize THEN PartSize ELSE Held
         last == Held < PartSize
     IN  put' = [put EXCEPT
                   !.taken = @ + size,
                   !.part = [from |-> put.taken, size |-> size],
                   !.last = last,
                   !.stage = CASE ~put.multi /\ last  -> "whole"
                               [] ~put.multi /\ ~last -> "create"
                               [] put.multi /\ size = 0 -> "complete"
                               [] OTHER -> "send"]
  /\ UNCHANGED <<source, bucket, lost>>

(* A request the store carries out and answers. *)
Request(stage, next, effect) ==
  /\ put.stage = stage
  /\ put' = next
  /\ bucket' = effect
  /\ UNCHANGED <<source, lost>>

Stored(parts) == [bucket EXCEPT !.object = parts, !.stored = TRUE, !.open = FALSE, !.parts = <<>>]

PutWhole == Request("whole", [put EXCEPT !.stage = "ok"], Stored(<<put.part>>))

CreateUpload ==
  Request("create", [put EXCEPT !.stage = "send", !.multi = TRUE], [bucket EXCEPT !.open = TRUE])

AfterPart == IF put.last THEN "complete" ELSE "reading"

SendPart ==
  Request("send", [put EXCEPT !.stage = AfterPart],
          [bucket EXCEPT !.parts = Append(@, put.part)])

Complete == Request("complete", [put EXCEPT !.stage = "ok"], Stored(bucket.parts))

Abort ==
  Request("abort", [put EXCEPT !.stage = "failed"],
          [bucket EXCEPT !.open = FALSE, !.parts = <<>>])

(* Mutant: the upload is not aborted when a request fails. *)
AfterFailure_Leave(stage) == "failed"

(* An upload that was begun is aborted; a failed abort is not reported. *)
AfterFailure(stage) == IF stage \in {"send", "complete"} THEN "abort" ELSE "failed"

RequestFails ==
  /\ put.stage \in {"whole", "create", "send", "complete", "abort"}
  /\ put' = [put EXCEPT !.stage = AfterFailure(put.stage)]
  /\ lost' = IF put.stage = "abort" THEN lost \cup {"abort"} ELSE lost
  /\ UNCHANGED <<source, bucket>>

(* The store did it, and the answer never came. *)
AnswerLost ==
  /\ put.stage \in {"whole", "create", "complete"}
  /\ bucket' = CASE put.stage = "whole"    -> Stored(<<put.part>>)
                 [] put.stage = "create"   -> [bucket EXCEPT !.open = TRUE]
                 [] put.stage = "complete" -> Stored(bucket.parts)
  /\ put' = [put EXCEPT !.stage = AfterFailure(put.stage)]
  /\ lost' = lost \cup {put.stage}
  /\ UNCHANGED source

Dies ==
  /\ put.stage \notin {"ok", "failed"}
  /\ put' = [put EXCEPT !.stage = "failed"]
  /\ lost' = lost \cup {"process"}
  /\ UNCHANGED <<source, bucket>>

S3UploadNext ==
  \/ Read \/ SourceEnds \/ SourceFails \/ CutPart
  \/ PutWhole \/ CreateUpload \/ SendPart \/ Complete \/ Abort
  \/ RequestFails \/ AnswerLost \/ Dies

S3UploadSpec == S3UploadInit /\ [][S3UploadNext]_uploadVars

-----------------------------------------------------------------------------
(* The object, once there is one, is the whole stream, every byte of it in
   its place and no more of it than the cap allows -- also when the caller
   was told that the upload failed.                                        *)
ObjectIsTheStream ==
  bucket.stored =>
    /\ source.ended /\ source.brought <= Cap
    /\ \A i \in DOMAIN bucket.object :
         bucket.object[i].from =
           (IF i = 1 THEN 0 ELSE bucket.object[i-1].from + bucket.object[i-1].size)
    /\ LET end == bucket.object[Len(bucket.object)]
       IN  end.from + end.size = source.brought

(* Every part is full but the last, which is not empty: the store refuses
   smaller ones, and a part is what is held in memory (storage.ts, "peak
   memory is bounded by ONE part").                                        *)
PartsAreFull ==
  LET parts == IF bucket.stored THEN bucket.object ELSE bucket.parts
  IN  \A i \in DOMAIN parts :
        /\ parts[i].size <= PartSize
        /\ i < Len(parts) => parts[i].size = PartSize
        /\ Len(parts) > 1 => parts[i].size > 0

(* An upload that fails leaves neither an object nor parts that are paid for
   and belong to nothing, unless the caller could not know or could not act:
   an answer was lost, the abort failed, or the process died.              *)
FailureLeavesNothing ==
  put.stage = "failed" /\ lost = {} => ~bucket.open /\ ~bucket.stored
=============================================================================
