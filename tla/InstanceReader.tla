--------------------------- MODULE InstanceReader ---------------------------
(***************************************************************************)
(* One thread of a trainer reading its files: the instance readers         *)
(* (libsvm, libsvm_ex, uch) append the lines of a file to the tensors of   *)
(* an Instance, TrainFile and PredictFile feed the batches to the chain of *)
(* operators.  A feature is represented by the line it comes from, and Y   *)
(* stands for Y, W and uuid, which are resized together.                   *)
(***************************************************************************)
EXTENDS Integers, Sequences, SequencesExt

CONSTANTS Batch,    \* batch_
          XSize,    \* tensors a line must fill: X_, or X_user_ and X_cand_
          HistSize, \* X_hist_item_size_: tensors a line may leave unfilled
          MaxLine,  \* bound: lines of a file
          MaxFile   \* bound: files of the thread

\* What the constants may be.
ReaderConstants ==
  /\ Batch \in Nat \ {0} /\ XSize \in Nat /\ HistSize \in Nat
  /\ MaxLine \in Nat /\ MaxFile \in Nat

\* `stop` is how far the parser gets in a line: 0 is a bad label or uuid,
\* k a bad tensor k, XSize + HistSize + 1 a line that is all right.
VARIABLES lines,    \* the file: the stop of each line
          pos,      \* lines read of it
          open,     \* is_ is open
          Y,        \* the instance's tensors, row by row: Y ...
          X,        \* ... and each X: its row_offset_ and its values
          histSize, \* X_hist_size_
          instBatch,\* Instance::batch_
          opBatch,  \* op_context_batch_
          shape,    \* what InitForward made the operators for: the file whose
                    \* tensors they point at and the rows; <<>> after InitOp
          pc,
          file,     \* history: files opened
          trained   \* history: lines whose rows were given to Forward

readerVars == <<lines, pos, open, Y, X, histSize, instBatch, opBatch, shape, pc, file, trained>>
tensors == <<Y, X, histSize, instBatch>>

Tensor == 1..XSize + HistSize
AllRight == XSize + HistSize + 1
EmptyX == [t \in Tensor |-> [offset |-> <<0>>, value |-> <<>>]]

ReaderInit ==
  /\ lines = <<>> /\ pos = 0 /\ open = FALSE
  /\ Y = <<>> /\ X = EmptyX /\ histSize = <<>> /\ instBatch = 0
  /\ opBatch = -1 /\ shape = <<>>
  /\ pc = "idle" /\ file = 0 /\ trained = <<>>

\* TrainFile, PredictFile: InitOp rebuilds the operators, inst.clear() drops
\* the tensors, and the reader is opened.
OpenFile ==
  /\ pc = "idle" /\ file < MaxFile
  /\ lines' \in UNION {[1..n -> 0..AllRight] : n \in 0..MaxLine}
  /\ Y' = <<>> /\ X' = EmptyX /\ histSize' = <<>> /\ instBatch' = 0
  /\ opBatch' = -1 /\ shape' = <<>>
  /\ pos' = 0 /\ open' = TRUE /\ pc' = "get" /\ file' = file + 1 /\ trained' = <<>>

\* GetBatch before its loop: a full batch is dropped (InitXBatch and the
\* resizes), an unfinished one would be continued.
GetBatch ==
  /\ pc = "get"
  /\ IF Y = <<>> \/ Len(Y) = Batch
       THEN Y' = <<>> /\ X' = EmptyX /\ histSize' = <<>> /\ instBatch' = 0
       ELSE UNCHANGED tensors
  /\ pc' = "read"
  /\ UNCHANGED <<lines, pos, open, opBatch, shape, file, trained>>

\* ParseFeatures of each tensor up to the one it stops in, which has got one
\* feature more or none when the parser gives up.
Emplaced(id, stop, partial) ==
  [t \in Tensor |-> IF t < stop \/ (t = stop /\ partial)
                    THEN [offset |-> X[t].offset, value |-> Append(X[t].value, id)]
                    ELSE X[t]]

\* CSRMatrix::add_row.
AddRow(x) == [offset |-> Append(x.offset, Len(x.value)), value |-> x.value]

\* CSRMatrix::trim, to the value_size() saved when the line was begun.
Trim(x, size) == [offset |-> x.offset, value |-> SubSeq(x.value, 1, size)]

\* Mutant: the tensor the parser stopped in is not trimmed.
RejectStopped(id, stop, partial) ==
  [t \in Tensor |-> IF t = stop THEN Emplaced(id, stop, partial)[t]
                    ELSE Trim(Emplaced(id, stop, partial)[t], Len(X[t].value))]

\* A line that is rejected: everything is put back.
Reject(id, stop, partial) ==
  [t \in Tensor |-> Trim(Emplaced(id, stop, partial)[t], Len(X[t].value))]

\* Parse of the three helpers.  A bad label, uuid or X rejects the line; the
\* first bad history tensor of uch only ends the history.
ParseLine(stop, partial) ==
  LET id == pos + 1 IN
  IF stop <= XSize
    THEN /\ X' = Reject(id, stop, partial)
         /\ UNCHANGED <<Y, histSize, instBatch>>
    ELSE /\ X' = [t \in Tensor |-> AddRow(Emplaced(id, stop, partial)[t])]
         /\ Y' = Append(Y, id)
         /\ histSize' = Append(histSize, stop - XSize - 1)
         /\ instBatch' = Len(Y')

\* One turn of GetBatch's loop.
ReadLine ==
  /\ pc = "read" /\ pos < Len(lines)
  /\ \E partial \in BOOLEAN : ParseLine(lines[pos + 1], partial)
  /\ pos' = pos + 1
  /\ pc' = IF Len(Y') = Batch /\ Len(Y') # Len(Y) THEN "batch" ELSE "read"
  /\ UNCHANGED <<lines, open, opBatch, shape, file, trained>>

\* Mutant: the rest of the file is given up with its stream.
EndOfFileDropsRest ==
  /\ pc = "read" /\ pos = Len(lines)
  /\ open' = FALSE
  /\ pc' = "idle"
  /\ UNCHANGED <<lines, pos, tensors, opBatch, shape, file, trained>>

\* GetLine fails: the stream is closed and the loop of TrainFile ends; what
\* has been read since the last full batch is a batch of its own.
EndOfFile ==
  /\ pc = "read" /\ pos = Len(lines)
  /\ open' = FALSE
  /\ pc' = IF instBatch > 0 THEN "batch" ELSE "idle"
  /\ UNCHANGED <<lines, pos, tensors, opBatch, shape, file, trained>>

\* TrainBatch, PredictBatch: InitForward (and InitBackward) or InitPredict
\* when the number of rows is not that of the last batch.
InitBatch ==
  /\ pc = "batch"
  /\ IF opBatch # instBatch
       THEN opBatch' = instBatch /\ shape' = <<file, Len(Y)>>
       ELSE UNCHANGED <<opBatch, shape>>
  /\ pc' = "forward"
  /\ UNCHANGED <<lines, pos, open, tensors, file, trained>>

\* Forward (and Backward and the update), or Predict and DumpPredictBatch;
\* then GetBatch again, unless this was the rest of the file.
Forward ==
  /\ pc = "forward"
  /\ trained' = trained \o Y
  /\ pc' = IF open THEN "get" ELSE "idle"
  /\ UNCHANGED <<lines, pos, open, tensors, opBatch, shape, file>>

ReaderNext ==
  \/ OpenFile
  \/ GetBatch
  \/ ReadLine
  \/ EndOfFile
  \/ InitBatch
  \/ Forward

ReaderSpec == ReaderInit /\ [][ReaderNext]_readerVars

-----------------------------------------------------------------------------
(* Properties. *)

\* Row i of tensor x.
Row(x, i) == SubSeq(x.value, x.offset[i] + 1, x.offset[i + 1])

\* A row holds the features of its own line only, whatever lines were given
\* up before it: Y and every X have the same rows, each tensor that a line
\* must fill has that line's feature, and a history tensor has it when the
\* row's X_hist_size_ says so.
RowsAreLines ==
  \A t \in Tensor :
    /\ Len(X[t].offset) = Len(Y) + 1
    /\ Last(X[t].offset) = Len(X[t].value)
    /\ \A i \in DOMAIN Y :
         /\ \A f \in ToSet(Row(X[t], i)) : f = Y[i]
         /\ t <= XSize + histSize[i] => Row(X[t], i) = <<Y[i]>>

\* The operators run on tensors they were set up for, with as many rows; and
\* when a file is done every line that parses has been given to them once, in
\* the order of the file, the unfinished last batch included.
EachLineOnce ==
  /\ pc = "forward" => shape = <<file, Len(Y)>> /\ instBatch = Len(Y)
  /\ pc = "idle" =>
       /\ ToSet(trained) = {i \in DOMAIN lines : lines[i] > XSize}
       /\ \A i, j \in DOMAIN trained : i < j => trained[i] < trained[j]
=============================================================================
