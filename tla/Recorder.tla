------------------------------- MODULE Recorder -------------------------------
(***************************************************************************)
(* The recorder of market events (replay/recorder.py): handlers put events *)
(* into a bounded queue without waiting, one task writes them in batches   *)
(* to a file that is rotated when it is full, and close ends the task with *)
(* a sentinel behind the last event.  An event is its number, of size 1;   *)
(* compressing rotated files and deleting old ones is left out.            *)
(***************************************************************************)
EXTENDS Integers, SequencesExt

CONSTANTS
  QueueSize,    \* queue_size
  BatchSize,    \* batch_size
  FileSize,     \* max_file_size_bytes
  MaxEvent      \* bound of the model: events

ASSUME QueueAssumption == QueueSize \in Nat \ {0} /\ BatchSize \in Nat \ {0}

ASSUME FileAssumption == FileSize \in Nat /\ MaxEvent \in Nat

VARIABLES
  events,       \* events recorded
  queue,
  writer,       \* _write_loop: its phase, its batch, the limit, stopping
  file,         \* the file being written
  archive,      \* the rotated files, one after the other
  accepted,     \* history: the events the queue had room for
  closing       \* close: "no", "putting" the sentinel, "joining", "closed"

recorderVars == <<events, queue, writer, file, archive, accepted, closing>>

Sentinel == 0

Waiting == [phase |-> "idle", batch |-> <<>>, limit |-> 0, stopping |-> FALSE]

RecorderInit ==
  /\ events = 0
  /\ queue = <<>> /\ file = <<>> /\ archive = <<>> /\ accepted = <<>>
  /\ writer = Waiting
  /\ closing = "no"

\* record: a full queue drops the event.  run_scanner has no handler left when
\* it closes the recorder.
Record ==
  /\ closing = "no" /\ events < MaxEvent
  /\ events' = events + 1
  /\ IF Len(queue) < QueueSize
     THEN queue' = Append(queue, events') /\ accepted' = Append(accepted, events')
     ELSE UNCHANGED <<queue, accepted>>
  /\ UNCHANGED <<writer, file, archive, closing>>

\* A burst makes the batch longer, up to twenty times.
Limit(waiting) ==
  IF BatchSize = 1 THEN 1
  ELSE LET burst == IF waiting + 1 < BatchSize * 20 THEN waiting + 1 ELSE BatchSize * 20
       IN IF burst > BatchSize THEN burst ELSE BatchSize

First ==
  /\ writer = Waiting /\ queue # <<>>
  /\ queue' = Tail(queue)
  /\ writer' = IF Head(queue) = Sentinel THEN [Waiting EXCEPT !.phase = "done"]
               ELSE [Waiting EXCEPT !.phase = "filling", !.batch = <<Head(queue)>>,
                                    !.limit = Limit(Len(queue) - 1)]
  /\ UNCHANGED <<events, file, archive, accepted, closing>>

\* Faulty: the sentinel ends the task at once.
LeavesBatch == [writer EXCEPT !.phase = "done"]

\* The sentinel ends the batch, which is still written.
EndsBatch == [writer EXCEPT !.phase = "writing", !.stopping = TRUE]

More ==
  /\ writer.phase = "filling" /\ Len(writer.batch) < writer.limit /\ queue # <<>>
  /\ queue' = Tail(queue)
  /\ writer' = IF Head(queue) = Sentinel THEN EndsBatch
               ELSE [writer EXCEPT !.batch = Append(@, Head(queue))]
  /\ UNCHANGED <<events, file, archive, accepted, closing>>

\* The batch is full, or the queue empty when the deadline passes.
Full ==
  /\ writer.phase = "filling"
  /\ Len(writer.batch) = writer.limit \/ queue = <<>>
  /\ writer' = [writer EXCEPT !.phase = "writing"]
  /\ UNCHANGED <<events, queue, file, archive, accepted, closing>>

Rotates == file # <<>> /\ Len(file) + Len(writer.batch) > FileSize

\* What is written goes behind the rotation that makes room for the batch.
Written(s) ==
  /\ archive' = IF Rotates THEN archive \o file ELSE archive
  /\ file' = IF Rotates THEN s ELSE file \o s

WriteBatch ==
  /\ writer.phase = "writing"
  /\ Written(writer.batch)
  /\ writer' = IF writer.stopping THEN [Waiting EXCEPT !.phase = "done"] ELSE Waiting
  /\ UNCHANGED <<events, queue, accepted, closing>>

\* The rotation or the write fails, and ends the task: a prefix of the batch may
\* be there.  record goes on filling the queue, and close waits for room in it,
\* then for the task, whose error it raises.
WriteFails ==
  /\ writer.phase = "writing"
  /\ writer' = [writer EXCEPT !.phase = "dead"]
  /\ \/ UNCHANGED <<archive, file>>
     \/ \E n \in 0..(Len(writer.batch) - 1) : Written(SubSeq(writer.batch, 1, n))
  /\ UNCHANGED <<events, queue, accepted, closing>>

CloseRecorder ==
  /\ closing = "no"
  /\ closing' = "putting"
  /\ UNCHANGED <<events, queue, writer, file, archive, accepted>>

PutSentinel ==
  /\ closing = "putting" /\ Len(queue) < QueueSize
  /\ queue' = Append(queue, Sentinel)
  /\ closing' = "joining"
  /\ UNCHANGED <<events, writer, file, archive, accepted>>

\* The task is done; a dead one raises its error instead.
Join ==
  /\ closing = "joining" /\ writer.phase = "done"
  /\ closing' = "closed"
  /\ UNCHANGED <<events, queue, writer, file, archive, accepted>>

RecorderNext ==
  \/ Record \/ First \/ More \/ Full \/ WriteBatch \/ WriteFails
  \/ CloseRecorder \/ PutSentinel \/ Join

RecorderSpec == RecorderInit /\ [][RecorderNext]_recorderVars

-----------------------------------------------------------------------------
(* Properties.                                                             *)

RecorderTypeOK ==
  /\ events \in 0..MaxEvent
  /\ ToSet(accepted) \subseteq 1..events /\ Len(queue) =< QueueSize
  /\ writer.phase \in {"idle", "filling", "writing", "dead", "done"}
  /\ writer.limit \in 0..(20 * BatchSize) /\ writer.stopping \in BOOLEAN
  /\ closing \in {"no", "putting", "joining", "closed"}

\* Every event the queue had room for is written once, in order, whatever the
\* batches, the rotations and the moment of close (recorder.py:121): while the
\* task lives the files, the batch and the queue are those events, with nothing
\* behind them but the sentinel, and after close the files are.
RecordingWhole ==
  /\ writer.phase # "dead" =>
       archive \o file \o writer.batch \o queue
         \in {accepted, Append(accepted, Sentinel)}
  /\ closing = "closed" => archive \o file = accepted

=============================================================================
