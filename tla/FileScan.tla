----------------------------- MODULE FileScan ------------------------------
(***************************************************************************)
(* The directory scan of cold start: a producer thread that walks the       *)
(* watched directories and stats each file (platform/linux.rs), a bounded   *)
(* channel, and a consumer that inserts the rows into temp_scan in batches  *)
(* (batch_scan, scanner.rs).                                                *)
(***************************************************************************)
EXTENDS Naturals, Sequences, FiniteSets

CONSTANTS
  Files,      \* paths that are not segments
  Layouts,    \* what may lie under a second watched directory in the first
  BatchSize   \* rows per transaction; the channel holds twice as many

ASSUME BatchAssumption == BatchSize \in Nat \ {0}

VARIABLES
  disk,       \* inode, version, length and mtime of each file
  inner,      \* the files that lie under the second watched directory too
  walk,       \* the producer: directory, entries listed, row it holds
  chan,       \* the channel of rows
  batch,      \* the consumer's rows not yet inserted
  temp,       \* the table temp_scan: a row per path
  scanned     \* result of batch_scan

scanVars == <<walk, chan, batch, temp, scanned>>

Absent == [ino |-> 0, ver |-> 0, len |-> 0, mtime |-> 0]
NoRow  == [ino |-> 0, size |-> 0, mtime |-> 0]
Exists(f) == disk[f] # Absent
Present   == {f \in Files : Exists(f)}

NotWalking == [at |-> "off", todo |-> {}, held |-> <<>>]
ScanIdle ==
  /\ walk = NotWalking /\ chan = <<>> /\ batch = <<>>
  /\ temp = [f \in Files |-> NoRow] /\ scanned = "no"

(* init_temp_scan and the spawn of the producer.                            *)
StartScan ==
  /\ walk' = [at |-> "outer", todo |-> Present, held |-> <<>>]
  /\ chan' = <<>> /\ batch' = <<>>
  /\ temp' = [f \in Files |-> NoRow] /\ scanned' = "no"

(* The process is gone, and the temporary table with it.                    *)
StopScan ==
  /\ walk' = NotWalking /\ chan' = <<>> /\ batch' = <<>>
  /\ temp' = [f \in Files |-> NoRow] /\ scanned' = "no"

----------------------------------------------------------------------------
(* The producer.                                                            *)

Row(f) == [file |-> f, ino |-> disk[f].ino, size |-> disk[f].len, mtime |-> disk[f].mtime]

Stat ==
  /\ walk.held = <<>>
  /\ \E f \in walk.todo :
       /\ Exists(f)
       /\ walk' = [walk EXCEPT !.todo = @ \ {f}, !.held = <<Row(f)>>]
  /\ UNCHANGED <<chan, batch, temp, scanned>>

(* metadata()? ends the producer, which drops the sending end.              *)
StatFails ==
  /\ walk.held = <<>>
  /\ \E f \in walk.todo : ~Exists(f)
  /\ walk' = [NotWalking EXCEPT !.at = "failed"]
  /\ UNCHANGED <<chan, batch, temp, scanned>>

SendRow ==
  /\ walk.held # <<>> /\ Len(chan) < 2 * BatchSize
  /\ chan' = chan \o walk.held
  /\ walk' = [walk EXCEPT !.held = <<>>]
  /\ UNCHANGED <<batch, temp, scanned>>

NextDir ==
  /\ walk.at \in {"outer", "inner"} /\ walk.todo = {} /\ walk.held = <<>>
  /\ walk' = IF walk.at = "outer"
             THEN [walk EXCEPT !.at = "inner", !.todo = Present \cap inner]
             ELSE [NotWalking EXCEPT !.at = "done"]
  /\ UNCHANGED <<chan, batch, temp, scanned>>

Produce == Stat \/ StatFails \/ SendRow \/ NextDir

----------------------------------------------------------------------------
(* The consumer.                                                            *)

Paths(rows) == {rows[i].file : i \in DOMAIN rows}

(* INSERT without OR IGNORE on a PRIMARY KEY: a path may come once.         *)
Insertable(rows) ==
  /\ Cardinality(Paths(rows)) = Len(rows)
  /\ \A f \in Paths(rows) : temp[f] = NoRow

RowIn(rows, f) == LET i == CHOOSE i \in DOMAIN rows : rows[i].file = f
                  IN  [ino |-> rows[i].ino, size |-> rows[i].size, mtime |-> rows[i].mtime]

(* batch_insert_temp_scan: one transaction.                                 *)
Inserted(rows) ==
  [f \in Files |-> IF f \in Paths(rows) THEN RowIn(rows, f) ELSE temp[f]]

Ended == walk.at \in {"done", "failed"}

Receive ==
  /\ scanned = "no" /\ chan # <<>> /\ Len(batch) + 1 < BatchSize
  /\ chan' = Tail(chan) /\ batch' = Append(batch, Head(chan))
  /\ UNCHANGED <<walk, temp, scanned>>

ReceiveFull ==
  LET rows == Append(batch, Head(chan)) IN
  /\ scanned = "no" /\ chan # <<>> /\ Len(batch) + 1 >= BatchSize
  /\ Insertable(rows)
  /\ chan' = Tail(chan) /\ batch' = <<>> /\ temp' = Inserted(rows)
  /\ UNCHANGED <<walk, scanned>>

(* Mutant: the rows stay in the batch after the flush.                      *)
TimeoutKeeps ==
  /\ scanned = "no" /\ chan = <<>> /\ ~Ended /\ batch # <<>>
  /\ Insertable(batch)
  /\ temp' = Inserted(batch)
  /\ UNCHANGED <<walk, chan, batch, scanned>>

(* recv_timeout: nothing came for FLUSH_INTERVAL.                           *)
TimeoutFlush ==
  /\ scanned = "no" /\ chan = <<>> /\ ~Ended /\ batch # <<>>
  /\ Insertable(batch)
  /\ temp' = Inserted(batch) /\ batch' = <<>>
  /\ UNCHANGED <<walk, chan, scanned>>

(* Mutant: the last batch is not flushed.                                   *)
DisconnectedDrops ==
  /\ scanned = "no" /\ chan = <<>> /\ Ended
  /\ batch' = <<>>
  /\ scanned' = IF walk.at = "done" THEN "ok" ELSE "err"
  /\ UNCHANGED <<walk, chan, temp>>

(* The last flush, and what the producer returned.                          *)
Disconnected ==
  /\ scanned = "no" /\ chan = <<>> /\ Ended
  /\ Insertable(batch)
  /\ temp' = Inserted(batch) /\ batch' = <<>>
  /\ scanned' = IF walk.at = "done" THEN "ok" ELSE "err"
  /\ UNCHANGED <<walk, chan>>

(* A UNIQUE violation ends batch_scan, from whichever flush.                *)
InsertFails ==
  /\ scanned = "no"
  /\ \/ chan # <<>> /\ Len(batch) + 1 >= BatchSize /\ ~Insertable(Append(batch, Head(chan)))
     \/ chan = <<>> /\ batch # <<>> /\ ~Insertable(batch)
  /\ scanned' = "err"
  /\ UNCHANGED <<walk, chan, batch, temp>>

Consume == Receive \/ ReceiveFull \/ TimeoutFlush \/ Disconnected \/ InsertFails
=============================================================================
