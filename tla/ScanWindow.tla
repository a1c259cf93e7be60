----------------------------- MODULE ScanWindow -----------------------------
(***************************************************************************)
(* The read-ahead window of the recovery scan (struct ScanWindow of        *)
(* blockstore/src/store.rs): a copy of a part of one data file, refilled   *)
(* when a read is not wholly inside it.  A window is a value; the scan     *)
(* keeps the one the last read left behind.                                *)
(***************************************************************************)
EXTENDS Integers, Sequences

CONSTANT DefaultSize  \* ScanWindow::DEFAULT_BYTES, in cells

(* ScanWindow::new: holds no file yet. *)
EmptyWindow == [file |-> -1, start |-> 0, buf |-> <<>>, room |-> DefaultSize]

(* Faulty variant: does not ask which file the window holds. *)
ResidentAnyFile(w, f, o, n) == o >= w.start /\ o + n <= w.start + Len(w.buf)

(* The n cells at offset o of file f are all in the window. *)
Resident(w, f, o, n) ==
  w.file = f /\ o >= w.start /\ o + n <= w.start + Len(w.buf)

(***************************************************************************)
(* The window begins at o and reaches as far as it has room and the file,  *)
(* whose cells are given, goes; a block larger than the window grows it.   *)
(***************************************************************************)
Refill(w, f, o, n, cells) ==
  LET room == IF n > w.room THEN n ELSE w.room
      want == IF Len(cells) - o < room THEN Len(cells) - o ELSE room
  IN [file |-> f, start |-> o, buf |-> SubSeq(cells, o + 1, o + want), room |-> room]

(***************************************************************************)
(* ScanWindow::read: the window after the read of n cells at o, and what   *)
(* the read returns from it.  Only called with o + n <= Len(cells).        *)
(***************************************************************************)
After(w, f, o, n, cells) ==
  IF Resident(w, f, o, n) THEN w ELSE Refill(w, f, o, n, cells)

Bytes(w, o, n) == SubSeq(w.buf, o - w.start + 1, o - w.start + n)

=============================================================================
