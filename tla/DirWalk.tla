------------------------------ MODULE DirWalk -------------------------------
(***************************************************************************)
(* The hybrid directory lister (src/uring_fs/core.rs, open_dir, next_batch *)
(* and DirWalk): an open directory stream passed between the reactor and a *)
(* pool worker, one batch of names at a time.  The handler may drop the    *)
(* walk, and the pool a job, at any moment.                                *)
(***************************************************************************)
EXTENDS Integers, Sequences, SequencesExt, FiniteSets

CONSTANTS
  Listing,   \* the directory: its entries in order, "." and ".." included
  DirBatch         \* names in a batch

VARIABLE dw

Dots == {".", ".."}

\* The stream (a kernel object), the walk (DirWalkInner), and the job that
\* carries a SendDir or the result of one.
DirInit ==
  dw = [stream |-> "none", pos |-> 0, closes |-> 0,
        walk |-> "none", dp |-> FALSE, in_flight |-> FALSE,
        job |-> "none", carries |-> FALSE, batch |-> <<>>, eod |-> FALSE,
        seen |-> <<>>, told |-> "more"]

\* SendDir::drop and DirWalk::drop
Closedir(d) == [d EXCEPT !.stream = "closed", !.closes = @ + 1]

DropCarried(d) ==
  [(IF d.carries THEN Closedir(d) ELSE d) EXCEPT !.carries = FALSE,
                                                !.job = "none"]

\* open_dir: the offload dups and opens the stream.
OpenDir ==
  /\ dw.walk = "none" /\ dw.job = "none" /\ dw.stream = "none"
  /\ dw' = [dw EXCEPT !.job = "opened", !.carries = TRUE, !.stream = "open"]

\* fdopendir fails, or the open did: no stream, nothing to close.
OpenDirFails ==
  /\ dw.walk = "none" /\ dw.job = "none" /\ dw.stream = "none"
  /\ dw' = [dw EXCEPT !.told = "error"]

\* on_ready is given the walk, which takes the stream over.
WalkReady ==
  /\ dw.job = "opened"
  /\ dw' = [dw EXCEPT !.walk = "held", !.dp = TRUE, !.job = "none",
                      !.carries = FALSE]

\* next_batch: refused while a batch has the stream or the stream is gone.
NextBatch ==
  /\ dw.walk = "held" /\ ~dw.in_flight /\ dw.dp
  /\ dw' = [dw EXCEPT !.in_flight = TRUE, !.dp = FALSE, !.job = "queued",
                      !.carries = TRUE, !.batch = <<>>, !.eod = FALSE]

NextBatchRefused ==
  /\ dw.walk = "held" /\ (dw.in_flight \/ ~dw.dp)
  /\ UNCHANGED dw

\* One readdir by the worker.
Readdir ==
  /\ dw.job = "queued" /\ Len(dw.batch) < DirBatch /\ ~dw.eod
  /\ IF dw.pos = Len(Listing)
     THEN dw' = [dw EXCEPT !.eod = TRUE]
     ELSE LET name == Listing[dw.pos + 1]
          IN  dw' = [dw EXCEPT !.pos = @ + 1,
                       !.batch = IF name \in Dots THEN @ ELSE Append(@, name)]

BatchRead ==
  /\ dw.job = "queued" /\ (Len(dw.batch) = DirBatch \/ dw.eod)
  /\ dw' = [dw EXCEPT !.job = "batch"]

\* readdir fails: the error replaces the names already read.
ReaddirFails ==
  /\ dw.job = "queued" /\ Len(dw.batch) < DirBatch /\ ~dw.eod
  /\ dw' = [dw EXCEPT !.job = "error", !.batch = <<>>]

\* The job panics: its frame drops the SendDir.
BatchPanics ==
  /\ dw.job = "queued"
  /\ dw' = [DropCarried(dw) EXCEPT !.job = "panic"]

\* The completion of a batch on the reactor.
BatchDelivered ==
  /\ dw.job \in {"batch", "error", "panic"}
  /\ dw' = IF dw.walk = "dropped" THEN DropCarried(dw)
           ELSE [dw EXCEPT
                   !.dp = dw.carries, !.in_flight = FALSE, !.job = "none",
                   !.carries = FALSE,
                   !.seen = IF dw.job = "batch" THEN @ \o dw.batch ELSE @,
                   !.told = IF dw.job # "batch" \/ @ = "error" THEN "error"
                            ELSE IF dw.eod THEN "eod" ELSE @]

\* A mutant: the stream is closed though a batch has it.
DropWalkAlways ==
  /\ dw.walk = "held"
  /\ dw' = [Closedir(dw) EXCEPT !.walk = "dropped", !.dp = FALSE]

\* DirWalk::drop
DropWalk ==
  /\ dw.walk = "held"
  /\ dw' = [(IF ~dw.in_flight /\ dw.dp THEN Closedir(dw) ELSE dw) EXCEPT
              !.walk = "dropped", !.dp = FALSE]

\* The owner is gone: a job that waits, or a result nobody takes, is dropped
\* with its completion.  A walk that outlives it stays in flight.
JobDropped ==
  /\ dw.job # "none"
  /\ dw' = DropCarried(dw)

DirNext ==
  \/ OpenDir \/ OpenDirFails \/ WalkReady \/ NextBatch \/ NextBatchRefused
  \/ Readdir \/ BatchRead \/ ReaddirFails \/ BatchPanics \/ BatchDelivered
  \/ DropWalk \/ JobDropped

-----------------------------------------------------------------------------
\* The DIR* has one owner at a time, the walk or the job, it is closed once
\* and only when it has none: a worker never reads a closed stream and no
\* order of drops, panics and late results leaks it.
StreamOwned ==
  /\ dw.closes <= 1
  /\ ~(dw.dp /\ dw.carries)
  /\ (dw.stream = "open") <=> (dw.dp \/ dw.carries)

\* The batches lose nothing silently: until a batch reported an error, what the
\* handler has seen is a prefix of the directory's names, and all of them once
\* it was told of the end.
WalkComplete ==
  LET names == SelectSeq(Listing, LAMBDA n : n \notin Dots)
  IN  /\ dw.told # "error" => IsPrefix(dw.seen, names)
      /\ dw.told = "eod" => dw.seen = names

-----------------------------------------------------------------------------
(***************************************************************************)
(* Directory reads over a descriptor the caller supplies                   *)
(* (src/sync_fs/dir.rs): Listing, which a peer resumes from a cookie, and  *)
(* read_names, which takes the whole directory through a stream.  Both     *)
(* work on a duplicate, so the read position is the description's.         *)
(*                                                                         *)
(* The directory is a sequence of slots; the cookie of an entry is its     *)
(* slot.  Names go away while it is read.                                  *)
(***************************************************************************)

CONSTANTS
  Slots,      \* [name, type]: what the directory holds at first
  MaxSeeks    \* how often a peer resumes (a bound)

VARIABLE lr

\* `got` and `since` are the entries handed out and the names there since the
\* last seek; `fds` the duplicates open.
ReadInit ==
  \E use \in {"listing", "names"} :
    lr = [use |-> use, at |-> "closed", fds |-> 0, pos |-> 0, buffer |-> <<>>,
          live |-> DOMAIN Slots, gone |-> FALSE, from |-> 0, got |-> <<>>,
          since |-> DOMAIN Slots, seeks |-> 0, result |-> "none"]

\* NameKind::from_d_type
FromDType(t) == IF t \in {"dir", "file", "symlink", "unknown"} THEN t ELSE "other"

-----------------------------------------------------------------------------
\* getdents64 from the description's position: a run of the slots still there.
Left(d) == SelectSeq([i \in 1..Len(Slots) |-> i], LAMBDA i : i > d.pos /\ i \in d.live)

Getdents(d) ==
  {[d EXCEPT !.pos = IF n = 0 THEN @ ELSE Left(d)[n], !.buffer = SubSeq(Left(d), 1, n)] :
     n \in IF Left(d) = <<>> THEN {0} ELSE 1..Len(Left(d))}

Errs(d) == [d EXCEPT !.result = "err"]
Ends(d) == [d EXCEPT !.result = "end"]

\* Listing::fill: a removed directory (ENOENT) has no more entries, and any
\* other error is the caller's.
Fill(d) ==
  IF d.gone THEN {Ends(d), Errs(d)}
  ELSE {IF e.buffer = <<>> THEN Ends(e) ELSE e : e \in Getdents(d)} \cup {Errs(d)}

\* A record as the buffer holds it.
Record(i) == [name |-> Slots[i].name, cookie |-> i, kind |-> FromDType(Slots[i].type)]
IsDot(r) == r.name \in Dots

\* One record, dot entries passed over; the entry carries its own cookie.
Take(d) ==
  LET r == Record(Head(d.buffer))
      e == [d EXCEPT !.buffer = Tail(@)]
  IN  IF IsDot(r) THEN e ELSE [e EXCEPT !.got = Append(@, r)]

\* Listing::seek
\* Mutant: the records of the old place are still read out.
SeekKeeps(d, cookie) ==
  [d EXCEPT !.pos = cookie, !.from = cookie, !.got = <<>>,
            !.since = d.live, !.result = "none"]

SeekTo(d, cookie) ==
  [d EXCEPT !.buffer = <<>>, !.pos = cookie, !.from = cookie, !.got = <<>>,
            !.since = d.live, !.result = "none"]

-----------------------------------------------------------------------------

Again(d) == [d EXCEPT !.result = "none"]

\* Listing::open, from the start: the duplicate is closed again where the
\* descriptor is no directory or the seek fails.
ListingOpen ==
  /\ lr.use = "listing" /\ lr.at = "closed"
  /\ \/ lr' = [SeekTo(lr, 0) EXCEPT !.at = "open", !.fds = @ + 1]
     \/ lr' = [Errs(lr) EXCEPT !.at = "done"]

\* A peer resumes after an entry it was given, or starts over; lseek can fail,
\* the buffer already dropped.
Seek ==
  \E cookie \in {0} \cup {lr.got[i].cookie : i \in DOMAIN lr.got} :
    /\ lr.use = "listing" /\ lr.at = "open" /\ lr.seeks < MaxSeeks
    /\ lr' = [SeekTo(lr, cookie) EXCEPT !.seeks = @ + 1]

ListingRead ==
  /\ lr.use = "listing" /\ lr.at = "open"
  /\ IF lr.buffer = <<>> THEN lr' \in Fill(Again(lr)) ELSE lr' = Take(Again(lr))

\* read_names: what was read so far goes with an error, and the stream closes
\* its descriptor on the way out.
ReadNames(d) ==
  IF d.result = "none" THEN d
  ELSE [d EXCEPT !.at = "done", !.fds = @ - 1,
                 !.got = IF d.result = "err" THEN <<>> ELSE @]

\* Dir::from_fd on the duplicate, closed again if refused; the stream is
\* rewound before the first record.
NamesOpen ==
  /\ lr.use = "names" /\ lr.at = "closed"
  /\ \E before \in DOMAIN Slots \cup {0} :
       lr' \in {[SeekTo([lr EXCEPT !.pos = before], 0) EXCEPT !.at = "open", !.fds = @ + 1],
                [Errs(lr) EXCEPT !.at = "done"]}

\* Dir::next_entry and read_record: a null record is the end only with no
\* error set beside it.
NamesNext ==
  /\ lr.use = "names" /\ lr.at = "open"
  /\ \E d \in IF lr.buffer = <<>> THEN Fill(lr) ELSE {Take(lr)} : lr' = ReadNames(d)

Close ==
  /\ lr.use = "listing" /\ lr.at = "open"
  /\ lr' = [lr EXCEPT !.at = "done", !.fds = @ - 1]

\* Another process removes a name, and at last the directory itself.
Unlinked ==
  \E i \in lr.live :
    /\ Slots[i].name \notin Dots
    /\ lr' = [lr EXCEPT !.live = @ \ {i}, !.since = @ \ {i}]

Rmdired ==
  /\ ~lr.gone /\ \A i \in lr.live : Slots[i].name \in Dots
  /\ lr' = [lr EXCEPT !.gone = TRUE, !.since = {}]

ReadNext == ListingOpen \/ Seek \/ ListingRead \/ NamesOpen \/ NamesNext \/ Close
            \/ Unlinked \/ Rmdired

-----------------------------------------------------------------------------

Named(d) == {i \in d.since : i > d.from /\ Slots[i].name \notin Dots}

\* A listing goes on exactly after the cookie it was resumed from: entries come
\* in order, none twice and none from before it, and an end is reported only
\* once every name that stayed has been given.  read_names gives the whole
\* directory or an error, wherever the description stood, and a finished read
\* leaves no descriptor open (Listing::read, seek, read_names, Dir).
ListingResumes ==
  /\ \A i \in DOMAIN lr.got :
       /\ lr.got[i].cookie > lr.from
       /\ i > 1 => lr.got[i].cookie > lr.got[i - 1].cookie
       /\ lr.got[i].name \notin Dots
  /\ lr.result = "end" => Named(lr) \subseteq {lr.got[i].cookie : i \in DOMAIN lr.got}
  /\ lr.at = "done" => lr.fds = 0
=============================================================================
