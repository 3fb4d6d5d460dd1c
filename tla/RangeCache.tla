----------------------------- MODULE RangeCache -----------------------------
(***************************************************************************)
(* The range cache behind native drag-out (src/src/sftp-range-cache.ts):   *)
(* the blocks of one remote file fetched so far, in a data file with a     *)
(* list of ranges, the list kept in memory and now and then written beside *)
(* the data.  Readers (streams) of the same file share both.  The cache is *)
(* one directory, which the user clears and a timer expires                *)
(* (src/src/sftp-session.ts).                                              *)
(*                                                                         *)
(* A block is a chunk.  A loss is a loss of power: the blocks written      *)
(* since the last sync may or may not be there.  Removal is taken to last. *)
(***************************************************************************)
EXTENDS Integers, Sequences, SequencesExt

CONSTANTS
  Readers,      \* streams of the file at a time
  Size,         \* blocks of the file
  Retries,      \* options.retries, 2 in the code
  MaxReads,     \* bound on streams opened
  MaxFiles,     \* bound on data files made: removals are bounded by it
  MaxRestarts,  \* bound on restarts, those after a loss of power included
  MaxFailures   \* bound on writes of the metadata that fail though the directory is there

ASSUME RangeAssumption ==
  /\ Size \in Nat \ {0} /\ Retries \in Nat /\ MaxReads \in Nat
  /\ MaxFiles \in Nat /\ MaxRestarts \in Nat /\ MaxFailures \in Nat

Blocks == 0..(Size - 1)
Span == {r \in Blocks \X Blocks : r[1] <= r[2]}
Covers(ranges) == UNION {(ranges[i][1])..(ranges[i][2]) : i \in DOMAIN ranges}

VARIABLES
  root,      \* the directory exists
  file,      \* the data file under its name, 0 if there is none
  files,     \* number of data files made
  data,      \* the blocks of `file` that hold what the source holds
  synced,    \* those a loss of power leaves
  meta,      \* the ranges of the metadata file; <<>> without one
  known,     \* states has the file
  ranges,    \* state.ranges
  dirty,     \* state.dirty
  lease,     \* activeSftpDragStaging: "none", "held" (infinite), "grace"
  reader,    \* the streams
  reads, restarts, failures,
  undercut,  \* history: a data file was removed or emptied while states had it
  shared     \* history: two streams were open at a time

rvars == <<root, file, files, data, synced, meta, known, ranges, dirty, lease,
           reader, reads, restarts, failures, undercut, shared>>
disk == <<root, file, files, data, synced, meta>>
counts == <<reads, restarts, failures, shared>>

NoReader == [pc |-> "none", lo |-> 0, hi |-> 0, fd |-> 0, segs |-> <<>>,
             at |-> 0, from |-> 0, tries |-> 0, then |-> "none", got |-> <<>>]
Busy(r) == reader[r].pc \notin {"none", "done", "failed"}

RInit ==
  /\ root = FALSE /\ file = 0 /\ files = 0 /\ data = {} /\ synced = {} /\ meta = <<>>
  /\ known = FALSE /\ ranges = <<>> /\ dirty = FALSE /\ lease = "none"
  /\ reader = [r \in Readers |-> NoReader]
  /\ reads = 0 /\ restarts = 0 /\ failures = 0 /\ undercut = FALSE /\ shared = FALSE

-----------------------------------------------------------------------------
(* addRange: the ranges with a..b among them, joined to those it touches. *)
AddRange(rs, a, b) ==
  LET Step(m, r) ==
        IF r[2] + 1 < m.first THEN [m EXCEPT !.out = Append(@, r)]
        ELSE IF m.last + 1 < r[1]
        THEN [m EXCEPT !.out = IF m.in THEN Append(@, r) ELSE @ \o <<<<m.first, m.last>>, r>>, !.in = TRUE]
        ELSE [m EXCEPT !.first = IF r[1] < @ THEN r[1] ELSE @, !.last = IF r[2] > @ THEN r[2] ELSE @]
      m == FoldLeft(Step, [out |-> <<>>, first |-> a, last |-> b, in |-> FALSE], rs)
  IN  IF m.in THEN m.out ELSE Append(m.out, <<m.first, m.last>>)

(* The piece of a list of segments that has the blocks a to b. *)
Piece(a, b, cached) == [a |-> a, b |-> b, cached |-> cached]

(* Mutant: a range that begins before the request is not clipped to it. *)
SegmentsUnclipped(rs, lo, hi) ==
  LET Step(m, r) ==
        IF m.cursor > hi \/ r[2] < m.cursor \/ r[1] > hi THEN m
        ELSE [segs |-> (IF r[1] > m.cursor THEN Append(m.segs, Piece(m.cursor, r[1] - 1, FALSE)) ELSE m.segs)
                       \o <<Piece(r[1], IF r[2] < hi THEN r[2] ELSE hi, TRUE)>>,
              cursor |-> r[2] + 1]
      m == FoldLeft(Step, [segs |-> <<>>, cursor |-> lo], rs)
  IN  IF m.cursor <= hi THEN Append(m.segs, Piece(m.cursor, hi, FALSE)) ELSE m.segs

(* segmentsForRange: lo..hi cut into what is cached and what is not.  Past  *)
(* hi, and at a range that begins there, the code leaves the loop.          *)
SegmentsForRange(rs, lo, hi) ==
  LET Step(m, r) ==
        IF m.cursor > hi \/ r[2] < m.cursor \/ r[1] > hi THEN m
        ELSE LET to == IF r[2] < hi THEN r[2] ELSE hi IN
             IF r[1] > m.cursor
             THEN [segs |-> m.segs \o <<Piece(m.cursor, r[1] - 1, FALSE), Piece(r[1], to, TRUE)>>, cursor |-> to + 1]
             ELSE [segs |-> Append(m.segs, Piece(m.cursor, to, TRUE)), cursor |-> to + 1]
      m == FoldLeft(Step, [segs |-> <<>>, cursor |-> lo], rs)
  IN  IF m.cursor <= hi THEN Append(m.segs, Piece(m.cursor, hi, FALSE)) ELSE m.segs

-----------------------------------------------------------------------------
(* openNativeSftpDragTicketFile and openCachedRange: the lease, and the     *)
(* ranges of memory, or else of the disk when it has the data (loadState).  *)
Open(r) ==
  /\ ~Busy(r) /\ reads < MaxReads
  /\ reads' = reads + 1
  /\ shared' = (shared \/ \E q \in Readers \ {r} : Busy(q))
  /\ lease' = "held"
  /\ \E s \in Span : reader' = [reader EXCEPT ![r] = [NoReader EXCEPT !.pc = "new", !.lo = s[1], !.hi = s[2]]]
  /\ IF known THEN UNCHANGED <<root, known, ranges, dirty>>
     ELSE /\ known' = TRUE /\ root' = TRUE /\ dirty' = FALSE
          /\ ranges' = IF file = 0 THEN <<>> ELSE meta
  /\ UNCHANGED <<file, files, data, synced, meta, restarts, failures, undercut>>

(* loadState for another file of the cache makes the directory. *)
OpenOther ==
  /\ ~root /\ reads < MaxReads
  /\ root' = TRUE /\ reads' = reads + 1
  /\ UNCHANGED <<file, files, data, synced, meta, known, ranges, dirty, lease, reader, restarts, failures, undercut, shared>>

(* The first pull: fs.existsSync picks the mode of fs.promises.open. *)
Probe(r) ==
  /\ reader[r].pc = "new"
  /\ reader' = [reader EXCEPT ![r].pc = IF file = 0 THEN "making" ELSE "opening"]
  /\ UNCHANGED <<disk, known, ranges, dirty, lease, counts, undercut>>

(* A stream that ends, in whatever way, turns the lease into a grace.       *)
Leaves(r, pc) ==
  /\ reader' = [reader EXCEPT ![r] = [NoReader EXCEPT !.pc = pc]]
  /\ lease' = "grace"

Opened(r, f) == reader' = [reader EXCEPT ![r] = [@ EXCEPT !.pc = "segment", !.fd = f,
                                                        !.segs = SegmentsForRange(ranges, reader[r].lo, reader[r].hi)]]

(* "w+" makes the file, or empties the one another stream has made since;   *)
(* truncate gives it its size.                                              *)
MakeFile(r) ==
  /\ reader[r].pc = "making"
  /\ IF ~root THEN Leaves(r, "failed") /\ UNCHANGED <<disk, undercut>>
     ELSE /\ IF file = 0 THEN files < MaxFiles /\ files' = files + 1 /\ file' = files + 1
                         ELSE UNCHANGED <<files, file>>
          /\ data' = {} /\ synced' = {}
          /\ undercut' = (undercut \/ file # 0)
          /\ Opened(r, file')
          /\ UNCHANGED <<root, meta, lease>>
  /\ UNCHANGED <<known, ranges, dirty, counts>>

OpenFile(r) ==
  /\ reader[r].pc = "opening"
  /\ IF file = 0 THEN Leaves(r, "failed") ELSE Opened(r, file) /\ UNCHANGED lease
  /\ UNCHANGED <<disk, known, ranges, dirty, counts, undercut>>

-----------------------------------------------------------------------------
(* The generator of a stream, between its awaits. *)

Segment(r) == Head(reader[r].segs)
Gets(r, bs) == reader[r].got \o [i \in 1..Len(bs) |-> [block |-> bs[i], right |-> bs[i] \in data]]

(* A cached segment is delivered. *)
Taken(r) ==
  LET s == Segment(r) IN
  [reader[r] EXCEPT !.segs = Tail(@), !.got = Gets(r, [i \in 1..(s.b - s.a + 1) |-> s.a + i - 1])]

(* It is read from the file of that name, not from the one the stream has   *)
(* open.                                                                    *)
ReadCached(r) ==
  /\ reader[r].pc = "segment" /\ reader[r].segs # <<>> /\ Segment(r).cached
  /\ reader' = [reader EXCEPT ![r] = IF file = 0 THEN [@ EXCEPT !.pc = "flush", !.then = "failed"] ELSE Taken(r)]
  /\ UNCHANGED <<disk, known, ranges, dirty, lease, counts, undercut>>

BeginFetch(r) ==
  /\ reader[r].pc = "segment" /\ reader[r].segs # <<>> /\ ~Segment(r).cached
  /\ reader' = [reader EXCEPT ![r] = [@ EXCEPT !.pc = "source", !.at = Segment(r).a, !.from = Segment(r).a, !.tries = 0]]
  /\ UNCHANGED <<disk, known, ranges, dirty, lease, counts, undercut>>

EndOfSegments(r) ==
  /\ reader[r].pc = "segment" /\ reader[r].segs = <<>>
  /\ reader' = [reader EXCEPT ![r] = [@ EXCEPT !.pc = "flush", !.then = "done"]]
  /\ UNCHANGED <<disk, known, ranges, dirty, lease, counts, undercut>>

(* A chunk arrives and is written at the cursor (writeAt). *)
WriteChunk(r) ==
  /\ reader[r].pc = "source"
  /\ IF reader[r].fd = file THEN data' = data \cup {reader[r].at} ELSE UNCHANGED data
  /\ reader' = [reader EXCEPT ![r] = [@ EXCEPT !.pc = "written", !.at = reader[r].at + 1]]
  /\ UNCHANGED <<root, file, files, synced, meta, known, ranges, dirty, lease, counts, undercut>>

Recorded(r) == AddRange(ranges, reader[r].from, reader[r].at - 1)

(* The chunk goes to the consumer, out of the buffer. *)
Emitted(d) ==
  LET last == d.at > Head(d.segs).b IN
  [d EXCEPT !.got = Append(@, [block |-> d.at - 1, right |-> TRUE]),
            !.pc = IF last THEN "flush" ELSE "source", !.then = IF last THEN "next" ELSE "none"]

(* The write is done: the range is recorded, flushed when a second or a     *)
(* megabyte has passed since the last time, and the chunk yielded.          *)
RecordChunk(r) ==
  /\ reader[r].pc = "written"
  /\ ranges' = Recorded(r) /\ dirty' = TRUE
  /\ \/ reader' = [reader EXCEPT ![r] = Emitted(@)]
     \/ reader' = [reader EXCEPT ![r] = [@ EXCEPT !.pc = "flush", !.then = "emit"]]
  /\ UNCHANGED <<disk, known, lease, counts, undercut>>

(* The source cannot be opened, fails or ends early, or the flush above has *)
(* thrown: another try, from the cursor, after what came in this one is     *)
(* recorded and flushed.                                                    *)
Again(r) == IF reader[r].tries >= Retries THEN "throw" ELSE "retry"

SourceFails(r) ==
  LET d == reader[r]
      Becomes(e) == reader' = [reader EXCEPT ![r] = e]
  IN
  /\ d.pc = "source"
  /\ \/ /\ d.at > d.from
        /\ ranges' = Recorded(r) /\ dirty' = TRUE
        /\ Becomes([d EXCEPT !.pc = "flush", !.then = Again(r)])
     \/ /\ d.at = d.from
        /\ UNCHANGED <<ranges, dirty>>
        /\ \/ d.tries >= Retries /\ Becomes([d EXCEPT !.pc = "flush", !.then = "failed"])
           \/ d.tries < Retries /\ Becomes([d EXCEPT !.tries = @ + 1])
  /\ UNCHANGED <<disk, known, lease, counts, undercut>>

(* Mutant: the metadata need not wait for the data. *)
SyncsNothing(r) == IF reader[r].fd = file THEN synced \cap data ELSE synced
(* file.sync, of the file the stream has open *)
Syncs(r) == IF reader[r].fd = file THEN data ELSE synced

(* flushState: sync, and after it persistState. *)
Sync(r) ==
  /\ reader[r].pc = "flush" /\ dirty
  /\ synced' = Syncs(r)
  /\ reader' = [reader EXCEPT ![r].pc = "persist"]
  /\ UNCHANGED <<root, file, files, data, meta, known, ranges, dirty, lease, counts, undercut>>

(* What follows a flush. *)
Continues(r) ==
  LET d == reader[r] IN
  IF d.then \in {"done", "failed"} THEN Leaves(r, d.then)
  ELSE /\ UNCHANGED lease
       /\ reader' = [reader EXCEPT ![r] =
            CASE d.then = "emit" -> Emitted(d)
              [] d.then = "next" \/ (d.then = "retry" /\ d.at > Segment(r).b) ->
                   [d EXCEPT !.pc = "segment", !.then = "none", !.segs = Tail(@), !.at = 0, !.from = 0, !.tries = 0]
              [] d.then = "throw" -> [d EXCEPT !.pc = "flush", !.then = "failed"]
              [] d.then = "retry" /\ d.at <= Segment(r).b -> [d EXCEPT !.pc = "source", !.then = "none", !.from = d.at, !.tries = @ + 1]]

NothingToFlush(r) ==
  /\ reader[r].pc = "flush" /\ ~dirty
  /\ Continues(r)
  /\ UNCHANGED <<disk, known, ranges, dirty, counts, undercut>>

Persist(r) ==
  /\ reader[r].pc = "persist" /\ (dirty => root)
  /\ meta' = IF dirty THEN ranges ELSE meta
  /\ dirty' = FALSE
  /\ Continues(r)
  /\ UNCHANGED <<root, file, files, data, synced, known, ranges, counts, undercut>>

(* The metadata cannot be written: in the loop that is caught as a failure  *)
(* of the source is, in that handler the stream's finally follows, and      *)
(* there it ends the stream.                                                *)
PersistFails(r) ==
  /\ reader[r].pc = "persist" /\ dirty
  /\ root => failures < MaxFailures
  /\ failures' = IF root THEN failures + 1 ELSE failures
  /\ LET Flushes(then) == reader' = [reader EXCEPT ![r] = [@ EXCEPT !.pc = "flush", !.then = then]] /\ UNCHANGED lease IN
     CASE reader[r].then \in {"emit", "next"} -> Flushes(Again(r))
       [] reader[r].then \in {"retry", "throw"} -> Flushes("failed")
       [] OTHER -> Leaves(r, "failed")
  /\ UNCHANGED <<disk, known, ranges, dirty, reads, restarts, shared, undercut>>

(* The consumer is gone: the generator returns where it has yielded. *)
Abandon(r) ==
  /\ reader[r].pc \in {"segment", "source"} \/ reader[r].then = "next"
  /\ reader[r].pc # "persist" /\ reader[r].got # <<>>
  /\ reader' = [reader EXCEPT ![r] = [@ EXCEPT !.pc = "flush", !.then = "failed"]]
  /\ UNCHANGED <<disk, known, ranges, dirty, lease, counts, undercut>>

-----------------------------------------------------------------------------
(* clearSftpDragCache removes the directory unless the lease is infinite;   *)
(* cleanupSftpDragStaging does so when it is old and the grace has passed.  *)
(* states is left as it is.                                                 *)
RemoveCache ==
  /\ root /\ lease # "held" /\ files < MaxFiles
  /\ root' = FALSE /\ file' = 0 /\ data' = {} /\ synced' = {} /\ meta' = <<>>
  /\ lease' = "none"
  /\ undercut' = (undercut \/ known)
  /\ UNCHANGED <<files, known, ranges, dirty, reader, counts>>

(* The process ends; after a loss of power any of the blocks not synced may *)
(* be gone.                                                                 *)
RestartReaders ==
  /\ restarts < MaxRestarts
  /\ restarts' = restarts + 1
  /\ \E lost \in SUBSET (data \ synced) : data' = data \ lost /\ synced' = (synced \cap data) \ lost
  /\ known' = FALSE /\ ranges' = <<>> /\ dirty' = FALSE /\ lease' = "none"
  /\ reader' = [r \in Readers |-> NoReader]
  /\ UNCHANGED <<root, file, files, meta, reads, failures, undercut, shared>>

Read(r) ==
  \/ Probe(r) \/ MakeFile(r) \/ OpenFile(r) \/ ReadCached(r) \/ BeginFetch(r) \/ EndOfSegments(r)
  \/ WriteChunk(r) \/ RecordChunk(r) \/ SourceFails(r) \/ Sync(r) \/ NothingToFlush(r) \/ Persist(r) \/ PersistFails(r)

RNext == OpenOther \/ RemoveCache \/ RestartReaders \/ \E r \in Readers : Open(r) \/ Read(r) \/ Abandon(r)
RSpec == RInit /\ [][RNext]_rvars

-----------------------------------------------------------------------------
RTypeOK ==
  /\ root \in BOOLEAN /\ file \in 0..files /\ files \in 0..MaxFiles
  /\ data \subseteq Blocks /\ synced \subseteq Blocks
  /\ meta \in Seq(Span) /\ ranges \in Seq(Span)
  /\ known \in BOOLEAN /\ dirty \in BOOLEAN /\ lease \in {"none", "held", "grace"}
  /\ \A r \in Readers :
       /\ reader[r].pc \in {"none", "new", "making", "opening", "segment", "source", "written",
                            "flush", "persist", "done", "failed"}
       /\ reader[r].fd \in 0..files /\ reader[r].at \in 0..Size /\ reader[r].tries \in 0..Retries

(* The list of ranges stays what segmentsForRange takes it for: ascending,  *)
(* without overlap, and joined wherever two ranges touch.                   *)
RangesApart ==
  \A i \in 1..(Len(ranges) - 1) : ranges[i][2] + 1 < ranges[i + 1][1]

(* What memory calls cached is in the data file, as long as that stays and  *)
(* no restart follows streams that were open at a time.                     *)
Kept == ~undercut /\ (shared => restarts = 0)
MemoryIsOnDisk == Kept /\ known => Covers(ranges) \subseteq data

(* What the metadata calls cached survives a loss of power (flushState      *)
(* syncs the data first), as long as one stream at a time is open.          *)
MetadataIsSynced == ~undercut /\ ~shared => Covers(meta) \subseteq synced

(* A stream delivers the blocks asked for, in order, each once and as the   *)
(* source has it, whatever was cached and however often the source failed.  *)
Delivers(r) ==
  /\ \A i \in DOMAIN reader[r].got : reader[r].got[i] = [block |-> reader[r].lo + i - 1, right |-> TRUE]
  /\ reader[r].then = "done" => Len(reader[r].got) = reader[r].hi - reader[r].lo + 1
DeliversSource == \A r \in Readers : Delivers(r)
(* It does so until the data file is removed or emptied under the process,  *)
(* or a restart follows streams that were open at a time: one of them may   *)
(* have had ranges written whose blocks the other had not synced, which a   *)
(* loss of power takes.                                                     *)
DeliversUntilUndercut == Kept => DeliversSource

(* A clear does not remove the directory a stream is writing to.            *)
WritersSurviveClear == [][root /\ ~root' => \A r \in Readers : ~Busy(r)]_rvars
=============================================================================
