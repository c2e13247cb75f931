--------------------------- MODULE ReaderRenderer ---------------------------
(* The Web Reader (src/reader, src/routes/reader.py): documents and the    *)
(* parts of them that were rendered to audio files, the one worker that    *)
(* renders what the listener needs next, and the HTTP handlers, each in a  *)
(* pool thread.  Database calls are serialised by the store's lock, memory *)
(* by the renderer's condition; a step is what runs between two of those   *)
(* or two file operations.  One model and one voice; every file has size 1.*)
EXTENDS Naturals, FiniteSets, SequencesExt

CONSTANTS Doc, None,
          Outline,          \* document -> its blocks: chapter, heading, chars
          Lookahead, PartChars,
          MaxFiles,         \* READER_CACHE_MAX_MB
          MaxStuck,         \* files at a time that the file system fails on
          Handler, MaxAsks, MaxRestarts

ASSUME ReaderAssumption ==
  /\ None \notin Doc
  /\ \A d \in Doc : Outline[d] \in Seq([chapter : Nat, heading : BOOLEAN, chars : Nat])
  /\ Lookahead \in Nat \ {0} /\ {PartChars, MaxFiles, MaxStuck, MaxAsks, MaxRestarts} \subseteq Nat

VARIABLES doc,        \* "absent", "stored" or "deleted"
          rows,       \* the recorded parts, the least recently used first
          files, tmp, \* in the cache folder
          stuckFiles, stuckTmp, \* history: those of them that the last attempt
                                \* to remove or replace them left behind
          outlines,   \* documents whose outline is in memory
          job, errors,
          stop,       \* the server is going down
          renderer,     \* the renderer's thread
          handler,    \* what each pool thread does
          busy,       \* a Live Reader session is speaking
          asks, restarts

disk   == <<files, tmp, stuckFiles, stuckTmp>>
stored == <<doc, rows, disk>>
memory == <<outlines, job, errors, stop>>
readerVars   == <<stored, memory, renderer, handler, busy, asks, restarts>>

NoJob     == [doc |-> None, parts |-> <<>>]
NoWork    == [pc |-> "none", part |-> None, keep |-> {}]
NoHandler == [pc |-> "free", op |-> None, doc |-> None, from |-> 0, ready |-> {},
              missing |-> {}, parts |-> <<>>]

ReaderInit ==
  /\ doc = [d \in Doc |-> "absent"]
  /\ rows = <<>> /\ files = {} /\ tmp = {} /\ stuckFiles = {} /\ stuckTmp = {}
  /\ outlines = {} /\ job = NoJob /\ errors = {} /\ stop = FALSE
  /\ renderer = NoWork
  /\ handler = [h \in Handler |-> NoHandler]
  /\ busy = FALSE /\ asks = 0 /\ restarts = 0

Part(d, first, last) == [doc |-> d, first |-> first, last |-> last]
Recorded == ToSet(rows)
Of(d)    == {p \in Recorded : p.doc = d}

(* The rows without these parts, in the order they were in.                *)
Without(parts) ==
  LET kept[n \in 0..Len(rows)] ==
        IF n = 0 THEN <<>>
        ELSE IF rows[n] \in parts THEN kept[n - 1] ELSE Append(kept[n - 1], rows[n])
  IN kept[Len(rows)]

(* The file system may fail: on a file that is still being streamed, or in *)
(* the midst of a sweep.  Nobody is told, and what is left stays until the *)
(* next sweep, or the deletion of its document, tries again.               *)
Stuck(inFiles, inTmp) ==
  /\ stuckFiles' = inFiles /\ stuckTmp' = inTmp
  /\ Cardinality(inFiles) + Cardinality(inTmp) <= MaxStuck

Unlink(gone, goneTmp) ==
  \E left \in SUBSET (files \cap gone), leftTmp \in SUBSET (tmp \cap goneTmp) :
    /\ files' = (files \ gone) \cup left
    /\ tmp' = (tmp \ goneTmp) \cup leftTmp
    /\ Stuck((stuckFiles \ gone) \cup left, (stuckTmp \ goneTmp) \cup leftTmp)

-----------------------------------------------------------------------------
(* plan: from the block on, a part that is rendered, one that is queued,   *)
(* or a new one: a heading with what follows it, and unless it is the      *)
(* first as many blocks of the chapter as fit into a part.                 *)
Joins(d, ready, first, i) ==
  /\ i <= Len(Outline[d]) /\ Outline[d][i].chapter = Outline[d][first].chapter
  /\ ~\E p \in ready : p.first = i

Chars(d, first, last) == FoldLeft(LAMBDA n, b : n + b.chars, 0, SubSeq(Outline[d], first, last))

Grows(d, ready, first, last, short) ==
  /\ Joins(d, ready, first, last + 1)
  /\ \/ \A i \in first..last : Outline[d][i].heading
     \/ ~short /\ Chars(d, first, last + 1) <= PartChars

NewPart(d, ready, first, short) ==
  Part(d, first, CHOOSE last \in first..Len(Outline[d]) :
    /\ \A l \in first..(last - 1) : Grows(d, ready, first, l, short)
    /\ ~Grows(d, ready, first, last, short))

(* ready_parts keys the rendered parts by their first block: the longest   *)
(* wins.  One whose file is gone is dropped when the walk comes to it.     *)
Ready(d) ==
  {p \in Of(d) : \A q \in Of(d) : q.first = p.first => q.last <= p.last}

Visit(d, acc, queued, first) ==
  LET gone     == {p \in acc.ready \ files : p.first = first}
      ready    == acc.ready \ gone
      starting == {p \in ready : p.first = first}
      waiting  == {p \in queued : p.first = first}
  IN [ready   |-> ready,
      missing |-> acc.missing \cup gone,
      parts   |-> Append(acc.parts,
                    IF starting \cup waiting = {} THEN NewPart(d, ready, first, acc.parts = <<>>)
                    ELSE CHOOSE p \in (IF starting # {} THEN starting ELSE waiting) : TRUE)]

Reached(acc, from) == IF acc.parts = <<>> THEN from ELSE Last(acc.parts).last + 1

Planned(d, from, readyParts, queued) ==
  LET planned[n \in 0..Lookahead] ==
        IF n = 0 THEN [ready |-> readyParts, missing |-> {}, parts |-> <<>>]
        ELSE LET acc   == planned[n - 1]
                 first == Reached(acc, from)
             IN IF first > Len(Outline[d]) THEN acc ELSE Visit(d, acc, queued, first)
  IN planned[Lookahead]

-----------------------------------------------------------------------------
(* The handlers.                                                           *)
Free(h) == handler[h].pc = "free" /\ asks < MaxAsks /\ ~stop
Go(h, pc) == handler' = [handler EXCEPT ![h].pc = pc]
Done(h) == handler' = [handler EXCEPT ![h] = NoHandler]

(* An import: the document is stored in one transaction.                   *)
Import(d) ==
  /\ doc[d] = "absent" /\ ~stop
  /\ doc' = [doc EXCEPT ![d] = "stored"]
  /\ UNCHANGED <<rows, disk, memory, renderer, handler, busy, asks, restarts>>

Ask(h, op, d, from, pc) ==
  /\ Free(h) /\ doc[d] # "absent"
  /\ handler' = [handler EXCEPT ![h] = [NoHandler EXCEPT !.op = op, !.doc = d, !.from = from,
                                                        !.pc = pc]]
  /\ asks' = asks + 1
  /\ UNCHANGED <<stored, memory, renderer, busy, restarts>>

(* _outline: from memory, or from the store and then into memory; 404 for  *)
(* a document that is in neither.                                          *)
ReadOutline(h) ==
  LET d == handler[h].doc
  IN /\ handler[h].pc = "outline"
     /\ IF d \in outlines THEN Go(h, "ready")
        ELSE IF doc[d] = "stored" THEN Go(h, "remember")
        ELSE Done(h)
     /\ UNCHANGED <<stored, memory, renderer, busy, asks, restarts>>

RememberOutline(h) ==
  /\ handler[h].pc = "remember"
  /\ outlines' = outlines \cup {handler[h].doc}
  /\ Go(h, "ready")
  /\ UNCHANGED <<stored, job, errors, stop, renderer, busy, asks, restarts>>

ReadReady(h) ==
  /\ handler[h].pc = "ready"
  /\ handler' = [handler EXCEPT ![h].pc = "walk", ![h].ready = Ready(handler[h].doc)]
  /\ UNCHANGED <<stored, memory, renderer, busy, asks, restarts>>

(* The walk over the blocks: the parts whose file is gone are found, and   *)
(* forgotten one step later.                                               *)
Walk(h) ==
  LET d       == handler[h].doc
      queued  == IF job.doc = d THEN ToSet(job.parts) ELSE {}
      planned == Planned(d, handler[h].from, handler[h].ready, queued)
  IN /\ handler[h].pc = "walk"
     /\ handler' = [handler EXCEPT ![h].pc = "forget", ![h].ready = {},
                      ![h].missing = planned.missing, ![h].parts = planned.parts]
     /\ UNCHANGED <<stored, memory, renderer, busy, asks, restarts>>

ForgetMissing(h) ==
  /\ handler[h].pc = "forget"
  /\ rows' = Without(handler[h].missing)
  /\ IF handler[h].op = "render" THEN Go(h, "job") ELSE Done(h)
  /\ UNCHANGED <<doc, disk, memory, renderer, busy, asks, restarts>>

(* request: the job is replaced, what failed is tried again, and the       *)
(* worker started where none is alive.                                     *)
SetJob(h) ==
  /\ handler[h].pc = "job"
  /\ errors' = errors \ ToSet(handler[h].parts)
  /\ job' = [doc |-> handler[h].doc, parts |-> handler[h].parts]
  /\ renderer' = IF renderer.pc = "none" THEN [NoWork EXCEPT !.pc = "sweep"] ELSE renderer
  /\ stop' = (stop /\ renderer.pc # "none")
  /\ Done(h)
  /\ UNCHANGED <<stored, outlines, busy, asks, restarts>>

(* Deleting: memory first, then the rows, then the files; that some of     *)
(* them cannot be removed is ignored.                                      *)
ForgetDocument(h) ==
  LET d == handler[h].doc
  IN /\ handler[h].pc = "forgetDocument"
     /\ job' = IF job.doc = d THEN NoJob ELSE job
     /\ outlines' = outlines \ {d}
     /\ errors' = {p \in errors : p.doc # d}
     /\ Go(h, "rows")
     /\ UNCHANGED <<stored, stop, renderer, busy, asks, restarts>>

DeleteRows(h) ==
  LET d == handler[h].doc
  IN /\ handler[h].pc = "rows"
     /\ IF doc[d] = "stored"
        THEN /\ doc' = [doc EXCEPT ![d] = "deleted"]
             /\ rows' = Without(Of(d))
             /\ Go(h, "files")
        ELSE Done(h) /\ UNCHANGED <<doc, rows>>
     /\ UNCHANGED <<disk, memory, renderer, busy, asks, restarts>>

DeleteFiles(h) ==
  LET d == handler[h].doc
  IN /\ handler[h].pc = "files"
     /\ Unlink({p \in files : p.doc = d}, {p \in tmp : p.doc = d})
     /\ Done(h)
     /\ UNCHANGED <<doc, rows, memory, renderer, busy, asks, restarts>>

(* The audio element fetches a part: it counts as played, or is forgotten  *)
(* when its file is gone.                                                  *)
FetchPart(h, p) ==
  /\ Free(h) /\ p \in Recorded
  /\ handler' = [handler EXCEPT ![h] = [NoHandler EXCEPT !.op = "media", !.pc = "serve",
                                                         !.missing = {p}]]
  /\ asks' = asks + 1
  /\ UNCHANGED <<stored, memory, renderer, busy, restarts>>

ServePartUpserting(h) ==
  LET p == CHOOSE q \in handler[h].missing : TRUE
  IN /\ handler[h].pc = "serve"
     /\ rows' = IF p \notin files THEN Without({p}) ELSE Append(Without({p}), p)
     /\ Done(h)
     /\ UNCHANGED <<doc, disk, memory, renderer, busy, asks, restarts>>

ServePart(h) ==
  LET p == CHOOSE q \in handler[h].missing : TRUE
  IN /\ handler[h].pc = "serve"
     /\ rows' = IF p \notin files THEN Without({p})
                ELSE IF p \in Recorded THEN Append(Without({p}), p) ELSE rows
     /\ Done(h)
     /\ UNCHANGED <<doc, disk, memory, renderer, busy, asks, restarts>>

-----------------------------------------------------------------------------
(* The worker.  It starts by reconciling the folder with the table.        *)
At(pc) == renderer.pc = pc
Work(pc) == renderer' = [renderer EXCEPT !.pc = pc]

SweepRows ==
  /\ At("sweep")
  /\ rows' = Without(Recorded \ files)
  /\ renderer' = [NoWork EXCEPT !.pc = "sweepFiles", !.keep = Recorded]
  /\ UNCHANGED <<doc, disk, memory, handler, busy, asks, restarts>>

(* A file that cannot be removed is passed over, an error in the folders   *)
(* ends the sweep; the worker goes on either way.                          *)
SweepFiles ==
  /\ At("sweepFiles")
  /\ Unlink(files \ renderer.keep, tmp)
  /\ renderer' = [NoWork EXCEPT !.pc = "next"]
  /\ UNCHANGED <<doc, rows, memory, handler, busy, asks, restarts>>

(* _next_part: the first of the job that is neither rendered nor failed.   *)
MissingRetried(p) == p \notin Recorded

Missing(p) == p \notin errors /\ p \notin Recorded

Pick ==
  /\ At("next") /\ ~stop
  /\ \E i \in 1..Len(job.parts) :
       /\ Missing(job.parts[i]) /\ \A j \in 1..(i - 1) : ~Missing(job.parts[j])
       /\ renderer' = [NoWork EXCEPT !.pc = "blocks", !.part = job.parts[i]]
  /\ UNCHANGED <<stored, memory, handler, busy, asks, restarts>>

Stopped ==
  /\ At("next") /\ stop
  /\ renderer' = NoWork
  /\ UNCHANGED <<stored, memory, handler, busy, asks, restarts>>

Wanted == ~stop /\ Contains(job.parts, renderer.part)
DropJob == job' = IF job.doc = renderer.part.doc THEN NoJob ELSE job

(* A render that fails is remembered and shown to the listener.            *)
Fail ==
  /\ errors' = errors \cup {renderer.part}
  /\ Work("next")

ReadBlocks ==
  /\ At("blocks")
  /\ IF doc[renderer.part.doc] = "stored" THEN Work("speak") /\ UNCHANGED <<job, errors>>
                                        ELSE DropJob /\ Fail
  /\ UNCHANGED <<stored, outlines, stop, handler, busy, asks, restarts>>

(* Sentence by sentence, waiting while the Live Reader speaks.             *)
Speak ==
  /\ At("speak") /\ ~(busy /\ Wanted)
  /\ IF ~Wanted THEN Work("next") /\ UNCHANGED errors
                ELSE (Work("encoded") /\ UNCHANGED errors) \/ Fail
  /\ UNCHANGED <<stored, outlines, job, stop, handler, busy, asks, restarts>>

LastLook ==
  /\ At("encoded")
  /\ IF Wanted THEN Work("write") ELSE Work("next")
  /\ UNCHANGED <<stored, memory, handler, busy, asks, restarts>>

(* The folder cannot be made, or the file not be written in full.          *)
WriteTemp ==
  /\ At("write")
  /\ \/ /\ tmp' = tmp \cup {renderer.part} /\ Stuck(stuckFiles, stuckTmp \ {renderer.part})
        /\ Work("replace") /\ UNCHANGED errors
     \/ Fail /\ UNCHANGED <<tmp, stuckFiles, stuckTmp>>
     \/ /\ tmp' = tmp \cup {renderer.part} /\ Stuck(stuckFiles, stuckTmp \cup {renderer.part})
        /\ Fail
  /\ UNCHANGED <<doc, rows, files, outlines, job, stop, handler, busy, asks,
                 restarts>>

(* The folder may have been removed with the document, or the file that is *)
(* there may not be replaced.                                              *)
Replace ==
  /\ At("replace")
  /\ \/ /\ renderer.part \in tmp
        /\ files' = files \cup {renderer.part} /\ tmp' = tmp \ {renderer.part}
        /\ Stuck(stuckFiles \ {renderer.part}, stuckTmp \ {renderer.part})
        /\ Work("save") /\ UNCHANGED errors
     \/ /\ renderer.part \in tmp
        /\ Stuck(stuckFiles, stuckTmp \cup {renderer.part})
        /\ Fail /\ UNCHANGED <<files, tmp>>
     \/ renderer.part \notin tmp /\ Fail /\ UNCHANGED disk
  /\ UNCHANGED <<doc, rows, outlines, job, stop, handler, busy, asks, restarts>>

(* save_part records the part only while its document exists.              *)
SavePartAnyway ==
  /\ At("save")
  /\ rows' = Append(Without({renderer.part}), renderer.part)
  /\ Work("keep")
  /\ UNCHANGED <<doc, disk, memory, handler, busy, asks, restarts>>

SavePart ==
  /\ At("save")
  /\ IF doc[renderer.part.doc] = "stored"
     THEN /\ rows' = Append(Without({renderer.part}), renderer.part)
          /\ Work("keep")
     ELSE Work("discard") /\ UNCHANGED rows
  /\ UNCHANGED <<doc, disk, memory, handler, busy, asks, restarts>>

Discard ==
  /\ At("discard")
  /\ Unlink({renderer.part}, {})
  /\ DropJob
  /\ Work("next")
  /\ UNCHANGED <<doc, rows, outlines, errors, stop, handler, busy, asks,
                 restarts>>

(* Pruning: what the job needs is kept, and what was used in the last      *)
(* minutes: any number of the most recently used, the new one among them.  *)
Keep ==
  /\ At("keep")
  /\ renderer' = [renderer EXCEPT !.pc = "prune", !.keep = ToSet(job.parts)]
  /\ UNCHANGED <<stored, memory, handler, busy, asks, restarts>>

Prunable(old) ==
  FoldLeft(LAMBDA acc, p :
             IF Len(rows) - Cardinality(acc) <= MaxFiles \/ p \in renderer.keep THEN acc
             ELSE acc \cup {p},
           {}, SubSeq(rows, 1, old))

PruneRows ==
  /\ At("prune")
  /\ \E old \in 0..Len(rows) :
       /\ renderer.part \notin ToSet(SubSeq(rows, 1, old))
       /\ rows' = Without(Prunable(old))
       /\ renderer' = [renderer EXCEPT !.pc = "unlink", !.keep = Prunable(old)]
  /\ UNCHANGED <<doc, disk, memory, handler, busy, asks, restarts>>

PruneFiles ==
  /\ At("unlink")
  /\ Unlink(renderer.keep, {})
  /\ renderer' = [NoWork EXCEPT !.pc = "next"]
  /\ UNCHANGED <<doc, rows, memory, handler, busy, asks, restarts>>

-----------------------------------------------------------------------------
(* The Live Reader speaks and falls silent.                                *)
LiveReader ==
  /\ busy' = ~busy
  /\ UNCHANGED <<stored, memory, renderer, handler, asks, restarts>>

(* The server goes down and waits for the worker for five seconds.         *)
StopRenderer ==
  /\ ~stop /\ restarts < MaxRestarts
  /\ stop' = TRUE /\ job' = NoJob
  /\ UNCHANGED <<stored, outlines, errors, renderer, handler, busy, asks, restarts>>

(* Stopped or killed, it comes back with what is on disk.                  *)
Restart ==
  /\ restarts < MaxRestarts
  /\ restarts' = restarts + 1
  /\ outlines' = {} /\ job' = NoJob /\ errors' = {} /\ stop' = FALSE
  /\ renderer' = NoWork
  /\ handler' = [h \in Handler |-> NoHandler]
  /\ UNCHANGED <<stored, busy, asks>>

Asks(h) ==
  \/ \E d \in Doc : \/ \E from \in 1..Len(Outline[d]) : \/ Ask(h, "render", d, from, "outline")
                                                       \/ Ask(h, "status", d, from, "outline")
                    \/ Ask(h, "delete", d, 0, "forgetDocument")
  \/ \E p \in Recorded : FetchPart(h, p)

Handle(h) ==
  \/ ReadOutline(h) \/ RememberOutline(h) \/ ReadReady(h) \/ Walk(h) \/ ForgetMissing(h)
  \/ SetJob(h) \/ ForgetDocument(h) \/ DeleteRows(h) \/ DeleteFiles(h) \/ ServePart(h)

Worker ==
  \/ SweepRows \/ SweepFiles \/ Pick \/ Stopped \/ ReadBlocks \/ Speak \/ LastLook
  \/ WriteTemp \/ Replace \/ SavePart \/ Discard \/ Keep \/ PruneRows \/ PruneFiles

ReaderNext ==
  \/ \E d \in Doc : Import(d)
  \/ \E h \in Handler : Asks(h) \/ Handle(h)
  \/ Worker \/ LiveReader \/ StopRenderer \/ Restart

(* Threads run on; the Live Reader does not keep speaking between every    *)
(* two polls of the worker, so it gets its sentence in.                    *)
ReaderFairness ==
  /\ WF_readerVars(\E h \in Handler : Handle(h))
  /\ SF_readerVars(Worker)

ReaderSpec == ReaderInit /\ [][ReaderNext]_readerVars /\ ReaderFairness

-----------------------------------------------------------------------------
(* A part that is recorded can be played: no pruning, sweep, deletion or   *)
(* crash takes its file and leaves its row (reader/store.py:275,           *)
(* renderer.py:345).                                                       *)
RowHasFile == Recorded \subseteq files

(* What is on disk and was not left behind by a failure.                   *)
Left    == files \ stuckFiles
LeftTmp == tmp \ stuckTmp

(* No audio of a deleted document stays in the cache folder, however its   *)
(* deletion and the worker's steps interleave, but what the file system    *)
(* would not let go when it was last tried; what a restart leaves is tried *)
(* again as soon as there is a worker again (routes/reader.py:122,         *)
(* renderer.py:240-267, 359-367, 386-391).                                 *)
DeletedGone ==
  []<>(\/ \A p \in Left \cup LeftTmp : doc[p.doc] # "deleted"
       \/ renderer.pc = "none")

(* Whatever the listener asked for last is rendered, or shown to have      *)
(* failed, as long as the Live Reader falls silent now and then and the    *)
(* server is not going down (renderer.py:178, 263).                        *)
WantedServed ==
  []<>~busy => []<>(stop \/ ToSet(job.parts) \subseteq Recorded \cup errors)
=============================================================================
