------------------------------ MODULE LogStream ------------------------------
(***************************************************************************)
(* The log of one container on its way to a reader: the tailer of          *)
(* internal/logstream (stream position, replay filter, chunks, cursor,     *)
(* subscribers), the registry that starts, resumes and stops it, and the   *)
(* API server's chunk reader (internal/apiserver/chunk_reader.go), which   *)
(* sees only what object storage holds.                                    *)
(*                                                                         *)
(* A line travels in three pieces, so that a read, a disconnect or a crash *)
(* can fall inside it: a beginning of its kubelet timestamp, the rest of   *)
(* the timestamp with some text, and the rest of the line.  What is        *)
(* published of line i is <<i, 1>> and <<i, 2>>; <<i, 0>> is a fragment of *)
(* its timestamp taken for text.  A read of the connection brings one or   *)
(* more pieces, of any number of lines.  The tailer is cut at its storage  *)
(* calls and between the two halves of publish.                            *)
(***************************************************************************)
EXTENDS Integers, Sequences

CONSTANTS
    Stamps,             \* possible timestamps of the container's lines, in order
    Cut,                \* the lines that may arrive in pieces; others arrive whole
    ChunkPieces,        \* Config.ChunkBytes: pending pieces that force a flush
    RingPieces,         \* Config.RingBytes
    SubscriberQueue,    \* Config.SubscriberQueue
    ReopenMaxAttempts,  \* Config.ReopenMaxAttempts
    Budgets             \* how often each of these may happen in a behaviour

\* crash: the operator dies.  put: a storage call fails.  drop: the log connection breaks
\* or is not opened.  subscribe, read: a subscriber or an API reader arrives.
Kinds == {"crash", "put", "drop", "subscribe", "read"}

ASSUME LogStreamAssumption ==
    /\ \A s \in Stamps : s \in Seq(Nat \ {0}) /\ \A i, j \in DOMAIN s : i <= j => s[i] <= s[j]
    /\ {ChunkPieces, RingPieces, SubscriberQueue, ReopenMaxAttempts} \subseteq Nat \ {0}
    /\ Budgets \subseteq [Kinds -> Nat]

VARIABLES
    stamps,     \* the timestamps of the lines the container writes
    run,        \* the controller: "active", "stopping" a tailer, "stopped"
    over,       \* the TestRun is terminal or gone
    tl,         \* the tailer of the operator's registry
    sub,        \* a subscriber of the tailer
    chunks,     \* stored chunks; chunk n is element n + 1, <<>> where none is stored
    cursor,     \* the stored cursor
    rd,         \* an API reader of the log
    failed,     \* a storage call has failed
    crashed,    \* an operator has died
    left        \* what is left of the bounds

vars == <<stamps, run, over, tl, sub, chunks, cursor, rd, failed, crashed, left>>
control == <<run, over>>
store == <<chunks, cursor>>
history == <<failed, crashed>>

Spend(kind) == left[kind] > 0 /\ left' = [left EXCEPT ![kind] = @ - 1]

-----------------------------------------------------------------------------
(* Position and replayFilter.                                              *)

NoPosition == [last |-> 0, atLast |-> 0]

Advance(pos, ts) ==
    IF ts = pos.last THEN [pos EXCEPT !.atLast = @ + 1] ELSE [last |-> ts, atLast |-> 1]

\* Variant: a timestamp that repeats is taken for a replayed line.
KeepLaterOnly(pos, seen, ts) == ts > pos.last

\* replayFilter.keep: seen counts the lines at pos.last on this connection, this one included.
Keep(pos, seen, ts) == ts > pos.last \/ (ts = pos.last /\ seen > pos.atLast)

NoTailer == [pc |-> "none", stop |-> FALSE, ending |-> FALSE, pos |-> NoPosition,
             upTo |-> NoPosition, seen |-> 0, at |-> 0, line |-> "header", frame |-> <<>>,
             told |-> {}, ring |-> <<>>, pending |-> <<>>, seq |-> 0, attempts |-> 0]
NoSub == [state |-> "none", queue |-> <<>>, got |-> <<>>, reason |-> "none"]
NoReader == [pc |-> "none", polling |-> FALSE, final |-> FALSE, keys |-> {}, sent |-> {},
             emitted |-> FALSE, out |-> <<>>, end |-> "none"]
NoCursor == [next |-> -1, pos |-> NoPosition]

Init ==
    /\ stamps \in Stamps
    /\ run = "active" /\ over = FALSE
    /\ tl = NoTailer /\ sub = NoSub /\ rd = NoReader
    /\ chunks = <<>> /\ cursor = NoCursor
    /\ failed = FALSE /\ crashed = FALSE
    /\ left \in Budgets

-----------------------------------------------------------------------------
(* The registry and the controller that drives it.                         *)

\* New, with Config.Resume.
Resumed(c) == [NoTailer EXCEPT !.pc = "open", !.pos = c.pos, !.seq = c.next]
Fresh == [NoTailer EXCEPT !.pc = "open"]

\* EnsureContainerTailer: a no-op once the map has a tailer, ended or not.  Without a
\* readable cursor the chunks, not the cursor, are wiped and the log starts over.
EnsureTailer ==
    /\ run = "active" /\ tl.pc = "none"
    /\ \/ /\ cursor # NoCursor
          /\ tl' = Resumed(cursor)
          /\ UNCHANGED <<chunks, failed, left>>
       \/ /\ cursor = NoCursor
          /\ tl' = Fresh
          /\ chunks' = <<>>
          /\ UNCHANGED <<failed, left>>
       \/ \* the cursor cannot be read, or the chunks cannot be removed
          /\ Spend("put")
          /\ failed' = TRUE
          /\ tl' = Fresh
          /\ chunks' \in {<<>>, chunks}
    /\ UNCHANGED <<stamps, control, sub, cursor, rd, crashed>>

\* terminalAndDeleteJob writes the terminal phase, then stops the tailer; finalize stops
\* it first and then lets the TestRun go.  StopTailer waits for the final flush.
EndRun ==
    /\ run = "active"
    /\ run' = "stopping"
    /\ over' \in {TRUE, FALSE}
    /\ tl' = [tl EXCEPT !.stop = TRUE]
    /\ UNCHANGED <<stamps, sub, store, rd, history, left>>

Stopped ==
    /\ run = "stopping" /\ tl.pc \in {"none", "done"}
    /\ run' = "stopped" /\ over' = TRUE
    /\ tl' = NoTailer
    /\ UNCHANGED <<stamps, sub, store, rd, history, left>>

\* The operator dies; the next one finds the TestRun as it is.  Shutdown, on an orderly
\* exit, stops every tailer first and is a Stop followed by this.
Crash ==
    /\ tl.pc # "none" /\ Spend("crash")
    /\ tl' = NoTailer /\ crashed' = TRUE
    /\ run' = IF over THEN "stopped" ELSE "active"
    /\ sub' = IF sub.state = "open" THEN [sub EXCEPT !.state = "gone"] ELSE sub
    /\ UNCHANGED <<stamps, over, store, rd, failed>>

-----------------------------------------------------------------------------
(* Tailer.run.                                                             *)

Goto(pc) == [tl EXCEPT !.pc = pc]

\* Variant: the loop returns without the last flush.
FinalizeNoFlush(t) == [t EXCEPT !.ending = TRUE, !.pc = "close"]

\* finalize: a last flush, with a context of its own.
Finalize(t) == [t EXCEPT !.ending = TRUE, !.pc = IF t.pending = <<>> THEN "close" ELSE "put"]

Line(at) == at \div 3 + 1
Piece(at) == at % 3

\* K8sLogSource.Open: SinceTime has whole seconds, here two ticks long.
SinceLine(pos) ==
    LET from == {i \in 1 .. Len(stamps) : stamps[i] \div 2 >= pos.last \div 2}
    IN  IF from = {} THEN Len(stamps) + 1 ELSE CHOOSE i \in from : \A j \in from : i <= j

Failing(t) ==
    IF t.attempts + 1 >= ReopenMaxAttempts THEN Finalize([t EXCEPT !.attempts = @ + 1])
    ELSE [t EXCEPT !.attempts = @ + 1, !.pc = "open"]

\* startPump: a new connection at the position, with a new filter, at a line start.
StartPump ==
    /\ tl.pc = "open" /\ ~tl.stop
    /\ \/ /\ tl' = [tl EXCEPT !.pc = "run", !.upTo = tl.pos, !.seen = 0, !.line = "header",
                              !.at = 3 * (SinceLine(tl.pos) - 1)]
          /\ UNCHANGED left
       \/ Spend("drop") /\ tl' = Failing(tl)
    /\ UNCHANGED <<stamps, control, sub, store, rd, history>>

\* ringBuffer.Append: the newest pieces.
RingAppend(ring, data) ==
    LET all == ring \o data
    IN  IF Len(all) > RingPieces THEN SubSeq(all, Len(all) - RingPieces + 1, Len(all)) ELSE all

\* publish, up to the lock: ring and pending.  told is history: all that was published.
Publish(t, data) ==
    [t EXCEPT !.pc = "fan", !.frame = data, !.pending = @ \o data, !.ring = RingAppend(@, data),
              !.told = @ \union {data[a] : a \in DOMAIN data}]

\* What consume will publish of the read so far.
Hold(t, data) == [t EXCEPT !.pc = "consume", !.frame = @ \o data]

\* consume's loop, for the next piece of the read.
Consume(t) ==
    LET i == Line(t.at)  ts == stamps[i]
        seen == IF ts = t.upTo.last THEN t.seen + 1 ELSE t.seen
        next == [t EXCEPT !.at = @ + 1, !.attempts = 0]
        line == [t EXCEPT !.at = @ + 3, !.attempts = 0, !.seen = seen, !.line = "header"]
    IN  CASE i \notin Cut /\ Keep(t.upTo, seen, ts) ->
                Hold([line EXCEPT !.pos = Advance(t.pos, ts)], <<<<i, 1>>, <<i, 2>>>>)
          [] i \notin Cut /\ ~Keep(t.upTo, seen, ts) -> Hold(line, <<>>)
          [] i \in Cut /\ Piece(t.at) = 0 -> Hold([next EXCEPT !.line = "stamp"], <<>>)
          [] i \in Cut /\ Piece(t.at) = 1 /\ Keep(t.upTo, seen, ts) ->
                Hold([next EXCEPT !.seen = seen, !.line = "keep", !.pos = Advance(t.pos, ts)],
                        <<<<i, 1>>>>)
          [] i \in Cut /\ Piece(t.at) = 1 /\ ~Keep(t.upTo, seen, ts) ->
                Hold([next EXCEPT !.seen = seen, !.line = "drop"], <<>>)
          [] i \in Cut /\ Piece(t.at) = 2 /\ t.line = "keep" ->
                Hold([next EXCEPT !.line = "header"], <<<<i, 2>>>>)
          [] OTHER -> Hold([next EXCEPT !.line = "header"], <<>>)

\* flushPartialLine, then the run loop returns.
Leave(t) ==
    IF t.line = "stamp"
    THEN Publish([t EXCEPT !.line = "header", !.ending = TRUE], <<<<Line(t.at), 0>>>>)
    ELSE Finalize(t)

\* One more piece of a read; pump takes what has arrived, up to ReadBufferBytes.
Read ==
    /\ tl.pc \in {"run", "consume"} /\ Line(tl.at) <= Len(stamps)
    /\ tl' = Consume(tl)
    /\ UNCHANGED <<stamps, control, sub, store, rd, history, left>>

\* The end of consume: what is new in the read is one frame.
EndRead ==
    /\ tl.pc = "consume"
    /\ tl' = IF tl.frame = <<>> THEN Goto("run") ELSE Publish(tl, tl.frame)
    /\ UNCHANGED <<stamps, control, sub, store, rd, history, left>>

ReadEOF ==
    /\ tl.pc = "run" /\ Line(tl.at) > Len(stamps)
    /\ tl' = Leave(tl)
    /\ UNCHANGED <<stamps, control, sub, store, rd, history, left>>

\* A retriable read error: what was read of a line stays published, its rest is lost.
ReadError ==
    /\ tl.pc = "run" /\ Spend("drop")
    /\ tl' = Failing(tl)
    /\ UNCHANGED <<stamps, control, sub, store, rd, history>>

\* ctx.Done in the select, or in startPump and its backoff.
Cancelled ==
    /\ tl.stop
    /\ \/ tl.pc = "run" /\ tl' = Leave(tl)
       \/ tl.pc = "open" /\ tl' = Finalize(tl)
    /\ UNCHANGED <<stamps, control, sub, store, rd, history, left>>

\* publish under the lock: a subscriber whose queue is full is dropped, never waited for.
FanOut ==
    /\ tl.pc = "fan"
    /\ sub' = IF sub.state # "open" THEN sub
              ELSE IF Len(sub.queue) < SubscriberQueue
              THEN [sub EXCEPT !.queue = Append(@, tl.frame)]
              ELSE [sub EXCEPT !.state = "closed", !.reason = "overflow"]
    /\ tl' = IF tl.ending THEN Finalize([tl EXCEPT !.frame = <<>>])
             ELSE [tl EXCEPT !.frame = <<>>,
                             !.pc = IF Len(tl.pending) >= ChunkPieces THEN "put" ELSE "run"]
    /\ UNCHANGED <<stamps, control, store, rd, history, left>>

\* The flush timer.
Tick ==
    /\ tl.pc = "run" /\ tl.pending # <<>>
    /\ tl' = Goto("put")
    /\ UNCHANGED <<stamps, control, sub, store, rd, history, left>>

AfterFlush(t) == [t EXCEPT !.pc = IF t.ending THEN "close" ELSE "run"]
Flushed(t) == [t EXCEPT !.seq = @ + 1, !.pending = <<>>]
Stored(n, c) ==
    [k \in 1 .. IF n + 1 > Len(chunks) THEN n + 1 ELSE Len(chunks) |->
        IF k = n + 1 THEN c ELSE IF k <= Len(chunks) THEN chunks[k] ELSE <<>>]

\* flushPending: on an error, also one of a Stop that cancels an ordinary flush, the
\* pending pieces are given up and the chunk number is spent.
FlushPending ==
    /\ tl.pc = "put"
    /\ \/ /\ chunks' = Stored(tl.seq, tl.pending)
          /\ tl' = [Flushed(tl) EXCEPT !.pc = "cursor"]
          /\ UNCHANGED <<failed, left>>
       \/ /\ Spend("put") \/ (tl.stop /\ ~tl.ending /\ UNCHANGED left)
          /\ chunks' \in {chunks, Stored(tl.seq, tl.pending)}
          /\ tl' = AfterFlush(Flushed(tl))
          /\ failed' = TRUE
    /\ UNCHANGED <<stamps, control, sub, cursor, rd, crashed>>

\* saveCursor: best effort, and only once there is a position.
SaveCursor ==
    /\ tl.pc = "cursor"
    /\ \/ /\ cursor' = IF tl.pos.last = 0 THEN cursor ELSE [next |-> tl.seq, pos |-> tl.pos]
          /\ UNCHANGED <<failed, left>>
       \/ /\ tl.pos.last # 0
          /\ Spend("put") \/ (tl.stop /\ ~tl.ending /\ UNCHANGED left)
          /\ failed' = TRUE
          /\ cursor' \in {cursor, [next |-> tl.seq, pos |-> tl.pos]}
    /\ tl' = AfterFlush(tl)
    /\ UNCHANGED <<stamps, control, sub, chunks, rd, crashed>>

\* finalize, after its flush: stopped is set and the subscribers are closed.
CloseSubs ==
    /\ tl.pc = "close"
    /\ tl' = Goto("done")
    /\ sub' = IF sub.state = "open" THEN [sub EXCEPT !.state = "closed", !.reason = "eof"] ELSE sub
    /\ UNCHANGED <<stamps, control, store, rd, history, left>>

-----------------------------------------------------------------------------
(* The subscriber.                                                         *)

\* Subscribe: the ring, then live frames; after the tailer stopped, closed at once.
Subscribe ==
    /\ tl.pc # "none" /\ sub.state = "none" /\ Spend("subscribe")
    /\ sub' = IF tl.pc = "done" THEN [NoSub EXCEPT !.state = "closed", !.reason = "eof"]
              ELSE [NoSub EXCEPT !.state = "open",
                                 !.queue = IF tl.ring = <<>> THEN <<>> ELSE <<tl.ring>>]
    /\ UNCHANGED <<stamps, control, tl, store, rd, history>>

Unsubscribe ==
    /\ sub.state = "open"
    /\ sub' = [sub EXCEPT !.state = "closed", !.reason = "unsubscribed"]
    /\ UNCHANGED <<stamps, control, tl, store, rd, history, left>>

Receive ==
    /\ sub.queue # <<>>
    /\ sub' = [sub EXCEPT !.got = Append(@, Head(sub.queue)), !.queue = Tail(@)]
    /\ UNCHANGED <<stamps, control, tl, store, rd, history, left>>

-----------------------------------------------------------------------------
(* The API server's reader: getRunLogs, getRunLogsText, chunkStream.stream.*)

\* getRunLogs follows a run that is not over; getRunLogsText never follows.
OpenReader ==
    /\ rd.pc = "none" /\ Spend("read")
    /\ \E polling \in {FALSE, ~over} : rd' = [NoReader EXCEPT !.pc = "list", !.polling = polling]
    /\ UNCHANGED <<stamps, control, tl, sub, store, history>>

Present == {n \in DOMAIN chunks : chunks[n] # <<>>}

\* drainOnce, its List: the keys not emitted yet.
ListChunks ==
    /\ rd.pc = "list"
    /\ rd' = [rd EXCEPT !.pc = "emit", !.emitted = FALSE, !.keys = Present \ rd.sent]
    /\ UNCHANGED <<stamps, control, tl, sub, store, history, left>>

\* readChunk and emit, in the order of the keys; a chunk that was wiped since the List ends
\* the stream.
EmitChunk ==
    /\ rd.pc = "emit"
    /\ \E n \in rd.keys :
         /\ \A m \in rd.keys : n <= m
         /\ rd' = IF n \in Present
                  THEN [rd EXCEPT !.keys = @ \ {n}, !.sent = @ \cup {n}, !.emitted = TRUE,
                                  !.out = Append(@, chunks[n])]
                  ELSE [rd EXCEPT !.pc = "end", !.end = "error"]
    /\ UNCHANGED <<stamps, control, tl, sub, store, history, left>>

\* The end of a round of stream: one more round once the run is seen over, and none when
\* nothing new came for PollDeadline.  isTerminal answers FALSE when it cannot tell.
EndRound ==
    /\ rd.pc = "emit" /\ rd.keys = {}
    /\ \/ ~rd.polling /\ rd' = [rd EXCEPT !.pc = "end", !.end = "pass"]
       \/ rd.polling /\ rd.final /\ rd' = [rd EXCEPT !.pc = "end", !.end = "whole"]
       \/ rd.polling /\ ~rd.final /\ over /\ rd' = [rd EXCEPT !.pc = "list", !.final = TRUE]
       \/ rd.polling /\ ~rd.final /\ rd' = [rd EXCEPT !.pc = "list"]
       \/ rd.polling /\ ~rd.final /\ ~rd.emitted /\ rd' = [rd EXCEPT !.pc = "end", !.end = "idle"]
    /\ UNCHANGED <<stamps, control, tl, sub, store, history, left>>

-----------------------------------------------------------------------------
Tailer == StartPump \/ Read \/ EndRead \/ ReadEOF \/ Cancelled \/ FanOut \/ FlushPending \/ SaveCursor \/ CloseSubs
Next ==
    \/ EnsureTailer \/ EndRun \/ Stopped \/ Crash
    \/ Tailer \/ ReadError \/ Tick
    \/ Subscribe \/ Unsubscribe \/ Receive
    \/ OpenReader \/ ListChunks \/ EmitChunk \/ EndRound

\* The tailer's goroutine and the controller's work queue run on; the container exits and the
\* kubelet delivers what it wrote.
Fairness == WF_vars(Tailer) /\ WF_vars(EnsureTailer) /\ WF_vars(Stopped)
Spec == Init /\ [][Next]_vars /\ Fairness

-----------------------------------------------------------------------------
(* Correctness.                                                            *)

(* A log is a sequence of chunks or frames, each a sequence of pieces.     *)

IsText(x) == x[2] # 0
Earlier(n, a, m, b) == n < m \/ (n = m /\ a < b)
PiecesOf(log) == UNION {{log[n][a] : a \in DOMAIN log[n]} : n \in DOMAIN log}
LinesOf(log) == {x[1] : x \in {y \in PiecesOf(log) : y[2] = 1}}

\* No piece of text comes twice or before one that it follows.
Before(x, y) == x[1] < y[1] \/ (x[1] = y[1] /\ x[2] < y[2])
Ascending(log) ==
    \A n, m \in DOMAIN log : \A a \in DOMAIN log[n], b \in DOMAIN log[m] :
      Earlier(n, a, m, b) /\ IsText(log[n][a]) /\ IsText(log[m][b]) => Before(log[n][a], log[m][b])

\* Where there is text of a line, all lines up to it are there.
Whole(log) == \A x \in PiecesOf(log) : IsText(x) => 1 .. x[1] \subseteq LinesOf(log)

\* No line of frame m, where it follows, is before one of frame n.
NotAfter(log, n, m) ==
    \A a \in DOMAIN log[n], b \in DOMAIN log[m] :
      Earlier(n, a, m, b) /\ IsText(log[n][a]) /\ IsText(log[m][b]) => log[n][a][1] <= log[m][b][1]

\* Between two lines that are there, all lines are there.
Unbroken(log) ==
    \A x, y \in PiecesOf(log) : IsText(x) /\ IsText(y) => (x[1] + 1) .. y[1] \subseteq LinesOf(log)

\* As long as object storage answers, the stored log is the container's log up to some line:
\* every line once, in order, none skipped, whatever connections broke, whichever lines
\* share a timestamp and wherever operators died between a chunk and its cursor
\* (position.go: "real new lines are never skipped").  A line may lack its end.
StoredIsPrefix == ~failed => Ascending(chunks) /\ Whole(chunks)

\* Once StopTailer has returned, and if no storage call failed or was cancelled by it, all
\* that the tailer ever published is stored.
StopReturns == run = "stopping" /\ run' = "stopped" /\ tl.pc = "done"
StopFlushes == [][StopReturns /\ ~failed => tl.told \subseteq PiecesOf(chunks)]_vars

\* Registry.StopTailer: "Blocks until the tailer's run loop has flushed and exited so the
\* caller can be sure the final chunk has landed before proceeding."  It does not hold: the
\* cancellation also ends a flush the run loop has under way, whose lines are given up.
FinalChunkLanded == [][StopReturns => tl.told \subseteq PiecesOf(chunks)]_vars

\* One of two frames is the end of the other.
SameEnd(s, t) == \A k \in 0 .. Len(s) - 1 : k < Len(t) => s[Len(s) - k] = t[Len(t) - k]

\* No line comes after a later one, but that the second frame may give again what the first,
\* the ring at the time of Subscribe, already ended with.
Replayed(log) ==
    /\ \A n, m \in DOMAIN log : n <= m /\ ~(n = 1 /\ m = 2) => NotAfter(log, n, m)
    /\ Len(log) >= 2 => NotAfter(log, 1, 2) \/ SameEnd(log[1], log[2])

\* What a subscriber has been given skips no line, and goes back by one only where the ring
\* already had the frame that was being published when it subscribed.  A queue that is full
\* ends the subscription, it does not thin it out.
SubscriberSeesAll == Replayed(sub.got \o sub.queue) /\ Unbroken(sub.got \o sub.queue)

\* plan/step-08-logstream.md: "late joiner gets ring-buffer prefix + live continuation (assert
\* exact bytes)".  It does not hold: publish appends to the ring before it takes the lock
\* that Subscribe holds, so the frame comes from the ring and live.
JoinsExactly == Ascending(sub.got \o sub.queue)

\* Without a crash or a failed call, what a reader has streamed is the container's log up
\* to some line.
ReaderIsPrefix == ~failed /\ ~crashed => Ascending(rd.out) /\ Whole(rd.out)

\* Every tailer ends: it reads to the end of the log, gives up reconnecting or is stopped,
\* and neither a full subscriber nor a failed upload holds it.
EventuallyClosed == tl.pc = "open" ~> tl.pc \in {"done", "none"}

\* Nobody is given a log with lines missing or out of order, and none is given a line twice but
\* a subscriber that joins while the line is being published.
LinesInOrder == StoredIsPrefix /\ SubscriberSeesAll /\ ReaderIsPrefix

\* A tailer ends, with its lines stored.
EndsFlushed == StopFlushes /\ EventuallyClosed
=============================================================================
