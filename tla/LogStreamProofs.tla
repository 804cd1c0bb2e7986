--------------------------- MODULE LogStreamProofs ---------------------------
(***************************************************************************)
(* Proofs about LogStream: what is stored, what a subscriber and what a    *)
(* reader is given is the container's log, and a stopped tailer has        *)
(* flushed.                                                                *)
(***************************************************************************)
EXTENDS LogStream, WellFoundedInduction, TLAPS

-----------------------------------------------------------------------------
(* The inductive invariant.                                                *)

\* A position stands after line p: it has the line's timestamp, and how many of the lines up
\* to it have that timestamp.
At(pos, p) ==
    IF p = 0 THEN pos = NoPosition
    ELSE /\ pos.last = stamps[p] /\ pos.atLast \in 1 .. p
         /\ \A j \in (p - pos.atLast + 1) .. p : stamps[j] = pos.last
         /\ p - pos.atLast >= 1 => stamps[p - pos.atLast] < pos.last
LineAt(pos) == CHOOSE p \in 0 .. Len(stamps) : At(pos, p)
Placed(pos) == \E p \in 0 .. Len(stamps) : At(pos, p)
PlaceInv == Placed(tl.pos) /\ Placed(cursor.pos)

\* The first line of the connection that the filter has not judged yet.
Unjudged == IF tl.line \in {"keep", "drop"} THEN Line(tl.at) + 1 ELSE Line(tl.at)

\* Of the lines at the position the connection was opened with, seen counts those judged.
Counted(upTo, u, d, seen) ==
    LET first == u - upTo.atLast + 1
    IN  u > 0 => /\ d <= first => seen = 0
                 /\ d > first /\ stamps[d - 1] = upTo.last => seen = d - first

\* A connection has published what lies between its position and what it has judged.
Streaming == tl.pc \in {"run", "consume", "fan", "put", "cursor"} /\ ~tl.ending
StreamInv ==
    Streaming =>
      /\ Placed(tl.upTo)
      /\ Line(tl.at) <= Len(stamps) + 1
      /\ tl.line = "header" => Piece(tl.at) = 0
      /\ tl.line = "stamp" => Piece(tl.at) = 1
      /\ tl.line \in {"keep", "drop"} => Piece(tl.at) = 2
      /\ tl.line # "header" => Line(tl.at) \in Cut /\ Line(tl.at) <= Len(stamps)
      /\ tl.line = "keep" => Line(tl.at) > LineAt(tl.upTo)
      /\ tl.line = "drop" => Line(tl.at) <= LineAt(tl.upTo)
      /\ LineAt(tl.pos) = IF Unjudged - 1 > LineAt(tl.upTo) THEN Unjudged - 1 ELSE LineAt(tl.upTo)
      /\ Counted(tl.upTo, LineAt(tl.upTo), Unjudged, tl.seen)

PendingInv ==
    /\ tl.pc \in {"none", "cursor", "close", "done"} => tl.pending = <<>>
    /\ tl.pc = "put" => tl.pending # <<>>
    /\ tl.pc \notin {"consume", "fan"} => tl.frame = <<>>
    /\ tl.pc \in {"none", "open", "run", "consume"} => ~tl.ending
    /\ ~tl.ending /\ (tl.pending # <<>> \/ tl.frame # <<>> \/ tl.pc = "cursor") => tl.pos.last # 0

\* All lines up to p and no text after it.
Covers(log, p) ==
    /\ \A x \in PiecesOf(log) : IsText(x) => x[1] <= p
    /\ 1 .. p \subseteq LinesOf(log)

\* The chunks the cursor stands for, and at most one that a crash kept it from covering.
Base == IF cursor = NoCursor THEN 0 ELSE cursor.next
First(log, n) == [k \in 1 .. n |-> log[k]]
StoreInv ==
    ~failed =>
      /\ Ascending(chunks) /\ Whole(chunks)
      /\ Base <= Len(chunks) /\ Len(chunks) <= Base + 1
      /\ Covers(First(chunks, Base), LineAt(cursor.pos))

\* What is pending and in the ring, with what the read under way has held so far.
Held == IF tl.pc = "consume" THEN tl.pending \o tl.frame ELSE tl.pending
RingHeld == IF tl.pc = "consume" THEN tl.ring \o tl.frame ELSE tl.ring

\* What would be stored if the tailer flushed now.
Working == tl.pc \in {"open", "run", "consume", "fan", "put", "cursor"}
Written == IF tl.pc = "cursor" THEN chunks ELSE Stored(tl.seq, Held)
TailInv ==
    ~failed /\ Working =>
      /\ tl.seq = IF tl.pc = "cursor" THEN Base + 1 ELSE Base
      /\ tl.pc = "cursor" => Len(chunks) = tl.seq
      /\ Ascending(Written) /\ Covers(Written, LineAt(tl.pos))
      /\ tl.line = "keep" => <<LineAt(tl.pos), 2>> \notin PiecesOf(Written)

\* What the tailer has published is pending or in a chunk it has stored.
Of(data) == {data[a] : a \in DOMAIN data}
Kept(x) ==
    x \in Of(tl.pending) \/ \E n \in DOMAIN chunks : n <= tl.seq /\ x \in Of(chunks[n])
ToldInv == ~failed /\ tl.pc # "none" => \A x \in tl.told : Kept(x)

\* One frame: its text never goes back, and the lines from any of them up to q are there.
Level(s) == \A a, b \in 1 .. Len(s) : a < b /\ IsText(s[a]) /\ IsText(s[b]) => s[a][1] <= s[b][1]
Reaches(s, q) ==
    \A a \in 1 .. Len(s) : IsText(s[a]) =>
      /\ s[a][1] <= q
      /\ \A i \in (s[a][1] + 1) .. q : \E b \in 1 .. Len(s) : s[b][1] = i /\ s[b][2] = 1
RingInv ==
    tl.pc # "none" =>
      /\ Level(RingHeld) /\ Reaches(RingHeld, LineAt(tl.pos))
      /\ Unbroken(<<tl.ring>>)

\* The frame that is being fanned out ends the ring.
FanInv ==
    tl.pc = "fan" => Level(tl.frame) /\ Reaches(tl.frame, LineAt(tl.pos)) /\ SameEnd(tl.ring, tl.frame)

\* With the frame to come a subscriber has the lines up to the position, and the frame follows
\* what it was given, or it joined during the fan-out and was given the frame with the ring.
Given == sub.got \o sub.queue
Reached(log, p) ==
    \A x \in PiecesOf(log) : IsText(x) =>
      x[1] <= p /\ (x[1] + 1) .. p \subseteq LinesOf(log) \cup LinesOf(<<tl.frame>>)
Follows(log, frame) ==
    \A x \in PiecesOf(log), y \in Of(frame) : IsText(x) /\ IsText(y) => x[1] <= y[1]
SubInv ==
    /\ Replayed(Given) /\ Unbroken(Given)
    /\ sub.state = "open" =>
         /\ tl.pc \notin {"none", "done"}
         /\ Reached(Given, LineAt(tl.pos))
         /\ \/ Follows(Given, tl.frame)
            \/ tl.pc = "fan" /\ Len(Given) = 1 /\ SameEnd(Given[1], tl.frame)

\* Without crashes chunks are only ever added, and the reader has the first of them.
ReadInv ==
    ~failed /\ ~crashed =>
      /\ tl.pc = "none" /\ run = "active" => chunks = <<>>
      /\ tl.pc # "none" => Len(chunks) = tl.seq
      /\ \A n \in DOMAIN chunks : chunks[n] # <<>>
      /\ Len(rd.out) <= Len(chunks)
      /\ \A n \in DOMAIN rd.out : rd.out[n] = chunks[n]
      /\ rd.sent = DOMAIN rd.out
      /\ rd.pc = "emit" => \E m \in 0 .. Len(chunks) : rd.keys = (Len(rd.out) + 1) .. m

-----------------------------------------------------------------------------
(* Types.                                                                  *)

Pieces == (Nat \ {0}) \X {0, 1, 2}
Logs == Seq(Seq(Pieces))
Positions == [last : Nat, atLast : Nat]
Pcs == {"none", "open", "run", "consume", "fan", "put", "cursor", "close", "done"}
Tailers ==
    [pc : Pcs, stop : BOOLEAN, ending : BOOLEAN, pos : Positions, upTo : Positions, seen : Nat,
     at : Nat, line : {"header", "stamp", "keep", "drop"}, frame : Seq(Pieces), told : SUBSET Pieces,
     ring : Seq(Pieces), pending : Seq(Pieces), seq : Nat, attempts : Nat]

Subs ==
    [state : {"none", "open", "closed", "gone"}, queue : Logs, got : Logs,
     reason : {"none", "eof", "overflow", "unsubscribed"}]
Readers ==
    [pc : {"none", "list", "emit", "end"}, polling : BOOLEAN, final : BOOLEAN, keys : SUBSET Nat,
     sent : SUBSET Nat, emitted : BOOLEAN, out : Logs, end : {"none", "pass", "whole", "idle", "error"}]

TypeInv ==
    /\ stamps \in Stamps
    /\ run \in {"active", "stopping", "stopped"} /\ over \in BOOLEAN
    /\ tl \in Tailers
    /\ sub \in Subs
    /\ chunks \in Logs
    /\ cursor \in [next : Nat \cup {-1}, pos : Positions]
    /\ cursor.next = -1 => cursor = NoCursor
    /\ rd \in Readers
    /\ failed \in BOOLEAN /\ crashed \in BOOLEAN
    /\ left \in [Kinds -> Nat]

\* The timestamps of the container's lines are positive and do not go back.
LEMMA StampFacts ==
    ASSUME TypeInv
    PROVE  /\ Len(stamps) \in Nat /\ DOMAIN stamps = 1 .. Len(stamps)
           /\ \A i \in 1 .. Len(stamps) : stamps[i] \in Nat /\ stamps[i] > 0
           /\ \A i, j \in 1 .. Len(stamps) : i <= j => stamps[i] <= stamps[j]
<1>1. stamps \in Seq(Nat \ {0}) /\ \A i, j \in DOMAIN stamps : i <= j => stamps[i] <= stamps[j]
  BY LogStreamAssumption DEF TypeInv
<1> QED  BY <1>1

LEMMA ConstantFacts ==
    /\ ChunkPieces \in Nat \ {0} /\ RingPieces \in Nat \ {0}
    /\ SubscriberQueue \in Nat \ {0} /\ ReopenMaxAttempts \in Nat \ {0}
BY LogStreamAssumption

\* Concatenation, by position.
LEMMA ConcatFacts ==
    ASSUME NEW S, NEW s \in Seq(S), NEW t \in Seq(S)
    PROVE  /\ s \o t \in Seq(S) /\ Len(s \o t) = Len(s) + Len(t)
           /\ DOMAIN (s \o t) = 1 .. Len(s) + Len(t)
           /\ \A a \in 1 .. Len(s) : (s \o t)[a] = s[a]
           /\ \A a \in 1 .. Len(t) : (s \o t)[Len(s) + a] = t[a]
           /\ \A a \in (Len(s) + 1) .. (Len(s) + Len(t)) : (s \o t)[a] = t[a - Len(s)]
OBVIOUS

LEMMA SameSequence ==
    ASSUME NEW S, NEW s \in Seq(S), NEW t \in Seq(S), Len(s) = Len(t), \A i \in 1 .. Len(s) : s[i] = t[i]
    PROVE  s = t
OBVIOUS

LEMMA ConcatEmpty ==
    ASSUME NEW S, NEW s \in Seq(S)
    PROVE  s \o <<>> = s /\ <<>> \o s = s
OBVIOUS

LEMMA ConcatAssoc ==
    ASSUME NEW S, NEW r \in Seq(S), NEW s \in Seq(S), NEW t \in Seq(S)
    PROVE  (r \o s) \o t = r \o (s \o t)
<1> DEFINE u == (r \o s) \o t
           v == r \o (s \o t)
<1>1. u \in Seq(S) /\ v \in Seq(S) /\ Len(u) = Len(v) /\ Len(u) = Len(r) + Len(s) + Len(t)
  OBVIOUS
<1>2. ASSUME NEW i \in 1 .. Len(r) + Len(s) + Len(t) PROVE u[i] = v[i]
  OBVIOUS
<1> HIDE DEF u, v
<1>3. u = v
  BY <1>1, <1>2, SameSequence
<1> QED  BY <1>3 DEF u, v

LEMMA LineFacts ==
    ASSUME NEW at \in Nat
    PROVE  /\ Line(at) \in Nat /\ Line(at) >= 1 /\ Piece(at) \in {0, 1, 2}
           /\ at = 3 * (Line(at) - 1) + Piece(at)
BY DEF Line, Piece

\* Where the pieces of a line are in the stream.
LEMMA LineOfPiece ==
    ASSUME NEW i \in Nat, i >= 1, NEW k \in {0, 1, 2}
    PROVE  Line(3 * (i - 1) + k) = i /\ Piece(3 * (i - 1) + k) = k
<1>1. (3 * (i - 1) + k) \div 3 = i - 1 /\ (3 * (i - 1) + k) % 3 = k
  OBVIOUS
<1> QED  BY <1>1 DEF Line, Piece

LEMMA PieceTypes ==
    ASSUME NEW i \in Nat, i >= 1
    PROVE  /\ <<i, 0>> \in Pieces /\ <<i, 1>> \in Pieces /\ <<i, 2>> \in Pieces
           /\ <<<<i, 1>>, <<i, 2>>>> \in Seq(Pieces)
           /\ <<<<i, 0>>>> \in Seq(Pieces) /\ <<<<i, 1>>>> \in Seq(Pieces) /\ <<<<i, 2>>>> \in Seq(Pieces)
BY DEF Pieces

LEMMA RingAppendFacts ==
    ASSUME NEW ring \in Seq(Pieces), NEW data \in Seq(Pieces)
    PROVE  /\ RingAppend(ring, data) \in Seq(Pieces)
           /\ \E k \in Nat : /\ k + Len(RingAppend(ring, data)) = Len(ring) + Len(data)
                             /\ \A a \in 1 .. Len(RingAppend(ring, data)) :
                                  RingAppend(ring, data)[a] = (ring \o data)[k + a]
<1> DEFINE all == ring \o data
<1>1. all \in Seq(Pieces) /\ Len(all) = Len(ring) + Len(data) /\ Len(all) \in Nat
  OBVIOUS
<1>2. CASE Len(all) > RingPieces
  <2> DEFINE r == SubSeq(all, Len(all) - RingPieces + 1, Len(all))
  <2>0. RingAppend(ring, data) = r
    BY <1>2, ConstantFacts DEF RingAppend
  <2>1. r \in Seq(Pieces) /\ Len(r) = RingPieces
    BY <1>1, <1>2, ConstantFacts
  <2>2. \A a \in 1 .. RingPieces : r[a] = all[Len(all) - RingPieces + a]
    BY <1>1, <1>2, ConstantFacts
  <2>3. Len(all) - RingPieces \in Nat /\ (Len(all) - RingPieces) + Len(r) = Len(ring) + Len(data)
    BY <1>1, <1>2, <2>1, ConstantFacts
  <2> QED  BY <2>0, <2>1, <2>2, <2>3
<1>3. CASE ~(Len(all) > RingPieces)
  <2>1. RingAppend(ring, data) = all
    BY <1>3 DEF RingAppend
  <2>2. 0 + Len(all) = Len(ring) + Len(data) /\ \A a \in 1 .. Len(all) : all[a] = all[0 + a]
    BY <1>1
  <2> QED  BY <1>1, <2>1, <2>2
<1> QED  BY <1>2, <1>3

\* The tailer after publish: what of it changes and how.
Published(t, data, new) ==
    /\ new \in Tailers /\ new.pc = "fan" /\ new.frame = data
    /\ new.pending = t.pending \o data /\ new.ring = RingAppend(t.ring, data)
    /\ new.pos = t.pos /\ new.upTo = t.upTo /\ new.seen = t.seen /\ new.at = t.at
    /\ new.line = t.line /\ new.seq = t.seq /\ new.ending = t.ending
    /\ new.told = t.told \cup Of(data)

LEMMA PublishFacts ==
    ASSUME NEW t \in Tailers, NEW data \in Seq(Pieces)
    PROVE  Published(t, data, Publish(t, data))
<1>1. RingAppend(t.ring, data) \in Seq(Pieces)
  BY RingAppendFacts DEF Tailers
<1>2. t.pending \o data \in Seq(Pieces)
  BY DEF Tailers
<1>3. t.told \cup Of(data) \in SUBSET Pieces
  BY DEF Tailers, Of
<1>4. Publish(t, data) = [t EXCEPT !.pc = "fan", !.frame = data, !.pending = t.pending \o data,
                                   !.ring = RingAppend(t.ring, data), !.told = t.told \cup Of(data)]
  BY DEF Publish, Of, Tailers
<1>5. Publish(t, data) \in Tailers
  BY <1>1, <1>2, <1>3, <1>4 DEF Tailers, Pcs
<1>6. /\ Publish(t, data).pc = "fan" /\ Publish(t, data).frame = data
      /\ Publish(t, data).pending = t.pending \o data
      /\ Publish(t, data).ring = RingAppend(t.ring, data)
      /\ Publish(t, data).told = t.told \cup Of(data)
  BY <1>4 DEF Tailers
<1>7. /\ Publish(t, data).pos = t.pos /\ Publish(t, data).upTo = t.upTo
      /\ Publish(t, data).seen = t.seen /\ Publish(t, data).at = t.at
      /\ Publish(t, data).line = t.line /\ Publish(t, data).seq = t.seq
      /\ Publish(t, data).ending = t.ending
  BY <1>4 DEF Tailers
<1> QED  BY <1>5, <1>6, <1>7 DEF Published

\* The tailer with more of a read held.
Holding(t, data, new) ==
    /\ new \in Tailers /\ new.pc = "consume" /\ new.frame = t.frame \o data
    /\ new.pending = t.pending /\ new.ring = t.ring /\ new.told = t.told
    /\ new.pos = t.pos /\ new.upTo = t.upTo /\ new.seen = t.seen /\ new.at = t.at
    /\ new.line = t.line /\ new.seq = t.seq /\ new.ending = t.ending

LEMMA HoldFacts ==
    ASSUME NEW t \in Tailers, NEW data \in Seq(Pieces)
    PROVE  Holding(t, data, Hold(t, data))
<1>1. t.frame \o data \in Seq(Pieces)
  BY DEF Tailers
<1> QED  BY <1>1 DEF Holding, Hold, Tailers, Pcs

LEMMA HoldNothing ==
    ASSUME NEW t \in Tailers
    PROVE  /\ Hold(t, <<>>) \in Tailers /\ Hold(t, <<>>).pc = "consume" /\ Hold(t, <<>>).frame = t.frame
           /\ Hold(t, <<>>).pending = t.pending /\ Hold(t, <<>>).ring = t.ring
           /\ Hold(t, <<>>).told = t.told /\ Hold(t, <<>>).pos = t.pos
           /\ Hold(t, <<>>).upTo = t.upTo /\ Hold(t, <<>>).seen = t.seen
           /\ Hold(t, <<>>).at = t.at /\ Hold(t, <<>>).line = t.line
           /\ Hold(t, <<>>).seq = t.seq /\ Hold(t, <<>>).ending = t.ending
<1>1. t.frame \in Seq(Pieces) /\ <<>> \in Seq(Pieces)
  BY DEF Tailers
<1>2. t.frame \o <<>> = t.frame
  BY <1>1
<1>3. Holding(t, <<>>, Hold(t, <<>>))
  BY <1>1, HoldFacts
<1> QED  BY <1>2, <1>3, Zenon DEF Holding

LEMMA FinalizeFacts ==
    ASSUME NEW t \in Tailers
    PROVE  /\ Finalize(t) \in Tailers /\ Finalize(t).ending = TRUE
           /\ Finalize(t).pc = IF t.pending = <<>> THEN "close" ELSE "put"
           /\ Finalize(t).pos = t.pos /\ Finalize(t).upTo = t.upTo /\ Finalize(t).seen = t.seen
           /\ Finalize(t).at = t.at /\ Finalize(t).line = t.line /\ Finalize(t).frame = t.frame
           /\ Finalize(t).ring = t.ring /\ Finalize(t).pending = t.pending
           /\ Finalize(t).seq = t.seq /\ Finalize(t).told = t.told
BY DEF Finalize, Tailers, Pcs

\* A tailer that gives up reconnecting is finalized, another reopens.
LEMMA FailingFacts ==
    ASSUME NEW t \in Tailers
    PROVE  /\ Failing(t) \in Tailers
           /\ \/ Failing(t).pc = "open" /\ Failing(t).ending = t.ending
              \/ /\ Failing(t).pc = IF t.pending = <<>> THEN "close" ELSE "put"
                 /\ Failing(t).ending = TRUE
           /\ Failing(t).pos = t.pos /\ Failing(t).line = t.line /\ Failing(t).frame = t.frame
           /\ Failing(t).ring = t.ring /\ Failing(t).pending = t.pending
           /\ Failing(t).seq = t.seq /\ Failing(t).told = t.told
<1> DEFINE u == [t EXCEPT !.attempts = @ + 1]
<1>1. u \in Tailers /\ u.pos = t.pos /\ u.line = t.line /\ u.frame = t.frame /\ u.ring = t.ring
        /\ u.pending = t.pending /\ u.seq = t.seq /\ u.ending = t.ending /\ u.told = t.told
  <2>1. t.attempts + 1 \in Nat
    BY DEF Tailers
  <2> QED  BY <2>1 DEF Tailers
<1>2. CASE t.attempts + 1 >= ReopenMaxAttempts
  <2>1. Failing(t) = Finalize(u)
    BY <1>2 DEF Failing
  <2> HIDE DEF u
  <2>2. /\ Finalize(u) \in Tailers /\ Finalize(u).ending = TRUE
        /\ Finalize(u).pc = IF u.pending = <<>> THEN "close" ELSE "put"
        /\ Finalize(u).pos = u.pos /\ Finalize(u).line = u.line /\ Finalize(u).frame = u.frame
        /\ Finalize(u).ring = u.ring /\ Finalize(u).pending = u.pending
        /\ Finalize(u).seq = u.seq /\ Finalize(u).told = u.told
    BY <1>1, FinalizeFacts, Zenon
  <2>3. Failing(t).pc = IF t.pending = <<>> THEN "close" ELSE "put"
    BY <1>1, <2>1, <2>2
  <2> QED  BY <1>1, <2>1, <2>2, <2>3, Zenon
<1>3. CASE ~(t.attempts + 1 >= ReopenMaxAttempts)
  <2>1. Failing(t) = [u EXCEPT !.pc = "open"]
    <3>1. t.attempts + 1 \in Nat
      BY DEF Tailers
    <3> QED  BY <1>3, <3>1 DEF Failing, Tailers
  <2> HIDE DEF u
  <2>2. [u EXCEPT !.pc = "open"] \in Tailers
    BY <1>1 DEF Tailers, Pcs
  <2> QED  BY <1>1, <2>1, <2>2 DEF Tailers
<1> QED  BY <1>2, <1>3

-----------------------------------------------------------------------------
(* Positions and the replay filter.                                        *)

\* A position stands after one line only.
LEMMA AtUnique ==
    ASSUME TypeInv, NEW pos, NEW p \in 0 .. Len(stamps), NEW q \in 0 .. Len(stamps),
           At(pos, p), At(pos, q)
    PROVE  p = q
<1>1. ASSUME NEW i \in 0 .. Len(stamps), NEW j \in 0 .. Len(stamps), At(pos, i), At(pos, j), i < j
      PROVE  FALSE
  <2>1. j # 0 /\ pos.last = stamps[j] /\ pos.atLast \in 1 .. j
        /\ (j - pos.atLast >= 1 => stamps[j - pos.atLast] < pos.last)
    BY <1>1, StampFacts DEF At
  <2>2. i # 0
    <3>1. SUFFICES ASSUME i = 0 PROVE FALSE
      OBVIOUS
    <3>2. pos.last = 0
      BY <1>1, <3>1 DEF At, NoPosition
    <3>3. j \in 1 .. Len(stamps)
      BY <2>1, StampFacts
    <3>4. stamps[j] \in Nat /\ stamps[j] > 0
      BY <3>3, StampFacts
    <3> QED  BY <2>1, <3>2, <3>4
  <2>3. pos.last = stamps[i] /\ pos.atLast \in 1 .. i
        /\ \A k \in (i - pos.atLast + 1) .. i : stamps[k] = pos.last
    BY <1>1, <2>2 DEF At
  <2> DEFINE k == i - pos.atLast + 1
             m == j - pos.atLast
  <2>4. k \in 1 .. Len(stamps) /\ m \in 1 .. Len(stamps) /\ k <= m /\ m <= j /\ k \in k .. i
    <3>1. pos.atLast \in Nat /\ pos.atLast >= 1 /\ pos.atLast <= i /\ i \in Nat /\ j \in Nat
            /\ j <= Len(stamps) /\ Len(stamps) \in Nat
      BY <2>3, StampFacts
    <3> QED  BY <1>1, <3>1
  <2>5. stamps[k] = pos.last /\ stamps[m] < pos.last
    BY <2>1, <2>3, <2>4
  <2>6. stamps[k] <= stamps[m]
    BY <2>4, StampFacts
  <2>7. stamps[k] \in Nat /\ stamps[m] \in Nat
    BY <2>4, StampFacts
  <2> QED  BY <2>5, <2>6, <2>7
<1>2. p \in Nat /\ q \in Nat
  BY StampFacts
<1> QED  BY <1>1, <1>2

LEMMA LineAtFacts ==
    ASSUME TypeInv, NEW pos, NEW p \in 0 .. Len(stamps), At(pos, p)
    PROVE  LineAt(pos) = p
<1>1. LineAt(pos) \in 0 .. Len(stamps) /\ At(pos, LineAt(pos))
  BY Zenon DEF LineAt
<1> QED  BY <1>1, AtUnique

LEMMA PlacedFacts ==
    ASSUME TypeInv, NEW pos, Placed(pos)
    PROVE  /\ LineAt(pos) \in 0 .. Len(stamps) /\ LineAt(pos) \in Nat
           /\ At(pos, LineAt(pos)) /\ Len(stamps) \in Nat
<1>1. LineAt(pos) \in 0 .. Len(stamps) /\ At(pos, LineAt(pos))
  BY Zenon DEF LineAt, Placed
<1> QED  BY <1>1, StampFacts

LEMMA StartFacts ==
    ASSUME TypeInv
    PROVE  Placed(NoPosition) /\ LineAt(NoPosition) = 0 /\ At(NoPosition, 0)
<1>1. At(NoPosition, 0) /\ 0 \in 0 .. Len(stamps)
  BY StampFacts DEF At
<1> QED  BY <1>1, LineAtFacts DEF Placed

LEMMA PositionFacts ==
    ASSUME TypeInv, NEW pos, Placed(pos)
    PROVE  (pos.last = 0) <=> (LineAt(pos) = 0)
<1>1. At(pos, LineAt(pos)) /\ LineAt(pos) \in 0 .. Len(stamps) /\ LineAt(pos) \in Nat
  BY PlacedFacts
<1>2. CASE LineAt(pos) = 0
  BY <1>1, <1>2 DEF At, NoPosition
<1>3. CASE LineAt(pos) # 0
  <2>1. pos.last = stamps[LineAt(pos)] /\ LineAt(pos) \in 1 .. Len(stamps)
    BY <1>1, <1>3, StampFacts DEF At
  <2> QED  BY <1>3, <2>1, StampFacts
<1> QED  BY <1>2, <1>3

\* Position.advance moves a position to the next line.
LEMMA AdvanceFacts ==
    ASSUME TypeInv, NEW pos \in Positions, Placed(pos), LineAt(pos) + 1 <= Len(stamps)
    PROVE  /\ Advance(pos, stamps[LineAt(pos) + 1]) \in Positions
           /\ Placed(Advance(pos, stamps[LineAt(pos) + 1]))
           /\ LineAt(Advance(pos, stamps[LineAt(pos) + 1])) = LineAt(pos) + 1
<1> DEFINE p == LineAt(pos)
           ts == stamps[p + 1]
           new == Advance(pos, ts)
<1>1. p \in 0 .. Len(stamps) /\ p \in Nat /\ At(pos, p) /\ Len(stamps) \in Nat
  BY PlacedFacts
<1>2. p + 1 \in 1 .. Len(stamps) /\ ts \in Nat /\ ts > 0
  BY <1>1, StampFacts
<1>3. pos.last \in Nat /\ pos.atLast \in Nat
  BY DEF Positions
<1> HIDE DEF p
<1>4. CASE ts = pos.last
  <2>1. p # 0
    BY <1>1, <1>2, <1>4 DEF At, NoPosition
  <2>2. new.last = ts /\ new.atLast = pos.atLast + 1 /\ new \in Positions
    BY <1>3, <1>4 DEF Advance, Positions
  <2>3. /\ pos.last = stamps[p] /\ pos.atLast \in 1 .. p
        /\ \A j \in (p - pos.atLast + 1) .. p : stamps[j] = pos.last
        /\ p - pos.atLast >= 1 => stamps[p - pos.atLast] < pos.last
    BY <1>1, <2>1 DEF At
  <2>4. (p + 1) - new.atLast = p - pos.atLast
    BY <1>1, <1>3, <2>2
  <2>5. new.atLast \in 1 .. (p + 1)
    BY <1>1, <2>2, <2>3
  <2>6. \A j \in ((p + 1) - new.atLast + 1) .. (p + 1) : stamps[j] = new.last
    <3>1. TAKE j \in ((p + 1) - new.atLast + 1) .. (p + 1)
    <3>2. j = p + 1 \/ j \in (p - pos.atLast + 1) .. p
      BY <1>1, <1>3, <2>2, <2>4
    <3> QED  BY <1>4, <2>2, <2>3, <3>2
  <2>7. At(new, p + 1)
    BY <1>1, <1>4, <2>2, <2>3, <2>4, <2>5, <2>6 DEF At
  <2> QED  BY <1>2, <2>2, <2>7, LineAtFacts DEF Placed, p
<1>5. CASE ts # pos.last
  <2>1. new.last = ts /\ new.atLast = 1 /\ new \in Positions
    BY <1>2, <1>5 DEF Advance, Positions
  <2>2. p >= 1 => stamps[p] < ts
    <3>1. SUFFICES ASSUME p >= 1 PROVE stamps[p] < ts
      OBVIOUS
    <3>2. pos.last = stamps[p]
      BY <1>1, <3>1 DEF At
    <3>3. p \in 1 .. Len(stamps) /\ p <= p + 1
      BY <1>1, <3>1
    <3>4. stamps[p] <= stamps[p + 1] /\ stamps[p] \in Nat
      BY <1>2, <3>3, StampFacts
    <3> QED  BY <1>2, <1>5, <3>2, <3>4
  <2>3. At(new, p + 1)
    <3>1. \A j \in ((p + 1) - new.atLast + 1) .. (p + 1) : stamps[j] = new.last
      <4>1. \A j \in ((p + 1) - 1 + 1) .. (p + 1) : j = p + 1
        BY <1>1
      <4> QED  BY <2>1, <4>1
    <3>2. (p + 1) - new.atLast = p /\ new.atLast \in 1 .. (p + 1) /\ p + 1 # 0
      BY <1>1, <2>1
    <3> QED  BY <2>1, <2>2, <3>1, <3>2 DEF At
  <2> QED  BY <1>2, <2>1, <2>3, LineAtFacts DEF Placed, p
<1> QED  BY <1>4, <1>5

\* The filter keeps exactly the lines after the position the connection was opened with.
LEMMA KeepFacts ==
    ASSUME TypeInv, NEW upTo \in Positions, Placed(upTo), NEW d \in 1 .. Len(stamps), NEW seen \in Nat,
           Counted(upTo, LineAt(upTo), d, seen),
           NEW now, now = IF stamps[d] = upTo.last THEN seen + 1 ELSE seen
    PROVE  /\ Keep(upTo, now, stamps[d]) <=> d > LineAt(upTo)
           /\ Counted(upTo, LineAt(upTo), d + 1, now) /\ now \in Nat
<1> DEFINE u == LineAt(upTo)
           first == u - upTo.atLast + 1
           ts == stamps[d]
<1>1. u \in 0 .. Len(stamps) /\ u \in Nat /\ At(upTo, u) /\ Len(stamps) \in Nat /\ d \in Nat
  BY PlacedFacts
<1>2. ts \in Nat /\ ts > 0 /\ upTo.last \in Nat /\ upTo.atLast \in Nat /\ now \in Nat
  BY StampFacts DEF Positions
<1> HIDE DEF u
<1>3. CASE u = 0
  <2>1. upTo.last = 0
    BY <1>1, <1>3 DEF At, NoPosition
  <2>2. ts > upTo.last /\ d > u
    BY <1>1, <1>2, <1>3, <2>1
  <2> QED  BY <1>1, <1>2, <1>3, <2>2 DEF Keep, Counted, u
<1>4. CASE u # 0
  <2>1. /\ upTo.last = stamps[u] /\ upTo.atLast \in 1 .. u
        /\ \A j \in first .. u : stamps[j] = upTo.last
        /\ first - 1 >= 1 => stamps[first - 1] < upTo.last
    <3>1. first - 1 = u - upTo.atLast
      BY <1>1, <1>2
    <3> QED  BY <1>1, <1>4, <3>1 DEF At
  <2>2. first \in 1 .. u /\ u \in 1 .. Len(stamps) /\ first \in Int
    <3>1. upTo.atLast >= 1 /\ upTo.atLast <= u
      BY <2>1
    <3> QED  BY <1>1, <1>2, <1>4, <3>1
  <2>3. (d <= first => seen = 0) /\ (d > first /\ stamps[d - 1] = upTo.last => seen = d - first)
    BY <1>1, <1>4 DEF Counted, u
  <2>4. upTo.atLast = u - first + 1
    BY <1>1, <1>2
  <2> HIDE DEF first
  <2>5. CASE d < first
    <3>1. first - 1 \in 1 .. Len(stamps) /\ d <= first - 1
      BY <1>1, <2>2, <2>5
    <3>2. ts <= stamps[first - 1] /\ stamps[first - 1] < upTo.last /\ stamps[first - 1] \in Nat
      BY <2>1, <3>1, StampFacts
    <3>3. ts < upTo.last
      BY <1>2, <3>2
    <3>4. now = 0 /\ d <= u /\ d + 1 <= first
      BY <1>1, <1>2, <2>2, <2>3, <2>5, <3>3
    <3>5. ~Keep(upTo, now, ts)
      BY <1>2, <3>3 DEF Keep
    <3>6. Counted(upTo, u, d + 1, now)
      BY <1>1, <1>2, <2>2, <3>4 DEF Counted, first
    <3> QED  BY <1>1, <1>2, <3>4, <3>5, <3>6 DEF u
  <2>6. CASE d >= first /\ ts = upTo.last
    <3>1. now = d - first + 1
      <4>1. CASE d = first
        BY <1>1, <1>2, <2>2, <2>3, <2>6, <4>1
      <4>2. CASE d > first
        <5>1. d - 1 \in 1 .. Len(stamps) /\ first <= d - 1 /\ first \in 1 .. Len(stamps) /\ d - 1 <= d
          BY <1>1, <2>2, <4>2
        <5>2. stamps[first] <= stamps[d - 1] /\ stamps[d - 1] <= ts /\ stamps[d - 1] \in Nat
          BY <5>1, StampFacts
        <5>3. stamps[first] = upTo.last
          BY <2>1, <2>2
        <5>4. stamps[d - 1] = upTo.last
          BY <1>2, <2>6, <5>2, <5>3
        <5> QED  BY <1>1, <1>2, <2>2, <2>3, <2>6, <4>2, <5>4
      <4> QED  BY <1>1, <2>2, <2>6, <4>1, <4>2
    <3>2. Keep(upTo, now, ts) <=> d > u
      BY <1>1, <1>2, <2>2, <2>4, <2>6, <3>1 DEF Keep
    <3>3. Counted(upTo, u, d + 1, now)
      <4>1. d + 1 > first /\ now = (d + 1) - first
        BY <1>1, <2>2, <2>6, <3>1
      <4> QED  BY <1>1, <2>2, <4>1 DEF Counted, first
    <3> QED  BY <1>2, <3>2, <3>3 DEF u
  <2>7. CASE d >= first /\ ts # upTo.last
    <3>1. d > u
      BY <1>1, <2>1, <2>2, <2>7
    <3>2. upTo.last <= ts
      BY <1>1, <2>1, <2>2, <3>1, StampFacts
    <3>3. Keep(upTo, now, ts)
      BY <1>2, <2>7, <3>2 DEF Keep
    <3>4. Counted(upTo, u, d + 1, now)
      <4>1. (d + 1) - 1 = d /\ ~(d + 1 <= first)
        BY <1>1, <2>2, <2>7
      <4> QED  BY <1>1, <2>7, <4>1 DEF Counted, first
    <3> QED  BY <1>2, <3>1, <3>3, <3>4 DEF u
  <2> QED  BY <1>1, <2>2, <2>5, <2>6, <2>7
<1> QED  BY <1>3, <1>4

LEMMA LeastOf ==
    ASSUME NEW S \in SUBSET Nat, S # {}
    PROVE  \E x \in S : \A y \in S : x <= y
<1>1. PICK x \in S : \A y \in S : ~(<<y, x>> \in OpToRel(<, Nat))
  BY NatLessThanWellFounded, WFMin
<1>2. \A y \in Nat : <<y, x>> \in Nat \X Nat /\ (<<y, x>>)[1] = y /\ (<<y, x>>)[2] = x
  OBVIOUS
<1>3. \A y \in Nat : y < x => <<y, x>> \in OpToRel(<, Nat)
  BY <1>2, Zenon DEF OpToRel
<1>4. \A y \in S : ~(y < x)
  BY <1>1, <1>3, Zenon
<1> QED  BY <1>4

\* A connection starts at or before the first line with the position's timestamp, and has
\* judged none of them.
LEMMA SinceFacts ==
    ASSUME TypeInv, NEW pos \in Positions, Placed(pos)
    PROVE  /\ SinceLine(pos) \in 1 .. Len(stamps) + 1
           /\ SinceLine(pos) <= LineAt(pos) + 1
           /\ Counted(pos, LineAt(pos), SinceLine(pos), 0)
<1> DEFINE from == {i \in 1 .. Len(stamps) : stamps[i] \div 2 >= pos.last \div 2}
           p == LineAt(pos)
           first == p - pos.atLast + 1
<1>1. p \in 0 .. Len(stamps) /\ p \in Nat /\ At(pos, p) /\ Len(stamps) \in Nat
  BY PlacedFacts
<1>2. pos.last \in Nat /\ pos.atLast \in Nat
  BY DEF Positions
<1> HIDE DEF p
<1>3. CASE from = {}
  <2>1. SinceLine(pos) = Len(stamps) + 1
    BY <1>3 DEF SinceLine
  <2>2. p = 0
    <3>1. SUFFICES ASSUME p # 0 PROVE FALSE
      OBVIOUS
    <3>2. pos.last = stamps[p] /\ p \in 1 .. Len(stamps)
      BY <1>1, <3>1 DEF At
    <3>3. stamps[p] \div 2 >= pos.last \div 2
      BY <1>2, <3>2
    <3> QED  BY <1>3, <3>2, <3>3
  <2>3. Len(stamps) = 0
    <3>1. SUFFICES ASSUME Len(stamps) >= 1 PROVE FALSE
      BY <1>1
    <3>2. pos.last = 0
      BY <1>1, <2>2 DEF At, NoPosition
    <3>3. 1 \in 1 .. Len(stamps) /\ stamps[1] \in Nat
      BY <1>1, <3>1, StampFacts
    <3>4. stamps[1] \div 2 >= pos.last \div 2
      BY <3>2, <3>3
    <3> QED  BY <1>3, <3>3, <3>4
  <2> QED  BY <2>1, <2>2, <2>3 DEF Counted, p
<1>4. CASE from # {}
  <2>1. from \in SUBSET Nat
    OBVIOUS
  <2>2. \E i \in from : \A j \in from : i <= j
    BY <1>4, <2>1, LeastOf
  <2>3. SinceLine(pos) = CHOOSE i \in from : \A j \in from : i <= j
    BY <1>4 DEF SinceLine
  <2>4. SinceLine(pos) \in from /\ \A j \in from : SinceLine(pos) <= j
    BY <2>2, <2>3, Zenon
  <2>5. CASE p = 0
    <3>1. pos.last = 0
      BY <1>1, <2>5 DEF At, NoPosition
    <3>2. 1 \in 1 .. Len(stamps) /\ stamps[1] \in Nat
      BY <1>1, <1>4, StampFacts
    <3>3. 1 \in from
      BY <3>1, <3>2
    <3>4. SinceLine(pos) <= 1
      BY <2>4, <3>3
    <3> QED  BY <1>1, <2>1, <2>4, <2>5, <3>4 DEF Counted, p
  <2>6. CASE p # 0
    <3>1. /\ pos.last = stamps[p] /\ pos.atLast \in 1 .. p
          /\ \A j \in first .. p : stamps[j] = pos.last
      BY <1>1, <2>6 DEF At
    <3>2. first \in 1 .. Len(stamps) /\ first <= p /\ first \in first .. p
      BY <1>1, <3>1
    <3>3. stamps[first] = pos.last
      BY <3>1, <3>2
    <3>4. first \in from
      BY <1>2, <3>2, <3>3
    <3>5. SinceLine(pos) <= first
      BY <2>4, <3>4
    <3>6. SinceLine(pos) \in 1 .. Len(stamps)
      BY <2>4
    <3>7. Counted(pos, p, SinceLine(pos), 0)
      BY <1>1, <3>1, <3>5, <3>6 DEF Counted
    <3>8. SinceLine(pos) <= p + 1 /\ SinceLine(pos) \in 1 .. Len(stamps) + 1
      BY <1>1, <3>2, <3>5, <3>6
    <3> QED  BY <3>7, <3>8 DEF p
  <2> QED  BY <2>5, <2>6
<1> QED  BY <1>3, <1>4

-----------------------------------------------------------------------------
(* What the steps of a connection do to what is published.                 *)

LEMMA PrimedLines ==
    ASSUME stamps' = stamps
    PROVE  /\ LineAt(tl.pos)' = LineAt(tl'.pos) /\ (Placed(tl.pos)' <=> Placed(tl'.pos))
           /\ LineAt(tl.upTo)' = LineAt(tl'.upTo) /\ (Placed(tl.upTo)' <=> Placed(tl'.upTo))
           /\ LineAt(cursor.pos)' = LineAt(cursor'.pos) /\ (Placed(cursor.pos)' <=> Placed(cursor'.pos))
BY DEF LineAt, Placed, At

SameLog ==
    tl'.pending = tl.pending /\ tl'.ring = tl.ring /\ tl'.seq = tl.seq /\ tl'.told = tl.told
Says(data) ==
    /\ tl'.pc = "fan" /\ tl'.frame = data /\ tl'.seq = tl.seq /\ tl'.told = tl.told \cup Of(data)
    /\ tl'.pending = tl.pending \o data /\ tl'.ring = RingAppend(tl.ring, data)
Holds(data) == SameLog /\ tl'.pc = "consume" /\ tl'.frame = tl.frame \o data

\* Nothing is published or held.
SaysNothing ==
    /\ SameLog /\ tl'.pos = tl.pos /\ tl'.frame = tl.frame
    /\ tl'.line = "keep" => tl.line = "keep"
    /\ tl.pc = "consume" => tl'.pc = "consume"
    /\ \/ tl'.pc \in {"open", "run", "consume"} /\ ~tl'.ending
       \/ tl'.pc = (IF tl.pending = <<>> THEN "close" ELSE "put") /\ tl'.ending

\* The next line is held, or its beginning; or the rest of the last one; or part of a
\* timestamp is published.
SaysLine ==
    /\ Placed(tl'.pos) /\ LineAt(tl'.pos) = LineAt(tl.pos) + 1 /\ tl'.pos.last # 0
    /\ ~tl'.ending
    /\ \/ Holds(<<<<LineAt(tl.pos) + 1, 1>>, <<LineAt(tl.pos) + 1, 2>>>>) /\ tl'.line # "keep"
       \/ Holds(<<<<LineAt(tl.pos) + 1, 1>>>>)
SaysRest ==
    /\ tl'.pos = tl.pos /\ LineAt(tl.pos) >= 1 /\ tl.line = "keep" /\ tl'.line # "keep"
    /\ ~tl'.ending
    /\ Holds(<<<<LineAt(tl.pos), 2>>>>)
SaysFragment ==
    /\ tl.pc = "run" /\ tl'.pos = tl.pos /\ tl'.line # "keep" /\ tl'.ending
    /\ \E i \in Nat : i >= 1 /\ Says(<<<<i, 0>>>>)
Effect == SaysNothing \/ SaysLine \/ SaysRest \/ SaysFragment

LEMMA ReadEffect ==
    ASSUME TypeInv, PlaceInv, PendingInv, StreamInv, Read
    PROVE  tl' \in Tailers /\ StreamInv' /\ (SaysNothing \/ SaysLine \/ SaysRest)
<1> DEFINE i == Line(tl.at)
           ts == stamps[i]
           u == LineAt(tl.upTo)
           p == LineAt(tl.pos)
           seen == IF ts = tl.upTo.last THEN tl.seen + 1 ELSE tl.seen
           next == [tl EXCEPT !.at = @ + 1, !.attempts = 0]
           line == [tl EXCEPT !.at = @ + 3, !.attempts = 0, !.seen = seen, !.line = "header"]
<1>1. /\ tl.pc \in {"run", "consume"} /\ i <= Len(stamps) /\ tl' = Consume(tl) /\ stamps' = stamps
      /\ ~tl.ending /\ tl.ending = FALSE /\ Streaming
  <2>1. tl.ending \in BOOLEAN
    BY DEF TypeInv, Tailers
  <2> QED  BY <2>1 DEF Read, PendingInv, Streaming
<1>2. /\ Placed(tl.upTo) /\ Placed(tl.pos)
      /\ tl.line = "header" => Piece(tl.at) = 0
      /\ tl.line = "stamp" => Piece(tl.at) = 1
      /\ tl.line \in {"keep", "drop"} => Piece(tl.at) = 2
      /\ tl.line # "header" => i \in Cut
      /\ tl.line = "keep" => i > u
      /\ tl.line = "drop" => i <= u
      /\ p = IF Unjudged - 1 > u THEN Unjudged - 1 ELSE u
      /\ Counted(tl.upTo, u, Unjudged, tl.seen)
  BY <1>1 DEF StreamInv, PlaceInv
<1>3. /\ tl \in Tailers /\ tl.at \in Nat /\ tl.seen \in Nat /\ tl.pos \in Positions
      /\ tl.upTo \in Positions /\ tl.line \in {"header", "stamp", "keep", "drop"}
  BY DEF TypeInv, Tailers
<1>4. i \in Nat /\ i >= 1 /\ tl.at = 3 * (i - 1) + Piece(tl.at) /\ i \in 1 .. Len(stamps)
  <2>1. i \in Nat /\ i >= 1 /\ tl.at = 3 * (i - 1) + Piece(tl.at)
    BY <1>3, LineFacts
  <2> QED  BY <1>1, <2>1, StampFacts
<1>5. u \in Nat /\ p \in Nat /\ u \in 0 .. Len(stamps) /\ p \in 0 .. Len(stamps) /\ Len(stamps) \in Nat
  BY <1>2, PlacedFacts
<1>6. /\ LineAt(tl.pos)' = LineAt(tl'.pos) /\ LineAt(tl.upTo)' = LineAt(tl'.upTo)
      /\ (Placed(tl.upTo)' <=> Placed(tl'.upTo))
  BY <1>1, PrimedLines
\* One piece further on.
<1>7. /\ next \in Tailers /\ next.at = tl.at + 1 /\ next.line = tl.line /\ next.pos = tl.pos
      /\ next.upTo = tl.upTo /\ next.seen = tl.seen /\ next.ending = FALSE
      /\ next.pending = tl.pending /\ next.ring = tl.ring /\ next.seq = tl.seq
      /\ next.frame = tl.frame /\ next.told = tl.told
  <2>1. tl.at + 1 \in Nat /\ tl.ending = FALSE
    BY <1>1, <1>3
  <2> QED  BY <1>3, <2>1 DEF Tailers
\* Judging the line.
<1>8. ASSUME tl.line \in {"header", "stamp"}
      PROVE  /\ Unjudged = i /\ seen \in Nat /\ (Keep(tl.upTo, seen, ts) <=> i > u)
             /\ Counted(tl.upTo, u, i + 1, seen)
             /\ i > u => p + 1 = i
             /\ i <= u => p = u
  <2>1. Unjudged = i
    BY <1>8 DEF Unjudged
  <2>2. seen \in Nat /\ (Keep(tl.upTo, seen, ts) <=> i > u) /\ Counted(tl.upTo, u, i + 1, seen)
    BY <1>2, <1>3, <1>4, <2>1, KeepFacts
  <2> QED  BY <1>2, <1>4, <1>5, <2>1, <2>2
<1>9. ASSUME seen \in Nat
      PROVE  /\ line \in Tailers /\ line.at = tl.at + 3 /\ line.line = "header" /\ line.pos = tl.pos
             /\ line.upTo = tl.upTo /\ line.seen = seen /\ line.ending = FALSE
             /\ line.pending = tl.pending /\ line.ring = tl.ring /\ line.seq = tl.seq
             /\ line.frame = tl.frame /\ line.told = tl.told
  <2> HIDE DEF seen
  <2>1. tl.at + 3 \in Nat /\ tl.ending = FALSE
    BY <1>1, <1>3
  <2> QED  BY <1>3, <1>9, <2>1 DEF Tailers
<1>10. i > u /\ p + 1 = i => /\ Advance(tl.pos, ts) \in Positions /\ Placed(Advance(tl.pos, ts))
                             /\ LineAt(Advance(tl.pos, ts)) = p + 1
                             /\ Advance(tl.pos, ts).last # 0
  <2>1. SUFFICES ASSUME i > u, p + 1 = i
                 PROVE  /\ Advance(tl.pos, ts) \in Positions /\ Placed(Advance(tl.pos, ts))
                        /\ LineAt(Advance(tl.pos, ts)) = p + 1
                        /\ Advance(tl.pos, ts).last # 0
    OBVIOUS
  <2>2. /\ Advance(tl.pos, ts) \in Positions /\ Placed(Advance(tl.pos, ts))
        /\ LineAt(Advance(tl.pos, ts)) = p + 1
    BY <1>1, <1>2, <1>3, <2>1, AdvanceFacts
  <2>3. p + 1 # 0
    BY <1>5
  <2> QED  BY <2>2, <2>3, PositionFacts
\* The stream as the next judgement will find it.
<1>11. ASSUME tl' \in Tailers, ~tl'.ending, tl'.upTo = tl.upTo, NEW d \in Nat,
              Unjudged' = d, LineAt(tl'.pos) = IF d - 1 > u THEN d - 1 ELSE u,
              Line(tl'.at) <= Len(stamps) + 1,
              tl'.line = "header" => Piece(tl'.at) = 0,
              tl'.line = "stamp" => Piece(tl'.at) = 1,
              tl'.line \in {"keep", "drop"} => Piece(tl'.at) = 2,
              tl'.line # "header" => Line(tl'.at) \in Cut /\ Line(tl'.at) <= Len(stamps),
              tl'.line = "keep" => Line(tl'.at) > u,
              tl'.line = "drop" => Line(tl'.at) <= u,
              Counted(tl.upTo, u, d, tl'.seen)
       PROVE  StreamInv'
  <2>1. Counted(tl.upTo, LineAt(tl.upTo), Unjudged, tl.seen)' <=> Counted(tl'.upTo, LineAt(tl'.upTo), d, tl'.seen)
    BY <1>1, <1>6, <1>11 DEF Counted
  <2>2. Line(tl.at)' = Line(tl'.at) /\ Piece(tl.at)' = Piece(tl'.at)
    BY DEF Line, Piece
  <2> HIDE DEF i, p
  <2> QED  BY <1>1, <1>2, <1>6, <1>11, <2>1, <2>2 DEF StreamInv
<1> HIDE DEF next, line, seen
<1>12. CASE tl.line = "header" /\ i \notin Cut
  <2>1. seen \in Nat /\ (Keep(tl.upTo, seen, ts) <=> i > u) /\ Counted(tl.upTo, u, i + 1, seen)
        /\ (i > u => p + 1 = i) /\ (i <= u => p = u)
    BY <1>8, <1>12
  <2>2. tl.at + 3 = 3 * ((i + 1) - 1) + 0 /\ i + 1 \in Nat /\ i + 1 >= 1
    BY <1>2, <1>4, <1>12
  <2>3. Line(tl.at + 3) = i + 1 /\ Piece(tl.at + 3) = 0
    BY <2>2, LineOfPiece
  <2>4. CASE i > u
    <3> DEFINE t == [line EXCEPT !.pos = Advance(tl.pos, ts)]
               data == <<<<i, 1>>, <<i, 2>>>>
    <3>1. Consume(tl) = Hold(t, data)
      BY <1>12, <2>1, <2>4, Zenon DEF Consume, line, seen
    <3>2. /\ t \in Tailers /\ t.at = tl.at + 3 /\ t.line = "header" /\ t.pos = Advance(tl.pos, ts)
          /\ t.upTo = tl.upTo /\ t.seen = seen /\ t.ending = FALSE
          /\ t.pending = tl.pending /\ t.ring = tl.ring /\ t.seq = tl.seq /\ t.frame = tl.frame
          /\ t.told = tl.told
      BY <1>9, <1>10, <2>1, <2>4 DEF Tailers
    <3> HIDE DEF t
    <3>3. data \in Seq(Pieces)
      BY <1>4, PieceTypes
    <3> HIDE DEF data
    <3>4. /\ tl' \in Tailers /\ tl'.pc = "consume" /\ tl'.frame = tl.frame \o data /\ tl'.pending = tl.pending
          /\ tl'.ring = tl.ring /\ tl'.told = tl.told /\ tl'.pos = Advance(tl.pos, ts) /\ tl'.upTo = tl.upTo
          /\ tl'.seen = seen /\ tl'.at = tl.at + 3 /\ tl'.line = "header" /\ tl'.seq = tl.seq
          /\ tl'.ending = FALSE
      <4>1. tl' = Hold(t, data)
        BY <1>1, <3>1
      <4>2. Holding(t, data, tl')
        BY <3>2, <3>3, <4>1, HoldFacts
      <4> QED  BY <3>2, <3>3, <4>2, Zenon DEF Holding
    <3>5. Unjudged' = i + 1
      BY <2>3, <3>4 DEF Unjudged, Line
    <3>6. LineAt(tl'.pos) = i /\ (i + 1) - 1 = i /\ i + 1 <= Len(stamps) + 1
      <4>1. p + 1 = i /\ LineAt(Advance(tl.pos, ts)) = p + 1
        BY <1>10, <2>1, <2>4
      <4>2. (i + 1) - 1 = i /\ i + 1 <= Len(stamps) + 1
        BY <1>1, <1>4
      <4> QED  BY <3>4, <4>1, <4>2, Zenon
    <3>7. StreamInv'
      BY <1>4, <1>11, <2>1, <2>3, <2>4, <3>4, <3>5, <3>6
    <3>8. SaysLine
      BY <1>10, <2>1, <2>4, <3>4 DEF SaysLine, Holds, SameLog, data
    <3> QED  BY <3>4, <3>7, <3>8
  <2>5. CASE ~(i > u)
    <3>1. Consume(tl) = Hold(line, <<>>)
      BY <1>12, <2>1, <2>5, Zenon DEF Consume, line, seen
    <3>2. /\ tl' \in Tailers /\ tl'.pc = "consume" /\ tl'.pending = tl.pending /\ tl'.seq = tl.seq
          /\ tl'.ring = tl.ring /\ tl'.pos = tl.pos /\ tl'.upTo = tl.upTo /\ tl'.ending = FALSE
          /\ tl'.seen = seen /\ tl'.at = tl.at + 3 /\ tl'.line = "header"
          /\ tl'.frame = tl.frame /\ tl'.told = tl.told
      <4>1. /\ line \in Tailers /\ line.at = tl.at + 3 /\ line.line = "header" /\ line.pos = tl.pos
            /\ line.upTo = tl.upTo /\ line.seen = seen /\ line.ending = FALSE
            /\ line.pending = tl.pending /\ line.ring = tl.ring /\ line.seq = tl.seq
            /\ line.frame = tl.frame /\ line.told = tl.told
        BY <1>9, <2>1
      <4>2. tl' = Hold(line, <<>>)
        BY <1>1, <3>1
      <4> QED  BY <4>1, <4>2, HoldNothing
    <3>3. Unjudged' = i + 1
      BY <2>3, <3>2 DEF Unjudged, Line
    <3>4. LineAt(tl'.pos) = u /\ ~((i + 1) - 1 > u) /\ i + 1 <= Len(stamps) + 1
      BY <1>1, <1>4, <1>5, <2>1, <2>5, <3>2
    <3>5. StreamInv'
      BY <1>4, <1>11, <2>1, <2>3, <3>2, <3>3, <3>4
    <3> QED  BY <3>2, <3>5 DEF SaysNothing, SameLog
  <2> QED  BY <2>4, <2>5
<1>13. CASE tl.line = "header" /\ i \in Cut
  <2>1. Piece(tl.at) = 0
    BY <1>2, <1>13
  <2>2. tl.at + 1 = 3 * (i - 1) + 1
    BY <1>4, <2>1
  <2>3. Line(tl.at + 1) = i /\ Piece(tl.at + 1) = 1
    BY <1>4, <2>2, LineOfPiece
  <2> DEFINE t == [next EXCEPT !.line = "stamp"]
  <2>4. Consume(tl) = Hold(t, <<>>)
    <3>1. Piece(tl.at) # 1 /\ Piece(tl.at) # 2
      BY <2>1
    <3> QED  BY <1>13, <2>1, <3>1, Zenon DEF Consume, next
  <2>5. /\ tl' \in Tailers /\ tl'.pc = "consume" /\ tl'.pending = tl.pending /\ tl'.seq = tl.seq
        /\ tl'.ring = tl.ring /\ tl'.pos = tl.pos /\ tl'.upTo = tl.upTo /\ tl'.ending = FALSE
        /\ tl'.seen = tl.seen /\ tl'.at = tl.at + 1 /\ tl'.line = "stamp"
        /\ tl'.frame = tl.frame /\ tl'.told = tl.told
    <3>1. /\ t \in Tailers /\ t.at = tl.at + 1 /\ t.line = "stamp" /\ t.pos = tl.pos
          /\ t.upTo = tl.upTo /\ t.seen = tl.seen /\ t.ending = FALSE /\ t.told = tl.told
          /\ t.pending = tl.pending /\ t.ring = tl.ring /\ t.seq = tl.seq /\ t.frame = tl.frame
      BY <1>7 DEF Tailers
    <3> HIDE DEF t
    <3> QED  BY <1>1, <2>4, <3>1, HoldNothing
  <2>6. Unjudged' = i /\ Unjudged = i
    BY <1>13, <2>3, <2>5 DEF Unjudged, Line
  <2>7. /\ i \in Nat /\ LineAt(tl'.pos) = IF i - 1 > u THEN i - 1 ELSE u
        /\ Counted(tl.upTo, u, i, tl'.seen)
    BY <1>1, <1>2, <1>4, <1>5, <2>5, <2>6
  <2>8. /\ Piece(tl'.at) = 1 /\ Line(tl'.at) \in Cut /\ Line(tl'.at) <= Len(stamps)
        /\ Line(tl'.at) <= Len(stamps) + 1
    BY <1>1, <1>4, <1>13, <2>3, <2>5
  <2>9. StreamInv'
    BY <1>11, <2>5, <2>6, <2>7, <2>8
  <2> QED  BY <2>5, <2>9 DEF SaysNothing, SameLog
<1>14. CASE tl.line = "stamp"
  <2>1. seen \in Nat /\ (Keep(tl.upTo, seen, ts) <=> i > u) /\ Counted(tl.upTo, u, i + 1, seen)
        /\ (i > u => p + 1 = i) /\ (i <= u => p = u)
    BY <1>8, <1>14
  <2>2. Piece(tl.at) = 1 /\ i \in Cut
    BY <1>2, <1>14
  <2>3. tl.at + 1 = 3 * (i - 1) + 2
    BY <1>4, <2>2
  <2>4. Line(tl.at + 1) = i /\ Piece(tl.at + 1) = 2
    BY <1>4, <2>3, LineOfPiece
  <2>5. Piece(tl.at) # 0 /\ Piece(tl.at) # 2
    BY <2>2
  <2>6. CASE i > u
    <3> DEFINE t == [next EXCEPT !.seen = seen, !.line = "keep", !.pos = Advance(tl.pos, ts)]
               data == <<<<i, 1>>>>
    <3>1. Consume(tl) = Hold(t, data)
      BY <2>1, <2>2, <2>5, <2>6, Zenon DEF Consume, next, seen
    <3>2. /\ t \in Tailers /\ t.at = tl.at + 1 /\ t.line = "keep" /\ t.pos = Advance(tl.pos, ts)
          /\ t.upTo = tl.upTo /\ t.seen = seen /\ t.ending = FALSE
          /\ t.pending = tl.pending /\ t.ring = tl.ring /\ t.seq = tl.seq /\ t.frame = tl.frame
          /\ t.told = tl.told
      BY <1>7, <1>10, <2>1, <2>6 DEF Tailers
    <3> HIDE DEF t
    <3>3. data \in Seq(Pieces)
      BY <1>4, PieceTypes
    <3> HIDE DEF data
    <3>4. /\ tl' \in Tailers /\ tl'.pc = "consume" /\ tl'.frame = tl.frame \o data /\ tl'.pending = tl.pending
          /\ tl'.ring = tl.ring /\ tl'.told = tl.told /\ tl'.pos = Advance(tl.pos, ts) /\ tl'.upTo = tl.upTo
          /\ tl'.seen = seen /\ tl'.at = tl.at + 1 /\ tl'.line = "keep" /\ tl'.seq = tl.seq
          /\ tl'.ending = FALSE
      <4>1. tl' = Hold(t, data)
        BY <1>1, <3>1
      <4>2. Holding(t, data, tl')
        BY <3>2, <3>3, <4>1, HoldFacts
      <4> QED  BY <3>2, <3>3, <4>2, Zenon DEF Holding
    <3>5. Unjudged' = i + 1
      BY <2>4, <3>4 DEF Unjudged, Line
    <3>6. LineAt(tl'.pos) = i /\ (i + 1) - 1 = i /\ i <= Len(stamps) + 1
      BY <1>1, <1>4, <1>5, <1>10, <2>1, <2>6, <3>4
    <3>7. StreamInv'
      <4>1. Line(tl'.at) = i /\ Piece(tl'.at) = 2 /\ i + 1 \in Nat
        BY <1>4, <2>4, <3>4
      <4>2. LineAt(tl'.pos) = IF (i + 1) - 1 > u THEN (i + 1) - 1 ELSE u
        BY <2>6, <3>6
      <4>3. Counted(tl.upTo, u, i + 1, tl'.seen)
        BY <2>1, <3>4
      <4> QED  BY <1>1, <1>11, <2>2, <2>6, <3>4, <3>5, <3>6, <4>1, <4>2, <4>3
    <3>8. SaysLine
      BY <1>10, <2>1, <2>6, <3>4 DEF SaysLine, Holds, SameLog, data
    <3> QED  BY <3>4, <3>7, <3>8
  <2>7. CASE ~(i > u)
    <3> DEFINE t == [next EXCEPT !.seen = seen, !.line = "drop"]
    <3>1. Consume(tl) = Hold(t, <<>>)
      BY <2>1, <2>2, <2>5, <2>7, Zenon DEF Consume, next, seen
    <3>2. /\ tl' \in Tailers /\ tl'.pc = "consume" /\ tl'.pending = tl.pending /\ tl'.seq = tl.seq
          /\ tl'.ring = tl.ring /\ tl'.pos = tl.pos /\ tl'.upTo = tl.upTo /\ tl'.ending = FALSE
          /\ tl'.seen = seen /\ tl'.at = tl.at + 1 /\ tl'.line = "drop"
          /\ tl'.frame = tl.frame /\ tl'.told = tl.told
      <4>1. /\ t \in Tailers /\ t.at = tl.at + 1 /\ t.line = "drop" /\ t.pos = tl.pos
            /\ t.upTo = tl.upTo /\ t.seen = seen /\ t.ending = FALSE /\ t.told = tl.told
            /\ t.pending = tl.pending /\ t.ring = tl.ring /\ t.seq = tl.seq /\ t.frame = tl.frame
        BY <1>7, <2>1 DEF Tailers
      <4> HIDE DEF t
      <4> QED  BY <1>1, <3>1, <4>1, HoldNothing
    <3>3. Unjudged' = i + 1
      BY <2>4, <3>2 DEF Unjudged, Line
    <3>4. LineAt(tl'.pos) = u /\ ~((i + 1) - 1 > u) /\ i <= Len(stamps) + 1 /\ i <= u
      BY <1>1, <1>4, <1>5, <2>1, <2>7, <3>2
    <3>5. StreamInv'
      BY <1>1, <1>4, <1>11, <2>1, <2>2, <2>4, <3>2, <3>3, <3>4
    <3> QED  BY <3>2, <3>5 DEF SaysNothing, SameLog
  <2> QED  BY <2>6, <2>7
<1>15. CASE tl.line \in {"keep", "drop"}
  <2>1. Piece(tl.at) = 2 /\ i \in Cut /\ Unjudged = i + 1
    BY <1>2, <1>15 DEF Unjudged
  <2>2. tl.at + 1 = 3 * ((i + 1) - 1) + 0 /\ i + 1 \in Nat /\ i + 1 >= 1
    BY <1>4, <2>1
  <2>3. Line(tl.at + 1) = i + 1 /\ Piece(tl.at + 1) = 0
    BY <2>2, LineOfPiece
  <2>4. Piece(tl.at) # 0 /\ Piece(tl.at) # 1
    BY <2>1
  <2> DEFINE t == [next EXCEPT !.line = "header"]
  <2>5. /\ t \in Tailers /\ t.at = tl.at + 1 /\ t.line = "header" /\ t.pos = tl.pos
        /\ t.upTo = tl.upTo /\ t.seen = tl.seen /\ t.ending = FALSE
        /\ t.pending = tl.pending /\ t.ring = tl.ring /\ t.seq = tl.seq /\ t.frame = tl.frame
        /\ t.told = tl.told
    BY <1>7 DEF Tailers
  <2>6. CASE tl.line = "keep"
    <3> DEFINE data == <<<<i, 2>>>>
    <3>1. Consume(tl) = Hold(t, data)
      BY <2>1, <2>4, <2>6, Zenon DEF Consume, next
    <3> HIDE DEF t
    <3>2. data \in Seq(Pieces)
      BY <1>4, PieceTypes
    <3> HIDE DEF data
    <3>3. /\ tl' \in Tailers /\ tl'.pc = "consume" /\ tl'.frame = tl.frame \o data /\ tl'.pending = tl.pending
          /\ tl'.ring = tl.ring /\ tl'.told = tl.told /\ tl'.pos = tl.pos /\ tl'.upTo = tl.upTo
          /\ tl'.seen = tl.seen /\ tl'.at = tl.at + 1 /\ tl'.line = "header" /\ tl'.seq = tl.seq
          /\ tl'.ending = FALSE
      <4>1. tl' = Hold(t, data)
        BY <1>1, <3>1
      <4>2. Holding(t, data, tl')
        BY <2>5, <3>2, <4>1, HoldFacts
      <4> QED  BY <2>5, <3>2, <4>2, Zenon DEF Holding
    <3>4. Unjudged' = i + 1
      BY <2>3, <3>3 DEF Unjudged, Line
    <3>5. StreamInv'
      <4>1. /\ tl' \in Tailers /\ tl'.ending = FALSE /\ tl'.upTo = tl.upTo /\ tl'.line = "header"
            /\ Line(tl'.at) = i + 1 /\ Piece(tl'.at) = 0 /\ i + 1 \in Nat /\ i + 1 <= Len(stamps) + 1
            /\ tl'.pos = tl.pos /\ tl'.seen = tl.seen /\ Unjudged' = i + 1
        BY <1>1, <1>4, <1>5, <2>3, <3>3, <3>4
      <4>2. LineAt(tl'.pos) = IF (i + 1) - 1 > u THEN (i + 1) - 1 ELSE u
        BY <1>2, <2>1, <4>1
      <4>3. Counted(tl.upTo, u, i + 1, tl'.seen)
        BY <1>2, <2>1, <4>1
      <4> QED  BY <1>11, <4>1, <4>2, <4>3
    <3>6. p = i
      BY <1>2, <1>4, <1>5, <2>1, <2>6
    <3>7. SaysRest
      BY <1>4, <2>6, <3>3, <3>6 DEF SaysRest, Holds, SameLog, data
    <3> QED  BY <3>3, <3>5, <3>7
  <2>7. CASE tl.line # "keep"
    <3>1. Consume(tl) = Hold(t, <<>>)
      BY <2>1, <2>4, <2>7, Zenon DEF Consume, next
    <3> HIDE DEF t
    <3>0. /\ tl' \in Tailers /\ tl'.pc = "consume" /\ tl'.pending = tl.pending /\ tl'.seq = tl.seq
          /\ tl'.ring = tl.ring /\ tl'.pos = tl.pos /\ tl'.upTo = tl.upTo /\ tl'.ending = FALSE
          /\ tl'.seen = tl.seen /\ tl'.at = tl.at + 1 /\ tl'.line = "header"
          /\ tl'.frame = tl.frame /\ tl'.told = tl.told
      BY <1>1, <2>5, <3>1, HoldNothing
    <3>2. Unjudged' = i + 1
      BY <2>3, <3>0 DEF Unjudged, Line
    <3>3. StreamInv'
      <4>1. /\ tl' \in Tailers /\ tl'.ending = FALSE /\ tl'.upTo = tl.upTo /\ tl'.line = "header"
            /\ Line(tl'.at) = i + 1 /\ Piece(tl'.at) = 0 /\ i + 1 \in Nat /\ i + 1 <= Len(stamps) + 1
            /\ tl'.pos = tl.pos /\ tl'.seen = tl.seen /\ Unjudged' = i + 1
        BY <1>1, <1>4, <1>5, <2>3, <3>0, <3>2
      <4>2. LineAt(tl'.pos) = IF (i + 1) - 1 > u THEN (i + 1) - 1 ELSE u
        BY <1>2, <2>1, <4>1
      <4>3. Counted(tl.upTo, u, i + 1, tl'.seen)
        BY <1>2, <2>1, <4>1
      <4> QED  BY <1>11, <4>1, <4>2, <4>3
    <3> QED  BY <3>0, <3>3 DEF SaysNothing, SameLog
  <2> QED  BY <2>6, <2>7
<1> QED  BY <1>3, <1>12, <1>13, <1>14, <1>15

\* The run loop returns: a fragment of a timestamp is published, or the tailer is finalized.
LEMMA LeaveFacts ==
    ASSUME TypeInv, PlaceInv, tl.pc = "run", tl' = Leave(tl)
    PROVE  tl' \in Tailers /\ tl'.ending /\ (SaysNothing \/ SaysFragment)
<1>1. tl \in Tailers /\ tl.at \in Nat
  BY DEF TypeInv, Tailers
<1>2. CASE tl.line = "stamp"
  <2> DEFINE t == [tl EXCEPT !.line = "header", !.ending = TRUE]
             data == <<<<Line(tl.at), 0>>>>
  <2>1. tl' = Publish(t, data)
    BY <1>2 DEF Leave
  <2>2. /\ t \in Tailers /\ t.pending = tl.pending /\ t.ring = tl.ring /\ t.pos = tl.pos
        /\ t.line = "header" /\ t.seq = tl.seq /\ t.ending = TRUE /\ t.told = tl.told
    BY <1>1 DEF Tailers
  <2>3. data \in Seq(Pieces) /\ Line(tl.at) \in Nat /\ Line(tl.at) >= 1
    BY <1>1, LineFacts, PieceTypes
  <2> HIDE DEF t
  <2>4. Published(t, data, tl')
    BY <2>1, <2>2, <2>3, PublishFacts
  <2>5. /\ tl' \in Tailers /\ tl'.pc = "fan" /\ tl'.frame = data /\ tl'.pending = tl.pending \o data
        /\ tl'.ring = RingAppend(tl.ring, data) /\ tl'.pos = tl.pos /\ tl'.line = "header"
        /\ tl'.seq = tl.seq /\ tl'.ending = TRUE /\ tl'.told = tl.told \cup Of(data)
    BY <2>2, <2>4, Zenon DEF Published
  <2>6. Says(data)
    BY <2>5, Zenon DEF Says
  <2>7. SaysFragment
    BY <2>3, <2>5, <2>6 DEF SaysFragment
  <2> QED  BY <2>5, <2>7
<1>3. CASE tl.line # "stamp"
  <2>1. tl' = Finalize(tl)
    BY <1>3 DEF Leave
  <2>2. /\ tl' \in Tailers /\ tl'.ending = TRUE /\ tl'.line = tl.line /\ tl'.pos = tl.pos
        /\ tl'.pc = (IF tl.pending = <<>> THEN "close" ELSE "put")
        /\ tl'.pending = tl.pending /\ tl'.ring = tl.ring /\ tl'.seq = tl.seq
        /\ tl'.frame = tl.frame /\ tl'.told = tl.told
    BY <1>1, <2>1, FinalizeFacts
  <2> QED  BY <2>2 DEF SaysNothing, SameLog
<1> QED  BY <1>2, <1>3

LEMMA FailingEffect ==
    ASSUME TypeInv, PendingInv, tl.pc \in {"open", "run"}, tl' = Failing(tl)
    PROVE  tl' \in Tailers /\ (tl'.pc = "open" \/ tl'.ending) /\ SaysNothing
<1>1. tl \in Tailers /\ ~tl.ending
  BY DEF TypeInv, PendingInv
<1>2. /\ tl' \in Tailers
      /\ \/ tl'.pc = "open" /\ tl'.ending = tl.ending
         \/ tl'.pc = (IF tl.pending = <<>> THEN "close" ELSE "put") /\ tl'.ending = TRUE
      /\ tl'.pos = tl.pos /\ tl'.line = tl.line /\ tl'.frame = tl.frame /\ tl'.told = tl.told
      /\ tl'.ring = tl.ring /\ tl'.pending = tl.pending /\ tl'.seq = tl.seq
  BY <1>1, FailingFacts
<1> QED  BY <1>1, <1>2 DEF SaysNothing, SameLog

\* A new connection.
LEMMA PumpEffect ==
    ASSUME TypeInv, PlaceInv, PendingInv, stamps' = stamps, tl.pc = "open",
           tl' = [tl EXCEPT !.pc = "run", !.upTo = tl.pos, !.seen = 0, !.line = "header",
                            !.at = 3 * (SinceLine(tl.pos) - 1)]
    PROVE  tl' \in Tailers /\ StreamInv' /\ SaysNothing
<1> DEFINE since == SinceLine(tl.pos)
           at == 3 * (since - 1)
<1>1. tl \in Tailers /\ tl.pos \in Positions /\ Placed(tl.pos) /\ ~tl.ending
  BY DEF TypeInv, Tailers, PlaceInv, PendingInv
<1>2. /\ since \in 1 .. Len(stamps) + 1 /\ since <= LineAt(tl.pos) + 1 /\ Len(stamps) \in Nat
      /\ Counted(tl.pos, LineAt(tl.pos), since, 0)
  BY <1>1, SinceFacts, StampFacts
<1>3. at \in Nat /\ at = 3 * (since - 1) + 0 /\ since \in Nat /\ since >= 1
  BY <1>2
<1>4. Line(at) = since /\ Piece(at) = 0
  BY <1>3, LineOfPiece
<1> HIDE DEF at, since
<1>5. tl' = [tl EXCEPT !.pc = "run", !.upTo = tl.pos, !.seen = 0, !.line = "header", !.at = at]
  BY DEF at, since
<1>6. /\ tl' \in Tailers /\ tl'.pc = "run" /\ tl'.upTo = tl.pos /\ tl'.seen = 0 /\ tl'.line = "header"
      /\ tl'.at = at /\ tl'.pos = tl.pos /\ tl'.pending = tl.pending /\ tl'.ring = tl.ring
      /\ tl'.seq = tl.seq /\ tl'.ending = tl.ending /\ tl'.frame = tl.frame /\ tl'.told = tl.told
  <2>1. at \in Nat /\ tl \in Tailers
    BY <1>1, <1>3
  <2> DEFINE new == [tl EXCEPT !.pc = "run", !.upTo = tl.pos, !.seen = 0, !.line = "header", !.at = at]
  <2>2. new \in Tailers
    BY <2>1 DEF Tailers, Pcs
  <2>3. /\ new.pc = "run" /\ new.upTo = tl.pos /\ new.seen = 0 /\ new.line = "header"
        /\ new.at = at /\ new.pos = tl.pos /\ new.pending = tl.pending /\ new.ring = tl.ring
        /\ new.seq = tl.seq /\ new.ending = tl.ending /\ new.frame = tl.frame /\ new.told = tl.told
    BY <2>1 DEF Tailers
  <2> QED  BY <1>5, <2>2, <2>3
<1>7. /\ LineAt(tl.pos)' = LineAt(tl.pos) /\ LineAt(tl.upTo)' = LineAt(tl.pos)
      /\ (Placed(tl.upTo)' <=> Placed(tl.pos))
  BY <1>6, PrimedLines
<1>8. Unjudged' = since /\ Line(tl.at)' = since /\ Piece(tl.at)' = 0
  BY <1>4, <1>6 DEF Unjudged, Line, Piece
<1>9. Counted(tl.upTo, LineAt(tl.upTo), Unjudged, tl.seen)'
  BY <1>2, <1>6, <1>7, <1>8 DEF Counted
<1>10. LineAt(tl.pos) \in Nat
  BY <1>1, PlacedFacts
<1>11. ~(since - 1 > LineAt(tl.pos))
  BY <1>2, <1>3, <1>10
<1>12. StreamInv'
  BY <1>1, <1>2, <1>6, <1>7, <1>8, <1>9, <1>11 DEF StreamInv
<1> QED  BY <1>1, <1>6, <1>12 DEF SaysNothing, SameLog

\* The steps of a connection.
Connection == StartPump \/ Read \/ ReadEOF \/ ReadError \/ Cancelled

LEMMA ConnectionEffect ==
    ASSUME TypeInv, PlaceInv, PendingInv, StreamInv, Connection
    PROVE  tl' \in Tailers /\ StreamInv' /\ Effect /\ tl.pc \in {"open", "run", "consume"}
<1>1. CASE Read
  BY <1>1, ReadEffect DEF Effect, Read
<1>2. CASE ReadEOF
  BY <1>2, LeaveFacts DEF Effect, ReadEOF, StreamInv, Streaming
<1>3. CASE ReadError
  <2>1. tl.pc = "run" /\ tl' = Failing(tl)
    BY <1>3 DEF ReadError
  <2>2. tl' \in Tailers /\ (tl'.pc = "open" \/ tl'.ending) /\ SaysNothing
    BY <2>1, FailingEffect
  <2> QED  BY <2>1, <2>2 DEF Effect, StreamInv, Streaming
<1>4. CASE Cancelled
  <2>1. CASE tl.pc = "run" /\ tl' = Leave(tl)
    BY <2>1, LeaveFacts DEF Effect, StreamInv, Streaming
  <2>2. CASE tl.pc = "open" /\ tl' = Finalize(tl)
    <3>1. tl \in Tailers
      BY DEF TypeInv
    <3>2. /\ tl' \in Tailers /\ tl'.ending = TRUE /\ tl'.line = tl.line /\ tl'.pos = tl.pos
          /\ tl'.pc = (IF tl.pending = <<>> THEN "close" ELSE "put")
          /\ tl'.pending = tl.pending /\ tl'.ring = tl.ring /\ tl'.seq = tl.seq
          /\ tl'.frame = tl.frame /\ tl'.told = tl.told
      BY <2>2, <3>1, FinalizeFacts
    <3> QED  BY <2>2, <3>2 DEF SaysNothing, SameLog, Effect, StreamInv, Streaming
  <2> QED  BY <1>4, <2>1, <2>2 DEF Cancelled
<1>5. CASE StartPump
  <2>1. tl.pc = "open" /\ stamps' = stamps
    BY <1>5 DEF StartPump
  <2>2. CASE tl' = [tl EXCEPT !.pc = "run", !.upTo = tl.pos, !.seen = 0, !.line = "header",
                              !.at = 3 * (SinceLine(tl.pos) - 1)]
    BY <2>1, <2>2, PumpEffect DEF Effect
  <2>3. CASE tl' = Failing(tl)
    <3>1. tl' \in Tailers /\ (tl'.pc = "open" \/ tl'.ending) /\ SaysNothing
      BY <2>1, <2>3, FailingEffect
    <3> QED  BY <2>1, <3>1 DEF Effect, StreamInv, Streaming
  <2> QED  BY <1>5, <2>2, <2>3 DEF StartPump
<1> QED  BY <1>1, <1>2, <1>3, <1>4, <1>5 DEF Connection

\* What a connection leaves alone.
LEMMA ConnectionFrame ==
    ASSUME TypeInv, Connection
    PROVE  /\ UNCHANGED <<stamps, run, over, sub, chunks, cursor, rd, failed, crashed>>
           /\ left' \in [Kinds -> Nat]
BY DEF TypeInv, Connection, StartPump, Read, ReadEOF, ReadError, Cancelled, Spend, control, store,
       history, Kinds

-----------------------------------------------------------------------------
(* Logs.                                                                   *)

LEMMA PiecesFacts ==
    ASSUME NEW log, NEW x
    PROVE  x \in PiecesOf(log) <=> \E n \in DOMAIN log : \E a \in DOMAIN log[n] : x = log[n][a]
BY DEF PiecesOf

LEMMA LinesFacts ==
    ASSUME NEW log, NEW i
    PROVE  i \in LinesOf(log) <=> \E x \in PiecesOf(log) : x[2] = 1 /\ x[1] = i
BY DEF LinesOf

LEMMA PieceFacts ==
    ASSUME NEW x \in Pieces
    PROVE  x[1] \in Nat /\ x[1] >= 1 /\ x[2] \in {0, 1, 2} /\ x = <<x[1], x[2]>>
BY DEF Pieces

LEMMA LogFacts ==
    ASSUME NEW log \in Logs
    PROVE  /\ Len(log) \in Nat /\ DOMAIN log = 1 .. Len(log)
           /\ \A n \in 1 .. Len(log) : /\ log[n] \in Seq(Pieces) /\ Len(log[n]) \in Nat
                                       /\ DOMAIN log[n] = 1 .. Len(log[n])
                                       /\ \A a \in 1 .. Len(log[n]) : log[n][a] \in Pieces
           /\ PiecesOf(log) \subseteq Pieces
<1>1. /\ Len(log) \in Nat /\ DOMAIN log = 1 .. Len(log)
      /\ \A n \in 1 .. Len(log) : log[n] \in Seq(Pieces)
  BY DEF Logs
<1>2. \A n \in 1 .. Len(log) : /\ log[n] \in Seq(Pieces) /\ Len(log[n]) \in Nat
                               /\ DOMAIN log[n] = 1 .. Len(log[n])
                               /\ \A a \in 1 .. Len(log[n]) : log[n][a] \in Pieces
  BY <1>1
<1>3. PiecesOf(log) \subseteq Pieces
  BY <1>1, <1>2, PiecesFacts
<1> QED  BY <1>1, <1>2, <1>3

LEMMA LinesMono ==
    ASSUME NEW log, NEW other, PiecesOf(log) \subseteq PiecesOf(other)
    PROVE  LinesOf(log) \subseteq LinesOf(other)
BY LinesFacts

\* A line is there when its first piece is.
LEMMA LineThere ==
    ASSUME NEW log, NEW i, <<i, 1>> \in PiecesOf(log)
    PROVE  i \in LinesOf(log)
BY LinesFacts

\* A log whose last chunk has grown by data.
Grown(log, new, data) ==
    /\ log \in Logs /\ new \in Logs /\ data \in Seq(Pieces)
    /\ Len(log) >= 1 /\ Len(new) = Len(log)
    /\ \A n \in 1 .. Len(log) - 1 : new[n] = log[n]
    /\ new[Len(log)] = log[Len(log)] \o data

LEMMA GrownPlaces ==
    ASSUME NEW log, NEW new, NEW data, Grown(log, new, data)
    PROVE  LET k == Len(log)
               l == Len(log[k])
           IN  /\ k \in Nat /\ k >= 1 /\ l \in Nat /\ DOMAIN new = 1 .. k /\ DOMAIN log = 1 .. k
               /\ \A n \in 1 .. k : \A a \in DOMAIN log[n] : a \in DOMAIN new[n] /\ new[n][a] = log[n][a]
               /\ \A n \in 1 .. k : \A a \in DOMAIN new[n] :
                    \/ a \in DOMAIN log[n] /\ new[n][a] = log[n][a]
                    \/ n = k /\ a \in Nat /\ a > l /\ a - l \in DOMAIN data /\ new[n][a] = data[a - l]
               /\ \A b \in DOMAIN data : l + b \in DOMAIN new[k] /\ new[k][l + b] = data[b]
               /\ \A a \in DOMAIN log[k] : a \in Nat /\ a <= l
<1> DEFINE k == Len(log)
           l == Len(log[k])
<1>1. k \in Nat /\ k >= 1 /\ DOMAIN new = 1 .. k /\ DOMAIN log = 1 .. k /\ k \in 1 .. k
      /\ data \in Seq(Pieces) /\ log[k] \in Seq(Pieces) /\ l \in Nat
  BY LogFacts DEF Grown
<1>0. k = Len(log) /\ l = Len(log[k])
  OBVIOUS
<1> HIDE DEF k, l
<1>2. /\ new[k] = log[k] \o data /\ Len(data) \in Nat /\ DOMAIN data = 1 .. Len(data)
      /\ DOMAIN log[k] = 1 .. l
      /\ \A n \in 1 .. k : n # k => new[n] = log[n]
  <2>1. \A n \in 1 .. k : n # k => n \in 1 .. k - 1
    BY <1>1
  <2>2. new[k] = log[k] \o data /\ \A n \in 1 .. k - 1 : new[n] = log[n]
    BY <1>0 DEF Grown
  <2>3. Len(data) \in Nat /\ DOMAIN data = 1 .. Len(data) /\ DOMAIN log[k] = 1 .. l
    BY <1>0, <1>1
  <2> QED  BY <2>1, <2>2, <2>3
<1>3. /\ DOMAIN new[k] = 1 .. l + Len(data)
      /\ \A a \in 1 .. l : new[k][a] = log[k][a]
      /\ \A a \in 1 .. Len(data) : new[k][l + a] = data[a]
      /\ \A a \in (l + 1) .. (l + Len(data)) : new[k][a] = data[a - l]
  <2> DEFINE s == log[k]
  <2>1. s \in Seq(Pieces) /\ data \in Seq(Pieces) /\ new[k] = s \o data /\ Len(s) = l
    BY <1>0, <1>1, <1>2
  <2>2. s = log[k]
    OBVIOUS
  <2> HIDE DEF s
  <2>3. /\ DOMAIN (s \o data) = 1 .. Len(s) + Len(data)
        /\ \A a \in 1 .. Len(s) : (s \o data)[a] = s[a]
        /\ \A a \in 1 .. Len(data) : (s \o data)[Len(s) + a] = data[a]
        /\ \A a \in (Len(s) + 1) .. (Len(s) + Len(data)) : (s \o data)[a] = data[a - Len(s)]
    <3>1. s \in Seq(Pieces) /\ data \in Seq(Pieces)
      BY <2>1
    <3> QED  BY <3>1
  <2> QED  BY <2>1, <2>2, <2>3, Zenon
<1>4. \A n \in 1 .. k : \A a \in DOMAIN log[n] : a \in DOMAIN new[n] /\ new[n][a] = log[n][a]
  <2>1. TAKE n \in 1 .. k
  <2>2. CASE n = k
    BY <1>1, <1>2, <1>3, <2>2
  <2>3. CASE n # k
    BY <1>2, <2>3
  <2> QED  BY <2>2, <2>3
<1>5. \A n \in 1 .. k : \A a \in DOMAIN new[n] :
                    \/ a \in DOMAIN log[n] /\ new[n][a] = log[n][a]
                    \/ n = k /\ a \in Nat /\ a > l /\ a - l \in DOMAIN data /\ new[n][a] = data[a - l]
  <2>1. TAKE n \in 1 .. k
  <2>2. CASE n = k
    <3>1. TAKE a \in DOMAIN new[n]
    <3>2. a \in Nat /\ a >= 1 /\ a <= l + Len(data)
      BY <1>1, <1>2, <1>3, <2>2
    <3>3. CASE a <= l
      BY <1>1, <1>2, <1>3, <2>2, <3>2, <3>3
    <3>4. CASE a > l
      <4>1. a \in (l + 1) .. (l + Len(data)) /\ a - l \in 1 .. Len(data)
        BY <1>1, <1>2, <3>2, <3>4
      <4> QED  BY <1>2, <1>3, <2>2, <3>2, <3>4, <4>1, Zenon
    <3> QED  BY <1>1, <3>2, <3>3, <3>4
  <2>3. CASE n # k
    BY <1>2, <2>3
  <2> QED  BY <2>2, <2>3
<1>6. \A b \in DOMAIN data : l + b \in DOMAIN new[k] /\ new[k][l + b] = data[b]
  BY <1>1, <1>2, <1>3
<1>7. \A a \in DOMAIN log[k] : a \in Nat /\ a <= l
  BY <1>1, <1>2
<1> QED  BY <1>1, <1>4, <1>5, <1>6, <1>7 DEF k, l

LEMMA GrownPieces ==
    ASSUME NEW log, NEW new, NEW data, Grown(log, new, data)
    PROVE  PiecesOf(new) = PiecesOf(log) \cup Of(data)
<1>1. ASSUME NEW x \in PiecesOf(new) PROVE x \in PiecesOf(log) \cup Of(data)
  <2>1. PICK n \in DOMAIN new : \E a \in DOMAIN new[n] : x = new[n][a]
    BY <1>1, PiecesFacts
  <2>2. PICK a \in DOMAIN new[n] : x = new[n][a]
    BY <2>1
  <2>3. n \in DOMAIN log
    BY <2>1, GrownPlaces
  <2>4. \/ a \in DOMAIN log[n] /\ new[n][a] = log[n][a]
        \/ a - Len(log[Len(log)]) \in DOMAIN data /\ new[n][a] = data[a - Len(log[Len(log)])]
    BY <2>2, <2>3, GrownPlaces
  <2> QED  BY <2>2, <2>3, <2>4, PiecesFacts DEF Of
<1>2. ASSUME NEW x \in PiecesOf(log) PROVE x \in PiecesOf(new)
  <2>1. PICK n \in DOMAIN log : \E a \in DOMAIN log[n] : x = log[n][a]
    BY <1>2, PiecesFacts
  <2>2. PICK a \in DOMAIN log[n] : x = log[n][a]
    BY <2>1
  <2>3. n \in DOMAIN new /\ a \in DOMAIN new[n] /\ new[n][a] = log[n][a]
    BY <2>1, <2>2, GrownPlaces
  <2> QED  BY <2>2, <2>3, PiecesFacts
<1>3. ASSUME NEW x \in Of(data) PROVE x \in PiecesOf(new)
  <2>1. PICK b \in DOMAIN data : x = data[b]
    BY <1>3 DEF Of
  <2>2. Len(log) \in DOMAIN new
    BY GrownPlaces
  <2>3. Len(log[Len(log)]) + b \in DOMAIN new[Len(log)] /\ new[Len(log)][Len(log[Len(log)]) + b] = x
    BY <2>1, GrownPlaces
  <2> QED  BY <2>2, <2>3, PiecesFacts
<1> QED  BY <1>1, <1>2, <1>3

\* A log that grows by what comes after it stays in order.
LEMMA GrownAscending ==
    ASSUME NEW log, NEW new, NEW data, Grown(log, new, data), Ascending(log),
           \A x \in PiecesOf(log), b \in DOMAIN data :
             IsText(x) /\ IsText(data[b]) => Before(x, data[b]),
           \A a, b \in DOMAIN data : a < b /\ IsText(data[a]) /\ IsText(data[b]) => Before(data[a], data[b])
    PROVE  Ascending(new)
<1> DEFINE k == Len(log)
           l == Len(log[k])
<1>1. /\ k \in Nat /\ k >= 1 /\ l \in Nat /\ DOMAIN new = 1 .. k /\ DOMAIN log = 1 .. k
      /\ \A n \in 1 .. k : \A a \in DOMAIN new[n] :
           \/ a \in DOMAIN log[n] /\ new[n][a] = log[n][a]
           \/ n = k /\ a \in Nat /\ a > l /\ a - l \in DOMAIN data /\ new[n][a] = data[a - l]
      /\ \A a \in DOMAIN log[k] : a \in Nat /\ a <= l
  BY GrownPlaces
<1>2. DOMAIN data \subseteq Nat
  BY DEF Grown
<1> HIDE DEF k, l
<1>3. SUFFICES ASSUME NEW n \in 1 .. k, NEW m \in 1 .. k, NEW a \in DOMAIN new[n], NEW b \in DOMAIN new[m],
                      Earlier(n, a, m, b), IsText(new[n][a]), IsText(new[m][b])
               PROVE  Before(new[n][a], new[m][b])
  BY <1>1 DEF Ascending
<1>4. CASE a \in DOMAIN log[n] /\ new[n][a] = log[n][a] /\ b \in DOMAIN log[m] /\ new[m][b] = log[m][b]
  BY <1>1, <1>3, <1>4 DEF Ascending
<1>5. CASE a \in DOMAIN log[n] /\ new[n][a] = log[n][a] /\ m = k /\ b - l \in DOMAIN data /\ new[m][b] = data[b - l]
  <2>1. new[n][a] \in PiecesOf(log)
    BY <1>1, <1>5, PiecesFacts
  <2> QED  BY <1>3, <1>5, <2>1
<1>6. CASE n = k /\ a \in Nat /\ a > l /\ a - l \in DOMAIN data /\ new[n][a] = data[a - l]
  <2>1. m = k /\ a < b
    BY <1>1, <1>3, <1>6 DEF Earlier
  <2>2. b \notin DOMAIN log[k]
    BY <1>1, <1>6, <2>1
  <2>3. b \in Nat /\ b > l /\ b - l \in DOMAIN data /\ new[m][b] = data[b - l]
    BY <1>1, <1>3, <2>1, <2>2
  <2>4. a - l < b - l
    BY <1>1, <1>6, <2>1, <2>3
  <2> QED  BY <1>3, <1>6, <2>3, <2>4
<1> QED  BY <1>1, <1>3, <1>4, <1>5, <1>6

\* The next line, the rest of a line, a part of a timestamp.
LEMMA GrowByLine ==
    ASSUME NEW log, NEW new, NEW p \in Nat, NEW data,
           data = <<<<p + 1, 1>>, <<p + 1, 2>>>> \/ data = <<<<p + 1, 1>>>>,
           Grown(log, new, data), Ascending(log), Covers(log, p)
    PROVE  /\ Ascending(new) /\ Covers(new, p + 1)
           /\ data = <<<<p + 1, 1>>>> => <<p + 1, 2>> \notin PiecesOf(new)
<1>1. log \in Logs /\ PiecesOf(log) \subseteq Pieces
  BY LogFacts DEF Grown
<1>2. /\ \A b \in DOMAIN data : data[b] = <<p + 1, 1>> \/ (b = 2 /\ data[b] = <<p + 1, 2>>)
      /\ 1 \in DOMAIN data /\ data[1] = <<p + 1, 1>>
      /\ DOMAIN data \subseteq 1 .. 2
      /\ data = <<<<p + 1, 1>>>> => DOMAIN data = {1}
  OBVIOUS
<1>3. \A b \in DOMAIN data : data[b][1] = p + 1
  BY <1>2
<1>4. \A x \in PiecesOf(log) : IsText(x) => x[1] <= p /\ x[1] \in Nat
  BY <1>1, PieceFacts DEF Covers
<1>5. \A x \in PiecesOf(log), b \in DOMAIN data : IsText(x) /\ IsText(data[b]) => Before(x, data[b])
  BY <1>3, <1>4 DEF Before
<1>6. \A a, b \in DOMAIN data : a < b /\ IsText(data[a]) /\ IsText(data[b]) => Before(data[a], data[b])
  <2>1. \A a, b \in DOMAIN data : a < b => a = 1 /\ b = 2
    BY <1>2
  <2>2. \A a, b \in DOMAIN data : a < b => data[a] = <<p + 1, 1>> /\ data[b] = <<p + 1, 2>>
    BY <2>1
  <2> QED  BY <2>2 DEF Before
<1>7. Ascending(new)
  BY <1>5, <1>6, GrownAscending
<1>8. PiecesOf(new) = PiecesOf(log) \cup Of(data)
  BY GrownPieces
<1>9. LinesOf(log) \subseteq LinesOf(new) /\ p + 1 \in LinesOf(new)
  <2>1. <<p + 1, 1>> \in Of(data)
    BY <1>2 DEF Of
  <2> QED  BY <1>8, <2>1, LinesMono, LineThere
<1>10. \A x \in PiecesOf(new) : IsText(x) => x[1] <= p + 1
  <2>1. \A x \in Of(data) : x[1] = p + 1
    BY <1>3 DEF Of
  <2> QED  BY <1>4, <1>8, <2>1
<1>11. 1 .. p + 1 \subseteq LinesOf(new)
  <2>1. \A i \in 1 .. p + 1 : i \in 1 .. p \/ i = p + 1
    OBVIOUS
  <2> QED  BY <1>9, <2>1 DEF Covers
<1>12. data = <<<<p + 1, 1>>>> => <<p + 1, 2>> \notin PiecesOf(new)
  <2>1. SUFFICES ASSUME data = <<<<p + 1, 1>>>> PROVE <<p + 1, 2>> \notin PiecesOf(log) \cup Of(data)
    BY <1>8
  <2>2. <<p + 1, 2>> \notin Of(data)
    BY <1>2, <2>1 DEF Of
  <2>3. <<p + 1, 2>> \notin PiecesOf(log)
    BY <1>4 DEF IsText
  <2> QED  BY <2>2, <2>3
<1> QED  BY <1>7, <1>10, <1>11, <1>12 DEF Covers

LEMMA GrowByRest ==
    ASSUME NEW log, NEW new, NEW p \in Nat, Grown(log, new, <<<<p, 2>>>>), Ascending(log), Covers(log, p),
           <<p, 2>> \notin PiecesOf(log)
    PROVE  Ascending(new) /\ Covers(new, p)
<1> DEFINE data == <<<<p, 2>>>>
<1>1. log \in Logs /\ PiecesOf(log) \subseteq Pieces
  BY LogFacts DEF Grown
<1>2. DOMAIN data = {1} /\ data[1] = <<p, 2>>
  OBVIOUS
<1>3. \A x \in PiecesOf(log) : IsText(x) => Before(x, <<p, 2>>)
  <2>1. TAKE x \in PiecesOf(log)
  <2>2. HAVE IsText(x)
  <2>3. x[1] \in Nat /\ x[2] \in {1, 2} /\ x = <<x[1], x[2]>> /\ x[1] <= p
    BY <1>1, <2>2, PieceFacts DEF Covers, IsText
  <2>4. x[1] = p => x[2] # 2
    BY <2>3
  <2> QED  BY <2>3, <2>4 DEF Before
<1> HIDE DEF data
<1>4. Ascending(new)
  <2>1. \A x \in PiecesOf(log), b \in DOMAIN data : IsText(x) /\ IsText(data[b]) => Before(x, data[b])
    BY <1>2, <1>3
  <2>2. \A a, b \in DOMAIN data : a < b /\ IsText(data[a]) /\ IsText(data[b]) => Before(data[a], data[b])
    BY <1>2
  <2>3. Grown(log, new, data)
    BY DEF data
  <2> QED  BY <2>1, <2>2, <2>3, GrownAscending
<1>5. PiecesOf(new) = PiecesOf(log) \cup {<<p, 2>>}
  <2>1. Of(data) = {<<p, 2>>}
    BY <1>2 DEF Of
  <2> QED  BY <2>1, GrownPieces DEF data
<1>6. LinesOf(log) \subseteq LinesOf(new)
  BY <1>5, LinesMono
<1>7. \A x \in PiecesOf(new) : IsText(x) => x[1] <= p
  BY <1>5 DEF Covers
<1> QED  BY <1>4, <1>6, <1>7 DEF Covers

LEMMA GrowByFragment ==
    ASSUME NEW log, NEW new, NEW p \in Nat, NEW i \in Nat, Grown(log, new, <<<<i, 0>>>>),
           Ascending(log), Covers(log, p)
    PROVE  Ascending(new) /\ Covers(new, p)
<1> DEFINE data == <<<<i, 0>>>>
<1>1. DOMAIN data = {1} /\ data[1] = <<i, 0>> /\ ~IsText(data[1])
  BY DEF IsText
<1> HIDE DEF data
<1>2. Grown(log, new, data)
  BY DEF data
<1>3. Ascending(new)
  BY <1>1, <1>2, GrownAscending
<1>4. PiecesOf(new) = PiecesOf(log) \cup {<<i, 0>>} /\ ~IsText(<<i, 0>>)
  <2>1. Of(data) = {<<i, 0>>}
    BY <1>1 DEF Of
  <2> QED  BY <1>1, <1>2, <2>1, GrownPieces
<1>5. LinesOf(log) \subseteq LinesOf(new)
  BY <1>4, LinesMono
<1>6. \A x \in PiecesOf(new) : IsText(x) => x[1] <= p
  BY <1>4 DEF Covers
<1> QED  BY <1>3, <1>5, <1>6 DEF Covers

-----------------------------------------------------------------------------
(* Steps that leave what a part of the invariant is about alone.           *)

Inv ==
    /\ TypeInv /\ PlaceInv /\ StreamInv /\ PendingInv /\ StoreInv /\ TailInv /\ ToldInv
    /\ RingInv /\ FanInv /\ SubInv /\ ReadInv

LEMMA StoreFrame ==
    ASSUME StoreInv, UNCHANGED <<stamps, chunks, cursor>>, failed' = failed
    PROVE  StoreInv'
<1>1. LineAt(cursor.pos)' = LineAt(cursor.pos)
  BY PrimedLines
<1> QED  BY <1>1 DEF StoreInv, Base

LEMMA PlaceFrame ==
    ASSUME PlaceInv, UNCHANGED <<stamps, cursor>>, tl'.pos = tl.pos \/ Placed(tl'.pos)
    PROVE  PlaceInv'
BY PrimedLines DEF PlaceInv

LEMMA StreamFrame ==
    ASSUME StreamInv, stamps' = stamps, Streaming' => Streaming,
           tl'.pos = tl.pos, tl'.upTo = tl.upTo, tl'.seen = tl.seen, tl'.at = tl.at, tl'.line = tl.line
    PROVE  StreamInv'
<1>1. /\ LineAt(tl.pos)' = LineAt(tl.pos) /\ LineAt(tl.upTo)' = LineAt(tl.upTo)
      /\ (Placed(tl.upTo)' <=> Placed(tl.upTo))
  BY PrimedLines
<1>2. Unjudged' = Unjudged /\ Line(tl.at)' = Line(tl.at) /\ Piece(tl.at)' = Piece(tl.at)
  BY DEF Unjudged
<1>3. (Counted(tl.upTo, LineAt(tl.upTo), Unjudged, tl.seen)' <=>
         Counted(tl.upTo, LineAt(tl.upTo), Unjudged, tl.seen))
  BY <1>1, <1>2 DEF Counted
<1> QED  BY <1>1, <1>2, <1>3 DEF StreamInv

LEMMA HeldFrame ==
    ASSUME tl'.pending = tl.pending, tl'.ring = tl.ring, tl'.frame = tl.frame,
           (tl'.pc = "consume") <=> (tl.pc = "consume")
    PROVE  Held' = Held /\ RingHeld' = RingHeld
BY DEF Held, RingHeld

LEMMA ToldFrame ==
    ASSUME ToldInv, chunks' = chunks, failed' = failed \/ failed', tl'.told = tl.told,
           tl'.pending = tl.pending, tl'.seq = tl.seq, tl'.pc # "none" => tl.pc # "none"
    PROVE  ToldInv'
BY DEF ToldInv, Kept

LEMMA WrittenFrame ==
    ASSUME chunks' = chunks, tl'.seq = tl.seq, Held' = Held,
           (tl'.pc = "cursor") <=> (tl.pc = "cursor")
    PROVE  Written' = Written
BY DEF Written, Stored

LEMMA TailFrame ==
    ASSUME TailInv, UNCHANGED <<stamps, chunks, cursor>>, failed' = failed, Working' => Working,
           tl'.pos = tl.pos, tl'.seq = tl.seq, Held' = Held,
           tl'.line = "keep" => tl.line = "keep", (tl'.pc = "cursor") <=> (tl.pc = "cursor")
    PROVE  TailInv'
<1>1. LineAt(tl.pos)' = LineAt(tl.pos) /\ Written' = Written /\ Base' = Base
  BY PrimedLines, WrittenFrame DEF Base
<1> QED  BY <1>1 DEF TailInv

LEMMA RingFrame ==
    ASSUME RingInv, stamps' = stamps, tl'.ring = tl.ring, RingHeld' = RingHeld, tl'.pos = tl.pos,
           tl'.pc # "none" => tl.pc # "none"
    PROVE  RingInv'
<1>1. LineAt(tl.pos)' = LineAt(tl.pos)
  BY PrimedLines
<1> QED  BY <1>1 DEF RingInv

LEMMA SubFrame ==
    ASSUME SubInv, stamps' = stamps, sub' = sub,
           \/ sub.state # "open"
           \/ /\ tl'.pos = tl.pos /\ tl'.pc \notin {"none", "done"}
              /\ tl'.frame = tl.frame /\ (tl.pc = "fan" => tl'.pc = "fan")
    PROVE  SubInv'
<1>1. Given' = Given
  BY DEF Given
<1>2. tl'.pos = tl.pos => LineAt(tl.pos)' = LineAt(tl.pos)
  BY PrimedLines
<1>3. sub.state # "open" => SubInv'
  BY <1>1 DEF SubInv
<1>4. tl'.frame = tl.frame /\ tl'.pos = tl.pos => (Reached(Given, LineAt(tl.pos))' <=> Reached(Given, LineAt(tl.pos)))
  BY <1>1, <1>2 DEF Reached
<1> QED  BY <1>1, <1>3, <1>4 DEF SubInv

LEMMA ReadFrame ==
    ASSUME ReadInv, UNCHANGED <<rd, chunks, failed, crashed>>,
           tl'.pc = "none" /\ run' = "active" => tl.pc = "none" /\ run = "active",
           tl'.pc # "none" => tl.pc # "none" /\ tl'.seq = tl.seq
    PROVE  ReadInv'
BY DEF ReadInv

-----------------------------------------------------------------------------
(* Storing a chunk.                                                        *)

LEMMA StoredFacts ==
    ASSUME TypeInv, NEW n \in Nat, NEW c \in Seq(Pieces)
    PROVE  /\ Stored(n, c) \in Logs
           /\ n <= Len(chunks) /\ Len(chunks) <= n + 1 =>
                /\ Len(Stored(n, c)) = n + 1 /\ Stored(n, c)[n + 1] = c
                /\ \A k \in 1 .. n : Stored(n, c)[k] = chunks[k]
<1> DEFINE l == IF n + 1 > Len(chunks) THEN n + 1 ELSE Len(chunks)
           f == [k \in 1 .. l |-> IF k = n + 1 THEN c ELSE IF k <= Len(chunks) THEN chunks[k] ELSE <<>>]
<1>1. Stored(n, c) = f
  BY DEF Stored
<1>2. chunks \in Logs /\ Len(chunks) \in Nat /\ \A k \in 1 .. Len(chunks) : chunks[k] \in Seq(Pieces)
  BY LogFacts DEF TypeInv
<1>3. l \in Nat /\ l >= n + 1
  BY <1>2
<1>4. \A k \in 1 .. l : f[k] \in Seq(Pieces)
  <2>1. TAKE k \in 1 .. l
  <2>2. k \in Nat /\ k >= 1
    BY <1>3
  <2>3. k <= Len(chunks) => chunks[k] \in Seq(Pieces)
    BY <1>2, <2>2
  <2>4. <<>> \in Seq(Pieces)
    OBVIOUS
  <2> QED  BY <2>3, <2>4
<1>5. f \in Seq(Seq(Pieces)) /\ Len(f) = l
  <2> HIDE DEF l
  <2>1. DOMAIN f = 1 .. l
    OBVIOUS
  <2>2. f \in [1 .. l -> Seq(Pieces)]
    BY <1>4
  <2> HIDE DEF f
  <2> QED  BY <1>3, <2>2
<1>6. ASSUME n <= Len(chunks), Len(chunks) <= n + 1
      PROVE  /\ l = n + 1 /\ f[n + 1] = c
             /\ \A k \in 1 .. n : f[k] = chunks[k]
  <2>1. l = n + 1
    BY <1>2, <1>6
  <2>2. f[n + 1] = c
    BY <1>3
  <2>3. \A k \in 1 .. n : k \in 1 .. l /\ k # n + 1 /\ k <= Len(chunks)
    BY <1>2, <1>3, <1>6
  <2> QED  BY <2>1, <2>2, <2>3
<1> QED  BY <1>1, <1>5, <1>6 DEF Logs

\* A log that begins as another, and has nothing more, or only empty chunks more.
Begins(log, other, n) ==
    /\ log \in Logs /\ other \in Logs /\ n \in Nat /\ n <= Len(log) /\ n <= Len(other)
    /\ \A k \in 1 .. n : log[k] = other[k]
    /\ \A k \in 1 .. Len(log) : k > n => log[k] = <<>>

LEMMA BeginsPlaces ==
    ASSUME NEW log, NEW other, NEW n, Begins(log, other, n)
    PROVE  /\ DOMAIN log \subseteq Nat
           /\ \A k \in DOMAIN log : \A a \in DOMAIN log[k] :
                k \in 1 .. n /\ k \in DOMAIN other /\ a \in DOMAIN other[k] /\ log[k][a] = other[k][a]
           /\ \A k \in 1 .. n : k \in DOMAIN log /\ k \in DOMAIN other /\ log[k] = other[k]
<1>1. /\ Len(log) \in Nat /\ DOMAIN log = 1 .. Len(log) /\ Len(other) \in Nat
      /\ DOMAIN other = 1 .. Len(other) /\ n \in Nat /\ n <= Len(log) /\ n <= Len(other)
  BY LogFacts DEF Begins
<1>2. \A k \in 1 .. n : k \in DOMAIN log /\ k \in DOMAIN other /\ log[k] = other[k]
  BY <1>1 DEF Begins
<1>3. ASSUME NEW k \in DOMAIN log, NEW a \in DOMAIN log[k] PROVE k \in 1 .. n
  <2>1. log[k] # <<>>
    BY <1>3
  <2> QED  BY <1>1, <2>1 DEF Begins
<1> QED  BY <1>1, <1>2, <1>3

LEMMA BeginsAscending ==
    ASSUME NEW log, NEW other, NEW n, Begins(log, other, n), Ascending(other)
    PROVE  Ascending(log)
BY BeginsPlaces DEF Ascending

LEMMA BeginsPieces ==
    ASSUME NEW log, NEW other, NEW n, Begins(log, other, n)
    PROVE  PiecesOf(log) \subseteq PiecesOf(other)
<1>1. ASSUME NEW x \in PiecesOf(log) PROVE x \in PiecesOf(other)
  <2>1. PICK k \in DOMAIN log : \E a \in DOMAIN log[k] : x = log[k][a]
    BY <1>1, PiecesFacts
  <2>2. PICK a \in DOMAIN log[k] : x = log[k][a]
    BY <2>1
  <2>3. k \in DOMAIN other /\ a \in DOMAIN other[k] /\ x = other[k][a]
    BY <2>1, <2>2, BeginsPlaces
  <2> QED  BY <2>3, PiecesFacts
<1> QED  BY <1>1

\* When the other has nothing more either, both have the same pieces.
LEMMA BeginsSame ==
    ASSUME NEW log, NEW other, NEW n, Begins(log, other, n), Begins(other, log, n)
    PROVE  PiecesOf(log) = PiecesOf(other) /\ LinesOf(log) = LinesOf(other)
<1>1. PiecesOf(log) = PiecesOf(other)
  BY BeginsPieces
<1> QED  BY <1>1 DEF LinesOf

LEMMA SameCovers ==
    ASSUME NEW log, NEW other, NEW p, PiecesOf(log) = PiecesOf(other), Covers(other, p)
    PROVE  Covers(log, p)
BY DEF Covers, LinesOf

LEMMA CoversWhole ==
    ASSUME NEW log \in Logs, NEW p \in Nat, Covers(log, p)
    PROVE  Whole(log)
<1>1. \A x \in PiecesOf(log) : x[1] \in Nat
  BY LogFacts, PieceFacts
<1>2. \A x \in PiecesOf(log) : IsText(x) => 1 .. x[1] \subseteq 1 .. p
  BY <1>1 DEF Covers
<1> QED  BY <1>2 DEF Covers, Whole

\* The beginning of a log in order that has every line is one.
LEMMA BeginsWhole ==
    ASSUME NEW log, NEW other, NEW n, Begins(log, other, n), Ascending(other), Whole(other)
    PROVE  Whole(log)
<1>1. SUFFICES ASSUME NEW x \in PiecesOf(log), IsText(x), NEW i \in 1 .. x[1]
               PROVE  i \in LinesOf(log)
  BY DEF Whole
<1>2. PICK k \in DOMAIN log : \E a \in DOMAIN log[k] : x = log[k][a]
  BY PiecesFacts
<1>3. PICK a \in DOMAIN log[k] : x = log[k][a]
  BY <1>2
<1>4. k \in 1 .. n /\ n \in Nat /\ k \in DOMAIN other /\ a \in DOMAIN other[k] /\ x = other[k][a] /\ other \in Logs
  BY <1>2, <1>3, BeginsPlaces DEF Begins
<1>5. x \in PiecesOf(other)
  BY <1>4, PiecesFacts
<1>6. i \in LinesOf(other)
  BY <1>1, <1>5 DEF Whole
<1>7. PICK y \in PiecesOf(other) : y[2] = 1 /\ y[1] = i
  BY <1>6, LinesFacts
<1>8. PICK m \in DOMAIN other : \E b \in DOMAIN other[m] : y = other[m][b]
  BY PiecesFacts
<1>9. PICK b \in DOMAIN other[m] : y = other[m][b]
  BY <1>8
<1>10. x[1] \in Nat /\ x[2] \in {1, 2} /\ i \in Nat /\ i <= x[1]
  BY <1>1, <1>4, <1>5, LogFacts, PieceFacts DEF IsText
<1>11. m \in Nat /\ k \in Nat /\ m >= 1
  BY <1>4, <1>8, LogFacts
<1>12. ~(k < m)
  <2>1. SUFFICES ASSUME k < m PROVE FALSE
    OBVIOUS
  <2>2. Earlier(k, a, m, b) /\ IsText(y)
    BY <1>7, <2>1 DEF Earlier, IsText
  <2>3. Before(x, y)
    BY <1>1, <1>4, <1>8, <1>9, <2>2 DEF Ascending
  <2> QED  BY <1>7, <1>10, <2>3 DEF Before
<1>13. m \in 1 .. n
  BY <1>4, <1>11, <1>12
<1>14. m \in DOMAIN log /\ log[m] = other[m]
  BY <1>13, BeginsPlaces
<1>15. y \in PiecesOf(log)
  BY <1>9, <1>14, PiecesFacts
<1> QED  BY <1>7, <1>15, LinesFacts

\* The log that a chunk is stored in.
LEMMA StoredBegins ==
    ASSUME TypeInv, NEW n \in Nat, n <= Len(chunks), Len(chunks) <= n + 1
    PROVE  Begins(Stored(n, <<>>), chunks, n)
<1>1. <<>> \in Seq(Pieces) /\ chunks \in Logs
  BY DEF TypeInv
<1>2. /\ Stored(n, <<>>) \in Logs /\ Len(Stored(n, <<>>)) = n + 1 /\ Stored(n, <<>>)[n + 1] = <<>>
      /\ \A k \in 1 .. n : Stored(n, <<>>)[k] = chunks[k]
  BY <1>1, StoredFacts
<1>3. \A k \in 1 .. n + 1 : k > n => k = n + 1
  OBVIOUS
<1> QED  BY <1>1, <1>2, <1>3 DEF Begins

LEMMA FirstFacts ==
    ASSUME TypeInv, NEW n \in Nat, n <= Len(chunks)
    PROVE  Begins(First(chunks, n), chunks, n) /\ Len(First(chunks, n)) = n
<1>1. chunks \in Logs /\ Len(chunks) \in Nat /\ \A k \in 1 .. Len(chunks) : chunks[k] \in Seq(Pieces)
  BY LogFacts DEF TypeInv
<1>2. \A k \in 1 .. n : chunks[k] \in Seq(Pieces)
  BY <1>1
<1>3. First(chunks, n) \in [1 .. n -> Seq(Pieces)]
  BY <1>2 DEF First
<1>4. First(chunks, n) \in Logs /\ Len(First(chunks, n)) = n
  BY <1>3 DEF Logs
<1>5. \A k \in 1 .. n : First(chunks, n)[k] = chunks[k]
  BY DEF First
<1> QED  BY <1>1, <1>4, <1>5 DEF Begins

-----------------------------------------------------------------------------
(* The ring.                                                               *)

LEMMA OneFrame ==
    ASSUME NEW s \in Seq(Pieces), NEW q \in Nat
    PROVE  /\ PiecesOf(<<s>>) = Of(s)
           /\ \A i : i \in LinesOf(<<s>>) <=> \E b \in 1 .. Len(s) : s[b][1] = i /\ s[b][2] = 1
           /\ Level(s) => Replayed(<<s>>)
           /\ Reaches(s, q) <=> \A x \in Of(s) : IsText(x) =>
                                   x[1] <= q /\ (x[1] + 1) .. q \subseteq LinesOf(<<s>>)
<1>1. DOMAIN <<s>> = {1} /\ <<s>>[1] = s /\ DOMAIN s = 1 .. Len(s) /\ Len(s) \in Nat
  OBVIOUS
<1>2. PiecesOf(<<s>>) = Of(s)
  BY <1>1, PiecesFacts DEF Of
<1>3. Level(s) => Replayed(<<s>>)
  <2>1. Len(<<s>>) = 1
    OBVIOUS
  <2>2. Level(s) => NotAfter(<<s>>, 1, 1)
    BY <1>1 DEF Level, NotAfter, Earlier
  <2> QED  BY <1>1, <2>1, <2>2 DEF Replayed
<1>4. \A i : i \in LinesOf(<<s>>) <=> \E b \in 1 .. Len(s) : s[b][1] = i /\ s[b][2] = 1
  BY <1>1, <1>2, LinesFacts DEF Of
<1>5. Reaches(s, q) <=> \A x \in Of(s) : IsText(x) =>
                           x[1] <= q /\ (x[1] + 1) .. q \subseteq LinesOf(<<s>>)
  <2> DEFINE Filled(x) == x[1] <= q /\ \A i \in (x[1] + 1) .. q :
                                        \E b \in 1 .. Len(s) : s[b][1] = i /\ s[b][2] = 1
             Within(x) == x[1] <= q /\ (x[1] + 1) .. q \subseteq LinesOf(<<s>>)
  <2>1. \A x : Filled(x) <=> Within(x)
    BY <1>4
  <2>2. Reaches(s, q) <=> \A a \in 1 .. Len(s) : IsText(s[a]) => Filled(s[a])
    BY DEF Reaches
  <2> HIDE DEF Filled, Within
  <2>3. Reaches(s, q) <=> \A x \in Of(s) : IsText(x) => Filled(x)
    BY <1>1, <2>2 DEF Of
  <2>4. Reaches(s, q) <=> \A x \in Of(s) : IsText(x) => Within(x)
    BY <2>1, <2>3
  <2> QED  BY <2>4 DEF Within
<1> QED  BY <1>2, <1>3, <1>4, <1>5

\* Two frames, one after the other.
LEMMA TwoFrames ==
    ASSUME NEW s \in Seq(Pieces), NEW t \in Seq(Pieces)
    PROVE  /\ Of(s \o t) = Of(s) \cup Of(t)
           /\ LinesOf(<<s \o t>>) = LinesOf(<<s>>) \cup LinesOf(<<t>>)
<1> DEFINE all == s \o t
           l == Len(s)
           d == Len(t)
<1>1. /\ all \in Seq(Pieces) /\ DOMAIN all = 1 .. l + d /\ DOMAIN s = 1 .. l /\ DOMAIN t = 1 .. d
      /\ l \in Nat /\ d \in Nat
      /\ \A a \in 1 .. l : all[a] = s[a]
      /\ \A a \in 1 .. d : all[l + a] = t[a]
  BY ConcatFacts
<1>2. \A a \in 1 .. l + d : a \in 1 .. l \/ \E b \in 1 .. d : a = l + b
  <2>1. \A a \in 1 .. l + d : a \in 1 .. l \/ (a - l \in 1 .. d /\ a = l + (a - l))
    BY <1>1
  <2> QED  BY <2>1
<1>3. /\ \A a \in 1 .. l : a \in 1 .. l + d
      /\ \A b \in 1 .. d : l + b \in 1 .. l + d
  BY <1>1
<1> HIDE DEF all, l, d
<1>4. Of(all) = Of(s) \cup Of(t)
  <2>1. ASSUME NEW x \in Of(all) PROVE x \in Of(s) \cup Of(t)
    <3>1. PICK a \in 1 .. l + d : x = all[a]
      BY <1>1, <2>1 DEF Of
    <3> QED  BY <1>1, <1>2, <3>1 DEF Of
  <2>2. ASSUME NEW x \in Of(s) PROVE x \in Of(all)
    BY <1>1, <1>3, <2>2 DEF Of
  <2>3. ASSUME NEW x \in Of(t) PROVE x \in Of(all)
    <3>1. PICK b \in 1 .. d : x = t[b]
      BY <1>1, <2>3 DEF Of
    <3> QED  BY <1>1, <1>3, <3>1 DEF Of
  <2> QED  BY <2>1, <2>2, <2>3
<1>5. PiecesOf(<<all>>) = Of(all) /\ PiecesOf(<<s>>) = Of(s) /\ PiecesOf(<<t>>) = Of(t)
  <2>1. 0 \in Nat
    OBVIOUS
  <2> QED  BY <1>1, <2>1, OneFrame
<1>6. \A i : i \in LinesOf(<<all>>) <=> i \in LinesOf(<<s>>) \/ i \in LinesOf(<<t>>)
  BY <1>4, <1>5, LinesFacts
<1>7. LinesOf(<<all>>) = LinesOf(<<s>>) \cup LinesOf(<<t>>)
  BY <1>6
<1> QED  BY <1>4, <1>7 DEF all

\* The frames of a level one are level, the first is no later than the second, and the lines
\* from any of the first are in both.
LEMMA SplitFrame ==
    ASSUME NEW s \in Seq(Pieces), NEW t \in Seq(Pieces), NEW q \in Nat, Level(s \o t), Reaches(s \o t, q)
    PROVE  /\ Level(s)
           /\ \A x \in Of(s), y \in Of(t) : IsText(x) /\ IsText(y) => x[1] <= y[1]
           /\ \A x \in Of(s) : IsText(x) =>
                x[1] <= q /\ (x[1] + 1) .. q \subseteq LinesOf(<<s>>) \cup LinesOf(<<t>>)
<1> DEFINE all == s \o t
           l == Len(s)
           d == Len(t)
<1>1. /\ all \in Seq(Pieces) /\ Len(all) = l + d /\ DOMAIN s = 1 .. l /\ DOMAIN t = 1 .. d
      /\ l \in Nat /\ d \in Nat
      /\ \A a \in 1 .. l : all[a] = s[a]
      /\ \A a \in 1 .. d : all[l + a] = t[a]
  BY ConcatFacts
<1>2. Of(all) = Of(s) \cup Of(t) /\ LinesOf(<<all>>) = LinesOf(<<s>>) \cup LinesOf(<<t>>)
  BY TwoFrames
<1>3. Level(all) /\ Reaches(all, q)
  OBVIOUS
<1> HIDE DEF all
<1>4. Level(s)
  <2>1. \A a \in 1 .. l : a \in 1 .. Len(all)
    BY <1>1
  <2> QED  BY <1>1, <1>3, <2>1 DEF Level
<1>5. ASSUME NEW x \in Of(s), NEW y \in Of(t), IsText(x), IsText(y) PROVE x[1] <= y[1]
  <2>1. PICK a \in 1 .. l : x = s[a]
    BY <1>1, <1>5 DEF Of
  <2>2. PICK b \in 1 .. d : y = t[b]
    BY <1>1, <1>5 DEF Of
  <2>3. a \in 1 .. Len(all) /\ l + b \in 1 .. Len(all) /\ a < l + b
    BY <1>1
  <2> QED  BY <1>1, <1>3, <1>5, <2>1, <2>2, <2>3 DEF Level
<1>6. \A x \in Of(all) : IsText(x) => x[1] <= q /\ (x[1] + 1) .. q \subseteq LinesOf(<<all>>)
  BY <1>1, <1>3, OneFrame
<1> QED  BY <1>2, <1>4, <1>5, <1>6

\* From where the lines go on to q there is no gap.
LEMMA ReachesUnbroken ==
    ASSUME NEW s \in Seq(Pieces), NEW q \in Nat, Reaches(s, q)
    PROVE  Unbroken(<<s>>)
<1>1. /\ PiecesOf(<<s>>) = Of(s)
      /\ \A x \in Of(s) : IsText(x) => x[1] <= q /\ (x[1] + 1) .. q \subseteq LinesOf(<<s>>)
  BY OneFrame
<1>2. \A x \in Of(s) : x[1] \in Nat
  BY PieceFacts DEF Of
<1>3. SUFFICES ASSUME NEW x \in Of(s), NEW y \in Of(s), IsText(x), IsText(y), NEW i \in (x[1] + 1) .. y[1]
               PROVE  i \in LinesOf(<<s>>)
  BY <1>1 DEF Unbroken
<1>4. i \in (x[1] + 1) .. q
  BY <1>1, <1>2, <1>3
<1> QED  BY <1>1, <1>3, <1>4

\* What is appended to the ring ends it.
LEMMA RingEnds ==
    ASSUME NEW ring \in Seq(Pieces), NEW data \in Seq(Pieces)
    PROVE  SameEnd(RingAppend(ring, data), data)
<1> DEFINE r == RingAppend(ring, data)
           all == ring \o data
           l == Len(ring)
           d == Len(data)
<1>1. r \in Seq(Pieces)
  BY RingAppendFacts
<1>2. PICK k \in Nat : k + Len(r) = l + d /\ \A a \in 1 .. Len(r) : r[a] = all[k + a]
  BY RingAppendFacts, Zenon
<1>3. l \in Nat /\ d \in Nat /\ Len(r) \in Nat /\ \A a \in 1 .. d : all[l + a] = data[a]
  BY <1>1, ConcatFacts
<1> HIDE DEF r, all, l
<1>4. SUFFICES ASSUME NEW j \in 0 .. Len(r) - 1, j < d PROVE r[Len(r) - j] = data[d - j]
  BY DEF SameEnd, r
<1>5. Len(r) - j \in 1 .. Len(r) /\ k + (Len(r) - j) = l + (d - j) /\ d - j \in 1 .. d
  BY <1>2, <1>3, <1>4
<1> QED  BY <1>2, <1>3, <1>5

\* What is left of a frame when its beginning is dropped.
LEMMA LevelSuffix ==
    ASSUME NEW s \in Seq(Pieces), NEW r \in Seq(Pieces), NEW k \in Nat, NEW q \in Nat,
           k + Len(r) = Len(s), \A a \in 1 .. Len(r) : r[a] = s[k + a], Level(s), Reaches(s, q)
    PROVE  Level(r) /\ Reaches(r, q)
<1>1. /\ Len(r) \in Nat /\ Len(s) \in Nat
      /\ \A a \in 1 .. Len(r) : k + a \in 1 .. Len(s) /\ a \in Nat
      /\ \A a \in 1 .. Len(s) : s[a][1] \in Nat
  <2>1. \A a \in 1 .. Len(s) : s[a] \in Pieces
    OBVIOUS
  <2> QED  BY <2>1, PieceFacts
<1>2. Level(r)
  <2>1. SUFFICES ASSUME NEW a \in 1 .. Len(r), NEW b \in 1 .. Len(r), a < b, IsText(r[a]), IsText(r[b])
                 PROVE  r[a][1] <= r[b][1]
    BY DEF Level
  <2>2. k + a \in 1 .. Len(s) /\ k + b \in 1 .. Len(s) /\ k + a < k + b /\ r[a] = s[k + a] /\ r[b] = s[k + b]
    BY <1>1, <2>1
  <2> QED  BY <2>1, <2>2 DEF Level
<1>3. Reaches(r, q)
  <2>1. SUFFICES ASSUME NEW a \in 1 .. Len(r), IsText(r[a])
                 PROVE  /\ r[a][1] <= q
                        /\ \A i \in (r[a][1] + 1) .. q : \E b \in 1 .. Len(r) : r[b][1] = i /\ r[b][2] = 1
    BY DEF Reaches
  <2>2. k + a \in 1 .. Len(s) /\ r[a] = s[k + a] /\ s[k + a][1] \in Nat /\ a \in Nat
    BY <1>1
  <2>3. /\ s[k + a][1] <= q
        /\ \A i \in (s[k + a][1] + 1) .. q : \E b \in 1 .. Len(s) : s[b][1] = i /\ s[b][2] = 1
    BY <2>1, <2>2 DEF Reaches
  <2>4. ASSUME NEW i \in (r[a][1] + 1) .. q
        PROVE  \E b \in 1 .. Len(r) : r[b][1] = i /\ r[b][2] = 1
    <3>1. PICK b \in 1 .. Len(s) : s[b][1] = i /\ s[b][2] = 1
      BY <2>2, <2>3
    <3>2. b \in Nat /\ i \in Nat /\ i > s[k + a][1] /\ IsText(s[b]) /\ IsText(s[k + a])
      BY <1>1, <2>1, <2>2, <3>1 DEF IsText
    <3>3. ~(b < k + a) /\ b # k + a
      <4>1. b # k + a
        <5>1. s[b][1] # s[k + a][1]
          BY <2>2, <3>1, <3>2
        <5> QED  BY <5>1, Zenon
      <4>2. b < k + a => s[b][1] <= s[k + a][1]
        BY <2>2, <3>1, <3>2 DEF Level
      <4> QED  BY <2>2, <3>1, <3>2, <4>1, <4>2
    <3>4. b - k \in 1 .. Len(r) /\ k + (b - k) = b
      BY <1>1, <2>2, <3>2, <3>3
    <3>5. r[b - k] = s[b]
      BY <3>4
    <3> QED  BY <3>1, <3>4, <3>5
  <2> QED  BY <2>2, <2>3, <2>4
<1> QED  BY <1>2, <1>3

\* A frame published at line p: its text is of line q, which is p or, then begun by it, the next.
FrameOf(data, p, q) ==
    /\ data \in Seq(Pieces)
    /\ \A a \in 1 .. Len(data) : IsText(data[a]) => data[a][1] = q
    /\ \/ q = p
       \/ q = p + 1 /\ 1 \in 1 .. Len(data) /\ data[1] = <<q, 1>>

LEMMA LevelConcat ==
    ASSUME NEW s \in Seq(Pieces), NEW data, NEW p \in Nat, NEW q \in Nat, FrameOf(data, p, q),
           Level(s), Reaches(s, p)
    PROVE  Level(s \o data) /\ Reaches(s \o data, q)
<1> DEFINE all == s \o data
           l == Len(s)
           d == Len(data)
<1>1. data \in Seq(Pieces) /\ l \in Nat /\ d \in Nat /\ (q = p \/ q = p + 1)
      /\ \A a \in 1 .. l : s[a] \in Pieces /\ s[a][1] \in Nat
  <2>1. \A a \in 1 .. l : s[a] \in Pieces
    OBVIOUS
  <2> QED  BY <2>1, PieceFacts DEF FrameOf
<1>2. /\ Len(all) = l + d
      /\ \A a \in 1 .. l : all[a] = s[a]
      /\ \A a \in 1 .. d : all[l + a] = data[a]
  BY <1>1, ConcatFacts
<1>3. \A a \in 1 .. l + d : a \in 1 .. l \/ (a \in Nat /\ a > l /\ a - l \in 1 .. d /\ l + (a - l) = a)
  BY <1>1
<1> HIDE DEF all, l, d
<1>4. \A a \in 1 .. l + d : a \notin 1 .. l => all[a] = data[a - l]
  BY <1>2, <1>3
<1>5. \A a \in 1 .. l : IsText(s[a]) => s[a][1] <= p /\ s[a][1] <= q
  BY <1>1 DEF Reaches, l
<1>6. \A a \in 1 .. l + d : a \notin 1 .. l /\ IsText(all[a]) => all[a][1] = q
  BY <1>3, <1>4 DEF FrameOf, d
<1>7. Level(all)
  <2>1. SUFFICES ASSUME NEW a \in 1 .. l + d, NEW b \in 1 .. l + d, a < b, IsText(all[a]), IsText(all[b])
                 PROVE  all[a][1] <= all[b][1]
    BY <1>2 DEF Level
  <2>2. CASE a \in 1 .. l /\ b \in 1 .. l
    BY <1>2, <2>1, <2>2 DEF Level, l
  <2>3. CASE a \in 1 .. l /\ b \notin 1 .. l
    BY <1>2, <1>5, <1>6, <2>1, <2>3
  <2>4. CASE a \notin 1 .. l
    <3>1. b \notin 1 .. l
      BY <1>1, <1>3, <2>1, <2>4
    <3> QED  BY <1>6, <2>1, <2>4, <3>1
  <2> QED  BY <2>2, <2>3, <2>4
<1>8. Reaches(all, q)
  <2>1. SUFFICES ASSUME NEW a \in 1 .. l + d, IsText(all[a])
                 PROVE  /\ all[a][1] <= q
                        /\ \A i \in (all[a][1] + 1) .. q : \E b \in 1 .. l + d : all[b][1] = i /\ all[b][2] = 1
    BY <1>2 DEF Reaches
  <2>2. CASE a \notin 1 .. l
    BY <1>6, <2>1, <2>2
  <2>3. CASE a \in 1 .. l
    <3>1. all[a] = s[a] /\ s[a][1] \in Nat /\ s[a][1] <= q /\ s[a][1] <= p
      BY <1>1, <1>2, <1>5, <2>1, <2>3
    <3>2. ASSUME NEW i \in (s[a][1] + 1) .. q PROVE \E b \in 1 .. l + d : all[b][1] = i /\ all[b][2] = 1
      <4>1. CASE i <= p
        <5>1. PICK b \in 1 .. l : s[b][1] = i /\ s[b][2] = 1
          BY <2>1, <2>3, <3>1, <4>1 DEF Reaches, l
        <5>2. b \in 1 .. l + d /\ all[b] = s[b]
          BY <1>1, <1>2, <5>1
        <5> QED  BY <5>1, <5>2
      <4>2. CASE ~(i <= p)
        <5>1. q = p + 1 /\ i = q
          BY <1>1, <3>1, <3>2, <4>2
        <5>2. 1 \in 1 .. d /\ data[1] = <<q, 1>>
          BY <5>1 DEF FrameOf, d
        <5>3. l + 1 \in 1 .. l + d /\ all[l + 1] = <<q, 1>>
          BY <1>1, <1>2, <5>2
        <5> QED  BY <5>1, <5>3
      <4> QED  BY <4>1, <4>2
    <3> QED  BY <3>1, <3>2
  <2> QED  BY <2>2, <2>3
<1> QED  BY <1>7, <1>8 DEF all

LEMMA RingGrows ==
    ASSUME NEW ring \in Seq(Pieces), NEW data, NEW p \in Nat, NEW q \in Nat, FrameOf(data, p, q),
           Level(ring), Reaches(ring, p)
    PROVE  /\ RingAppend(ring, data) \in Seq(Pieces)
           /\ Level(RingAppend(ring, data)) /\ Reaches(RingAppend(ring, data), q)
<1> DEFINE r == RingAppend(ring, data)
           all == ring \o data
<1>1. data \in Seq(Pieces)
  BY DEF FrameOf
<1>2. all \in Seq(Pieces) /\ Len(all) = Len(ring) + Len(data)
  BY <1>1, ConcatFacts
<1>3. Level(all) /\ Reaches(all, q)
  BY <1>1, LevelConcat
<1>4. r \in Seq(Pieces)
  BY <1>1, RingAppendFacts
<1>5. PICK k \in Nat : k + Len(r) = Len(all) /\ \A a \in 1 .. Len(r) : r[a] = all[k + a]
  <2>1. \E k \in Nat : /\ k + Len(r) = Len(ring) + Len(data)
                       /\ \A a \in 1 .. Len(r) : r[a] = (ring \o data)[k + a]
    BY <1>1, RingAppendFacts, Zenon
  <2> QED  BY <1>2, <2>1, Zenon
<1> HIDE DEF all, r
<1>6. Level(r) /\ Reaches(r, q)
  BY <1>2, <1>3, <1>4, <1>5, LevelSuffix
<1> QED  BY <1>4, <1>6 DEF r

-----------------------------------------------------------------------------
(* The steps of a connection.                                              *)

LEMMA HeldTypes ==
    ASSUME TypeInv
    PROVE  Held \in Seq(Pieces) /\ RingHeld \in Seq(Pieces)
<1>1. tl.pending \in Seq(Pieces) /\ tl.ring \in Seq(Pieces) /\ tl.frame \in Seq(Pieces)
  BY DEF TypeInv, Tailers
<1>2. tl.pending \o tl.frame \in Seq(Pieces) /\ tl.ring \o tl.frame \in Seq(Pieces)
  BY <1>1, ConcatFacts
<1> QED  BY <1>1, <1>2 DEF Held, RingHeld

LEMMA HoldsHeld ==
    ASSUME TypeInv, PendingInv, tl.pc \in {"open", "run", "consume"}, NEW data \in Seq(Pieces), Holds(data)
    PROVE  Held' = Held \o data /\ RingHeld' = RingHeld \o data
<1>1. tl.pending \in Seq(Pieces) /\ tl.ring \in Seq(Pieces) /\ tl.frame \in Seq(Pieces)
  BY DEF TypeInv, Tailers
<1>2. Held' = tl.pending \o (tl.frame \o data) /\ RingHeld' = tl.ring \o (tl.frame \o data)
  BY DEF Holds, SameLog, Held, RingHeld
<1>3. CASE tl.pc = "consume"
  <2>1. Held \o data = (tl.pending \o tl.frame) \o data /\ RingHeld \o data = (tl.ring \o tl.frame) \o data
    BY <1>3 DEF Held, RingHeld
  <2>2. ASSUME NEW r \in Seq(Pieces), NEW s \in Seq(Pieces) PROVE (r \o s) \o data = r \o (s \o data)
    BY ConcatAssoc
  <2>3. (tl.pending \o tl.frame) \o data = tl.pending \o (tl.frame \o data)
    BY <1>1, <2>2, Zenon
  <2>4. (tl.ring \o tl.frame) \o data = tl.ring \o (tl.frame \o data)
    BY <1>1, <2>2, Zenon
  <2> QED  BY <1>2, <2>1, <2>3, <2>4
<1>4. CASE tl.pc # "consume"
  <2>1. tl.frame = <<>> /\ Held = tl.pending /\ RingHeld = tl.ring
    BY <1>4 DEF Held, RingHeld, PendingInv
  <2>2. <<>> \o data = data
    BY ConcatEmpty
  <2> QED  BY <1>2, <2>1, <2>2
<1> QED  BY <1>3, <1>4

LEMMA NothingHeld ==
    ASSUME TypeInv, PendingInv, tl.pc \in {"open", "run", "consume"}, SaysNothing
    PROVE  Held' = Held /\ RingHeld' = RingHeld
<1>1. /\ tl'.pending = tl.pending /\ tl'.ring = tl.ring /\ tl'.frame = tl.frame
      /\ tl.pc = "consume" => tl'.pc = "consume"
      /\ tl.pc # "consume" => tl.frame = <<>>
  BY DEF SaysNothing, SameLog, PendingInv
<1>2. tl.pending \o <<>> = tl.pending /\ tl.ring \o <<>> = tl.ring
  BY ConcatEmpty DEF TypeInv, Tailers
<1> QED  BY <1>1, <1>2 DEF Held, RingHeld

\* Data reaches the tailer: it is held, or published at once.
Takes(data) == Holds(data) \/ (tl.pc = "run" /\ Says(data))

LEMMA TakesHeld ==
    ASSUME TypeInv, PendingInv, tl.pc \in {"open", "run", "consume"}, NEW data \in Seq(Pieces), Takes(data)
    PROVE  /\ Held' = Held \o data /\ tl'.seq = tl.seq /\ tl'.pc \in {"consume", "fan"}
           /\ tl'.frame = tl.frame \o data
<1>1. CASE Holds(data)
  BY <1>1, HoldsHeld DEF Holds, SameLog
<1>2. CASE tl.pc = "run" /\ Says(data)
  <2>1. tl.frame = <<>> /\ <<>> \o data = data
    BY <1>2, ConcatEmpty DEF PendingInv
  <2> QED  BY <1>2, <2>1 DEF Says, Held
<1> QED  BY <1>1, <1>2 DEF Takes

LEMMA EffectFrame ==
    ASSUME TypeInv, PlaceInv, stamps' = stamps, tl' \in Tailers, Effect
    PROVE  /\ Placed(tl'.pos) /\ LineAt(tl'.pos) \in Nat
           /\ SaysNothing \/ \E data : Takes(data) /\ FrameOf(data, LineAt(tl.pos), LineAt(tl'.pos))
<1> DEFINE p == LineAt(tl.pos)
           q == LineAt(tl'.pos)
<1>1. p \in Nat /\ Placed(tl.pos)
  BY PlacedFacts DEF PlaceInv
<1>2. Placed(tl'.pos)
  BY <1>1 DEF Effect, SaysNothing, SaysLine, SaysRest, SaysFragment
<1>3. q \in Nat
  BY <1>2, PlacedFacts
<1>4. SUFFICES ASSUME ~SaysNothing PROVE \E data : Takes(data) /\ FrameOf(data, p, q)
  BY <1>2, <1>3
<1>5. CASE SaysLine
  <2>1. PICK data : Holds(data) /\ (data = <<<<p + 1, 1>>, <<p + 1, 2>>>> \/ data = <<<<p + 1, 1>>>>)
    BY <1>5 DEF SaysLine
  <2>2. q = p + 1 /\ p + 1 \in Nat /\ p + 1 >= 1
    BY <1>1, <1>5 DEF SaysLine
  <2>3. data \in Seq(Pieces)
    BY <2>1, <2>2, PieceTypes
  <2>4. (\A a \in 1 .. Len(data) : data[a][1] = q) /\ 1 \in 1 .. Len(data) /\ data[1] = <<q, 1>>
    <3> HIDE DEF p, q
    <3> QED  BY <2>1, <2>2
  <2> QED  BY <2>1, <2>2, <2>3, <2>4 DEF FrameOf, Takes
<1>6. CASE SaysRest
  <2> DEFINE data == <<<<p, 2>>>>
  <2>1. q = p /\ Holds(data) /\ p >= 1
    BY <1>6 DEF SaysRest
  <2>2. data \in Seq(Pieces)
    BY <1>1, <2>1, PieceTypes
  <2>3. \A a \in 1 .. Len(data) : data[a][1] = q
    <3> HIDE DEF p, q
    <3> QED  BY <2>1
  <2> HIDE DEF data
  <2> QED  BY <2>1, <2>2, <2>3 DEF FrameOf, Takes
<1>7. CASE SaysFragment
  <2>1. PICK i \in Nat : i >= 1 /\ Says(<<<<i, 0>>>>)
    BY <1>7 DEF SaysFragment
  <2> DEFINE data == <<<<i, 0>>>>
  <2>2. q = p /\ tl.pc = "run" /\ Says(data)
    BY <1>7, <2>1 DEF SaysFragment
  <2>3. data \in Seq(Pieces)
    BY <2>1, PieceTypes
  <2>4. ASSUME NEW a \in 1 .. Len(data) PROVE ~IsText(data[a])
    <3>1. Len(data) = 1 /\ data[1] = <<i, 0>>
      OBVIOUS
    <3>2. data[a] = <<i, 0>>
      <4> HIDE DEF data
      <4> QED  BY <3>1
    <3> QED  BY <3>2 DEF IsText
  <2> HIDE DEF data
  <2> QED  BY <2>2, <2>3, <2>4 DEF FrameOf, Takes
<1> QED  BY <1>4, <1>5, <1>6, <1>7 DEF Effect

LEMMA ConnectionPending ==
    ASSUME TypeInv, PlaceInv, PendingInv, tl.pc \in {"open", "run", "consume"}, tl' \in Tailers, Effect
    PROVE  PendingInv'
<1>1. CASE SaysNothing
  BY <1>1 DEF SaysNothing, SameLog, PendingInv
<1>2. CASE SaysLine
  <2>1. tl'.pc = "consume" /\ tl'.pos.last # 0 /\ ~tl'.ending
    BY <1>2 DEF SaysLine, Holds
  <2> QED  BY <2>1 DEF PendingInv
<1>3. CASE SaysRest
  <2>1. tl'.pc = "consume" /\ tl'.pos = tl.pos /\ LineAt(tl.pos) >= 1 /\ ~tl'.ending
    BY <1>3 DEF SaysRest, Holds
  <2>2. Placed(tl.pos)
    BY DEF PlaceInv
  <2>3. tl.pos.last # 0
    BY <2>1, <2>2, PositionFacts
  <2> QED  BY <2>1, <2>3 DEF PendingInv
<1>4. CASE SaysFragment
  <2>1. tl'.pc = "fan" /\ tl'.ending
    BY <1>4 DEF SaysFragment, Says
  <2> QED  BY <2>1 DEF PendingInv
<1> QED  BY <1>1, <1>2, <1>3, <1>4 DEF Effect

LEMMA ConnectionTold ==
    ASSUME TypeInv, ToldInv, tl.pc \in {"open", "run", "consume"}, Effect, UNCHANGED <<chunks, failed>>
    PROVE  ToldInv'
<1>1. CASE SameLog
  BY <1>1, ToldFrame DEF SameLog
<1>2. CASE SaysFragment
  <2>1. PICK i \in Nat : i >= 1 /\ Says(<<<<i, 0>>>>)
    BY <1>2 DEF SaysFragment
  <2> DEFINE data == <<<<i, 0>>>>
  <2>2. tl.pending \in Seq(Pieces) /\ data \in Seq(Pieces)
    BY <2>1, PieceTypes DEF TypeInv, Tailers
  <2> HIDE DEF data
  <2>3. /\ tl'.told = tl.told \cup Of(data) /\ tl'.seq = tl.seq
        /\ Of(tl'.pending) = Of(tl.pending) \cup Of(data)
    BY <2>1, <2>2, TwoFrames DEF Says, data
  <2> QED  BY <2>3 DEF ToldInv, Kept
<1> QED  BY <1>1, <1>2 DEF Effect, SaysNothing, SaysLine, SaysRest, Holds

LEMMA WrittenGrows ==
    ASSUME TypeInv, TypeInv', chunks' = chunks, tl.pc # "cursor", tl'.pc # "cursor", tl'.seq = tl.seq,
           NEW data \in Seq(Pieces), Held' = Held \o data,
           tl.seq <= Len(chunks), Len(chunks) <= tl.seq + 1
    PROVE  Grown(Written, Written', data)
<1> DEFINE n == tl.seq
           old == Held
           new == Held'
<1>1. n \in Nat /\ old \in Seq(Pieces) /\ new \in Seq(Pieces) /\ new = old \o data /\ tl'.seq = n
  <2>1. n \in Nat
    BY DEF TypeInv, Tailers
  <2>2. old \in Seq(Pieces)
    BY HeldTypes
  <2> QED  BY <2>1, <2>2, ConcatFacts
<1>2. Written = Stored(n, old) /\ Written' = Stored(n, new)
  BY <1>1 DEF Written, Stored
<1> HIDE DEF n, old, new
<1>3. n <= Len(chunks) /\ Len(chunks) <= n + 1
  BY DEF n
<1>4. /\ Written \in Logs /\ Len(Written) = n + 1 /\ Written[n + 1] = old
      /\ \A k \in 1 .. n : Written[k] = chunks[k]
  BY <1>1, <1>2, <1>3, StoredFacts
<1>5. /\ Written' \in Logs /\ Len(Written') = n + 1 /\ Written'[n + 1] = new
      /\ \A k \in 1 .. n : Written'[k] = chunks[k]
  BY <1>1, <1>2, <1>3, StoredFacts
<1>6. n + 1 >= 1 /\ (n + 1) - 1 = n
  BY <1>1
<1> QED  BY <1>1, <1>4, <1>5, <1>6 DEF Grown

LEMMA ConnectionTail ==
    ASSUME TypeInv, TypeInv', PlaceInv, PendingInv, StoreInv, TailInv, tl.pc \in {"open", "run", "consume"},
           Effect, UNCHANGED <<stamps, chunks, cursor, failed>>
    PROVE  TailInv'
<1> DEFINE p == LineAt(tl.pos)
<1>1. p \in Nat /\ Base' = Base /\ LineAt(tl.pos)' = LineAt(tl'.pos)
  BY PlacedFacts, PrimedLines DEF PlaceInv, Base
<1>2. CASE SaysNothing
  <2>1. /\ tl'.pos = tl.pos /\ tl'.seq = tl.seq
        /\ tl'.line = "keep" => tl.line = "keep"
        /\ tl'.pc # "cursor" /\ tl.pc # "cursor" /\ Working
    BY <1>2 DEF SaysNothing, SameLog, Working
  <2>2. Held' = Held
    BY <1>2, NothingHeld
  <2> QED  BY <2>1, <2>2, TailFrame
<1>3. SUFFICES ASSUME ~SaysNothing, ~failed PROVE TailInv'
  BY <1>2 DEF TailInv
<1>4. /\ tl.seq = Base /\ Ascending(Written) /\ Covers(Written, p) /\ tl.pc # "cursor"
      /\ tl.line = "keep" => <<p, 2>> \notin PiecesOf(Written)
      /\ tl.seq <= Len(chunks) /\ Len(chunks) <= tl.seq + 1
  BY <1>3 DEF TailInv, StoreInv, Working
<1>5. ASSUME NEW data \in Seq(Pieces), Takes(data)
      PROVE  Grown(Written, Written', data) /\ tl'.seq = Base /\ tl'.pc # "cursor"
  <2>1. Held' = Held \o data /\ tl'.seq = tl.seq /\ tl'.pc \in {"consume", "fan"}
    BY <1>5, TakesHeld
  <2> QED  BY <1>4, <2>1, WrittenGrows
<1>6. CASE SaysLine
  <2> DEFINE whole == <<<<p + 1, 1>>, <<p + 1, 2>>>>
             begin == <<<<p + 1, 1>>>>
  <2>0. whole \in Seq(Pieces) /\ begin \in Seq(Pieces)
    <3>1. p + 1 \in Nat /\ p + 1 >= 1
      BY <1>1
    <3> QED  BY <3>1, PieceTypes
  <2>1. LineAt(tl'.pos) = p + 1 /\ ((Takes(whole) /\ tl'.line # "keep") \/ Takes(begin))
    BY <1>6 DEF SaysLine, Takes
  <2>2. CASE Takes(whole) /\ tl'.line # "keep"
    <3>1. Grown(Written, Written', whole) /\ tl'.seq = Base /\ tl'.pc # "cursor"
      BY <1>5, <2>0, <2>2
    <3>2. Ascending(Written') /\ Covers(Written', p + 1)
      BY <1>1, <1>4, <3>1, GrowByLine
    <3> QED  BY <1>1, <2>1, <2>2, <3>1, <3>2 DEF TailInv
  <2>3. CASE Takes(begin)
    <3>1. Grown(Written, Written', begin) /\ tl'.seq = Base /\ tl'.pc # "cursor"
      BY <1>5, <2>0, <2>3
    <3>2. Ascending(Written') /\ Covers(Written', p + 1) /\ <<p + 1, 2>> \notin PiecesOf(Written')
      BY <1>1, <1>4, <3>1, GrowByLine
    <3> QED  BY <1>1, <2>1, <2>3, <3>1, <3>2 DEF TailInv
  <2> QED  BY <2>1, <2>2, <2>3
<1>7. CASE SaysRest
  <2> DEFINE rest == <<<<p, 2>>>>
  <2>1. LineAt(tl'.pos) = p /\ Takes(rest) /\ tl.line = "keep" /\ tl'.line # "keep" /\ p >= 1
    BY <1>7 DEF SaysRest, Takes
  <2>2. rest \in Seq(Pieces)
    BY <1>1, <2>1, PieceTypes
  <2>3. Grown(Written, Written', rest) /\ tl'.seq = Base /\ tl'.pc # "cursor"
    BY <1>5, <2>1, <2>2
  <2>4. Ascending(Written') /\ Covers(Written', p)
    BY <1>1, <1>4, <2>1, <2>3, GrowByRest
  <2> QED  BY <1>1, <2>1, <2>3, <2>4 DEF TailInv
<1>8. CASE SaysFragment
  <2>1. PICK i \in Nat : i >= 1 /\ Says(<<<<i, 0>>>>)
    BY <1>8 DEF SaysFragment
  <2>2. LineAt(tl'.pos) = p /\ tl'.line # "keep" /\ tl.pc = "run"
    BY <1>8 DEF SaysFragment
  <2>3. <<<<i, 0>>>> \in Seq(Pieces) /\ Takes(<<<<i, 0>>>>)
    BY <2>1, <2>2, PieceTypes DEF Takes
  <2>4. Grown(Written, Written', <<<<i, 0>>>>) /\ tl'.seq = Base /\ tl'.pc # "cursor"
    BY <1>5, <2>3
  <2>5. Ascending(Written') /\ Covers(Written', p)
    BY <1>1, <1>4, <2>4, GrowByFragment
  <2> QED  BY <1>1, <2>2, <2>4, <2>5 DEF TailInv
<1> QED  BY <1>3, <1>6, <1>7, <1>8 DEF Effect

LEMMA GivenType ==
    ASSUME TypeInv
    PROVE  Given \in Logs /\ \A x \in PiecesOf(Given) : x[1] \in Nat
<1>1. sub.got \in Seq(Seq(Pieces)) /\ sub.queue \in Seq(Seq(Pieces))
  BY DEF TypeInv, Logs, Subs
<1>2. Given \in Logs
  BY <1>1, ConcatFacts DEF Given, Logs
<1> QED  BY <1>2, LogFacts, PieceFacts

\* A subscriber, when more is read or published that it has not been given.
LEMMA TakesSub ==
    ASSUME TypeInv, PlaceInv, SubInv, tl.pc # "fan", sub' = sub, stamps' = stamps,
           tl'.pc \notin {"none", "done"}, LineAt(tl'.pos) \in Nat,
           NEW data, FrameOf(data, LineAt(tl.pos), LineAt(tl'.pos)), tl'.frame = tl.frame \o data
    PROVE  SubInv'
<1> DEFINE p == LineAt(tl.pos)
           q == LineAt(tl'.pos)
           frame == tl.frame
           new == frame \o data
<1>1. /\ p \in Nat /\ q \in Nat /\ LineAt(tl.pos)' = q /\ frame \in Seq(Pieces) /\ data \in Seq(Pieces)
      /\ Given' = Given
  BY PlacedFacts, PrimedLines DEF PlaceInv, TypeInv, Tailers, FrameOf, Given
<1>2. /\ Of(new) = Of(frame) \cup Of(data)
      /\ LinesOf(<<new>>) = LinesOf(<<frame>>) \cup LinesOf(<<data>>)
  BY <1>1, TwoFrames
<1>3. \A x \in PiecesOf(Given) : x[1] \in Nat
  BY GivenType
<1>4. \A y \in Of(data) : IsText(y) => y[1] = q
  <2>1. DOMAIN data = 1 .. Len(data)
    BY <1>1
  <2> QED  BY <2>1 DEF FrameOf, Of
<1>5. p <= q /\ \A i \in Nat : i <= q => i <= p \/ i \in LinesOf(<<data>>)
  <2>1. CASE q = p
    BY <1>1, <2>1
  <2>2. CASE q = p + 1 /\ 1 \in 1 .. Len(data) /\ data[1] = <<q, 1>>
    <3>1. q \in LinesOf(<<data>>)
      <4>1. \E b \in 1 .. Len(data) : data[b][1] = q /\ data[b][2] = 1
        BY <2>2
      <4> QED  BY <1>1, <4>1, OneFrame
    <3>2. p <= q /\ \A i \in Nat : i <= q => i <= p \/ i = q
      BY <1>1, <2>2
    <3> QED  BY <3>1, <3>2
  <2> QED  BY <2>1, <2>2 DEF FrameOf
<1>6. Replayed(Given) /\ Unbroken(Given)
  BY DEF SubInv
<1> HIDE DEF p, q, new, frame
<1>7. ASSUME sub.state = "open"
      PROVE  /\ \A x \in PiecesOf(Given) : IsText(x) =>
                  x[1] <= q /\ (x[1] + 1) .. q \subseteq LinesOf(Given) \cup LinesOf(<<new>>)
             /\ Follows(Given, new)
  <2>1. /\ \A x \in PiecesOf(Given) : IsText(x) =>
             x[1] <= p /\ (x[1] + 1) .. p \subseteq LinesOf(Given) \cup LinesOf(<<frame>>)
        /\ Follows(Given, frame)
    BY <1>7 DEF SubInv, Reached, p, frame
  <2>2. ASSUME NEW x \in PiecesOf(Given), IsText(x)
        PROVE  x[1] <= q /\ (x[1] + 1) .. q \subseteq LinesOf(Given) \cup LinesOf(<<new>>)
    <3>1. x[1] <= q /\ x[1] \in Nat
      BY <1>1, <1>3, <1>5, <2>1, <2>2
    <3>2. ASSUME NEW i \in (x[1] + 1) .. q PROVE i \in LinesOf(Given) \cup LinesOf(<<new>>)
      <4>1. i \in Nat /\ i <= q /\ (i <= p => i \in (x[1] + 1) .. p)
        BY <1>1, <3>1
      <4> QED  BY <1>2, <1>5, <2>1, <2>2, <4>1
    <3> QED  BY <3>1, <3>2
  <2>3. Follows(Given, new)
    <3>1. SUFFICES ASSUME NEW x \in PiecesOf(Given), NEW y \in Of(new), IsText(x), IsText(y)
                   PROVE  x[1] <= y[1]
      BY DEF Follows
    <3>2. CASE y \in Of(frame)
      BY <2>1, <3>1, <3>2 DEF Follows
    <3>3. CASE y \in Of(data)
      BY <1>4, <2>2, <3>1, <3>3
    <3> QED  BY <1>2, <3>1, <3>2, <3>3
  <2> QED  BY <2>2, <2>3
<1>8. tl'.frame = new /\ sub'.state = sub.state
  BY DEF new, frame
<1>9. sub.state = "open" => Reached(Given, LineAt(tl.pos))' /\ Follows(Given, tl.frame)'
  BY <1>1, <1>7, <1>8 DEF Reached, Follows, q
<1> QED  BY <1>1, <1>6, <1>8, <1>9 DEF SubInv

LEMMA ConnectionRing ==
    ASSUME TypeInv, TypeInv', PlaceInv, PendingInv, RingInv, SubInv, tl.pc \in {"open", "run", "consume"},
           Effect, UNCHANGED <<stamps, sub>>
    PROVE  RingInv' /\ FanInv' /\ SubInv'
<1> DEFINE p == LineAt(tl.pos)
           q == LineAt(tl'.pos)
<1>1. p \in Nat /\ q \in Nat /\ LineAt(tl.pos)' = q /\ tl.ring \in Seq(Pieces) /\ RingHeld \in Seq(Pieces)
  BY PlacedFacts, PrimedLines, EffectFrame, HeldTypes DEF PlaceInv, TypeInv, Tailers
<1>2. CASE SaysNothing
  <2>1. /\ tl'.pos = tl.pos /\ tl'.ring = tl.ring /\ tl'.pc \in {"open", "run", "consume", "close", "put"}
        /\ tl'.frame = tl.frame
    BY <1>2 DEF SaysNothing, SameLog
  <2>2. RingHeld' = RingHeld
    BY <1>2, NothingHeld
  <2>3. RingInv' /\ SubInv'
    BY <2>1, <2>2, RingFrame, SubFrame
  <2> QED  BY <2>1, <2>3 DEF FanInv
<1>3. ASSUME NEW data, Takes(data), FrameOf(data, p, q) PROVE RingInv' /\ FanInv' /\ SubInv'
  <2>1. data \in Seq(Pieces) /\ Level(RingHeld) /\ Reaches(RingHeld, p) /\ Unbroken(<<tl.ring>>)
    BY <1>3 DEF FrameOf, RingInv
  <2>2. tl'.pc \in {"consume", "fan"} /\ tl'.frame = tl.frame \o data
    BY <1>3, <2>1, TakesHeld
  <2>3. SubInv'
    BY <1>1, <1>3, <2>2, TakesSub
  <2>4. CASE Holds(data)
    <3>1. RingHeld' = RingHeld \o data /\ tl'.ring = tl.ring /\ tl'.pc = "consume"
      BY <2>1, <2>4, HoldsHeld DEF Holds, SameLog
    <3>2. Level(RingHeld \o data) /\ Reaches(RingHeld \o data, q)
      BY <1>1, <1>3, <2>1, LevelConcat
    <3>3. Level(RingHeld)'
      BY <3>1, <3>2 DEF Level
    <3>4. Reaches(RingHeld, LineAt(tl.pos))'
      BY <1>1, <3>1, <3>2 DEF Reaches
    <3> QED  BY <2>1, <2>3, <3>1, <3>3, <3>4 DEF RingInv, FanInv
  <2>5. CASE tl.pc = "run" /\ Says(data)
    <3> DEFINE ring == RingAppend(tl.ring, data)
    <3>1. tl'.pc = "fan" /\ tl'.frame = data /\ tl'.ring = ring /\ RingHeld' = ring /\ RingHeld = tl.ring
      BY <2>5 DEF Says, RingHeld
    <3>2. ring \in Seq(Pieces) /\ Level(ring) /\ Reaches(ring, q)
      BY <1>1, <1>3, <2>1, <3>1, RingGrows
    <3>3. SameEnd(ring, data)
      BY <1>1, <2>1, RingEnds
    <3> HIDE DEF ring
    <3>4. Unbroken(<<ring>>)
      BY <1>1, <3>2, ReachesUnbroken
    <3>5. RingInv'
      <4>1. Level(RingHeld)' /\ Reaches(RingHeld, LineAt(tl.pos))'
        BY <1>1, <3>1, <3>2 DEF Level, Reaches
      <4> QED  BY <3>1, <3>4, <4>1 DEF RingInv
    <3>6. Level(data) /\ Reaches(data, q)
      <4> HIDE DEF p, q
      <4>1. \A a \in 1 .. Len(data) : IsText(data[a]) => data[a][1] = q
        BY <1>3 DEF FrameOf
      <4> QED  BY <1>1, <4>1 DEF Level, Reaches
    <3>7. FanInv'
      <4>1. Reaches(tl.frame, LineAt(tl.pos))' /\ Level(tl.frame)'
        BY <1>1, <3>1, <3>6 DEF Reaches, Level
      <4> QED  BY <3>1, <3>3, <4>1 DEF FanInv
    <3> QED  BY <2>3, <3>5, <3>7
  <2> QED  BY <1>3, <2>4, <2>5 DEF Takes
<1>4. SaysNothing \/ \E data : Takes(data) /\ FrameOf(data, p, q)
  <2>1. tl' \in Tailers
    BY DEF TypeInv
  <2> QED  BY <2>1, EffectFrame
<1> QED  BY <1>2, <1>3, <1>4, Zenon

LEMMA ConnectionStep ==
    ASSUME Inv, Connection
    PROVE  Inv'
<1>1. /\ UNCHANGED <<stamps, run, over, sub, chunks, cursor, rd, failed, crashed>>
      /\ left' \in [Kinds -> Nat]
  BY ConnectionFrame DEF Inv
<1>2. tl' \in Tailers /\ StreamInv' /\ Effect /\ tl.pc \in {"open", "run", "consume"}
  BY ConnectionEffect DEF Inv
<1>3. TypeInv'
  BY <1>1, <1>2 DEF Inv, TypeInv
<1>4. PlaceInv'
  BY <1>1, <1>2, EffectFrame, PlaceFrame DEF Inv
<1>5. PendingInv'
  BY <1>2, ConnectionPending DEF Inv
<1>6. StoreInv'
  BY <1>1, StoreFrame DEF Inv
<1>7. TailInv' /\ ToldInv'
  BY <1>1, <1>2, <1>3, ConnectionTail, ConnectionTold DEF Inv
<1>8. RingInv' /\ FanInv' /\ SubInv'
  BY <1>1, <1>2, <1>3, ConnectionRing DEF Inv
<1>9. ReadInv'
  <2>1. tl'.pc # "none" /\ tl'.seq = tl.seq
    BY <1>2 DEF Effect, SaysNothing, SaysLine, SaysRest, SaysFragment, Says, Holds, SameLog
  <2> QED  BY <1>1, <1>2, <2>1, ReadFrame DEF Inv
<1> QED  BY <1>2, <1>3, <1>4, <1>5, <1>6, <1>7, <1>8, <1>9 DEF Inv

-----------------------------------------------------------------------------
(* The other steps of the tailer.                                          *)

\* The read ends: what was held becomes a frame, if there is any.
LEMMA EndReadFacts ==
    ASSUME TypeInv, EndRead
    PROVE  /\ tl' \in Tailers /\ tl'.pos = tl.pos /\ tl'.upTo = tl.upTo /\ tl'.seen = tl.seen
           /\ tl'.at = tl.at /\ tl'.line = tl.line /\ tl'.seq = tl.seq /\ tl'.ending = tl.ending
           /\ tl'.frame = tl.frame /\ tl.pc = "consume" /\ Held' = Held
           /\ \/ /\ tl'.pc = "run" /\ tl.frame = <<>> /\ tl'.told = tl.told
                 /\ tl'.ring = tl.ring /\ tl'.pending = tl.pending /\ RingHeld' = RingHeld
              \/ /\ tl'.pc = "fan" /\ tl.frame # <<>> /\ tl'.told = tl.told \cup Of(tl.frame)
                 /\ tl'.ring = RingAppend(tl.ring, tl.frame) /\ tl'.pending = tl.pending \o tl.frame
<1>1. /\ tl.pc = "consume" /\ tl \in Tailers /\ tl.pending \in Seq(Pieces) /\ tl.ring \in Seq(Pieces)
      /\ tl.frame \in Seq(Pieces)
  BY DEF EndRead, TypeInv, Tailers
<1>2. CASE tl.frame = <<>>
  <2>1. tl' = [tl EXCEPT !.pc = "run"]
    BY <1>2 DEF EndRead, Goto
  <2>2. /\ tl' \in Tailers /\ tl'.pos = tl.pos /\ tl'.upTo = tl.upTo /\ tl'.seen = tl.seen
        /\ tl'.at = tl.at /\ tl'.line = tl.line /\ tl'.seq = tl.seq /\ tl'.ending = tl.ending
        /\ tl'.frame = tl.frame /\ tl'.pc = "run" /\ tl'.told = tl.told /\ tl'.ring = tl.ring
        /\ tl'.pending = tl.pending
    BY <1>1, <2>1 DEF Tailers, Pcs
  <2>3. tl.pending \o <<>> = tl.pending /\ tl.ring \o <<>> = tl.ring
    BY <1>1, ConcatEmpty
  <2>4. Held' = Held /\ RingHeld' = RingHeld
    BY <1>1, <1>2, <2>2, <2>3 DEF Held, RingHeld
  <2> QED  BY <1>1, <1>2, <2>2, <2>4
<1>3. CASE tl.frame # <<>>
  <2>1. tl' = Publish(tl, tl.frame)
    BY <1>3 DEF EndRead
  <2>2. Published(tl, tl.frame, tl')
    BY <1>1, <2>1, PublishFacts
  <2>3. Held' = Held
    BY <1>1, <2>2 DEF Held, Published
  <2> QED  BY <1>1, <1>3, <2>2, <2>3, Zenon DEF Published
<1> QED  BY <1>2, <1>3

LEMMA EndReadRing ==
    ASSUME TypeInv, PlaceInv, RingInv, EndRead
    PROVE  RingInv' /\ FanInv'
<1> DEFINE p == LineAt(tl.pos)
           frame == tl.frame
           all == tl.ring \o tl.frame
           ring == RingAppend(tl.ring, tl.frame)
<1>1. /\ p \in Nat /\ tl.ring \in Seq(Pieces) /\ frame \in Seq(Pieces) /\ tl.pc = "consume"
      /\ tl'.pos = tl.pos /\ stamps' = stamps /\ tl'.frame = frame
  BY PlacedFacts, EndReadFacts DEF PlaceInv, TypeInv, Tailers, EndRead
<1>2. LineAt(tl.pos)' = p
  BY <1>1, PrimedLines
<1>3. CASE tl'.pc = "run" /\ tl'.ring = tl.ring /\ RingHeld' = RingHeld
  <2>1. RingInv'
    BY <1>1, <1>3, RingFrame
  <2> QED  BY <1>3, <2>1 DEF FanInv
<1>4. CASE tl'.pc = "fan" /\ tl'.ring = ring
  <2>1. all \in Seq(Pieces) /\ Level(all) /\ Reaches(all, p)
    BY <1>1, ConcatFacts DEF RingInv, RingHeld
  <2>2. Len(all) = Len(tl.ring) + Len(frame) /\ \A a \in 1 .. Len(frame) : frame[a] = all[Len(tl.ring) + a]
    <3>1. ASSUME NEW s \in Seq(Pieces), NEW t \in Seq(Pieces)
          PROVE  Len(s \o t) = Len(s) + Len(t) /\ \A a \in 1 .. Len(t) : t[a] = (s \o t)[Len(s) + a]
      OBVIOUS
    <3> QED  BY <1>1, <3>1, Zenon
  <2>3. ring \in Seq(Pieces)
    BY <1>1, RingAppendFacts
  <2>4. PICK k \in Nat : k + Len(ring) = Len(all) /\ \A a \in 1 .. Len(ring) : ring[a] = all[k + a]
    <3>1. \E k \in Nat : /\ k + Len(ring) = Len(tl.ring) + Len(tl.frame)
                         /\ \A a \in 1 .. Len(ring) : ring[a] = (tl.ring \o tl.frame)[k + a]
      BY <1>1, RingAppendFacts, Zenon
    <3> QED  BY <2>2, <3>1, Zenon
  <2>5. SameEnd(ring, frame)
    BY <1>1, RingEnds
  <2> HIDE DEF all, ring, frame, p
  <2>6. Level(ring) /\ Reaches(ring, p)
    BY <1>1, <2>1, <2>3, <2>4, LevelSuffix
  <2>7. Level(frame) /\ Reaches(frame, p)
    <3>1. Len(tl.ring) \in Nat
      BY <1>1
    <3> QED  BY <1>1, <2>1, <2>2, <3>1, LevelSuffix
  <2>8. Unbroken(<<ring>>)
    BY <1>1, <2>3, <2>6, ReachesUnbroken
  <2>9. RingHeld' = ring
    BY <1>4 DEF RingHeld
  <2>10. RingInv'
    <3>1. Level(RingHeld)' /\ Reaches(RingHeld, LineAt(tl.pos))'
      BY <1>2, <2>6, <2>9 DEF Level, Reaches
    <3> QED  BY <1>4, <2>8, <3>1 DEF RingInv
  <2>11. FanInv'
    <3>1. Reaches(tl.frame, LineAt(tl.pos))' /\ Level(tl.frame)'
      BY <1>1, <1>2, <2>7 DEF Reaches, Level
    <3> QED  BY <1>1, <1>4, <2>5, <3>1 DEF FanInv
  <2> QED  BY <2>10, <2>11
<1> QED  BY <1>3, <1>4, EndReadFacts

LEMMA EndReadStep ==
    ASSUME Inv, EndRead
    PROVE  Inv'
<1>1. /\ tl' \in Tailers /\ tl'.pos = tl.pos /\ tl'.upTo = tl.upTo /\ tl'.seen = tl.seen
      /\ tl'.at = tl.at /\ tl'.line = tl.line /\ tl'.seq = tl.seq /\ tl'.ending = tl.ending
      /\ tl'.frame = tl.frame /\ tl.pc = "consume" /\ Held' = Held
  BY EndReadFacts DEF Inv
<1>2. \/ /\ tl'.pc = "run" /\ tl.frame = <<>> /\ tl'.told = tl.told /\ tl'.pending = tl.pending
      \/ /\ tl'.pc = "fan" /\ tl.frame # <<>> /\ tl'.told = tl.told \cup Of(tl.frame)
         /\ tl'.pending = tl.pending \o tl.frame
  BY EndReadFacts DEF Inv
<1>3. UNCHANGED <<stamps, run, over, sub, chunks, cursor, rd, failed, crashed, left>>
  BY DEF EndRead, control, store, history
<1>4. TypeInv'
  BY <1>1, <1>3 DEF Inv, TypeInv
<1>5. PlaceInv' /\ StoreInv'
  BY <1>1, <1>3, PlaceFrame, StoreFrame DEF Inv
<1>6. StreamInv'
  <2>1. Streaming' => Streaming
    BY <1>1 DEF Streaming
  <2> QED  BY <1>1, <1>3, <2>1, StreamFrame DEF Inv
<1>7. PendingInv'
  <2>1. ~tl.ending /\ (tl.frame # <<>> \/ tl.pending # <<>> => tl.pos.last # 0)
    BY <1>1 DEF Inv, PendingInv
  <2> QED  BY <1>1, <1>2, <2>1 DEF PendingInv
<1>8. TailInv'
  <2>1. Working
    BY <1>1 DEF Working
  <2> QED  BY <1>1, <1>2, <1>3, <2>1, TailFrame DEF Inv
<1>9. ToldInv'
  <2>1. CASE tl'.told = tl.told /\ tl'.pending = tl.pending
    BY <1>1, <1>3, <2>1, ToldFrame DEF Inv
  <2>2. CASE tl'.told = tl.told \cup Of(tl.frame) /\ tl'.pending = tl.pending \o tl.frame
    <3>1. Of(tl'.pending) = Of(tl.pending) \cup Of(tl.frame)
      BY <2>2, TwoFrames DEF Inv, TypeInv, Tailers
    <3> QED  BY <1>1, <1>3, <2>2, <3>1 DEF Inv, ToldInv, Kept
  <2> QED  BY <1>2, <2>1, <2>2
<1>10. RingInv' /\ FanInv'
  BY EndReadRing DEF Inv
<1>11. SubInv'
  BY <1>1, <1>2, <1>3, SubFrame DEF Inv
<1>12. ReadInv'
  BY <1>1, <1>2, <1>3, ReadFrame DEF Inv
<1> QED  BY <1>4, <1>5, <1>6, <1>7, <1>8, <1>9, <1>10, <1>11, <1>12 DEF Inv

LEMMA AppendConcat ==
    ASSUME NEW s \in Logs, NEW t \in Logs, NEW x \in Seq(Pieces)
    PROVE  s \o Append(t, x) = Append(s \o t, x)
<1> DEFINE S == Seq(Pieces)
<1>1. s \in Seq(S) /\ t \in Seq(S) /\ x \in S
  BY DEF Logs
<1> HIDE DEF S
<1> QED  BY <1>1

\* A log with one more frame.
LEMMA AppendFrame ==
    ASSUME NEW log \in Logs, NEW frame \in Seq(Pieces)
    PROVE  /\ PiecesOf(Append(log, frame)) = PiecesOf(log) \cup Of(frame)
           /\ LinesOf(Append(log, frame)) = LinesOf(log) \cup LinesOf(<<frame>>)
<1> DEFINE n == Len(log)
           new == Append(log, frame)
<1>1. /\ n \in Nat /\ DOMAIN log = 1 .. n /\ DOMAIN new = 1 .. n + 1 /\ new[n + 1] = frame
      /\ \A k \in 1 .. n : new[k] = log[k]
      /\ \A k \in 1 .. n + 1 : k \in 1 .. n \/ k = n + 1
      /\ DOMAIN log \subseteq DOMAIN new /\ n + 1 \in DOMAIN new
  BY DEF Logs
<1> HIDE DEF new, n
<1>2. PiecesOf(new) = PiecesOf(log) \cup Of(frame)
  <2>1. ASSUME NEW x \in PiecesOf(new) PROVE x \in PiecesOf(log) \cup Of(frame)
    <3>1. PICK k \in DOMAIN new : \E a \in DOMAIN new[k] : x = new[k][a]
      BY <2>1, PiecesFacts
    <3>2. CASE k \in 1 .. n
      BY <1>1, <3>1, <3>2, PiecesFacts
    <3>3. CASE k = n + 1
      BY <1>1, <3>1, <3>3 DEF Of
    <3> QED  BY <1>1, <3>1, <3>2, <3>3
  <2>2. ASSUME NEW x \in PiecesOf(log) PROVE x \in PiecesOf(new)
    BY <1>1, <2>2, PiecesFacts
  <2>3. ASSUME NEW x \in Of(frame) PROVE x \in PiecesOf(new)
    BY <1>1, <2>3, PiecesFacts DEF Of
  <2> QED  BY <2>1, <2>2, <2>3
<1>3. PiecesOf(<<frame>>) = Of(frame)
  <2>1. 0 \in Nat
    OBVIOUS
  <2> QED  BY <2>1, OneFrame
<1>4. \A i : i \in LinesOf(new) <=> i \in LinesOf(log) \/ i \in LinesOf(<<frame>>)
  BY <1>2, <1>3, LinesFacts
<1>5. LinesOf(new) = LinesOf(log) \cup LinesOf(<<frame>>)
  BY <1>4
<1> QED  BY <1>2, <1>5 DEF new

\* A level frame that follows what was given, or repeats the end of the one frame that was.
LEMMA AppendReplayed ==
    ASSUME NEW log \in Logs, NEW frame \in Seq(Pieces), Replayed(log), Level(frame),
           Follows(log, frame) \/ (Len(log) = 1 /\ SameEnd(log[1], frame))
    PROVE  Replayed(Append(log, frame))
<1> DEFINE n == Len(log)
           new == Append(log, frame)
<1>1. /\ n \in Nat /\ DOMAIN log = 1 .. n /\ DOMAIN new = 1 .. n + 1 /\ new[n + 1] = frame
      /\ Len(new) = n + 1 /\ DOMAIN frame = 1 .. Len(frame)
      /\ \A k \in 1 .. n : new[k] = log[k]
      /\ \A k \in 1 .. n + 1 : k \in 1 .. n \/ k = n + 1
  BY DEF Logs
<1> HIDE DEF new, n
<1>2. ASSUME NEW k \in 1 .. n, NEW m \in 1 .. n, NotAfter(log, k, m) PROVE NotAfter(new, k, m)
  BY <1>1, <1>2 DEF NotAfter
<1>3. NotAfter(new, n + 1, n + 1)
  BY <1>1 DEF NotAfter, Earlier, Level
<1>4. ASSUME NEW k \in 1 .. n, Follows(log, frame) PROVE NotAfter(new, k, n + 1)
  <2>1. \A a \in DOMAIN log[k] : log[k][a] \in PiecesOf(log)
    BY <1>1, PiecesFacts
  <2>2. \A b \in DOMAIN frame : frame[b] \in Of(frame)
    BY DEF Of
  <2> QED  BY <1>1, <1>4, <2>1, <2>2 DEF NotAfter, Follows
<1>5. ASSUME NEW k \in 1 .. n + 1, NEW m \in 1 .. n + 1, k <= m, ~(k = 1 /\ m = 2)
      PROVE  NotAfter(new, k, m)
  <2>1. CASE m \in 1 .. n
    <3>1. k \in 1 .. n
      BY <1>1, <1>5, <2>1
    <3>2. NotAfter(log, k, m)
      BY <1>1, <1>5, <2>1, <3>1 DEF Replayed
    <3> QED  BY <1>2, <2>1, <3>1, <3>2
  <2>2. CASE m = n + 1 /\ k = n + 1
    BY <1>3, <2>2
  <2>3. CASE m = n + 1 /\ k \in 1 .. n
    <3>1. Follows(log, frame)
      <4>1. Len(log) = 1 => k = 1 /\ m = 2
        BY <1>1, <2>3 DEF n
      <4> QED  BY <1>5, <4>1
    <3> QED  BY <1>4, <2>3, <3>1
  <2> QED  BY <1>1, <1>5, <2>1, <2>2, <2>3
<1>6. ASSUME n + 1 >= 2 PROVE NotAfter(new, 1, 2) \/ SameEnd(new[1], new[2])
  <2>1. CASE n >= 2
    <3>1. 1 \in 1 .. n /\ 2 \in 1 .. n /\ (NotAfter(log, 1, 2) \/ SameEnd(log[1], log[2]))
      BY <1>1, <2>1 DEF Replayed, n
    <3> QED  BY <1>1, <1>2, <3>1
  <2>2. CASE n = 1
    <3>1. 1 \in 1 .. n /\ new[1] = log[1] /\ n + 1 = 2 /\ new[2] = frame
      BY <1>1, <2>2
    <3>2. Follows(log, frame) => NotAfter(new, 1, 2)
      BY <1>4, <3>1
    <3> QED  BY <3>1, <3>2
  <2> QED  BY <1>1, <1>6, <2>1, <2>2
<1>7. Replayed(new)
  BY <1>1, <1>5, <1>6 DEF Replayed
<1> QED  BY <1>7 DEF new

\* The frame reaches the subscriber, or ends the subscription.
LEMMA FanOutSub ==
    ASSUME TypeInv, PlaceInv, FanInv, SubInv, FanOut, tl' \in Tailers, tl'.pos = tl.pos,
           tl'.pc \in {"close", "put", "run"}, tl'.frame = <<>>
    PROVE  /\ SubInv'
           /\ sub' \in Subs
<1> DEFINE p == LineAt(tl.pos)
           frame == tl.frame
<1>1. /\ tl.pc = "fan" /\ stamps' = stamps /\ p \in Nat /\ LineAt(tl.pos)' = p
      /\ frame \in Seq(Pieces) /\ sub.got \in Logs /\ sub.queue \in Logs
      /\ sub \in Subs
  BY PlacedFacts, PrimedLines DEF FanOut, PlaceInv, TypeInv, Tailers, Subs
<1>2. Given \in Logs /\ \A x \in PiecesOf(Given) : x[1] \in Nat
  BY GivenType
<1>3. CASE sub.state # "open"
  <2>1. sub' = sub
    BY <1>3 DEF FanOut
  <2> QED  BY <1>1, <1>3, <2>1, SubFrame
<1>4. CASE sub.state = "open" /\ ~(Len(sub.queue) < SubscriberQueue)
  <2>1. sub' = [sub EXCEPT !.state = "closed", !.reason = "overflow"]
    BY <1>4 DEF FanOut
  <2>2. sub'.state = "closed" /\ sub'.got = sub.got /\ sub'.queue = sub.queue
    BY <1>1, <2>1 DEF Subs
  <2>3. Given' = Given
    BY <2>2 DEF Given
  <2>4. sub' \in Subs
    BY <1>1, <2>1 DEF Subs
  <2>5. SubInv'
    BY <2>2, <2>3 DEF SubInv
  <2> QED  BY <2>4, <2>5
<1>5. CASE sub.state = "open" /\ Len(sub.queue) < SubscriberQueue
  <2>1. sub' = [sub EXCEPT !.queue = Append(@, frame)]
    BY <1>5 DEF FanOut
  <2>2. Append(sub.queue, frame) \in Logs
    BY <1>1 DEF Logs
  <2>3. sub'.state = "open" /\ sub'.got = sub.got /\ sub'.queue = Append(sub.queue, frame)
    BY <1>1, <1>5, <2>1 DEF Subs
  <2> DEFINE new == Append(Given, frame)
  <2>4. Given' = new
    <3>1. sub.got \o Append(sub.queue, frame) = Append(sub.got \o sub.queue, frame)
      BY <1>1, AppendConcat
    <3> QED  BY <2>3, <3>1, Zenon DEF Given
  <2>5. /\ PiecesOf(new) = PiecesOf(Given) \cup Of(frame)
        /\ LinesOf(new) = LinesOf(Given) \cup LinesOf(<<frame>>)
    BY <1>1, <1>2, AppendFrame
  <2>6. Level(frame) /\ Reaches(frame, p)
    BY <1>1 DEF FanInv
  <2>7. Replayed(new)
    BY <1>1, <1>2, <1>5, <2>6, AppendReplayed DEF SubInv
  <2>8. \A x \in Of(frame) : IsText(x) => x[1] <= p /\ (x[1] + 1) .. p \subseteq LinesOf(<<frame>>)
    BY <1>1, <2>6, OneFrame
  <2>9. \A x \in Of(frame) : x[1] \in Nat
    BY <1>1, PieceFacts DEF Of
  <2>10. \A x \in PiecesOf(Given) : IsText(x) =>
           x[1] <= p /\ (x[1] + 1) .. p \subseteq LinesOf(Given) \cup LinesOf(<<frame>>)
    BY <1>5 DEF SubInv, Reached
  <2> HIDE DEF new, p, frame
  <2>11. \A x \in PiecesOf(new) : IsText(x) =>
           x[1] \in Nat /\ x[1] <= p /\ (x[1] + 1) .. p \subseteq LinesOf(new)
    BY <1>2, <2>5, <2>8, <2>9, <2>10
  <2>12. Unbroken(new)
    <3>1. SUFFICES ASSUME NEW x \in PiecesOf(new), NEW y \in PiecesOf(new), IsText(x), IsText(y),
                          NEW i \in (x[1] + 1) .. y[1]
                   PROVE  i \in LinesOf(new)
      BY DEF Unbroken
    <3>2. i \in (x[1] + 1) .. p
      BY <1>1, <2>11, <3>1
    <3> QED  BY <2>11, <3>1, <3>2
  <2>13. Of(<<>>) = {}
    BY DEF Of
  <2>14. SubInv'
    <3>1. LineAt(tl.pos)' = p
      BY <1>1 DEF p
    <3>2. Reached(Given, LineAt(tl.pos))'
      BY <2>4, <2>11, <3>1 DEF Reached
    <3>3. Follows(Given, tl.frame)'
      BY <2>13 DEF Follows
    <3> QED  BY <2>4, <2>7, <2>12, <3>2, <3>3 DEF SubInv
  <2> QED  BY <1>1, <2>1, <2>2, <2>14 DEF Subs, frame
<1> QED  BY <1>3, <1>4, <1>5

LEMMA FanOutStep ==
    ASSUME Inv, FanOut
    PROVE  Inv'
<1> DEFINE t == [tl EXCEPT !.frame = <<>>]
<1>1. /\ tl.pc = "fan" /\ UNCHANGED <<stamps, run, over, chunks, cursor, rd, failed, crashed, left>>
      /\ tl \in Tailers
  BY DEF FanOut, control, store, history, Inv, TypeInv
<1>2. /\ t \in Tailers /\ t.pos = tl.pos /\ t.upTo = tl.upTo /\ t.seen = tl.seen /\ t.at = tl.at
      /\ t.line = tl.line /\ t.ring = tl.ring /\ t.pending = tl.pending /\ t.seq = tl.seq
      /\ t.ending = tl.ending /\ t.frame = <<>> /\ t.told = tl.told
  <2>1. <<>> \in Seq(Pieces)
    OBVIOUS
  <2> QED  BY <1>1, <2>1 DEF Tailers
<1>3. /\ tl' \in Tailers /\ tl'.pos = tl.pos /\ tl'.upTo = tl.upTo /\ tl'.seen = tl.seen /\ tl'.at = tl.at
      /\ tl'.line = tl.line /\ tl'.ring = tl.ring /\ tl'.pending = tl.pending /\ tl'.seq = tl.seq
      /\ tl'.frame = <<>> /\ tl'.told = tl.told
      /\ \/ tl'.ending = TRUE /\ tl'.pc = IF tl.pending = <<>> THEN "close" ELSE "put"
         \/ /\ ~tl.ending /\ tl'.ending = FALSE
            /\ tl'.pc = IF Len(tl.pending) >= ChunkPieces THEN "put" ELSE "run"
  <2>1. CASE tl.ending
    <3>1. tl' = Finalize(t)
      BY <2>1 DEF FanOut
    <3> HIDE DEF t
    <3> QED  BY <1>2, <3>1, FinalizeFacts
  <2>2. CASE ~tl.ending
    <3> DEFINE pc == IF Len(tl.pending) >= ChunkPieces THEN "put" ELSE "run"
    <3>1. tl' = [tl EXCEPT !.frame = <<>>, !.pc = pc] /\ tl.ending = FALSE
      BY <1>1, <2>2 DEF FanOut, Tailers
    <3>2. pc \in {"put", "run"}
      OBVIOUS
    <3>3. pc = IF Len(tl.pending) >= ChunkPieces THEN "put" ELSE "run"
      OBVIOUS
    <3> HIDE DEF pc
    <3>4. /\ tl' \in Tailers /\ tl'.pos = tl.pos /\ tl'.upTo = tl.upTo /\ tl'.seen = tl.seen
          /\ tl'.at = tl.at /\ tl'.line = tl.line /\ tl'.ring = tl.ring /\ tl'.pending = tl.pending
          /\ tl'.seq = tl.seq /\ tl'.ending = FALSE /\ tl'.pc = pc /\ tl'.frame = <<>>
          /\ tl'.told = tl.told
      <4>1. <<>> \in Seq(Pieces) /\ pc \in Pcs
        BY <3>2 DEF Pcs
      <4> QED  BY <1>1, <3>1, <4>1 DEF Tailers
    <3> QED  BY <2>2, <3>3, <3>4
  <2> QED  BY <2>1, <2>2
<1>4. tl'.pc \in {"close", "put", "run"}
  BY <1>3
<1>5. Len(tl.pending) >= ChunkPieces => tl.pending # <<>>
  BY ConstantFacts
<1>6. TypeInv' /\ SubInv'
  BY <1>1, <1>3, <1>4, FanOutSub DEF Inv, TypeInv
<1>7. PlaceInv' /\ StoreInv'
  BY <1>1, <1>3, PlaceFrame, StoreFrame DEF Inv
<1>8. StreamInv'
  <2>1. Streaming' => Streaming
    BY <1>1, <1>3 DEF Streaming
  <2> QED  BY <1>1, <1>3, <2>1, StreamFrame DEF Inv
<1>9. PendingInv'
  BY <1>1, <1>3, <1>5 DEF Inv, PendingInv
<1>10. TailInv' /\ ToldInv'
  <2>1. Working /\ Held' = Held
    BY <1>1, <1>3, <1>4 DEF Working, Held
  <2>2. TailInv'
    BY <1>1, <1>3, <1>4, <2>1, TailFrame DEF Inv
  <2> QED  BY <1>1, <1>3, <2>2, ToldFrame DEF Inv
<1>11. RingInv' /\ FanInv' /\ ReadInv'
  <2>1. RingHeld' = RingHeld
    BY <1>1, <1>3, <1>4 DEF RingHeld
  <2> QED  BY <1>1, <1>3, <1>4, <2>1, RingFrame, ReadFrame DEF Inv, FanInv
<1> QED  BY <1>6, <1>7, <1>8, <1>9, <1>10, <1>11 DEF Inv

\* Steps that change the tailer's place in its loop only.
Still ==
    /\ tl' \in Tailers /\ tl'.pos = tl.pos /\ tl'.upTo = tl.upTo /\ tl'.seen = tl.seen /\ tl'.at = tl.at
    /\ tl'.line = tl.line /\ tl'.ring = tl.ring /\ tl'.pending = tl.pending /\ tl'.seq = tl.seq
    /\ tl'.ending = tl.ending /\ tl'.frame = tl.frame /\ tl'.told = tl.told

LEMMA TickStep ==
    ASSUME Inv, Tick
    PROVE  Inv'
<1>1. /\ tl.pc = "run" /\ tl.pending # <<>> /\ tl' = [tl EXCEPT !.pc = "put"]
      /\ UNCHANGED <<stamps, run, over, sub, chunks, cursor, rd, failed, crashed, left>>
      /\ tl \in Tailers
  BY DEF Tick, Goto, control, store, history, Inv, TypeInv
<1>2. Still /\ tl'.pc = "put"
  BY <1>1 DEF Still, Tailers, Pcs
<1>3. TypeInv'
  BY <1>1, <1>2 DEF Still, Inv, TypeInv
<1>4. PlaceInv' /\ StoreInv'
  BY <1>1, <1>2, PlaceFrame, StoreFrame DEF Still, Inv
<1>5. StreamInv'
  <2>1. Streaming' => Streaming
    BY <1>1, <1>2 DEF Still, Streaming
  <2> QED  BY <1>1, <1>2, <2>1, StreamFrame DEF Still, Inv
<1>6. PendingInv'
  BY <1>1, <1>2 DEF Still, Inv, PendingInv
<1>7. TailInv' /\ ToldInv'
  <2>1. Working /\ Held' = Held
    BY <1>1, <1>2, HeldFrame DEF Working, Still
  <2> QED  BY <1>1, <1>2, <2>1, TailFrame, ToldFrame DEF Still, Inv
<1>8. RingInv' /\ FanInv' /\ ReadInv'
  BY <1>1, <1>2, HeldFrame, RingFrame, ReadFrame DEF Still, Inv, FanInv
<1>9. SubInv'
  BY <1>1, <1>2, SubFrame DEF Still, Inv
<1> QED  BY <1>3, <1>4, <1>5, <1>6, <1>7, <1>8, <1>9 DEF Inv

LEMMA CloseSubsStep ==
    ASSUME Inv, CloseSubs
    PROVE  Inv'
<1>1. /\ tl.pc = "close" /\ tl' = [tl EXCEPT !.pc = "done"]
      /\ UNCHANGED <<stamps, run, over, chunks, cursor, rd, failed, crashed, left>>
      /\ tl \in Tailers /\ sub \in Subs
  BY DEF CloseSubs, Goto, control, store, history, Inv, TypeInv
<1>2. Still /\ tl'.pc = "done"
  BY <1>1 DEF Still, Tailers, Pcs
<1>3. sub' \in Subs /\ sub'.state # "open" /\ Given' = Given
  <2>1. CASE sub.state = "open"
    <3>1. sub' = [sub EXCEPT !.state = "closed", !.reason = "eof"]
      BY <2>1 DEF CloseSubs
    <3>2. sub' \in Subs /\ sub'.state = "closed" /\ sub'.got = sub.got /\ sub'.queue = sub.queue
      BY <1>1, <3>1 DEF Subs
    <3> QED  BY <3>2 DEF Given
  <2>2. CASE sub.state # "open"
    <3>1. sub' = sub
      BY <2>2 DEF CloseSubs
    <3> QED  BY <1>1, <2>2, <3>1 DEF Given
  <2> QED  BY <2>1, <2>2
<1>4. TypeInv'
  BY <1>1, <1>2, <1>3 DEF Still, Inv, TypeInv
<1>5. PlaceInv' /\ StoreInv'
  BY <1>1, <1>2, PlaceFrame, StoreFrame DEF Still, Inv
<1>6. StreamInv' /\ TailInv' /\ FanInv'
  BY <1>2 DEF StreamInv, Streaming, TailInv, Working, FanInv
<1>7. PendingInv'
  BY <1>1, <1>2 DEF Still, Inv, PendingInv
<1>8. RingInv' /\ ReadInv' /\ ToldInv'
  BY <1>1, <1>2, HeldFrame, RingFrame, ReadFrame, ToldFrame DEF Still, Inv
<1>9. SubInv'
  BY <1>3 DEF Inv, SubInv
<1> QED  BY <1>4, <1>5, <1>6, <1>7, <1>8, <1>9 DEF Inv

\* The pending pieces are given up, or stored.
LEMMA FlushTailer ==
    ASSUME TypeInv, NEW pc \in {"cursor", "close", "run"},
           tl' = [Flushed(tl) EXCEPT !.pc = pc]
    PROVE  /\ tl' \in Tailers /\ tl'.pos = tl.pos /\ tl'.upTo = tl.upTo /\ tl'.seen = tl.seen
           /\ tl'.at = tl.at /\ tl'.line = tl.line /\ tl'.ring = tl.ring /\ tl'.ending = tl.ending
           /\ tl'.frame = tl.frame /\ tl'.told = tl.told
           /\ tl'.pending = <<>> /\ tl'.seq = tl.seq + 1 /\ tl'.pc = pc
<1>1. tl \in Tailers /\ <<>> \in Seq(Pieces) /\ tl.seq + 1 \in Nat /\ pc \in Pcs
  BY DEF TypeInv, Tailers, Pcs
<1> QED  BY <1>1 DEF Flushed, Tailers

\* The chunk is stored: it is what was written.
LEMMA FlushStore ==
    ASSUME TypeInv, PlaceInv, PendingInv, StoreInv, TailInv, ToldInv, ReadInv, tl.pc = "put",
           chunks' = Stored(tl.seq, tl.pending), UNCHANGED <<stamps, run, cursor, rd, failed, crashed>>,
           tl' = [Flushed(tl) EXCEPT !.pc = "cursor"]
    PROVE  StoreInv' /\ TailInv' /\ ToldInv' /\ ReadInv'
<1> DEFINE p == LineAt(tl.pos)
           n == tl.seq
<1>1. /\ tl' \in Tailers /\ tl'.pos = tl.pos /\ tl'.line = tl.line /\ tl'.seq = n + 1 /\ tl'.pc = "cursor"
      /\ tl'.told = tl.told /\ n \in Nat /\ tl.pending \in Seq(Pieces) /\ tl.pending # <<>>
  BY FlushTailer DEF TypeInv, Tailers, PendingInv
<1>2. SUFFICES ASSUME ~failed PROVE StoreInv' /\ TailInv' /\ ToldInv' /\ ReadInv'
  BY DEF StoreInv, TailInv, ToldInv, ReadInv
<1>3. /\ n = Base /\ Ascending(Written) /\ Covers(Written, p)
      /\ tl.line = "keep" => <<p, 2>> \notin PiecesOf(Written)
      /\ n <= Len(chunks) /\ Len(chunks) <= n + 1 /\ Covers(First(chunks, Base), LineAt(cursor.pos))
  BY <1>2 DEF TailInv, StoreInv, Working
<1>4. /\ LineAt(tl.pos)' = p /\ LineAt(cursor.pos)' = LineAt(cursor.pos) /\ Base' = Base /\ p \in Nat
      /\ chunks' = Written /\ Written' = Written
  BY <1>1, PrimedLines, PlacedFacts DEF PlaceInv, Base, Written, Held
<1>5. /\ Written \in Logs /\ Len(Written) = n + 1 /\ Written[n + 1] = tl.pending
      /\ \A k \in 1 .. n : Written[k] = chunks[k]
  <2>1. Written = Stored(n, tl.pending)
    BY DEF Written, Held
  <2> HIDE DEF n
  <2> QED  BY <1>1, <1>3, <2>1, StoredFacts
<1>6. First(Written, n) = First(chunks, n)
  BY <1>5 DEF First
<1>7. StoreInv'
  <2>1. Whole(Written)
    BY <1>3, <1>4, <1>5, CoversWhole
  <2>2. n <= n + 1
    BY <1>1
  <2> QED  BY <1>3, <1>4, <1>5, <1>6, <2>1, <2>2 DEF StoreInv
<1>8. TailInv'
  BY <1>1, <1>3, <1>4, <1>5 DEF TailInv
<1>9. ReadInv'
  <2>1. SUFFICES ASSUME ~crashed PROVE ReadInv'
    BY DEF ReadInv
  <2>2. /\ Len(chunks) = n /\ (\A k \in DOMAIN chunks : chunks[k] # <<>>)
        /\ Len(rd.out) <= Len(chunks) /\ (\A k \in DOMAIN rd.out : rd.out[k] = chunks[k])
        /\ rd.sent = DOMAIN rd.out
        /\ rd.pc = "emit" => \E m \in 0 .. Len(chunks) : rd.keys = (Len(rd.out) + 1) .. m
    BY <1>2, <2>1 DEF ReadInv
  <2>3. /\ DOMAIN chunks = 1 .. n /\ DOMAIN Written = 1 .. n + 1 /\ rd.out \in Logs
        /\ Len(rd.out) \in Nat /\ DOMAIN rd.out = 1 .. Len(rd.out)
    BY <1>1, <1>5, <2>2, LogFacts DEF TypeInv, Readers
  <2>4. \A k \in 1 .. n + 1 : Written[k] # <<>>
    <3>1. \A k \in 1 .. n + 1 : k \in 1 .. n \/ k = n + 1
      BY <1>1
    <3> QED  BY <1>1, <1>5, <2>2, <2>3, <3>1
  <2>5. Len(rd.out) <= n + 1 /\ \A k \in DOMAIN rd.out : rd.out[k] = Written[k]
    <3>1. \A k \in 1 .. Len(rd.out) : k \in 1 .. n
      BY <1>1, <2>2, <2>3
    <3> QED  BY <1>1, <1>5, <2>2, <2>3, <3>1
  <2>6. \A m \in 0 .. n : m \in 0 .. n + 1
    BY <1>1
  <2> QED  BY <1>1, <1>4, <1>5, <2>2, <2>3, <2>4, <2>5, <2>6 DEF ReadInv
<1>10. ToldInv'
  <2>1. DOMAIN chunks = 1 .. Len(chunks) /\ Len(chunks) \in Nat /\ DOMAIN Written = 1 .. n + 1
    BY <1>1, <1>5, LogFacts DEF TypeInv
  <2>2. ASSUME NEW x \in tl.told PROVE \E k \in DOMAIN Written : k <= n + 1 /\ x \in Of(Written[k])
    <3>1. CASE x \in Of(tl.pending)
      BY <1>1, <1>5, <2>1, <3>1
    <3>2. CASE \E k \in DOMAIN chunks : k <= n /\ x \in Of(chunks[k])
      <4>1. PICK k \in DOMAIN chunks : k <= n /\ x \in Of(chunks[k])
        BY <3>2
      <4>2. k \in 1 .. n /\ k \in 1 .. n + 1 /\ k <= n + 1
        BY <1>1, <2>1, <4>1
      <4> QED  BY <1>5, <2>1, <4>1, <4>2
    <3> QED  BY <1>2, <2>2, <3>1, <3>2 DEF ToldInv, Kept
  <2> QED  BY <1>1, <1>4, <2>2 DEF ToldInv, Kept
<1> QED  BY <1>7, <1>8, <1>9, <1>10

LEMMA FlushStep ==
    ASSUME Inv, FlushPending
    PROVE  Inv'
<1>1. /\ tl.pc = "put" /\ UNCHANGED <<stamps, run, over, sub, cursor, rd, crashed>>
      /\ tl.seq \in Nat /\ tl.pending \in Seq(Pieces) /\ tl.ending \in BOOLEAN /\ chunks \in Logs
      /\ left \in [Kinds -> Nat] /\ "put" \in Kinds
  BY DEF FlushPending, control, Inv, TypeInv, Tailers, Kinds
<1>2. chunks' \in Logs /\ failed' \in BOOLEAN /\ left' \in [Kinds -> Nat]
  <2>1. Stored(tl.seq, tl.pending) \in Logs
    BY <1>1, StoredFacts DEF Inv
  <2>2. chunks' \in Logs /\ failed' \in BOOLEAN
    BY <1>1, <2>1 DEF FlushPending, Inv, TypeInv
  <2>3. left' \in [Kinds -> Nat]
    BY <1>1 DEF FlushPending, Spend
  <2> QED  BY <2>2, <2>3
<1>3. PICK pc \in {"cursor", "close", "run"} :
        /\ tl' = [Flushed(tl) EXCEPT !.pc = pc]
        /\ \/ pc = "cursor" /\ chunks' = Stored(tl.seq, tl.pending) /\ failed' = failed
           \/ pc = (IF tl.ending THEN "close" ELSE "run") /\ failed' = TRUE
  <2>1. CASE tl' = [Flushed(tl) EXCEPT !.pc = "cursor"] /\ chunks' = Stored(tl.seq, tl.pending) /\ failed' = failed
    BY <2>1
  <2>2. CASE tl' = AfterFlush(Flushed(tl)) /\ failed' = TRUE
    <3>1. Flushed(tl).ending = tl.ending
      BY DEF Flushed, Inv, TypeInv, Tailers
    <3>2. CASE tl.ending
      BY <2>2, <3>1, <3>2 DEF AfterFlush
    <3>3. CASE ~tl.ending
      BY <2>2, <3>1, <3>3 DEF AfterFlush
    <3> QED  BY <3>2, <3>3
  <2> QED  BY <2>1, <2>2 DEF FlushPending
<1>4. /\ tl' \in Tailers /\ tl'.pos = tl.pos /\ tl'.upTo = tl.upTo /\ tl'.seen = tl.seen
      /\ tl'.at = tl.at /\ tl'.line = tl.line /\ tl'.ring = tl.ring /\ tl'.ending = tl.ending
      /\ tl'.frame = tl.frame /\ tl'.told = tl.told
      /\ tl'.pending = <<>> /\ tl'.seq = tl.seq + 1 /\ tl'.pc = pc
  BY <1>3, FlushTailer DEF Inv
<1>5. TypeInv'
  BY <1>1, <1>2, <1>4 DEF Inv, TypeInv
<1>6. PlaceInv'
  BY <1>1, <1>4, PlaceFrame DEF Inv
<1>7. StreamInv'
  <2>1. Streaming' => Streaming
    BY <1>1, <1>3, <1>4 DEF Streaming
  <2> QED  BY <1>1, <1>4, <2>1, StreamFrame DEF Inv
<1>8. PendingInv'
  <2>1. (~tl.ending => tl.pos.last # 0) /\ tl.frame = <<>>
    BY <1>1 DEF Inv, PendingInv
  <2> QED  BY <1>3, <1>4, <2>1 DEF PendingInv
<1>9. StoreInv' /\ TailInv' /\ ToldInv' /\ ReadInv'
  <2>1. CASE pc = "cursor" /\ chunks' = Stored(tl.seq, tl.pending) /\ failed' = failed
    BY <1>1, <1>3, <2>1, FlushStore DEF Inv
  <2>2. CASE failed' = TRUE
    BY <2>2 DEF StoreInv, TailInv, ToldInv, ReadInv
  <2> QED  BY <1>3, <2>1, <2>2
<1>10. RingInv' /\ FanInv'
  <2>1. RingHeld' = RingHeld
    BY <1>1, <1>3, <1>4 DEF RingHeld
  <2> QED  BY <1>1, <1>3, <1>4, <2>1, RingFrame DEF Inv, FanInv
<1>11. SubInv'
  BY <1>1, <1>3, <1>4, SubFrame DEF Inv
<1> QED  BY <1>5, <1>6, <1>7, <1>8, <1>9, <1>10, <1>11 DEF Inv

\* The tailer goes on, with nothing pending, after all it has written is stored and the cursor
\* says so: the next chunk is empty.
LEMMA EmptyChunk ==
    ASSUME TypeInv, NEW n \in Nat, n <= Len(chunks), Len(chunks) <= n + 1, Ascending(chunks)
    PROVE  /\ Ascending(Stored(n, <<>>))
           /\ PiecesOf(Stored(n, <<>>)) = PiecesOf(First(chunks, n))
<1>1. Begins(Stored(n, <<>>), chunks, n) /\ Begins(First(chunks, n), chunks, n) /\ Len(First(chunks, n)) = n
  BY StoredBegins, FirstFacts
<1>2. Ascending(Stored(n, <<>>))
  BY <1>1, BeginsAscending
<1>3. Begins(Stored(n, <<>>), First(chunks, n), n) /\ Begins(First(chunks, n), Stored(n, <<>>), n)
  BY <1>1 DEF Begins
<1> QED  BY <1>2, <1>3, BeginsSame

LEMMA FirstAll ==
    ASSUME TypeInv
    PROVE  First(chunks, Len(chunks)) = chunks
<1>1. chunks \in Logs /\ Len(chunks) \in Nat
  BY LogFacts DEF TypeInv
<1> QED  BY <1>1 DEF First, Logs

LEMMA CursorSaved ==
    ASSUME TypeInv, PlaceInv, StoreInv, TailInv, ~failed, tl.pc = "cursor", tl.pending = <<>>,
           UNCHANGED <<stamps, chunks, failed>>, cursor' = [next |-> tl.seq, pos |-> tl.pos],
           tl'.pos = tl.pos, tl'.seq = tl.seq, tl'.pending = tl.pending, tl'.line = tl.line,
           tl'.pc \in {"run", "close"}
    PROVE  StoreInv' /\ TailInv'
<1> DEFINE p == LineAt(tl.pos)
           n == tl.seq
<1>1. /\ n = Base + 1 /\ Len(chunks) = n /\ Written = chunks
      /\ Ascending(chunks) /\ Whole(chunks) /\ Covers(chunks, p)
      /\ tl.line = "keep" => <<p, 2>> \notin PiecesOf(chunks)
  BY DEF TailInv, StoreInv, Working, Written
<1>2. n \in Nat /\ cursor'.next = n /\ cursor'.pos = tl.pos /\ cursor' # NoCursor
  <2>1. n \in Nat
    BY DEF TypeInv, Tailers
  <2>2. cursor'.next = n /\ cursor'.pos = tl.pos /\ NoCursor.next = -1
    BY DEF NoCursor
  <2> QED  BY <2>1, <2>2
<1>3. Base' = n /\ LineAt(cursor.pos)' = p /\ LineAt(tl.pos)' = p
  BY <1>2, PrimedLines DEF Base
<1>4. First(chunks, n) = chunks
  BY <1>1, FirstAll
<1>5. n <= Len(chunks) /\ Len(chunks) <= n + 1
  BY <1>1, <1>2
<1>6. StoreInv'
  BY <1>1, <1>3, <1>4, <1>5 DEF StoreInv
<1>7. Written' = Stored(n, <<>>)
  BY DEF Written, Stored, Held
<1>8. Ascending(Written') /\ PiecesOf(Written') = PiecesOf(chunks)
  <2> HIDE DEF n
  <2> QED  BY <1>1, <1>2, <1>4, <1>5, <1>7, EmptyChunk
<1>9. Covers(Written', p)
  BY <1>1, <1>8, SameCovers
<1>10. TailInv'
  BY <1>1, <1>3, <1>8, <1>9 DEF TailInv
<1> QED  BY <1>6, <1>10

LEMMA SaveCursorStep ==
    ASSUME Inv, SaveCursor
    PROVE  Inv'
<1> DEFINE saved == [next |-> tl.seq, pos |-> tl.pos]
<1>1. /\ tl.pc = "cursor" /\ tl' = AfterFlush(tl)
      /\ UNCHANGED <<stamps, run, over, sub, chunks, rd, crashed>>
      /\ tl \in Tailers /\ left \in [Kinds -> Nat] /\ "put" \in Kinds
      /\ failed \in BOOLEAN
  BY DEF SaveCursor, control, Inv, TypeInv, Kinds
<1>2. /\ Still /\ tl'.pc = IF tl.ending THEN "close" ELSE "run"
  <2>1. tl.ending \in BOOLEAN
    BY <1>1 DEF Tailers
  <2>2. CASE tl.ending
    BY <1>1, <2>2 DEF AfterFlush, Still, Tailers, Pcs
  <2>3. CASE ~tl.ending
    BY <1>1, <2>3 DEF AfterFlush, Still, Tailers, Pcs
  <2> QED  BY <2>2, <2>3
<1>3. tl'.pc \in {"close", "run"} /\ tl.pending = <<>> /\ tl.frame = <<>> /\ (~tl.ending => tl.pos.last # 0)
  BY <1>1, <1>2 DEF Inv, PendingInv
<1>4. /\ cursor' \in {cursor, saved} /\ failed' \in BOOLEAN /\ left' \in [Kinds -> Nat]
      /\ \/ failed' = TRUE
         \/ failed' = failed /\ tl.pos.last = 0 /\ cursor' = cursor
         \/ failed' = failed /\ cursor' = saved
  <2>1. left' \in [Kinds -> Nat]
    BY <1>1 DEF SaveCursor, Spend
  <2> QED  BY <1>1, <2>1 DEF SaveCursor
<1>5. /\ saved \in [next : Nat \cup {-1}, pos : Positions] /\ saved.next # -1 /\ saved.pos = tl.pos
  BY <1>1 DEF Tailers
<1> HIDE DEF saved
<1>6. TypeInv'
  BY <1>1, <1>2, <1>4, <1>5 DEF Still, Inv, TypeInv
<1>7. PlaceInv'
  <2>1. cursor'.pos = cursor.pos \/ cursor'.pos = tl.pos
    BY <1>4, <1>5
  <2> QED  BY <1>1, <1>2, <2>1, PrimedLines DEF Inv, PlaceInv, Still
<1>8. StreamInv'
  <2>1. Streaming' => Streaming
    BY <1>1, <1>2 DEF Still, Streaming
  <2> QED  BY <1>1, <1>2, <2>1, StreamFrame DEF Still, Inv
<1>9. PendingInv'
  BY <1>2, <1>3 DEF Still, PendingInv
<1>10. StoreInv' /\ TailInv'
  <2>1. CASE failed' = TRUE
    BY <2>1 DEF StoreInv, TailInv
  <2>2. CASE failed' = failed /\ tl.pos.last = 0 /\ cursor' = cursor
    <3>1. ~Working'
      BY <1>2, <1>3, <2>2 DEF Working
    <3> QED  BY <1>1, <2>2, <3>1, StoreFrame DEF Inv, TailInv
  <2>3. CASE failed' = failed /\ cursor' = saved /\ ~failed
    BY <1>1, <1>2, <1>3, <2>3, CursorSaved DEF Still, Inv, saved
  <2> QED  BY <1>1, <1>4, <2>1, <2>2, <2>3
<1>11. RingInv' /\ FanInv' /\ ToldInv'
  <2>1. RingInv' /\ FanInv'
    BY <1>1, <1>2, <1>3, HeldFrame, RingFrame DEF Still, Inv, FanInv
  <2>2. ToldInv'
    BY <1>1, <1>2, <1>3, <1>4, ToldFrame DEF Still, Inv
  <2> QED  BY <2>1, <2>2
<1>12. SubInv'
  BY <1>1, <1>2, <1>3, SubFrame DEF Still, Inv
<1>13. ReadInv'
  <2>1. CASE failed' = TRUE
    BY <2>1 DEF ReadInv
  <2>2. CASE failed' = failed
    BY <1>1, <1>2, <1>3, <2>2, ReadFrame DEF Still, Inv
  <2> QED  BY <1>4, <2>1, <2>2
<1> QED  BY <1>6, <1>7, <1>8, <1>9, <1>10, <1>11, <1>12, <1>13 DEF Inv

-----------------------------------------------------------------------------
(* The registry and the controller.                                        *)

\* A tailer that has published nothing.
LEMMA EmptyFacts ==
    /\ <<>> \in Seq(Pieces) /\ <<>> \in Logs /\ PiecesOf(<<>>) = {}
    /\ Of(<<>>) = {} /\ Level(<<>>) /\ (\A q : Reaches(<<>>, q)) /\ Unbroken(<<<<>>>>)
    /\ Ascending(<<>>) /\ Whole(<<>>) /\ Replayed(<<>>) /\ Unbroken(<<>>)
<1>1. <<>> \in Seq(Pieces) /\ <<>> \in Logs /\ DOMAIN <<>> = {} /\ DOMAIN <<<<>>>> = {1} /\ <<<<>>>>[1] = <<>>
  BY DEF Logs
<1>2. PiecesOf(<<>>) = {} /\ PiecesOf(<<<<>>>>) = {}
  BY <1>1, PiecesFacts
<1>3. Len(<<>>) = 0
  OBVIOUS
<1>4. Of(<<>>) = {} /\ Level(<<>>) /\ \A q : Reaches(<<>>, q)
  BY <1>1, <1>3 DEF Of, Level, Reaches
<1>5. Replayed(<<>>)
  BY <1>1, <1>3 DEF Replayed
<1>6. Ascending(<<>>) /\ Whole(<<>>) /\ Unbroken(<<>>) /\ Unbroken(<<<<>>>>)
  BY <1>1, <1>2 DEF Ascending, Whole, Unbroken
<1> QED  BY <1>1, <1>2, <1>4, <1>5, <1>6

LEMMA NewTailer ==
    ASSUME TypeInv
    PROVE  /\ NoTailer \in Tailers /\ Fresh \in Tailers /\ Fresh.pc = "open" /\ ~Fresh.ending
           /\ Fresh.pos = NoPosition /\ Fresh.seq = 0 /\ Fresh.pending = <<>> /\ Fresh.ring = <<>>
           /\ Fresh.line = "header" /\ Fresh.frame = <<>> /\ Fresh.told = {}
           /\ \A c \in [next : Nat, pos : Positions] :
                /\ Resumed(c) \in Tailers /\ Resumed(c).pc = "open" /\ ~Resumed(c).ending
                /\ Resumed(c).pos = c.pos /\ Resumed(c).seq = c.next /\ Resumed(c).pending = <<>>
                /\ Resumed(c).ring = <<>> /\ Resumed(c).line = "header"
                /\ Resumed(c).frame = <<>> /\ Resumed(c).told = {}
<1>1. NoPosition \in Positions /\ <<>> \in Seq(Pieces) /\ {} \in SUBSET Pieces
  BY DEF NoPosition, Positions
<1>2. NoTailer \in Tailers
  BY <1>1 DEF NoTailer, Tailers, Pcs
<1>3. /\ Fresh \in Tailers /\ Fresh.pc = "open" /\ ~Fresh.ending
      /\ Fresh.pos = NoPosition /\ Fresh.seq = 0 /\ Fresh.pending = <<>> /\ Fresh.ring = <<>>
      /\ Fresh.line = "header" /\ Fresh.frame = <<>> /\ Fresh.told = {}
  BY <1>1 DEF Fresh, NoTailer, Tailers, Pcs
<1>4. ASSUME NEW c \in [next : Nat, pos : Positions]
      PROVE  /\ Resumed(c) \in Tailers /\ Resumed(c).pc = "open" /\ ~Resumed(c).ending
             /\ Resumed(c).pos = c.pos /\ Resumed(c).seq = c.next /\ Resumed(c).pending = <<>>
             /\ Resumed(c).ring = <<>> /\ Resumed(c).line = "header"
             /\ Resumed(c).frame = <<>> /\ Resumed(c).told = {}
  BY <1>1 DEF Resumed, NoTailer, Tailers, Pcs
<1> QED  BY <1>2, <1>3, <1>4

\* A tailer that resumes, or starts over, has written what the cursor stands for.
LEMMA EnsureStore ==
    ASSUME TypeInv, PlaceInv, StoreInv, ReadInv, tl.pc = "none", run = "active", ~failed,
           UNCHANGED <<stamps, run, cursor, rd, failed, crashed>>,
           tl'.pc = "open", tl'.pending = <<>>, tl'.line = "header",
           \/ cursor # NoCursor /\ tl'.pos = cursor.pos /\ tl'.seq = cursor.next /\ chunks' = chunks
           \/ cursor = NoCursor /\ tl'.pos = NoPosition /\ tl'.seq = 0 /\ chunks' = <<>>
    PROVE  StoreInv' /\ TailInv' /\ ReadInv'
<1>1. /\ Base <= Len(chunks) /\ Len(chunks) <= Base + 1 /\ Ascending(chunks) /\ Whole(chunks)
      /\ Covers(First(chunks, Base), LineAt(cursor.pos))
  BY DEF StoreInv
<1>2. chunks \in Logs /\ Len(chunks) \in Nat /\ cursor \in [next : Nat \cup {-1}, pos : Positions]
  BY LogFacts DEF TypeInv
<1>3. Base \in Nat
  BY <1>2 DEF Base, TypeInv
<1>4. tl'.seq = Base /\ tl'.pos = cursor.pos /\ Base' = Base
  BY DEF Base, NoCursor
<1>5. LineAt(tl.pos)' = LineAt(cursor.pos) /\ LineAt(cursor.pos)' = LineAt(cursor.pos)
  BY <1>4, PrimedLines
<1>6. CASE chunks' = chunks
  <2>1. StoreInv'
    BY <1>6, StoreFrame
  <2>2. Written' = Stored(Base, <<>>)
    BY <1>4, <1>6 DEF Written, Stored, Held
  <2>3. Ascending(Written') /\ PiecesOf(Written') = PiecesOf(First(chunks, Base))
    BY <1>1, <1>3, <2>2, EmptyChunk
  <2>4. Covers(Written', LineAt(cursor.pos))
    BY <1>1, <2>3, SameCovers
  <2>5. TailInv'
    BY <1>4, <1>5, <2>3, <2>4 DEF TailInv
  <2>6. ReadInv'
    <3>1. SUFFICES ASSUME ~crashed PROVE ReadInv'
      BY DEF ReadInv
    <3>2. chunks = <<>>
      BY <3>1 DEF ReadInv
    <3>3. Len(chunks) = Base
      BY <1>1, <1>2, <1>3, <3>2
    <3> QED  BY <1>4, <1>6, <3>3 DEF ReadInv
  <2> QED  BY <2>1, <2>5, <2>6
<1>7. CASE cursor = NoCursor /\ tl'.pos = NoPosition /\ tl'.seq = 0 /\ chunks' = <<>>
  <2>1. Base = 0 /\ LineAt(cursor.pos) = 0
    BY <1>7, StartFacts DEF Base, NoCursor
  <2>2. Len(<<>>) = 0 /\ DOMAIN First(<<>>, 0) = {} /\ DOMAIN First(chunks, 0) = {}
    BY DEF First
  <2>3. PiecesOf(First(<<>>, 0)) = {}
    BY <2>2, PiecesFacts
  <2>4. Covers(First(<<>>, 0), 0)
    BY <2>3 DEF Covers
  <2>5. StoreInv'
    BY <1>4, <1>5, <1>7, <2>1, <2>2, <2>4, EmptyFacts DEF StoreInv
  <2> DEFINE w == Written'
  <2>6. w = [k \in 1 .. 1 |-> IF k = 1 THEN <<>> ELSE <<>>]
    <3>1. w = [k \in 1 .. IF 0 + 1 > Len(<<>>) THEN 0 + 1 ELSE Len(<<>>) |->
                 IF k = 0 + 1 THEN <<>> ELSE IF k <= Len(<<>>) THEN <<>>[k] ELSE <<>>]
      BY <1>7 DEF Written, Stored, Held
    <3> QED  BY <2>2, <3>1
  <2>7. DOMAIN w = {1} /\ w[1] = <<>>
    <3> HIDE DEF w
    <3> QED  BY <2>6
  <2>8. PiecesOf(w) = {}
    <3> HIDE DEF w
    <3> QED  BY <2>7, PiecesFacts
  <2>9. Ascending(w) /\ Covers(w, 0)
    <3> HIDE DEF w
    <3> QED  BY <2>7, <2>8 DEF Ascending, Covers
  <2>10. TailInv'
    BY <1>4, <1>5, <2>1, <2>9 DEF TailInv
  <2>11. ReadInv'
    <3>1. SUFFICES ASSUME ~crashed PROVE ReadInv'
      BY DEF ReadInv
    <3>2. chunks = <<>>
      BY <3>1 DEF ReadInv
    <3> QED  BY <1>7, <2>2, <3>2 DEF ReadInv
  <2> QED  BY <2>5, <2>10, <2>11
<1> QED  BY <1>6, <1>7

LEMMA EnsureStep ==
    ASSUME Inv, EnsureTailer
    PROVE  Inv'
<1>1. /\ run = "active" /\ tl.pc = "none"
      /\ UNCHANGED <<stamps, run, over, sub, cursor, rd, crashed>>
      /\ left \in [Kinds -> Nat] /\ "put" \in Kinds /\ chunks \in Logs /\ failed \in BOOLEAN
      /\ cursor \in [next : Nat \cup {-1}, pos : Positions] /\ (cursor.next = -1 => cursor = NoCursor)
  BY DEF EnsureTailer, control, Inv, TypeInv, Kinds
<1>2. cursor # NoCursor => cursor \in [next : Nat, pos : Positions]
  BY <1>1
<1>3. chunks' \in Logs /\ failed' \in BOOLEAN /\ left' \in [Kinds -> Nat]
  <2>1. chunks' \in Logs /\ failed' \in BOOLEAN
    BY <1>1, EmptyFacts DEF EnsureTailer
  <2>2. left' \in [Kinds -> Nat]
    BY <1>1 DEF EnsureTailer, Spend
  <2> QED  BY <2>1, <2>2
<1>4. /\ tl' \in Tailers /\ tl'.pc = "open" /\ ~tl'.ending /\ tl'.pending = <<>> /\ tl'.ring = <<>>
      /\ tl'.line = "header" /\ tl'.frame = <<>> /\ tl'.told = {}
      /\ tl'.pos = cursor.pos \/ tl'.pos = NoPosition
  <2>1. CASE cursor # NoCursor /\ tl' = Resumed(cursor)
    BY <1>2, <2>1, NewTailer DEF Inv
  <2>2. CASE tl' = Fresh
    BY <2>2, NewTailer DEF Inv
  <2> QED  BY <2>1, <2>2 DEF EnsureTailer
<1>5. TypeInv'
  BY <1>1, <1>3, <1>4 DEF Inv, TypeInv
<1>6. PlaceInv'
  <2>1. Placed(tl'.pos)
    BY <1>4, StartFacts DEF Inv, PlaceInv
  <2> QED  BY <1>1, <2>1, PlaceFrame DEF Inv
<1>7. StreamInv' /\ PendingInv' /\ FanInv' /\ ToldInv'
  BY <1>4 DEF StreamInv, Streaming, PendingInv, FanInv, ToldInv
<1>8. StoreInv' /\ TailInv' /\ ReadInv'
  <2>1. CASE failed' = TRUE
    BY <2>1 DEF StoreInv, TailInv, ReadInv
  <2>2. CASE failed' = failed /\ ~failed
    <3>1. \/ cursor # NoCursor /\ tl'.pos = cursor.pos /\ tl'.seq = cursor.next /\ chunks' = chunks
          \/ cursor = NoCursor /\ tl'.pos = NoPosition /\ tl'.seq = 0 /\ chunks' = <<>>
      <4>1. CASE cursor # NoCursor /\ tl' = Resumed(cursor) /\ chunks' = chunks
        BY <1>2, <4>1, NewTailer DEF Inv
      <4>2. CASE cursor = NoCursor /\ tl' = Fresh /\ chunks' = <<>>
        BY <4>2, NewTailer DEF Inv
      <4> QED  BY <1>1, <2>2, <4>1, <4>2 DEF EnsureTailer
    <3> QED  BY <1>1, <1>4, <2>2, <3>1, EnsureStore DEF Inv
  <2> QED  BY <1>1, <1>3, <2>1, <2>2 DEF EnsureTailer
<1>9. RingInv'
  <2>1. RingHeld' = <<>>
    BY <1>4 DEF RingHeld
  <2>2. Level(RingHeld)' /\ Reaches(RingHeld, LineAt(tl.pos))'
    BY <2>1, EmptyFacts DEF Level, Reaches
  <2> QED  BY <1>4, <2>2, EmptyFacts DEF RingInv
<1>10. SubInv'
  <2>1. sub.state # "open"
    BY <1>1 DEF Inv, SubInv
  <2> QED  BY <1>1, <2>1, SubFrame DEF Inv
<1> QED  BY <1>5, <1>6, <1>7, <1>8, <1>9, <1>10 DEF Inv

LEMMA EndRunStep ==
    ASSUME Inv, EndRun
    PROVE  Inv'
<1>1. /\ run' = "stopping" /\ over' \in BOOLEAN /\ tl' = [tl EXCEPT !.stop = TRUE]
      /\ UNCHANGED <<stamps, sub, chunks, cursor, rd, failed, crashed, left>> /\ tl \in Tailers
  BY DEF EndRun, store, history, Inv, TypeInv
<1>2. Still /\ tl'.pc = tl.pc
  BY <1>1 DEF Still, Tailers
<1>3. TypeInv'
  BY <1>1, <1>2 DEF Still, Inv, TypeInv
<1>4. PlaceInv' /\ StoreInv'
  BY <1>1, <1>2, PlaceFrame, StoreFrame DEF Still, Inv
<1>5. StreamInv'
  <2>1. Streaming' => Streaming
    BY <1>2 DEF Still, Streaming
  <2> QED  BY <1>1, <1>2, <2>1, StreamFrame DEF Still, Inv
<1>6. PendingInv'
  BY <1>2 DEF Still, Inv, PendingInv
<1>7. TailInv' /\ ToldInv'
  <2>1. (Working' => Working) /\ Held' = Held
    BY <1>2, HeldFrame DEF Working, Still
  <2> QED  BY <1>1, <1>2, <2>1, TailFrame, ToldFrame DEF Still, Inv
<1>8. RingInv' /\ ReadInv'
  BY <1>1, <1>2, HeldFrame, RingFrame, ReadFrame DEF Still, Inv
<1>9. FanInv'
  <2>1. LineAt(tl.pos)' = LineAt(tl.pos)
    BY <1>1, <1>2, PrimedLines DEF Still
  <2> QED  BY <1>2, <2>1 DEF Still, Inv, FanInv, Level, Reaches, SameEnd
<1>10. SubInv'
  <2>1. sub.state = "open" => tl'.pc \notin {"none", "done"}
    BY <1>2 DEF Inv, SubInv
  <2> QED  BY <1>1, <1>2, <2>1, SubFrame DEF Still, Inv
<1> QED  BY <1>3, <1>4, <1>5, <1>6, <1>7, <1>8, <1>9, <1>10 DEF Inv

\* Steps that leave no tailer.
LEMMA NoTailerStep ==
    ASSUME Inv, tl' = NoTailer, UNCHANGED <<stamps, cursor>>
    PROVE  /\ tl' \in Tailers /\ PlaceInv' /\ StreamInv' /\ PendingInv' /\ TailInv' /\ ToldInv'
           /\ RingInv' /\ FanInv'
<1>1. /\ tl' \in Tailers /\ tl'.pc = "none" /\ tl'.pos = NoPosition /\ tl'.pending = <<>> /\ ~tl'.ending
      /\ tl'.frame = <<>>
  BY NewTailer DEF Inv, NoTailer
<1>2. PlaceInv'
  BY <1>1, StartFacts, PlaceFrame DEF Inv
<1> QED  BY <1>1, <1>2 DEF StreamInv, Streaming, PendingInv, TailInv, Working, ToldInv, RingInv, FanInv

LEMMA StoppedStep ==
    ASSUME Inv, Stopped
    PROVE  Inv'
<1>1. /\ run' = "stopped" /\ over' = TRUE /\ tl' = NoTailer /\ tl.pc \in {"none", "done"}
      /\ UNCHANGED <<stamps, sub, chunks, cursor, rd, failed, crashed, left>>
  BY DEF Stopped, store, history
<1>2. /\ tl' \in Tailers /\ PlaceInv' /\ StreamInv' /\ PendingInv' /\ TailInv' /\ ToldInv'
      /\ RingInv' /\ FanInv'
  BY <1>1, NoTailerStep
<1>3. TypeInv' /\ StoreInv'
  BY <1>1, <1>2, StoreFrame DEF Inv, TypeInv
<1>4. SubInv'
  <2>1. sub.state # "open"
    BY <1>1 DEF Inv, SubInv
  <2> QED  BY <1>1, <2>1, SubFrame DEF Inv
<1>5. ReadInv'
  <2>1. tl'.pc = "none"
    BY <1>1 DEF NoTailer
  <2> QED  BY <1>1, <2>1, ReadFrame DEF Inv
<1> QED  BY <1>2, <1>3, <1>4, <1>5 DEF Inv

LEMMA CrashStep ==
    ASSUME Inv, Crash
    PROVE  Inv'
<1>1. /\ run' \in {"stopped", "active"} /\ tl' = NoTailer /\ crashed' = TRUE
      /\ sub' = (IF sub.state = "open" THEN [sub EXCEPT !.state = "gone"] ELSE sub)
      /\ UNCHANGED <<stamps, over, chunks, cursor, rd, failed>> /\ sub \in Subs
      /\ left \in [Kinds -> Nat] /\ "crash" \in Kinds
  BY DEF Crash, store, Inv, TypeInv, Kinds
<1>2. /\ tl' \in Tailers /\ PlaceInv' /\ StreamInv' /\ PendingInv' /\ TailInv' /\ ToldInv'
      /\ RingInv' /\ FanInv'
  BY <1>1, NoTailerStep
<1>3. sub' \in Subs /\ sub'.state # "open" /\ sub'.got = sub.got /\ sub'.queue = sub.queue
  <2>1. CASE sub.state = "open"
    BY <1>1, <2>1 DEF Subs
  <2>2. CASE sub.state # "open"
    BY <1>1, <2>2
  <2> QED  BY <2>1, <2>2
<1>4. left' \in [Kinds -> Nat]
  BY <1>1 DEF Crash, Spend
<1>5. TypeInv' /\ StoreInv'
  BY <1>1, <1>2, <1>3, <1>4, StoreFrame DEF Inv, TypeInv
<1>6. SubInv'
  <2>1. Given' = Given
    BY <1>3 DEF Given
  <2> QED  BY <1>3, <2>1 DEF Inv, SubInv
<1>7. ReadInv'
  BY <1>1 DEF ReadInv
<1> QED  BY <1>2, <1>5, <1>6, <1>7 DEF Inv

-----------------------------------------------------------------------------
(* The subscriber and the reader.                                          *)

\* Steps that change neither the tailer nor the store.
LEMMA OutsideStep ==
    ASSUME Inv, UNCHANGED <<stamps, tl, chunks, cursor, failed>>
    PROVE  /\ PlaceInv' /\ StreamInv' /\ PendingInv' /\ StoreInv' /\ TailInv' /\ ToldInv'
           /\ RingInv' /\ FanInv'
<1>1. PlaceInv' /\ StoreInv'
  BY PlaceFrame, StoreFrame DEF Inv
<1>2. (Streaming' => Streaming) /\ (Working' => Working) /\ Held' = Held /\ RingHeld' = RingHeld
  BY HeldFrame DEF Streaming, Working
<1>3. StreamInv' /\ TailInv' /\ ToldInv' /\ RingInv'
  BY <1>2, StreamFrame, TailFrame, ToldFrame, RingFrame DEF Inv
<1>4. LineAt(tl.pos)' = LineAt(tl.pos)
  BY PrimedLines
<1>5. FanInv'
  BY <1>4 DEF Inv, FanInv, Level, Reaches, SameEnd
<1> QED  BY <1>1, <1>3, <1>5 DEF Inv, PendingInv

LEMMA SubscribeStep ==
    ASSUME Inv, Subscribe
    PROVE  Inv'
<1> DEFINE ring == <<tl.ring>>
           p == LineAt(tl.pos)
<1>1. /\ tl.pc # "none" /\ sub.state = "none"
      /\ UNCHANGED <<stamps, run, over, tl, chunks, cursor, rd, failed, crashed>>
      /\ left \in [Kinds -> Nat] /\ "subscribe" \in Kinds
  BY DEF Subscribe, control, store, history, Inv, TypeInv, Kinds
<1>2. /\ PlaceInv' /\ StreamInv' /\ PendingInv' /\ StoreInv' /\ TailInv' /\ ToldInv'
      /\ RingInv' /\ FanInv'
  BY <1>1, OutsideStep
<1>3. left' \in [Kinds -> Nat]
  BY <1>1 DEF Subscribe, Spend
<1>4. ReadInv'
  BY <1>1, ReadFrame DEF Inv
<1>5. /\ p \in Nat /\ LineAt(tl.pos)' = p /\ tl.ring \in Seq(Pieces) /\ ring \in Logs /\ <<>> \in Logs
      /\ tl.frame \in Seq(Pieces) /\ Unbroken(ring) /\ Level(RingHeld) /\ Reaches(RingHeld, p)
  BY <1>1, PlacedFacts, PrimedLines DEF Inv, PlaceInv, TypeInv, Tailers, RingInv, Logs
<1>6. PiecesOf(ring) = Of(tl.ring) /\ (Level(tl.ring) => Replayed(ring))
  BY <1>5, OneFrame
<1>7. /\ Replayed(ring) /\ Reached(ring, p)
      /\ Follows(ring, tl.frame) \/ (tl.pc = "fan" /\ SameEnd(tl.ring, tl.frame))
  <2>1. CASE tl.pc = "fan"
    <3>1. RingHeld = tl.ring /\ SameEnd(tl.ring, tl.frame)
      BY <2>1 DEF RingHeld, Inv, FanInv
    <3>2. \A x \in Of(tl.ring) : IsText(x) => x[1] <= p /\ (x[1] + 1) .. p \subseteq LinesOf(ring)
      BY <1>5, <3>1, OneFrame
    <3> QED  BY <1>5, <1>6, <2>1, <3>1, <3>2 DEF Reached
  <2>2. CASE tl.pc # "fan"
    <3>1. RingHeld = tl.ring \o tl.frame
      <4>1. tl.pc # "consume" => tl.frame = <<>>
        BY <2>2 DEF Inv, PendingInv
      <4>2. tl.ring \o <<>> = tl.ring
        BY <1>5, ConcatEmpty
      <4> QED  BY <4>1, <4>2 DEF RingHeld
    <3>2. /\ Level(tl.ring)
          /\ \A x \in Of(tl.ring), y \in Of(tl.frame) : IsText(x) /\ IsText(y) => x[1] <= y[1]
          /\ \A x \in Of(tl.ring) : IsText(x) =>
               x[1] <= p /\ (x[1] + 1) .. p \subseteq LinesOf(ring) \cup LinesOf(<<tl.frame>>)
      BY <1>5, <3>1, SplitFrame
    <3> QED  BY <1>6, <3>2 DEF Reached, Follows
  <2> QED  BY <2>1, <2>2
<1>8. \/ sub' = [NoSub EXCEPT !.state = "closed", !.reason = "eof"]
      \/ tl.pc # "done" /\ \E q \in {<<>>, ring} : sub' = [NoSub EXCEPT !.state = "open", !.queue = q]
  BY DEF Subscribe
<1>9. CASE sub' = [NoSub EXCEPT !.state = "closed", !.reason = "eof"]
  <2>1. sub' \in Subs /\ sub'.state # "open" /\ sub'.got = <<>> /\ sub'.queue = <<>>
    BY <1>5, <1>9 DEF NoSub, Subs
  <2>2. Given' = <<>>
    BY <2>1 DEF Given
  <2>3. SubInv'
    BY <2>1, <2>2, EmptyFacts DEF SubInv
  <2>4. TypeInv'
    BY <1>1, <1>3, <2>1 DEF Inv, TypeInv
  <2> QED  BY <1>2, <1>4, <2>3, <2>4 DEF Inv
<1>10. CASE tl.pc # "done" /\ \E q \in {<<>>, ring} : sub' = [NoSub EXCEPT !.state = "open", !.queue = q]
  <2>1. PICK q \in {<<>>, ring} : sub' = [NoSub EXCEPT !.state = "open", !.queue = q]
    BY <1>10
  <2>2. /\ q \in Logs /\ Replayed(q) /\ Unbroken(q) /\ Reached(q, p)
        /\ Follows(q, tl.frame) \/ (tl.pc = "fan" /\ Len(q) = 1 /\ SameEnd(q[1], tl.frame))
    <3>1. CASE q = <<>>
      BY <3>1, EmptyFacts DEF Reached, Follows
    <3>2. CASE q = ring
      <4>1. Len(ring) = 1 /\ ring[1] = tl.ring
        OBVIOUS
      <4> QED  BY <1>5, <1>7, <3>2, <4>1
    <3> QED  BY <2>1, <3>1, <3>2
  <2> HIDE DEF ring, p
  <2>3. sub' \in Subs /\ sub'.state = "open" /\ sub'.got = <<>> /\ sub'.queue = q
    BY <1>5, <2>1, <2>2 DEF NoSub, Subs
  <2>4. <<>> \o q = q
    BY <2>2 DEF Logs
  <2>5. Given' = q
    BY <2>3, <2>4 DEF Given
  <2>6. SubInv'
    <3>1. tl' = tl /\ LineAt(tl.pos)' = p
      BY <1>1, <1>5
    <3>2. Reached(Given, LineAt(tl.pos))'
      BY <2>2, <2>5, <3>1 DEF Reached
    <3>3. Follows(Given, tl.frame)' <=> Follows(q, tl.frame)
      BY <2>5, <3>1 DEF Follows
    <3>4. SameEnd(Given[1], tl.frame)' <=> SameEnd(q[1], tl.frame)
      BY <2>5, <3>1 DEF SameEnd
    <3> QED  BY <1>1, <1>10, <2>2, <2>5, <3>1, <3>2, <3>3, <3>4 DEF SubInv
  <2>7. TypeInv'
    BY <1>1, <1>3, <2>3 DEF Inv, TypeInv
  <2> QED  BY <1>2, <1>4, <2>6, <2>7 DEF Inv
<1> QED  BY <1>8, <1>9, <1>10

LEMMA UnsubscribeStep ==
    ASSUME Inv, Unsubscribe
    PROVE  Inv'
<1>1. /\ sub' = [sub EXCEPT !.state = "closed", !.reason = "unsubscribed"] /\ sub \in Subs
      /\ UNCHANGED <<stamps, run, over, tl, chunks, cursor, rd, failed, crashed, left>>
  BY DEF Unsubscribe, control, store, history, Inv, TypeInv
<1>2. /\ PlaceInv' /\ StreamInv' /\ PendingInv' /\ StoreInv' /\ TailInv' /\ ToldInv'
      /\ RingInv' /\ FanInv'
  BY <1>1, OutsideStep
<1>3. sub' \in Subs /\ sub'.state = "closed" /\ sub'.got = sub.got /\ sub'.queue = sub.queue
  BY <1>1 DEF Subs
<1>4. Given' = Given
  BY <1>3 DEF Given
<1>5. TypeInv' /\ SubInv'
  BY <1>1, <1>3, <1>4 DEF Inv, TypeInv, SubInv
<1>6. ReadInv'
  BY <1>1, ReadFrame DEF Inv
<1> QED  BY <1>2, <1>5, <1>6 DEF Inv

LEMMA ReceiveConcat ==
    ASSUME NEW s \in Logs, NEW t \in Logs, t # <<>>
    PROVE  Append(s, Head(t)) \in Logs /\ Tail(t) \in Logs /\ Append(s, Head(t)) \o Tail(t) = s \o t
<1> DEFINE S == Seq(Pieces)
<1>1. s \in Seq(S) /\ t \in Seq(S)
  BY DEF Logs
<1> HIDE DEF S
<1>2. Head(t) \in S /\ Tail(t) \in Seq(S) /\ Append(s, Head(t)) \in Seq(S)
  BY <1>1
<1>3. Append(s, Head(t)) \o Tail(t) = s \o t
  <2> DEFINE u == Append(s, Head(t))
             v == Tail(t)
             l == Len(s)
             k == Len(t)
  <2>1. /\ l \in Nat /\ k \in Nat /\ k >= 1 /\ Len(u) = l + 1 /\ Len(v) = k - 1
        /\ u \in Seq(S) /\ v \in Seq(S)
    BY <1>1, <1>2
  <2>2. /\ \A i \in 1 .. l : u[i] = s[i]
        /\ u[l + 1] = t[1] /\ \A i \in 1 .. k - 1 : v[i] = t[i + 1]
    BY <1>1, <1>2, <2>1
  <2>3. /\ u \o v \in Seq(S) /\ Len(u \o v) = l + k /\ s \o t \in Seq(S) /\ Len(s \o t) = l + k
    BY <1>1, <2>1
  <2>4. ASSUME NEW i \in 1 .. l + k PROVE (u \o v)[i] = (s \o t)[i]
    <3>1. CASE i \in 1 .. l
      <4>1. (u \o v)[i] = u[i] /\ (s \o t)[i] = s[i]
        BY <1>1, <2>1, <3>1
      <4> QED  BY <2>2, <3>1, <4>1
    <3>2. CASE i = l + 1
      <4>1. (u \o v)[i] = u[l + 1] /\ (s \o t)[i] = t[1]
        BY <1>1, <2>1, <3>2
      <4> QED  BY <2>2, <4>1
    <3>3. CASE i > l + 1
      <4>1. (u \o v)[i] = v[i - (l + 1)] /\ (s \o t)[i] = t[i - l]
        BY <1>1, <2>1, <3>3
      <4>2. i - (l + 1) \in 1 .. k - 1 /\ (i - (l + 1)) + 1 = i - l
        BY <2>1, <3>3
      <4> QED  BY <2>2, <4>1, <4>2
    <3> QED  BY <2>1, <3>1, <3>2, <3>3
  <2> HIDE DEF u, v
  <2>5. u \o v = s \o t
    <3> DEFINE a == u \o v
               b == s \o t
    <3>1. a \in Seq(S) /\ b \in Seq(S) /\ Len(a) = Len(b) /\ \A i \in 1 .. Len(a) : a[i] = b[i]
      BY <2>3, <2>4
    <3> HIDE DEF a, b
    <3>2. a = b
      BY <3>1, SameSequence
    <3> QED  BY <3>2 DEF a, b
  <2> QED  BY <2>5 DEF u, v
<1> QED  BY <1>2, <1>3 DEF S, Logs

LEMMA ReceiveStep ==
    ASSUME Inv, Receive
    PROVE  Inv'
<1>1. /\ sub' = [sub EXCEPT !.got = Append(@, Head(sub.queue)), !.queue = Tail(@)] /\ sub \in Subs
      /\ sub.queue # <<>> /\ sub.got \in Logs /\ sub.queue \in Logs
      /\ UNCHANGED <<stamps, run, over, tl, chunks, cursor, rd, failed, crashed, left>>
  BY DEF Receive, control, store, history, Inv, TypeInv, Subs
<1>2. /\ PlaceInv' /\ StreamInv' /\ PendingInv' /\ StoreInv' /\ TailInv' /\ ToldInv'
      /\ RingInv' /\ FanInv'
  BY <1>1, OutsideStep
<1> DEFINE got == Append(sub.got, Head(sub.queue))
           queue == Tail(sub.queue)
<1>3. got \in Logs /\ queue \in Logs /\ got \o queue = Given
  BY <1>1, ReceiveConcat DEF Given
<1>4. sub' = [sub EXCEPT !.got = got, !.queue = queue]
  BY <1>1
<1> HIDE DEF got, queue
<1>5. sub' \in Subs /\ sub'.state = sub.state /\ sub'.got = got /\ sub'.queue = queue
  BY <1>1, <1>3, <1>4 DEF Subs
<1>6. Given' = Given
  BY <1>3, <1>5 DEF Given
<1>7. TypeInv'
  BY <1>1, <1>5 DEF Inv, TypeInv
<1>8. SubInv'
  <2>1. LineAt(tl.pos)' = LineAt(tl.pos)
    BY <1>1, PrimedLines
  <2> QED  BY <1>1, <1>5, <1>6, <2>1 DEF Inv, SubInv, Reached
<1>9. ReadInv'
  BY <1>1, ReadFrame DEF Inv
<1> QED  BY <1>2, <1>7, <1>8, <1>9 DEF Inv

\* What a step of the reader needs to keep.
LEMMA ReaderStep ==
    ASSUME Inv, UNCHANGED <<stamps, run, over, tl, sub, chunks, cursor, failed, crashed>>,
           left' \in [Kinds -> Nat], rd' \in Readers, ReadInv'
    PROVE  Inv'
<1>1. /\ PlaceInv' /\ StreamInv' /\ PendingInv' /\ StoreInv' /\ TailInv' /\ ToldInv'
      /\ RingInv' /\ FanInv'
  BY OutsideStep
<1>2. TypeInv'
  BY DEF Inv, TypeInv
<1>3. SubInv'
  <2>1. sub.state = "open" => tl'.pc \notin {"none", "done"}
    BY DEF Inv, SubInv
  <2> QED  BY <2>1, SubFrame DEF Inv
<1> QED  BY <1>1, <1>2, <1>3 DEF Inv

\* The reader's part of the invariant.
LEMMA ReadKept ==
    ASSUME ReadInv, UNCHANGED <<run, tl, chunks, failed, crashed>>,
           ~failed /\ ~crashed =>
             /\ Len(rd'.out) <= Len(chunks)
             /\ \A n \in DOMAIN rd'.out : rd'.out[n] = chunks[n]
             /\ rd'.sent = DOMAIN rd'.out
             /\ rd'.pc = "emit" => \E m \in 0 .. Len(chunks) : rd'.keys = (Len(rd'.out) + 1) .. m
    PROVE  ReadInv'
BY DEF ReadInv

LEMMA OpenReaderStep ==
    ASSUME Inv, OpenReader
    PROVE  Inv'
<1>1. /\ UNCHANGED <<stamps, run, over, tl, sub, chunks, cursor, failed, crashed>>
      /\ left \in [Kinds -> Nat] /\ "read" \in Kinds /\ over \in BOOLEAN /\ Len(chunks) \in Nat
  BY LogFacts DEF OpenReader, control, store, history, Inv, TypeInv, Kinds
<1>2. left' \in [Kinds -> Nat]
  BY <1>1 DEF OpenReader, Spend
<1>3. PICK polling \in {FALSE, ~over} : rd' = [NoReader EXCEPT !.pc = "list", !.polling = polling]
  BY DEF OpenReader
<1>4. polling \in BOOLEAN /\ <<>> \in Logs /\ {} \in SUBSET Nat
  BY <1>3, EmptyFacts
<1>5. rd' \in Readers /\ rd'.out = <<>> /\ rd'.sent = {} /\ rd'.pc = "list"
  BY <1>3, <1>4 DEF NoReader, Readers
<1>6. Len(<<>>) = 0 /\ DOMAIN <<>> = {}
  OBVIOUS
<1>7. ReadInv'
  BY <1>1, <1>5, <1>6, ReadKept DEF Inv
<1> QED  BY <1>1, <1>2, <1>5, <1>7, ReaderStep

LEMMA ListChunksStep ==
    ASSUME Inv, ListChunks
    PROVE  Inv'
<1>1. /\ UNCHANGED <<stamps, run, over, tl, sub, chunks, cursor, failed, crashed, left>>
      /\ left \in [Kinds -> Nat] /\ rd \in Readers
      /\ rd' = [rd EXCEPT !.pc = "emit", !.emitted = FALSE, !.keys = Present \ rd.sent]
  BY DEF ListChunks, control, store, history, Inv, TypeInv
<1>2. Len(chunks) \in Nat /\ DOMAIN chunks = 1 .. Len(chunks) /\ Present \ rd.sent \in SUBSET Nat
  BY LogFacts DEF Inv, TypeInv, Present
<1>3. /\ rd' \in Readers /\ rd'.out = rd.out /\ rd'.sent = rd.sent /\ rd'.pc = "emit"
      /\ rd'.keys = Present \ rd.sent
  BY <1>1, <1>2 DEF Readers
<1>4. Len(rd.out) \in Nat /\ DOMAIN rd.out = 1 .. Len(rd.out)
  BY <1>1, LogFacts DEF Readers
<1>5. ASSUME ~failed, ~crashed
      PROVE  /\ Len(rd.out) <= Len(chunks) /\ (\A n \in DOMAIN rd.out : rd.out[n] = chunks[n])
             /\ rd.sent = DOMAIN rd.out /\ rd'.keys = (Len(rd.out) + 1) .. Len(chunks)
             /\ Len(chunks) \in 0 .. Len(chunks)
  <2>1. /\ Len(rd.out) <= Len(chunks) /\ (\A n \in DOMAIN rd.out : rd.out[n] = chunks[n])
        /\ rd.sent = DOMAIN rd.out /\ \A n \in DOMAIN chunks : chunks[n] # <<>>
    BY <1>5 DEF Inv, ReadInv
  <2>2. Present = 1 .. Len(chunks) /\ rd.sent = 1 .. Len(rd.out)
    BY <1>2, <1>4, <2>1 DEF Present
  <2>3. (1 .. Len(chunks)) \ (1 .. Len(rd.out)) = (Len(rd.out) + 1) .. Len(chunks)
    BY <1>2, <1>4, <2>1
  <2> QED  BY <1>2, <1>3, <2>1, <2>2, <2>3
<1>6. ReadInv'
  BY <1>1, <1>3, <1>5, ReadKept DEF Inv
<1> QED  BY <1>1, <1>3, <1>6, ReaderStep

LEMMA EmitChunkStep ==
    ASSUME Inv, EmitChunk
    PROVE  Inv'
<1>1. /\ UNCHANGED <<stamps, run, over, tl, sub, chunks, cursor, failed, crashed, left>>
      /\ left \in [Kinds -> Nat] /\ rd \in Readers /\ rd.pc = "emit" /\ chunks \in Logs
  BY DEF EmitChunk, control, store, history, Inv, TypeInv
<1>2. PICK n \in rd.keys :
        /\ \A m \in rd.keys : n <= m
        /\ rd' = IF n \in Present
                 THEN [rd EXCEPT !.keys = @ \ {n}, !.sent = @ \cup {n}, !.emitted = TRUE,
                                 !.out = Append(@, chunks[n])]
                 ELSE [rd EXCEPT !.pc = "end", !.end = "error"]
  BY Zenon DEF EmitChunk
<1>3. /\ n \in Nat /\ rd.out \in Logs /\ Len(rd.out) \in Nat /\ DOMAIN rd.out = 1 .. Len(rd.out)
      /\ Len(chunks) \in Nat /\ DOMAIN chunks = 1 .. Len(chunks)
      /\ \A k \in 1 .. Len(chunks) : chunks[k] \in Seq(Pieces)
  BY <1>1, <1>2, LogFacts DEF Readers
<1>4. ASSUME ~failed, ~crashed
      PROVE  /\ Len(rd.out) <= Len(chunks) /\ (\A k \in DOMAIN rd.out : rd.out[k] = chunks[k])
             /\ rd.sent = DOMAIN rd.out /\ \A k \in DOMAIN chunks : chunks[k] # <<>>
             /\ n = Len(rd.out) + 1 /\ n \in Present
             /\ \E m \in 0 .. Len(chunks) : rd.keys = n .. m
  <2>1. /\ Len(rd.out) <= Len(chunks) /\ (\A k \in DOMAIN rd.out : rd.out[k] = chunks[k])
        /\ rd.sent = DOMAIN rd.out /\ \A k \in DOMAIN chunks : chunks[k] # <<>>
        /\ \E m \in 0 .. Len(chunks) : rd.keys = (Len(rd.out) + 1) .. m
    BY <1>1, <1>4 DEF Inv, ReadInv
  <2>2. PICK m \in 0 .. Len(chunks) : rd.keys = (Len(rd.out) + 1) .. m
    BY <2>1
  <2>3. Len(rd.out) + 1 <= n /\ n <= m /\ m <= Len(chunks)
    BY <1>2, <1>3, <2>2
  <2>4. Len(rd.out) + 1 \in rd.keys
    BY <1>3, <2>2, <2>3
  <2>5. n = Len(rd.out) + 1
    BY <1>2, <1>3, <2>3, <2>4
  <2>6. n \in DOMAIN chunks
    BY <1>3, <2>2, <2>3, <2>5
  <2> QED  BY <2>1, <2>2, <2>5, <2>6 DEF Present
<1>5. CASE n \in Present
  <2> DEFINE out == Append(rd.out, chunks[n])
             keys == rd.keys \ {n}
             sent == rd.sent \cup {n}
  <2>1. rd' = [rd EXCEPT !.keys = keys, !.sent = sent, !.emitted = TRUE, !.out = out]
    BY <1>2, <1>5
  <2>2. out \in Logs /\ keys \in SUBSET Nat /\ sent \in SUBSET Nat /\ Len(out) = Len(rd.out) + 1
        /\ DOMAIN out = 1 .. Len(rd.out) + 1 /\ out[Len(rd.out) + 1] = chunks[n]
        /\ \A k \in 1 .. Len(rd.out) : out[k] = rd.out[k]
    <3>1. chunks[n] \in Seq(Pieces)
      BY <1>3, <1>5 DEF Present
    <3>2. keys \in SUBSET Nat /\ sent \in SUBSET Nat
      BY <1>1, <1>3 DEF Readers
    <3> QED  BY <1>3, <3>1, <3>2 DEF Logs
  <2>3. keys = rd.keys \ {n} /\ sent = rd.sent \cup {n}
    OBVIOUS
  <2> HIDE DEF out, keys, sent
  <2>4. rd' \in Readers /\ rd'.out = out /\ rd'.keys = keys /\ rd'.sent = sent /\ rd'.pc = "emit"
    BY <1>1, <2>1, <2>2 DEF Readers
  <2>5. ASSUME ~failed, ~crashed
        PROVE  /\ Len(out) <= Len(chunks) /\ (\A k \in DOMAIN out : out[k] = chunks[k])
               /\ sent = DOMAIN out /\ \E m \in 0 .. Len(chunks) : keys = (Len(out) + 1) .. m
    <3>1. PICK m \in 0 .. Len(chunks) : rd.keys = n .. m
      BY <1>4, <2>5
    <3>2. n = Len(rd.out) + 1 /\ n \in 1 .. Len(chunks) /\ m \in Int
      BY <1>3, <1>4, <1>5, <2>5, <3>1 DEF Present
    <3>3. keys = (n + 1) .. m
      BY <2>3, <3>1, <3>2
    <3>4. \A k \in 1 .. n : k \in 1 .. Len(rd.out) \/ k = n
      BY <1>3, <3>2
    <3>5. \A k \in DOMAIN out : out[k] = chunks[k]
      BY <1>3, <1>4, <2>2, <2>5, <3>2, <3>4
    <3>6. sent = 1 .. n
      <4>1. rd.sent = 1 .. Len(rd.out) /\ Len(rd.out) \in Nat
        BY <1>3, <1>4, <2>5
      <4> QED  BY <2>3, <3>2, <4>1
    <3> QED  BY <2>2, <3>1, <3>2, <3>3, <3>5, <3>6
  <2>6. ReadInv'
    BY <1>1, <2>4, <2>5, ReadKept DEF Inv
  <2> QED  BY <1>1, <2>4, <2>6, ReaderStep
<1>6. CASE n \notin Present
  <2>1. rd' = [rd EXCEPT !.pc = "end", !.end = "error"]
    BY <1>2, <1>6
  <2>2. rd' \in Readers /\ rd'.out = rd.out /\ rd'.sent = rd.sent /\ rd'.pc = "end"
    BY <1>1, <2>1 DEF Readers
  <2>3. ReadInv'
    BY <1>1, <1>4, <2>2, ReadKept DEF Inv
  <2> QED  BY <1>1, <2>2, <2>3, ReaderStep
<1> QED  BY <1>5, <1>6

LEMMA EndRoundStep ==
    ASSUME Inv, EndRound
    PROVE  Inv'
<1>1. /\ UNCHANGED <<stamps, run, over, tl, sub, chunks, cursor, failed, crashed, left>>
      /\ left \in [Kinds -> Nat] /\ rd \in Readers
  BY DEF EndRound, control, store, history, Inv, TypeInv
<1>2. rd' \in Readers /\ rd'.out = rd.out /\ rd'.sent = rd.sent /\ rd'.pc \in {"list", "end"}
  BY <1>1 DEF EndRound, Readers
<1>3. ReadInv'
  BY <1>1, <1>2, ReadKept DEF Inv, ReadInv
<1> QED  BY <1>1, <1>2, <1>3, ReaderStep

-----------------------------------------------------------------------------
(* The theorems.                                                           *)

LEMMA InvInit ==
    ASSUME Init
    PROVE  Inv
<1>1. /\ stamps \in Stamps /\ run = "active" /\ over = FALSE /\ tl = NoTailer /\ sub = NoSub
      /\ rd = NoReader /\ chunks = <<>> /\ cursor = NoCursor /\ failed = FALSE /\ crashed = FALSE
      /\ left \in [Kinds -> Nat]
  BY LogStreamAssumption DEF Init
<1>2. NoPosition \in Positions /\ <<>> \in Seq(Pieces) /\ <<>> \in Logs /\ {} \in SUBSET Nat /\ {} \in SUBSET Pieces
  BY EmptyFacts DEF NoPosition, Positions
<1>3. tl \in Tailers /\ sub \in Subs /\ rd \in Readers
  <2>1. tl \in Tailers
    BY <1>1, <1>2 DEF NoTailer, Tailers, Pcs
  <2>2. sub \in Subs
    BY <1>1, <1>2 DEF NoSub, Subs
  <2>3. rd \in Readers
    BY <1>1, <1>2 DEF NoReader, Readers
  <2> QED  BY <2>1, <2>2, <2>3
<1>4. cursor \in [next : Nat \cup {-1}, pos : Positions]
  BY <1>1, <1>2 DEF NoCursor
<1>5. TypeInv
  BY <1>1, <1>2, <1>3, <1>4 DEF TypeInv
<1>6. /\ tl.pc = "none" /\ tl.pos = NoPosition /\ tl.pending = <<>> /\ tl.frame = <<>> /\ ~tl.ending
      /\ cursor.pos = NoPosition /\ sub.state = "none" /\ sub.got = <<>> /\ sub.queue = <<>>
      /\ rd.out = <<>> /\ rd.sent = {} /\ rd.pc = "none"
  BY <1>1 DEF NoTailer, NoCursor, NoSub, NoReader
<1>7. PlaceInv /\ StreamInv /\ PendingInv /\ TailInv /\ ToldInv /\ RingInv /\ FanInv
  BY <1>5, <1>6, StartFacts
     DEF PlaceInv, StreamInv, Streaming, PendingInv, TailInv, Working, ToldInv, RingInv, FanInv
<1>8. Len(<<>>) = 0 /\ DOMAIN <<>> = {} /\ DOMAIN First(<<>>, 0) = {} /\ <<>> \o <<>> = <<>>
  BY DEF First
<1>9. StoreInv
  <2>1. PiecesOf(First(<<>>, 0)) = {}
    BY <1>8, PiecesFacts
  <2>2. Covers(First(<<>>, 0), 0)
    BY <2>1 DEF Covers
  <2>3. Base = 0 /\ LineAt(cursor.pos) = 0
    BY <1>1, <1>5, <1>6, StartFacts DEF Base
  <2> QED  BY <1>1, <1>8, <2>2, <2>3, EmptyFacts DEF StoreInv
<1>10. SubInv
  <2>1. Given = <<>>
    BY <1>6, <1>8 DEF Given
  <2> QED  BY <1>6, <2>1, EmptyFacts DEF SubInv
<1>11. ReadInv
  BY <1>1, <1>6, <1>8 DEF ReadInv
<1> QED  BY <1>5, <1>7, <1>9, <1>10, <1>11 DEF Inv

LEMMA InvStutter ==
    ASSUME Inv, UNCHANGED vars
    PROVE  Inv'
<1>1. UNCHANGED <<stamps, run, over, tl, sub, chunks, cursor, rd, failed, crashed, left>>
  BY DEF vars
<1>2. rd' \in Readers /\ left' \in [Kinds -> Nat] /\ ReadInv'
  BY <1>1, ReadFrame DEF Inv, TypeInv
<1> QED  BY <1>1, <1>2, ReaderStep

\* Everything the tailer, its subscriber and a reader do preserves the invariant.
THEOREM Invariance == Spec => []Inv
<1>1. Inv /\ [Next]_vars => Inv'
  <2>1. SUFFICES ASSUME Inv, [Next]_vars PROVE Inv'
    OBVIOUS
  <2>2. CASE Next
    BY <2>1, <2>2, ConnectionStep, EndReadStep, FanOutStep, TickStep, CloseSubsStep, FlushStep, SaveCursorStep,
       EnsureStep, EndRunStep, StoppedStep, CrashStep, SubscribeStep, UnsubscribeStep, ReceiveStep,
       OpenReaderStep, ListChunksStep, EmitChunkStep, EndRoundStep
       DEF Next, Tailer, Connection
  <2> QED  BY <2>1, <2>2, InvStutter
<1> QED  BY <1>1, InvInit, PTL DEF Spec

\* What the reader has been given begins the stored log.
LEMMA ReaderBegins ==
    ASSUME Inv, ~failed, ~crashed
    PROVE  Begins(rd.out, chunks, Len(rd.out))
<1>1. rd.out \in Logs /\ chunks \in Logs /\ Len(rd.out) \in Nat /\ DOMAIN rd.out = 1 .. Len(rd.out)
  BY LogFacts DEF Inv, TypeInv, Readers
<1>2. Len(rd.out) <= Len(chunks) /\ \A n \in DOMAIN rd.out : rd.out[n] = chunks[n]
  BY DEF Inv, ReadInv
<1> QED  BY <1>1, <1>2 DEF Begins

\* LinesInOrder, for every log, size of a read, chunk and ring size, queue length and number of
\* attempts: as long as object storage answers, the stored chunks hold every line once, in
\* order and without a gap; a subscriber misses nothing between two lines it is given, and is
\* given a line again only where it joined while the frame was published; and a reader of a
\* log that no crash interrupted is given a beginning of it.
THEOREM LinesAreInOrder == Spec => []LinesInOrder
<1>1. Inv => LinesInOrder
  <2>1. SUFFICES ASSUME Inv PROVE LinesInOrder
    OBVIOUS
  <2>2. StoredIsPrefix
    BY <2>1 DEF Inv, StoreInv, StoredIsPrefix
  <2>3. SubscriberSeesAll
    BY <2>1 DEF Inv, SubInv, Given, SubscriberSeesAll
  <2>4. ReaderIsPrefix
    <3>1. SUFFICES ASSUME ~failed, ~crashed PROVE Ascending(rd.out) /\ Whole(rd.out)
      BY DEF ReaderIsPrefix
    <3>2. Begins(rd.out, chunks, Len(rd.out)) /\ Ascending(chunks) /\ Whole(chunks)
      BY <2>1, <3>1, ReaderBegins DEF Inv, StoreInv
    <3> QED  BY <3>2, BeginsAscending, BeginsWhole
  <2> QED  BY <2>2, <2>3, <2>4 DEF LinesInOrder
<1> QED  BY <1>1, Invariance, PTL

\* The safety half of EndsFlushed: when StopTailer returns and no storage call has failed or
\* was cancelled, all that the tailer has published is in the stored chunks.
THEOREM StopIsFlushed == Spec => StopFlushes
<1>1. Inv /\ [Next]_vars => [StopReturns /\ ~failed => tl.told \subseteq PiecesOf(chunks)]_vars
  <2>1. SUFFICES ASSUME Inv, StopReturns, ~failed, NEW x \in tl.told PROVE x \in PiecesOf(chunks)
    OBVIOUS
  <2>2. tl.pc = "done" /\ tl.pending = <<>> /\ Kept(x)
    BY <2>1 DEF StopReturns, Inv, PendingInv, ToldInv
  <2>3. PICK n \in DOMAIN chunks : x \in Of(chunks[n])
    BY <2>2, EmptyFacts DEF Kept
  <2> QED  BY <2>3, PiecesFacts DEF Of
<1> QED  BY <1>1, Invariance, PTL DEF Spec, StopFlushes

=============================================================================
