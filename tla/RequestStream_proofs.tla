------------------------- MODULE RequestStream_proofs -------------------------
(***************************************************************************)
(* Proofs of the safety invariants of RequestStream.tla, for any lines and *)
(* any number of requests.  What they rest on is where each reader stands  *)
(* in the stream of cells: what waits for it is what the requests it has   *)
(* not handled yet were written as, less the cells it has read of the next *)
(* one, and possibly without the end, when a reset dropped it.             *)
(***************************************************************************)
EXTENDS RequestStream, SequenceTheorems, TLAPS

-----------------------------------------------------------------------------
Cell == {"len"} \X (0 .. Huge) \cup {"header"} \X Header \cup {"payload"} \X {1, 2}

StreamType ==
    /\ status \in [End -> {"open", "closed", "dead"}]
    /\ reset \in [End -> {"no", "pending", "reported"}]
    /\ torn \subseteq End
    /\ sent \in [End -> Seq(Request)]
    /\ handled \in [End -> Seq([header : Header, len : 0 .. Huge])]
    /\ wire \in [End -> Seq(Cell)]
    /\ received \in [End -> Seq(Cell)]
    /\ reader \in [End -> [at : {"len", "header", "payload"}, len : 0 .. Huge, header : Header]]
    /\ \A e \in End : reader[e].at = "len" => reader[e].len = 0 /\ reader[e].header = "unmapped"

(* An end writes only requests the other has an action for. *)
SentIsMapped ==
    \A e \in End : \A i \in 1 .. Len(sent[e]) : sent[e][i].header \in Mapped[Peer(e)]

(* A prefix, element by element. *)
Begins(done, asked) ==
    /\ Len(done) <= Len(asked)
    /\ \A i \in 1 .. Len(done) : done[i] = asked[i]

(* starts[i]: how many cells were written before those of request i. *)
Layout(asked, starts) ==
    /\ starts \in [1 .. Len(asked) + 1 -> Nat]
    /\ \A i \in 1 .. Len(asked) : starts[i + 1] = starts[i] + 2 + asked[i].len
    /\ \A i, j \in 1 .. Len(asked) + 1 : i <= j => starts[i] <= starts[j]

(* cells is what the requests were written as, from the read-th cell on. *)
Follows(asked, starts, read, cells) ==
    /\ Len(cells) <= starts[Len(asked) + 1] - read
    /\ \A i \in 1 .. Len(asked) : \A m \in 1 .. 2 + asked[i].len :
          starts[i] + m - read \in 1 .. Len(cells) =>
              cells[starts[i] + m - read] = Cells(asked[i])[m]

(* Nothing of what was written was dropped. *)
InFull(asked, starts, read, cells) == starts[Len(asked) + 1] - read = Len(cells)

(* How many cells have been read of the request the reader is at. *)
Offset(at) == CASE at = "len" -> 0 [] at = "header" -> 1 [] at = "payload" -> 2

(* The cells that wait are those of the requests not handled yet, from     *)
(* where the reader is; and all of them, while the other end is there.     *)
InStepAt(starts, asked, done, rd, cells, other) ==
    LET read == starts[Len(done) + 1] + Offset(rd.at) IN
    /\ Layout(asked, starts)
    /\ Follows(asked, starts, read, cells)
    /\ other = "open" => InFull(asked, starts, read, cells)
    /\ rd.at # "len" => Len(done) < Len(asked) /\ rd.len = asked[Len(done) + 1].len
    /\ rd.at = "payload" => rd.header = asked[Len(done) + 1].header

InStep(asked, done, rd, cells, other) ==
    \E starts \in [1 .. Len(asked) + 1 -> Nat] : InStepAt(starts, asked, done, rd, cells, other)

HandledBegins ==
    \A e \in End : e \notin torn => Begins(handled[e], sent[Peer(e)])

ReadersInStep ==
    \A e \in End : e \notin torn /\ status[e] = "open" =>
        InStep(sent[Peer(e)], handled[e], reader[e], received[e] \o wire[e],
               status[Peer(e)])

IInv ==
    /\ StreamType
    /\ SentIsMapped
    /\ HandledBegins
    /\ ReadersInStep
    /\ OnlyEmptyRequestsDisconnect

-----------------------------------------------------------------------------
(* Sequences. *)
LEMMA ArrivalMovesNothing ==
    ASSUME NEW S, NEW b \in Seq(S), NEW w \in Seq(S), w # <<>>
    PROVE  Append(b, Head(w)) \o Tail(w) = b \o w
<1> DEFINE h == Head(w)
           t == Tail(w)
<1>1. Len(w) \in Nat \ {0} /\ h \in S /\ t \in Seq(S)
  BY EmptySeq, HeadTailProperties
<1>2. w = <<h>> \o t
  <2>1. h = w[1]
    OBVIOUS
  <2>2. SubSeq(w, 1, Len(w)) = <<w[1]>> \o SubSeq(w, 2, Len(w))
    BY <1>1, SubSeqRecursiveFirst
  <2> QED
    BY <2>1, <2>2, SubSeqFull, TailIsSubSeq
<1>3. Append(b, h) = b \o <<h>> /\ <<h>> \in Seq(S)
  BY <1>1, AppendIsConcat
<1> HIDE DEF h, t
<1>4. (b \o <<h>>) \o t = b \o (<<h>> \o t)
  BY <1>1, <1>3, ConcatAssociative
<1> QED
  BY <1>2, <1>3, <1>4 DEF h, t

(* n cells are taken from the front of what waits. *)
Taken(cells, n, rest) ==
    /\ Len(cells) \in Nat /\ n \in Nat /\ n <= Len(cells)
    /\ Len(rest) = Len(cells) - n
    /\ \A j \in 1 .. Len(cells) - n : rest[j] = cells[j + n]

DropFirst(b, n) == SubSeq(b, n + 1, Len(b))

(* Taking n of the received cells takes the first n that wait. *)
LEMMA TakingFromTheFront ==
    ASSUME NEW S, NEW b \in Seq(S), NEW w \in Seq(S), NEW n \in 0 .. Len(b)
    PROVE  DropFirst(b, n) \in Seq(S) /\ Taken(b \o w, n, DropFirst(b, n) \o w)
<1> DEFINE r == DropFirst(b, n)
<1>0. Len(b) \in Nat /\ Len(w) \in Nat /\ \A i \in 1 .. Len(b) : b[i] \in S
  BY LenProperties, ElementOfSeq
<1>1. /\ r \in Seq(S)
      /\ Len(r) = Len(b) - n
      /\ \A j \in 1 .. Len(b) - n : r[j] = b[j + n]
  <2>1. \A i \in n + 1 .. Len(b) : b[i] \in S
    BY <1>0
  <2>2. /\ SubSeq(b, n + 1, Len(b)) \in Seq(S)
        /\ Len(SubSeq(b, n + 1, Len(b))) = IF n + 1 <= Len(b) THEN Len(b) - (n + 1) + 1 ELSE 0
        /\ \A i \in 1 .. Len(b) - (n + 1) + 1 : SubSeq(b, n + 1, Len(b))[i] = b[(n + 1) + i - 1]
    BY <1>0, <2>1, SubSeqProperties
  <2> QED
    BY <1>0, <2>2 DEF DropFirst
<1> HIDE DEF r
<1>2. /\ r \o w \in Seq(S)
      /\ Len(r \o w) = Len(r) + Len(w)
      /\ \A i \in 1 .. Len(r) + Len(w) :
            (r \o w)[i] = IF i <= Len(r) THEN r[i] ELSE w[i - Len(r)]
  BY <1>1, ConcatProperties
<1>3. /\ b \o w \in Seq(S)
      /\ Len(b \o w) = Len(b) + Len(w)
      /\ \A i \in 1 .. Len(b) + Len(w) :
            (b \o w)[i] = IF i <= Len(b) THEN b[i] ELSE w[i - Len(b)]
  BY ConcatProperties
<1>4. \A j \in 1 .. Len(b \o w) - n : (r \o w)[j] = (b \o w)[j + n]
  <2> SUFFICES ASSUME NEW j \in 1 .. Len(b \o w) - n
               PROVE  (r \o w)[j] = (b \o w)[j + n]
    OBVIOUS
  <2>1. j \in 1 .. Len(r) + Len(w) /\ j + n \in 1 .. Len(b) + Len(w)
    BY <1>0, <1>1, <1>3
  <2>2. CASE j <= Len(r)
    BY <1>0, <1>1, <1>2, <1>3, <2>1, <2>2
  <2>3. CASE ~ (j <= Len(r))
    <3>1. j - Len(r) = (j + n) - Len(b)
      BY <1>0, <1>1
    <3> QED
      BY <1>0, <1>1, <1>2, <1>3, <2>1, <2>3, <3>1
  <2> QED
    BY <2>2, <2>3
<1>5. Len(b \o w) \in Nat /\ n \in Nat /\ n <= Len(b \o w) /\ Len(r \o w) = Len(b \o w) - n
  BY <1>0, <1>1, <1>2, <1>3
<1> QED
  BY <1>1, <1>4, <1>5 DEF r, Taken

LEMMA TheFrontIsReceived ==
    ASSUME NEW S, NEW b \in Seq(S), NEW w \in Seq(S), b # <<>>
    PROVE  Len(b \o w) \in Nat \ {0} /\ (b \o w)[1] = Head(b) /\ Head(b) \in S
<1>1. Len(b) \in Nat \ {0} /\ Len(w) \in Nat
  BY EmptySeq, LenProperties
<1>2. Len(b \o w) = Len(b) + Len(w)
  BY ConcatProperties
<1>3. \A i \in 1 .. Len(b) + Len(w) : (b \o w)[i] = IF i <= Len(b) THEN b[i] ELSE w[i - Len(b)]
  BY ConcatProperties
<1>4. Head(b) = b[1] /\ Head(b) \in S
  BY HeadTailProperties
<1>5. 1 \in 1 .. Len(b) + Len(w) /\ 1 <= Len(b)
  BY <1>1
<1> QED
  BY <1>1, <1>2, <1>3, <1>4, <1>5

LEMMA PrefixElementByElement ==
    ASSUME NEW S, NEW T, NEW done \in Seq(S), NEW asked \in Seq(T), Begins(done, asked)
    PROVE  IsPrefix(done, asked)
<1> DEFINE d == SubSeq(done, 1, Len(done))
           a == SubSeq(asked, 1, Len(done))
<1>0. /\ Len(done) \in Nat /\ Len(asked) \in Nat /\ Len(done) <= Len(asked)
      /\ \A i \in 1 .. Len(done) : done[i] = asked[i]
      /\ \A i \in 1 .. Len(done) : done[i] \in S
  BY LenProperties, ElementOfSeq DEF Begins
<1>1. \A i \in 1 .. Len(done) : asked[i] \in S
  BY <1>0
<1>2. /\ d \in Seq(S)
      /\ Len(d) = IF 1 <= Len(done) THEN Len(done) - 1 + 1 ELSE 0
      /\ \A i \in 1 .. Len(done) - 1 + 1 : d[i] = done[1 + i - 1]
  BY <1>0, SubSeqProperties
<1>3. /\ a \in Seq(S)
      /\ Len(a) = IF 1 <= Len(done) THEN Len(done) - 1 + 1 ELSE 0
      /\ \A i \in 1 .. Len(done) - 1 + 1 : a[i] = asked[1 + i - 1]
  BY <1>0, <1>1, SubSeqProperties
<1> HIDE DEF d, a
<1>4. Len(d) = Len(a) /\ \A i \in 1 .. Len(d) : d[i] = a[i]
  BY <1>0, <1>2, <1>3
<1>5. d = a
  BY <1>2, <1>3, <1>4, SeqEqual
<1> QED
  BY <1>0, <1>5 DEF IsPrefix, d, a

LEMMA BeginsGrows ==
    ASSUME NEW S, NEW done, NEW asked \in Seq(S), NEW request \in S, Begins(done, asked),
           Len(done) \in Nat
    PROVE  Begins(done, Append(asked, request))
BY LenProperties, AppendProperties DEF Begins

-----------------------------------------------------------------------------
(* What requests are written as. *)
LEMMA CellsProperties ==
    ASSUME NEW request \in Request
    PROVE  /\ request.len \in 0 .. 2 /\ request.header \in Header
           /\ Len(Cells(request)) = 2 + request.len
           /\ Cells(request)[1] = <<"len", request.len>>
           /\ Cells(request)[2] = <<"header", request.header>>
           /\ Huge \in Nat /\ Huge >= 2 => Cells(request) \in Seq(Cell)
<1> DEFINE h == <<<<"len", request.len>>, <<"header", request.header>>>>
           p == [i \in 1 .. request.len |-> <<"payload", i>>]
           Written == {<<"len", request.len>>, <<"header", request.header>>} \cup {"payload"} \X {1, 2}
<1>1. request.len \in 0 .. 2 /\ request.header \in Header
  BY DEF Request
<1>2. h \in Seq(Written) /\ Len(h) = 2
  OBVIOUS
<1>3. p \in Seq(Written) /\ Len(p) = request.len
  <2>1. \A i \in 1 .. request.len : <<"payload", i>> \in Written
    BY <1>1
  <2> QED
    BY <1>1, <2>1
<1>4. h[1] = <<"len", request.len>> /\ h[2] = <<"header", request.header>>
  OBVIOUS
<1>5. Cells(request) = h \o p
  BY DEF Cells
<1> HIDE DEF h, p
<1>6. /\ h \o p \in Seq(Written)
      /\ Len(h \o p) = Len(h) + Len(p)
      /\ \A i \in 1 .. Len(h) + Len(p) : (h \o p)[i] = IF i <= Len(h) THEN h[i] ELSE p[i - Len(h)]
  BY <1>2, <1>3, ConcatProperties
<1>7. (h \o p)[1] = h[1] /\ (h \o p)[2] = h[2]
  BY <1>1, <1>2, <1>3, <1>6
<1>8. Huge \in Nat /\ Huge >= 2 => Cells(request) \in Seq(Cell)
  <2> SUFFICES ASSUME Huge \in Nat, Huge >= 2 PROVE Cells(request) \in Seq(Cell)
    OBVIOUS
  <2>1. Written \subseteq Cell
    BY <1>1 DEF Cell
  <2> HIDE DEF Written
  <2> QED
    BY <1>5, <1>6, <2>1, SeqMonotonic
<1> QED
  BY <1>1, <1>2, <1>3, <1>4, <1>5, <1>6, <1>7, <1>8

(* longer is asked and one request more. *)
OneMore(asked, longer, n) ==
    /\ n \in Nat /\ Len(asked) = n /\ Len(longer) = n + 1
    /\ \A i \in 1 .. n : longer[i] = asked[i]
    /\ \A i \in 1 .. n + 1 : longer[i].len \in Nat

(* It starts where the one before it ends. *)
StartOneMore(starts, longer, n) ==
    [i \in 1 .. n + 2 |->
        IF i <= n + 1 THEN starts[i] ELSE starts[n + 1] + 2 + longer[n + 1].len]

(* Its cells are behind those that wait. *)
WrittenBehind(cells, request, all, c) ==
    /\ c \in Nat /\ Len(cells) = c /\ Len(all) = c + 2 + request.len
    /\ \A j \in 1 .. c : all[j] = cells[j]
    /\ \A m \in 1 .. 2 + request.len : all[c + m] = Cells(request)[m]

LEMMA StartsOfOneMore ==
    ASSUME NEW asked, NEW longer, NEW starts, NEW n,
           OneMore(asked, longer, n), Layout(asked, starts)
    PROVE  LET more == StartOneMore(starts, longer, n) IN
           /\ n \in Nat
           /\ \A i \in 1 .. n + 1 : more[i] = starts[i] /\ starts[i] \in Nat /\ starts[i] <= starts[n + 1]
           /\ starts[n + 1] \in Nat
           /\ longer[n + 1].len \in Nat
           /\ more[n + 2] = starts[n + 1] + 2 + longer[n + 1].len
           /\ more \in [1 .. n + 2 -> Nat]
           /\ \A i \in 1 .. n : starts[i + 1] = starts[i] + 2 + asked[i].len
           /\ \A i, j \in 1 .. n + 1 : i <= j => starts[i] <= starts[j]
<1> DEFINE more == StartOneMore(starts, longer, n)
<1>1. n \in Nat /\ \A i \in 1 .. n + 1 : longer[i].len \in Nat
  BY DEF OneMore
<1>2. /\ starts \in [1 .. n + 1 -> Nat]
      /\ \A i \in 1 .. n : starts[i + 1] = starts[i] + 2 + asked[i].len
      /\ \A i, j \in 1 .. n + 1 : i <= j => starts[i] <= starts[j]
  BY DEF Layout, OneMore
<1>3. starts[n + 1] \in Nat /\ longer[n + 1].len \in Nat
  BY <1>1, <1>2
<1>4. \A i \in 1 .. n + 1 : starts[i] \in Nat /\ starts[i] <= starts[n + 1]
  BY <1>1, <1>2
<1>5. \A i \in 1 .. n + 1 : more[i] = starts[i]
  BY <1>1 DEF StartOneMore
<1>6. more[n + 2] = starts[n + 1] + 2 + longer[n + 1].len
  BY <1>1 DEF StartOneMore
<1>7. more \in [1 .. n + 2 -> Nat]
  BY <1>1, <1>3, <1>4 DEF StartOneMore
<1> QED
  BY <1>1, <1>2, <1>3, <1>4, <1>5, <1>6, <1>7

LEMMA LayoutGrows ==
    ASSUME NEW asked, NEW longer, NEW starts, NEW n,
           OneMore(asked, longer, n), Layout(asked, starts)
    PROVE  Layout(longer, StartOneMore(starts, longer, n))
<1> DEFINE more == StartOneMore(starts, longer, n)
<1>1. /\ n \in Nat
      /\ \A i \in 1 .. n + 1 : more[i] = starts[i] /\ starts[i] \in Nat /\ starts[i] <= starts[n + 1]
      /\ starts[n + 1] \in Nat
      /\ longer[n + 1].len \in Nat
      /\ more[n + 2] = starts[n + 1] + 2 + longer[n + 1].len
      /\ more \in [1 .. n + 2 -> Nat]
      /\ \A i \in 1 .. n : starts[i + 1] = starts[i] + 2 + asked[i].len
      /\ \A i, j \in 1 .. n + 1 : i <= j => starts[i] <= starts[j]
  BY StartsOfOneMore
<1>2. \A i \in 1 .. n : longer[i] = asked[i]
  BY DEF OneMore
<1>3. Len(longer) = n + 1
  BY DEF OneMore
<1> HIDE DEF more
<1>4. ASSUME NEW i \in 1 .. n + 1
      PROVE  more[i + 1] = more[i] + 2 + longer[i].len
  <2>1. CASE i \in 1 .. n
    <3>1. i \in 1 .. n + 1 /\ i + 1 \in 1 .. n + 1
      BY <1>1, <2>1
    <3> QED
      BY <1>1, <1>2, <2>1, <3>1
  <2>2. CASE i = n + 1
    <3>1. n + 1 \in 1 .. n + 1 /\ i + 1 = n + 2
      BY <1>1, <2>2
    <3> QED
      BY <1>1, <2>2, <3>1
  <2> QED
    BY <1>1, <2>1, <2>2
<1>5. ASSUME NEW i \in 1 .. n + 2, NEW j \in 1 .. n + 2, i <= j
      PROVE  more[i] <= more[j]
  <2>1. CASE j \in 1 .. n + 1
    <3>1. i \in 1 .. n + 1
      BY <1>1, <1>5, <2>1
    <3> QED
      BY <1>1, <1>5, <2>1, <3>1
  <2>2. CASE j = n + 2
    <3>1. CASE i \in 1 .. n + 1
      BY <1>1, <2>2, <3>1
    <3>2. CASE i = n + 2
      BY <1>1, <2>2, <3>2
    <3> QED
      BY <1>1, <3>1, <3>2
  <2> QED
    BY <1>1, <2>1, <2>2
<1>6. Len(longer) + 1 = n + 2
  BY <1>1, <1>3
<1> QED
  BY <1>1, <1>3, <1>4, <1>5, <1>6 DEF Layout, more

LEMMA FollowsLonger ==
    ASSUME NEW asked, NEW longer, NEW starts, NEW cells, NEW all, NEW n, NEW c, NEW read \in Nat,
           OneMore(asked, longer, n), Layout(asked, starts), Follows(asked, starts, read, cells),
           WrittenBehind(cells, longer[n + 1], all, c), InFull(asked, starts, read, cells)
    PROVE  LET more == StartOneMore(starts, longer, n) IN
           Follows(longer, more, read, all) /\ InFull(longer, more, read, all)
<1> DEFINE more == StartOneMore(starts, longer, n)
           l == longer[n + 1].len
<1> HIDE DEF more
<1>0. /\ n \in Nat
      /\ \A i \in 1 .. n + 1 : more[i] = starts[i] /\ starts[i] \in Nat /\ starts[i] <= starts[n + 1]
      /\ starts[n + 1] \in Nat
      /\ longer[n + 1].len \in Nat
      /\ more[n + 2] = starts[n + 1] + 2 + longer[n + 1].len
      /\ more \in [1 .. n + 2 -> Nat]
      /\ \A i \in 1 .. n : starts[i + 1] = starts[i] + 2 + asked[i].len
      /\ \A i, j \in 1 .. n + 1 : i <= j => starts[i] <= starts[j]
  BY StartsOfOneMore DEF more
<1>n. n \in Nat /\ starts[n + 1] \in Nat /\ l \in Nat
  BY <1>0
<1>1. /\ n \in Nat
      /\ \A i \in 1 .. n + 1 : more[i] = starts[i] /\ starts[i] \in Nat /\ starts[i] <= starts[n + 1]
      /\ starts[n + 1] \in Nat
      /\ l \in Nat
      /\ more[n + 2] = starts[n + 1] + 2 + l
      /\ \A i \in 1 .. n : starts[i + 1] = starts[i] + 2 + asked[i].len
  BY <1>0
<1>2. /\ \A i \in 1 .. n : longer[i] = asked[i]
      /\ \A i \in 1 .. n + 1 : longer[i].len \in Nat
  BY DEF OneMore
<1>3. Len(longer) = n + 1 /\ Len(asked) = n
  BY DEF OneMore
<1>4. c \in Nat /\ Len(all) = c + 2 + l
  BY DEF WrittenBehind
<1>5. \A j \in 1 .. c : all[j] = cells[j]
  BY DEF WrittenBehind
<1>6. \A m \in 1 .. 2 + l : all[c + m] = Cells(longer[n + 1])[m]
  BY DEF WrittenBehind
<1>7. \A i \in 1 .. n : \A m \in 1 .. 2 + asked[i].len :
          starts[i] + m - read \in 1 .. c => cells[starts[i] + m - read] = Cells(asked[i])[m]
  BY <1>3 DEF Follows, WrittenBehind
<1>8. starts[n + 1] = c + read
  <2>1. starts[n + 1] - read = c
    BY DEF InFull, OneMore, WrittenBehind
  <2> QED
    BY <1>n, <1>4, <2>1
<1> HIDE DEF l
<1>9. Len(all) = more[n + 2] - read
  BY <1>1, <1>4, <1>8
<1>10. ASSUME NEW i \in 1 .. n + 1, NEW m \in 1 .. 2 + longer[i].len,
              more[i] + m - read \in 1 .. Len(all)
       PROVE  all[more[i] + m - read] = Cells(longer[i])[m]
  <2>1. starts[i] \in Nat /\ more[i] = starts[i]
    BY <1>1
  <2>2. CASE i \in 1 .. n
    <3>1. longer[i] = asked[i] /\ asked[i].len \in Nat
      BY <1>1, <1>2, <2>2
    <3>2. m \in 1 .. 2 + asked[i].len
      BY <3>1
    <3>3. starts[i] + 2 + asked[i].len <= starts[n + 1]
      <4>1. i + 1 \in 1 .. n + 1
        BY <1>1, <2>2
      <4> QED
        BY <1>1, <2>2, <4>1
    <3>4. starts[i] + m - read \in 1 .. c
      <4>1. starts[i] + m - read >= 1
        BY <1>4, <1>10, <2>1
      <4>2. \A s, k, x, d \in Nat : /\ x \in 1 .. 2 + k
                                   /\ s + 2 + k <= d + read
                                   /\ s + x - read >= 1
                                   => s + x - read \in 1 .. d
        OBVIOUS
      <4> HIDE DEF l
      <4>3. starts[i] + 2 + asked[i].len <= c + read
        BY <1>8, <3>3
      <4> QED
        BY <1>4, <2>1, <3>1, <3>2, <4>1, <4>2, <4>3, SMTT(30)
    <3>5. cells[starts[i] + m - read] = Cells(asked[i])[m]
      BY <1>7, <2>2, <3>2, <3>4
    <3> QED
      BY <1>5, <2>1, <3>1, <3>4, <3>5
  <2>3. CASE i = n + 1
    <3>1. m \in 1 .. 2 + l
      BY <2>3 DEF l
    <3>2. more[i] + m - read = c + m
      BY <1>4, <1>8, <2>1, <2>3, <3>1
    <3> QED
      BY <1>6, <2>3, <3>1, <3>2
  <2> QED
    BY <1>1, <2>2, <2>3
<1>11. Len(all) <= more[Len(longer) + 1] - read
  <2>1. Len(longer) + 1 = n + 2 /\ Len(all) \in Nat
    BY <1>1, <1>3, <1>4
  <2> QED
    BY <1>9, <2>1
<1>12. Follows(longer, more, read, all)
  BY <1>3, <1>10, <1>11 DEF Follows
<1>13. more[Len(longer) + 1] - read = Len(all)
  <2>1. Len(longer) + 1 = n + 2
    BY <1>1, <1>3
  <2> QED
    BY <1>9, <2>1
<1> QED
  BY <1>12, <1>13 DEF more, InFull

LEMMA FollowsGrows ==
    ASSUME NEW asked \in Seq(Request), NEW starts, NEW read \in Nat, NEW cells \in Seq(Cell),
           NEW request \in Request, Cells(request) \in Seq(Cell),
           Layout(asked, starts), Follows(asked, starts, read, cells),
           InFull(asked, starts, read, cells)
    PROVE  \E more : /\ Layout(Append(asked, request), more)
                     /\ \A i \in 1 .. Len(asked) + 1 : more[i] = starts[i]
                     /\ Follows(Append(asked, request), more, read, cells \o Cells(request))
                     /\ InFull(Append(asked, request), more, read, cells \o Cells(request))
<1> DEFINE n == Len(asked)
           c == Len(cells)
           longer == Append(asked, request)
           all == cells \o Cells(request)
           more == StartOneMore(starts, longer, n)
<1>1. n \in Nat /\ c \in Nat
  BY LenProperties
<1>2. Len(longer) = n + 1 /\ longer[n + 1] = request /\ \A i \in 1 .. n : longer[i] = asked[i]
  BY AppendProperties
<1>3. request.len \in Nat /\ Len(Cells(request)) = 2 + request.len
  BY CellsProperties
<1>4. \A i \in 1 .. n : asked[i].len \in Nat
  <2>1. \A i \in 1 .. n : asked[i] \in Request
    BY ElementOfSeq
  <2> QED
    BY <2>1, CellsProperties
<1>5. /\ Len(all) = c + Len(Cells(request))
      /\ \A i \in 1 .. c + Len(Cells(request)) :
            all[i] = IF i <= c THEN cells[i] ELSE Cells(request)[i - c]
  BY ConcatProperties
<1>6. OneMore(asked, longer, n)
  <2> HIDE DEF longer
  <2>1. ASSUME NEW i \in 1 .. n + 1 PROVE longer[i].len \in Nat
    <3>1. CASE i \in 1 .. n
      BY <1>2, <1>4, <3>1
    <3>2. CASE i = n + 1
      BY <1>2, <1>3, <3>2
    <3> QED
      BY <1>1, <3>1, <3>2
  <2> QED
    BY <1>1, <1>2, <2>1 DEF OneMore
<1>7. WrittenBehind(cells, longer[n + 1], all, c)
  <2> SUFFICES WrittenBehind(cells, request, all, c)
    BY <1>2
  <2> HIDE DEF all, c, longer, more
  <2>1. Len(cells) = c
    BY DEF c
  <2>2. Len(all) = c + 2 + request.len
    <3>1. Len(all) = c + (2 + request.len)
      BY <1>3, <1>5
    <3>2. \A x, y \in Nat : x + (2 + y) = x + 2 + y
      OBVIOUS
    <3> QED
      BY <1>1, <1>3, <3>1, <3>2
  <2>3. ASSUME NEW j \in 1 .. c PROVE all[j] = cells[j]
    BY <1>1, <1>3, <1>5
  <2>4. ASSUME NEW m \in 1 .. 2 + request.len PROVE all[c + m] = Cells(request)[m]
    <3>1. c + m \in 1 .. c + (2 + request.len) /\ ~ (c + m <= c) /\ (c + m) - c = m
      BY <1>1, <1>3
    <3> QED
      BY <1>3, <1>5, <3>1
  <2> QED
    BY <1>1, <2>1, <2>2, <2>3, <2>4 DEF WrittenBehind
<1> HIDE DEF n, c, longer, all
<1>9. Layout(longer, more)
  BY <1>6, LayoutGrows
<1>10. Follows(longer, more, read, all) /\ InFull(longer, more, read, all)
  BY <1>6, <1>7, FollowsLonger
<1>11. \A i \in 1 .. n + 1 : more[i] = starts[i]
  BY <1>6, StartsOfOneMore
<1> QED
  BY <1>9, <1>10, <1>11 DEF n, longer, all

(* Some of the cells that wait are taken. *)
LEMMA FollowsFurther ==
    ASSUME NEW asked \in Seq(Request), NEW starts, NEW read \in Nat, NEW cells, NEW rest,
           NEW n \in Nat, Len(cells) \in Nat, n <= Len(cells), Len(rest) = Len(cells) - n,
           \A j \in 1 .. Len(cells) - n : rest[j] = cells[j + n],
           Layout(asked, starts), Follows(asked, starts, read, cells)
    PROVE  Follows(asked, starts, read + n, rest)
<1>0. /\ Len(asked) \in Nat
      /\ starts \in [1 .. Len(asked) + 1 -> Nat]
      /\ \A i \in 1 .. Len(asked) : asked[i].len \in 0 .. 2
  BY LenProperties, ElementOfSeq, CellsProperties DEF Layout
<1>1. Len(rest) <= starts[Len(asked) + 1] - (read + n)
  BY <1>0 DEF Follows
<1>2. ASSUME NEW i \in 1 .. Len(asked), NEW m \in 1 .. 2 + asked[i].len,
             starts[i] + m - (read + n) \in 1 .. Len(rest)
      PROVE  rest[starts[i] + m - (read + n)] = Cells(asked[i])[m]
  <2>1. starts[i] \in Nat /\ m \in Nat
    BY <1>0
  <2>2. /\ starts[i] + m - read \in 1 .. Len(cells)
        /\ (starts[i] + m - (read + n)) + n = starts[i] + m - read
    BY <1>0, <1>2, <2>1
  <2>3. cells[starts[i] + m - read] = Cells(asked[i])[m]
    BY <2>2 DEF Follows
  <2> QED
    BY <1>2, <2>2, <2>3
<1> QED
  BY <1>1, <1>2 DEF Follows

(* The last of the cells that wait are dropped. *)
LEMMA FollowsShorter ==
    ASSUME NEW asked \in Seq(Request), NEW starts, NEW read \in Nat, NEW cells, NEW rest,
           Len(rest) \in Nat, Len(cells) \in Nat, Len(rest) <= Len(cells),
           \A j \in 1 .. Len(rest) : rest[j] = cells[j],
           Layout(asked, starts), Follows(asked, starts, read, cells)
    PROVE  Follows(asked, starts, read, rest)
<1>0. /\ Len(asked) \in Nat
      /\ starts \in [1 .. Len(asked) + 1 -> Nat]
  BY LenProperties DEF Layout
<1>1. Len(rest) <= starts[Len(asked) + 1] - read
  BY <1>0 DEF Follows
<1>2. ASSUME NEW i \in 1 .. Len(asked), NEW m \in 1 .. 2 + asked[i].len,
             starts[i] + m - read \in 1 .. Len(rest)
      PROVE  rest[starts[i] + m - read] = Cells(asked[i])[m]
  <2>1. starts[i] + m - read \in 1 .. Len(cells)
    BY <1>2
  <2> QED
    BY <1>2, <2>1 DEF Follows
<1> QED
  BY <1>1, <1>2 DEF Follows

-----------------------------------------------------------------------------
(* What happens to a reader that is in step. *)
Reader == [at : {"len", "header", "payload"}, len : 0 .. Huge, header : Header]

LEMMA WhereItReads ==
    ASSUME NEW asked \in Seq(Request), NEW S, NEW done \in Seq(S), NEW rd \in Reader,
           Begins(done, asked), NEW starts, Layout(asked, starts)
    PROVE  /\ Len(asked) \in Nat /\ Len(done) \in Nat
           /\ Len(done) + 1 \in 1 .. Len(asked) + 1
           /\ starts[Len(done) + 1] \in Nat
           /\ Offset(rd.at) \in 0 .. 2
           /\ starts[Len(done) + 1] + Offset(rd.at) \in Nat
<1>1. Len(asked) \in Nat /\ Len(done) \in Nat /\ Len(done) <= Len(asked)
  BY LenProperties DEF Begins
<1>2. Len(done) + 1 \in 1 .. Len(asked) + 1
  BY <1>1
<1>3. starts[Len(done) + 1] \in Nat
  BY <1>2 DEF Layout
<1>4. Offset(rd.at) \in 0 .. 2
  BY DEF Offset, Reader
<1> QED
  BY <1>1, <1>2, <1>3, <1>4

LEMMA WritingKeepsInStep ==
    ASSUME NEW asked \in Seq(Request), NEW S, NEW done \in Seq(S), NEW rd \in Reader,
           NEW cells \in Seq(Cell), NEW request \in Request, Cells(request) \in Seq(Cell),
           Begins(done, asked), InStep(asked, done, rd, cells, "open")
    PROVE  InStep(Append(asked, request), done, rd, cells \o Cells(request), "open")
<1>1. PICK starts : InStepAt(starts, asked, done, rd, cells, "open")
  BY DEF InStep
<1> DEFINE read == starts[Len(done) + 1] + Offset(rd.at)
           longer == Append(asked, request)
<1>2. /\ Layout(asked, starts)
      /\ Follows(asked, starts, read, cells)
      /\ InFull(asked, starts, read, cells)
      /\ rd.at # "len" => Len(done) < Len(asked) /\ rd.len = asked[Len(done) + 1].len
      /\ rd.at = "payload" => rd.header = asked[Len(done) + 1].header
  BY <1>1 DEF InStepAt
<1>3. /\ Len(asked) \in Nat /\ Len(done) \in Nat
      /\ Len(done) + 1 \in 1 .. Len(asked) + 1
      /\ read \in Nat
  BY <1>2, WhereItReads
<1> HIDE DEF read
<1>4. PICK more : /\ Layout(longer, more)
                  /\ \A i \in 1 .. Len(asked) + 1 : more[i] = starts[i]
                  /\ Follows(longer, more, read, cells \o Cells(request))
                  /\ InFull(longer, more, read, cells \o Cells(request))
  BY <1>2, <1>3, FollowsGrows
<1>5. Len(longer) = Len(asked) + 1 /\ \A i \in 1 .. Len(asked) : longer[i] = asked[i]
  BY AppendProperties
<1> HIDE DEF longer
<1>6. read = more[Len(done) + 1] + Offset(rd.at)
  BY <1>3, <1>4 DEF read
<1>7. Len(done) < Len(asked) =>
          Len(done) < Len(longer) /\ longer[Len(done) + 1] = asked[Len(done) + 1]
  <2> SUFFICES ASSUME Len(done) < Len(asked)
               PROVE  Len(done) < Len(longer) /\ longer[Len(done) + 1] = asked[Len(done) + 1]
    OBVIOUS
  <2>1. Len(done) + 1 \in 1 .. Len(asked)
    BY <1>3
  <2>2. longer[Len(done) + 1] = asked[Len(done) + 1]
    BY <1>5, <2>1
  <2>3. Len(done) < Len(longer)
    BY <1>3, <1>5
  <2> QED
    BY <2>2, <2>3
<1>8. InStepAt(more, longer, done, rd, cells \o Cells(request), "open")
  <2>1. rd.at # "len" => Len(done) < Len(longer) /\ rd.len = longer[Len(done) + 1].len
    BY <1>2, <1>7
  <2>2. rd.at = "payload" => rd.header = longer[Len(done) + 1].header
    BY <1>2, <1>7
  <2> QED
    BY <1>4, <1>6, <2>1, <2>2 DEF InStepAt
<1> QED
  BY <1>4, <1>8 DEF InStep, Layout, longer

(* When the other end leaves, nothing is known of what was dropped. *)
LEMMA LeavingKeepsInStep ==
    ASSUME NEW asked, NEW done, NEW rd, NEW cells, NEW other, NEW gone, gone # "open",
           InStep(asked, done, rd, cells, other)
    PROVE  InStep(asked, done, rd, cells, gone)
<1>1. PICK starts \in [1 .. Len(asked) + 1 -> Nat] : InStepAt(starts, asked, done, rd, cells, other)
  BY DEF InStep
<1>2. InStepAt(starts, asked, done, rd, cells, gone)
  BY <1>1 DEF InStepAt
<1> QED
  BY <1>1, <1>2 DEF InStep

LEMMA DroppingKeepsInStep ==
    ASSUME NEW asked \in Seq(Request), NEW S, NEW done \in Seq(S), NEW rd \in Reader, NEW other,
           NEW gone, gone # "open", NEW b \in Seq(Cell), NEW w \in Seq(Cell),
           Begins(done, asked), InStep(asked, done, rd, b \o w, other)
    PROVE  InStep(asked, done, rd, b \o <<>>, gone)
<1>1. PICK starts \in [1 .. Len(asked) + 1 -> Nat] :
          InStepAt(starts, asked, done, rd, b \o w, other)
  BY DEF InStep
<1> DEFINE read == starts[Len(done) + 1] + Offset(rd.at)
<1>2. Layout(asked, starts) /\ Follows(asked, starts, read, b \o w)
  BY <1>1 DEF InStepAt
<1>3. read \in Nat
  BY <1>2, WhereItReads
<1>4. /\ Len(b) \in Nat /\ Len(b \o w) \in Nat /\ Len(b) <= Len(b \o w)
      /\ \A j \in 1 .. Len(b) : b[j] = (b \o w)[j]
  BY LenProperties, ConcatProperties
<1> HIDE DEF read
<1>5. Follows(asked, starts, read, b)
  BY <1>2, <1>3, <1>4, FollowsShorter
<1>6. b \o <<>> = b
  BY ConcatEmptySeq
<1>7. InStepAt(starts, asked, done, rd, b, gone)
  BY <1>1, <1>5 DEF InStepAt, read
<1> QED
  BY <1>1, <1>6, <1>7 DEF InStep

(* A read that finds the connection reset starts the next request. *)
LEMMA ResetKeepsInStep ==
    ASSUME NEW asked \in Seq(Request), NEW S, NEW done \in Seq(S), NEW rd \in Reader, NEW other,
           NEW gone, gone # "open", NEW again \in Reader, again.at = "len", NEW cells, cells = <<>>,
           Begins(done, asked), InStep(asked, done, rd, cells, other)
    PROVE  InStep(asked, done, again, cells, gone)
<1>1. PICK starts \in [1 .. Len(asked) + 1 -> Nat] : InStepAt(starts, asked, done, rd, cells, other)
  BY DEF InStep
<1>2. Layout(asked, starts)
  BY <1>1 DEF InStepAt
<1>3. /\ Len(asked) \in Nat /\ Len(done) + 1 \in 1 .. Len(asked) + 1
      /\ starts[Len(done) + 1] \in Nat
  BY <1>2, WhereItReads
<1>4. starts[Len(done) + 1] <= starts[Len(asked) + 1] /\ starts[Len(asked) + 1] \in Nat
  BY <1>2, <1>3 DEF Layout
<1>5. Offset("len") = 0 /\ starts[Len(done) + 1] + Offset("len") = starts[Len(done) + 1]
  BY <1>3 DEF Offset
<1>6. Len(cells) = 0
  OBVIOUS
<1>7. Follows(asked, starts, starts[Len(done) + 1], cells)
  <2>1. Len(cells) <= starts[Len(asked) + 1] - starts[Len(done) + 1]
    BY <1>3, <1>4, <1>6
  <2> QED
    BY <1>6, <2>1 DEF Follows
<1>8. InStepAt(starts, asked, done, again, cells, gone)
  BY <1>2, <1>5, <1>7 DEF InStepAt
<1> QED
  BY <1>1, <1>8 DEF InStep

(* The three reads.  cells is what waits before a read, rest after it. *)

(* What waits at the front belongs to the next request. *)
LEMMA FirstCell ==
    ASSUME NEW asked \in Seq(Request), NEW S, NEW done \in Seq(S), NEW rd \in Reader,
           NEW cells, Len(cells) \in Nat \ {0}, NEW starts, NEW other, rd.at # "payload",
           Begins(done, asked), InStepAt(starts, asked, done, rd, cells, other)
    PROVE  /\ Len(done) < Len(asked)
           /\ asked[Len(done) + 1] \in Request
           /\ cells[1] = Cells(asked[Len(done) + 1])[Offset(rd.at) + 1]
<1> DEFINE next == Len(done) + 1
           read == starts[next] + Offset(rd.at)
<1>1. Layout(asked, starts) /\ Follows(asked, starts, read, cells)
  BY DEF InStepAt
<1>2. /\ Len(asked) \in Nat /\ Len(done) \in Nat
      /\ next \in 1 .. Len(asked) + 1 /\ starts[next] \in Nat
  BY <1>1, WhereItReads
<1>3. Offset(rd.at) \in 0 .. 1
  BY DEF Offset, Reader
<1>4. starts[Len(asked) + 1] \in Nat /\ Len(cells) <= starts[Len(asked) + 1] - read
  BY <1>1, <1>2 DEF Layout, Follows
<1>5. next # Len(asked) + 1
  <2> SUFFICES ASSUME next = Len(asked) + 1 PROVE FALSE
    OBVIOUS
  <2>1. starts[Len(asked) + 1] = starts[next]
    OBVIOUS
  <2> HIDE DEF next
  <2> QED
    BY <1>2, <1>3, <1>4, <2>1
<1>6. next \in 1 .. Len(asked) /\ Len(done) < Len(asked)
  BY <1>2, <1>5
<1>7. asked[next] \in Request /\ asked[next].len \in 0 .. 2
  BY <1>6, ElementOfSeq, CellsProperties
<1> HIDE DEF next
<1>8. Offset(rd.at) + 1 \in 1 .. 2 + asked[next].len
  BY <1>3, <1>7
<1>9. starts[next] + (Offset(rd.at) + 1) - read = 1 /\ 1 \in 1 .. Len(cells)
  BY <1>2, <1>3
<1>10. cells[1] = Cells(asked[next])[Offset(rd.at) + 1]
  BY <1>1, <1>6, <1>8, <1>9 DEF Follows
<1> QED
  BY <1>6, <1>7, <1>10 DEF next

(* Taking cells leaves the rest in its place. *)
LEMMA TakenFollows ==
    ASSUME NEW asked \in Seq(Request), NEW starts, NEW read \in Nat, NEW cells, NEW rest, NEW n,
           NEW other, Taken(cells, n, rest), Layout(asked, starts),
           Follows(asked, starts, read, cells), other = "open" => InFull(asked, starts, read, cells)
    PROVE  /\ Follows(asked, starts, read + n, rest)
           /\ other = "open" => InFull(asked, starts, read + n, rest)
<1>1. n \in Nat
  BY DEF Taken
<1>2. Follows(asked, starts, read + n, rest)
  BY <1>1, FollowsFurther DEF Taken
<1>3. InFull(asked, starts, read, cells) => InFull(asked, starts, read + n, rest)
  <2>1. starts[Len(asked) + 1] \in Nat
    <3>1. Len(asked) + 1 \in 1 .. Len(asked) + 1
      BY LenProperties
    <3> QED
      BY <3>1 DEF Layout
  <2>2. Len(rest) = Len(cells) - n /\ Len(cells) \in Nat
    BY DEF Taken
  <2> QED
    BY <1>1, <2>1, <2>2 DEF InFull
<1> QED
  BY <1>2, <1>3

LEMMA LenKeepsInStep ==
    ASSUME NEW asked \in Seq(Request), NEW S, NEW done \in Seq(S), NEW rd \in Reader,
           NEW then \in Reader, NEW cells, NEW rest, NEW other,
           Len(cells) \in Nat \ {0}, Taken(cells, 1, rest),
           rd.at = "len", then.at = "header", then.len = AsLen(cells[1]),
           Begins(done, asked), InStep(asked, done, rd, cells, other)
    PROVE  InStep(asked, done, then, rest, other)
<1>1. PICK starts \in [1 .. Len(asked) + 1 -> Nat] : InStepAt(starts, asked, done, rd, cells, other)
  BY DEF InStep
<1> DEFINE next == Len(done) + 1
<1>2. /\ Len(done) < Len(asked)
      /\ asked[next] \in Request
      /\ cells[1] = Cells(asked[next])[Offset(rd.at) + 1]
  BY <1>1, FirstCell
<1>3. Offset(rd.at) = 0 /\ Offset(then.at) = 1
  BY DEF Offset
<1>4. then.len = asked[next].len
  <2>1. cells[1] = Cells(asked[next])[1]
    BY <1>2, <1>3
  <2>2. cells[1] = <<"len", asked[next].len>>
    BY <1>2, <2>1, CellsProperties
  <2> QED
    BY <2>2 DEF AsLen
<1>5. /\ Layout(asked, starts)
      /\ Follows(asked, starts, starts[next] + Offset(rd.at), cells)
      /\ other = "open" => InFull(asked, starts, starts[next] + Offset(rd.at), cells)
  BY <1>1 DEF InStepAt
<1>6. starts[next] \in Nat /\ starts[next] + Offset(rd.at) \in Nat
  BY <1>5, WhereItReads
<1>7. /\ Follows(asked, starts, starts[next] + Offset(rd.at) + 1, rest)
      /\ other = "open" => InFull(asked, starts, starts[next] + Offset(rd.at) + 1, rest)
  BY <1>5, <1>6, TakenFollows
<1>8. starts[next] + Offset(rd.at) + 1 = starts[next] + Offset(then.at)
  BY <1>3, <1>6
<1>9. InStepAt(starts, asked, done, then, rest, other)
  BY <1>2, <1>4, <1>5, <1>7, <1>8 DEF InStepAt
<1> QED
  BY <1>1, <1>9 DEF InStep

LEMMA HeaderKeepsInStep ==
    ASSUME NEW asked \in Seq(Request), NEW S, NEW done \in Seq(S), NEW rd \in Reader,
           NEW then \in Reader, NEW cells, NEW rest, NEW other,
           Len(cells) \in Nat \ {0}, Taken(cells, 1, rest),
           rd.at = "header", then.at = "payload", then.len = rd.len,
           then.header \in AsHeader(cells[1]),
           Begins(done, asked), InStep(asked, done, rd, cells, other)
    PROVE  InStep(asked, done, then, rest, other)
<1>1. PICK starts \in [1 .. Len(asked) + 1 -> Nat] : InStepAt(starts, asked, done, rd, cells, other)
  BY DEF InStep
<1> DEFINE next == Len(done) + 1
<1>2. /\ Len(done) < Len(asked)
      /\ asked[next] \in Request
      /\ cells[1] = Cells(asked[next])[Offset(rd.at) + 1]
  BY <1>1, FirstCell
<1>3. Offset(rd.at) = 1 /\ Offset(then.at) = 2
  BY DEF Offset
<1>4. then.header = asked[next].header /\ then.len = asked[next].len
  <2>1. cells[1] = Cells(asked[next])[2]
    BY <1>2, <1>3
  <2>2. cells[1] = <<"header", asked[next].header>>
    BY <1>2, <2>1, CellsProperties
  <2>3. rd.len = asked[next].len
    BY <1>1 DEF InStepAt
  <2> QED
    BY <2>2, <2>3 DEF AsHeader
<1>5. /\ Layout(asked, starts)
      /\ Follows(asked, starts, starts[next] + Offset(rd.at), cells)
      /\ other = "open" => InFull(asked, starts, starts[next] + Offset(rd.at), cells)
  BY <1>1 DEF InStepAt
<1>6. starts[next] \in Nat /\ starts[next] + Offset(rd.at) \in Nat
  BY <1>5, WhereItReads
<1>7. /\ Follows(asked, starts, starts[next] + Offset(rd.at) + 1, rest)
      /\ other = "open" => InFull(asked, starts, starts[next] + Offset(rd.at) + 1, rest)
  BY <1>5, <1>6, TakenFollows
<1>8. starts[next] + Offset(rd.at) + 1 = starts[next] + Offset(then.at)
  BY <1>3, <1>6
<1>9. InStepAt(starts, asked, done, then, rest, other)
  BY <1>2, <1>4, <1>5, <1>7, <1>8 DEF InStepAt
<1> QED
  BY <1>1, <1>9 DEF InStep

(* The request that is complete is the next one that was written. *)
LEMMA CompleteIsNext ==
    ASSUME NEW asked \in Seq(Request), NEW S, NEW done \in Seq(S), NEW rd \in Reader,
           NEW cells, NEW other, rd.at = "payload",
           Begins(done, asked), InStep(asked, done, rd, cells, other)
    PROVE  /\ Len(done) + 1 \in 1 .. Len(asked)
           /\ asked[Len(done) + 1] = [header |-> rd.header, len |-> rd.len]
<1>1. PICK starts \in [1 .. Len(asked) + 1 -> Nat] : InStepAt(starts, asked, done, rd, cells, other)
  BY DEF InStep
<1>2. /\ Len(done) < Len(asked)
      /\ rd.len = asked[Len(done) + 1].len
      /\ rd.header = asked[Len(done) + 1].header
  BY <1>1 DEF InStepAt
<1>3. Len(done) + 1 \in 1 .. Len(asked)
  BY <1>2, LenProperties
<1>4. asked[Len(done) + 1] \in Request
  BY <1>3, ElementOfSeq
<1> QED
  BY <1>2, <1>3, <1>4 DEF Request

LEMMA PayloadKeepsInStep ==
    ASSUME NEW asked \in Seq(Request), NEW S, NEW done \in Seq(S), NEW rd \in Reader,
           NEW then \in Reader, NEW cells, NEW rest, NEW other, NEW request \in S,
           rd.at = "payload", then.at = "len", Taken(cells, rd.len, rest),
           request = [header |-> rd.header, len |-> rd.len],
           Begins(done, asked), InStep(asked, done, rd, cells, other)
    PROVE  /\ Begins(Append(done, request), asked)
           /\ InStep(asked, Append(done, request), then, rest, other)
<1>1. PICK starts \in [1 .. Len(asked) + 1 -> Nat] : InStepAt(starts, asked, done, rd, cells, other)
  BY DEF InStep
<1> DEFINE next == Len(done) + 1
           more == Append(done, request)
<1>2. next \in 1 .. Len(asked) /\ asked[next] = request
  BY CompleteIsNext
<1>3. Len(more) = next /\ more[next] = request /\ \A i \in 1 .. Len(done) : more[i] = done[i]
  BY AppendProperties
<1>4. Len(done) \in Nat /\ Len(asked) \in Nat
  BY LenProperties
<1>5. Begins(more, asked)
  <2> HIDE DEF more
  <2>1. \A i \in 1 .. Len(done) : done[i] = asked[i]
    BY DEF Begins
  <2>2. ASSUME NEW i \in 1 .. Len(more) PROVE more[i] = asked[i]
    <3>1. CASE i \in 1 .. Len(done)
      BY <1>3, <2>1, <3>1
    <3>2. CASE i = next
      BY <1>2, <1>3, <3>2
    <3> QED
      BY <1>3, <1>4, <3>1, <3>2
  <2>3. Len(more) <= Len(asked)
    BY <1>2, <1>3, <1>4
  <2> QED
    BY <2>2, <2>3 DEF Begins
<1>6. Offset(rd.at) = 2 /\ Offset(then.at) = 0 /\ rd.len \in Nat
  <2>1. Offset(rd.at) = 2 /\ Offset(then.at) = 0
    BY DEF Offset
  <2>2. rd.len = asked[next].len /\ asked[next].len \in 0 .. 2
    BY <1>2, ElementOfSeq, CellsProperties
  <2> QED
    BY <2>1, <2>2
<1>7. /\ Layout(asked, starts)
      /\ Follows(asked, starts, starts[next] + Offset(rd.at), cells)
      /\ other = "open" => InFull(asked, starts, starts[next] + Offset(rd.at), cells)
  BY <1>1 DEF InStepAt
<1>8. starts[next] \in Nat /\ starts[next] + Offset(rd.at) \in Nat
  BY <1>7, WhereItReads
<1>9. /\ Follows(asked, starts, starts[next] + Offset(rd.at) + rd.len, rest)
      /\ other = "open" => InFull(asked, starts, starts[next] + Offset(rd.at) + rd.len, rest)
  BY <1>7, <1>8, TakenFollows
<1>10. starts[next] + Offset(rd.at) + rd.len = starts[Len(more) + 1] + Offset(then.at)
  <2>1. starts[next + 1] = starts[next] + 2 + rd.len
    BY <1>2, <1>7 DEF Layout
  <2>2. starts[Len(more) + 1] = starts[next + 1]
    BY <1>3
  <2> HIDE DEF next, more
  <2> QED
    BY <1>6, <1>8, <2>1, <2>2
<1> HIDE DEF more
<1>11. InStepAt(starts, asked, more, then, rest, other)
  BY <1>7, <1>9, <1>10 DEF InStepAt
<1>12. InStep(asked, more, then, rest, other)
  BY <1>1, <1>11 DEF InStep
<1> QED
  BY <1>5, <1>12 DEF more

-----------------------------------------------------------------------------
(* The two ends. *)
LEMMA Ends ==
    ASSUME NEW e \in End
    PROVE  /\ Peer(e) \in End /\ Peer(e) # e /\ Peer(Peer(e)) = e
           /\ \A x \in End : x = e \/ x = Peer(e)
BY DEF End, Peer

LEMMA TypesOfAnEnd ==
    ASSUME StreamType, NEW e \in End
    PROVE  /\ sent[e] \in Seq(Request)
           /\ handled[e] \in Seq([header : Header, len : 0 .. Huge])
           /\ wire[e] \in Seq(Cell) /\ received[e] \in Seq(Cell)
           /\ reader[e] \in Reader
BY DEF StreamType, Reader

LEMMA HugeIsNat == Huge \in Nat /\ (MaxWrites >= 1 => Huge >= 5)
BY MaxWritesAssumption DEF Huge

(* An end for which nothing changes stays in step. *)
LEMMA UntouchedStaysInStep ==
    ASSUME ReadersInStep, NEW x \in End, x \notin torn, status[x] = "open",
           sent'[Peer(x)] = sent[Peer(x)], handled'[x] = handled[x], reader'[x] = reader[x],
           received'[x] \o wire'[x] = received[x] \o wire[x],
           status'[Peer(x)] = status[Peer(x)]
    PROVE  InStep(sent'[Peer(x)], handled'[x], reader'[x], received'[x] \o wire'[x],
                  status'[Peer(x)])
BY DEF ReadersInStep

LEMMA InitIInv == Init => IInv
<1> SUFFICES ASSUME Init PROVE IInv
  OBVIOUS
<1>1. <<>> \in Seq(Request) /\ <<>> \in Seq(Cell) /\ Len(<<>>) = 0
      /\ <<>> \in Seq([header : Header, len : 0 .. Huge])
  OBVIOUS
<1>2. /\ \A e \in End : status[e] = "open" /\ sent[e] = <<>> /\ handled[e] = <<>>
      /\ \A e \in End : wire[e] = <<>> /\ received[e] = <<>>
      /\ \A e \in End : reader[e] = [at |-> "len", len |-> 0, header |-> "unmapped"]
  BY DEF Init
<1>3. StreamType
  <2>1. "unmapped" \in Header /\ 0 \in 0 .. Huge
    BY HugeIsNat DEF Header
  <2>2. /\ sent \in [End -> Seq(Request)] /\ wire \in [End -> Seq(Cell)]
        /\ received \in [End -> Seq(Cell)]
        /\ handled \in [End -> Seq([header : Header, len : 0 .. Huge])]
    BY <1>1 DEF Init
  <2>3. reader \in [End -> [at : {"len", "header", "payload"}, len : 0 .. Huge, header : Header]]
    BY <2>1 DEF Init
  <2> QED
    BY <1>2, <2>2, <2>3 DEF Init, StreamType
<1>4. SentIsMapped
  BY <1>1, <1>2 DEF SentIsMapped
<1>5. HandledBegins
  BY <1>1, <1>2, Ends DEF HandledBegins, Begins
<1>6. ReadersInStep
  <2> SUFFICES ASSUME NEW e \in End
               PROVE  InStep(<<>>, <<>>, reader[e], <<>> \o <<>>, status[Peer(e)])
    BY <1>2, Ends DEF ReadersInStep
  <2> DEFINE starts == [i \in 1 .. Len(<<>>) + 1 |-> 0]
             rd == reader[e]
  <2>1. Layout(<<>>, starts)
    BY DEF Layout
  <2>2. <<>> \o <<>> = <<>>
    OBVIOUS
  <2>3. rd.at = "len" /\ Offset("len") = 0
    BY <1>2 DEF Offset
  <2>4. Follows(<<>>, starts, 0, <<>>) /\ InFull(<<>>, starts, 0, <<>>)
    BY DEF Follows, InFull
  <2>5. starts[Len(<<>>) + 1] + Offset("len") = 0
    BY <2>3
  <2>6. starts \in [1 .. Len(<<>>) + 1 -> Nat]
    OBVIOUS
  <2> HIDE DEF starts, rd
  <2>7. InStepAt(starts, <<>>, <<>>, rd, <<>>, status[Peer(e)])
    BY <2>1, <2>3, <2>4, <2>5 DEF InStepAt
  <2> QED
    BY <2>2, <2>6, <2>7 DEF InStep, rd
<1>7. OnlyEmptyRequestsDisconnect
  BY <1>2 DEF OnlyEmptyRequestsDisconnect, End
<1> QED
  BY <1>3, <1>4, <1>5, <1>6, <1>7 DEF IInv

-----------------------------------------------------------------------------
(* The actions.  A request is written behind what waits at the other end;  *)
(* once that end is gone, nobody is left to keep in step with it.          *)
LEMMA WriteKeepsIInv ==
    ASSUME IInv, NEW e \in End, NEW request \in Request, request.header \in Mapped[Peer(e)],
           Write(e, request)
    PROVE  IInv'
<1> DEFINE p == Peer(e)
<1>0. StreamType /\ SentIsMapped /\ HandledBegins /\ ReadersInStep /\ OnlyEmptyRequestsDisconnect
  BY DEF IInv
<1>1. p \in End /\ p # e /\ Peer(p) = e /\ \A x \in End : x = e \/ x = p
  BY Ends
<1>2. /\ status[e] = "open" /\ Len(sent[e]) < MaxWrites
      /\ sent' = [sent EXCEPT ![e] = Append(sent[e], request)]
      /\ received' = received /\ reader' = reader /\ handled' = handled /\ torn' = torn
  BY DEF Write
<1>3. /\ sent'[e] = Append(sent[e], request) /\ sent'[p] = sent[p]
      /\ sent[e] \in Seq(Request) /\ sent'[e] \in Seq(Request) /\ sent' \in [End -> Seq(Request)]
      /\ Len(sent'[e]) = Len(sent[e]) + 1
      /\ sent'[e][Len(sent[e]) + 1] = request
      /\ \A i \in 1 .. Len(sent[e]) : sent'[e][i] = sent[e][i]
  <2>1. sent'[e] = Append(sent[e], request) /\ sent'[p] = sent[p] /\ sent[e] \in Seq(Request)
    BY <1>0, <1>1, <1>2 DEF StreamType
  <2>2. sent'[e] \in Seq(Request) /\ Len(sent'[e]) = Len(sent[e]) + 1
        /\ sent'[e][Len(sent[e]) + 1] = request
        /\ \A i \in 1 .. Len(sent[e]) : sent'[e][i] = sent[e][i]
    BY <2>1, AppendProperties
  <2> QED
    BY <1>0, <1>2, <2>1, <2>2 DEF StreamType
<1>4. Len(sent[e]) \in Nat
  BY <1>3, LenProperties
<1>5. Cells(request) \in Seq(Cell)
  BY <1>2, <1>4, MaxWritesAssumption, HugeIsNat, CellsProperties
<1>6. \/ /\ status[p] = "open" /\ status' = status /\ reset' = reset
         /\ wire' = [wire EXCEPT ![p] = wire[p] \o Cells(request)]
      \/ /\ status[p] # "open" /\ wire' = wire
         /\ status' \in {status, [status EXCEPT ![e] = "dead"]}
         /\ \/ reset' = reset
            \/ reset' \in {[reset EXCEPT ![e] = r] : r \in {"no", "pending", "reported"}}
  BY DEF Write, WriteInVain
<1> HIDE DEF p
<1>7. StreamType'
  <2>1. wire' \in [End -> Seq(Cell)]
    <3>1. wire[p] \in Seq(Cell) /\ wire[p] \o Cells(request) \in Seq(Cell)
      BY <1>0, <1>1, <1>5, ConcatProperties DEF StreamType
    <3> QED
      BY <1>0, <1>1, <1>6, <3>1 DEF StreamType
  <2>2. status' \in [End -> {"open", "closed", "dead"}]
    BY <1>0, <1>6 DEF StreamType
  <2>3. reset' \in [End -> {"no", "pending", "reported"}]
    BY <1>0, <1>6 DEF StreamType
  <2> QED
    BY <1>0, <1>2, <1>3, <2>1, <2>2, <2>3 DEF StreamType
<1>8. SentIsMapped'
  <2> SUFFICES ASSUME NEW x \in End, NEW i \in 1 .. Len(sent'[x])
               PROVE  sent'[x][i].header \in Mapped[Peer(x)]
    BY DEF SentIsMapped
  <2>1. CASE x = p
    BY <1>0, <1>1, <1>3, <2>1 DEF SentIsMapped
  <2>2. CASE x = e /\ i \in 1 .. Len(sent[e])
    BY <1>0, <1>3, <2>2 DEF SentIsMapped
  <2>3. CASE x = e /\ i = Len(sent[e]) + 1
    BY <1>3, <2>3
  <2> QED
    BY <1>1, <1>3, <1>4, <2>1, <2>2, <2>3
<1>9. HandledBegins'
  <2> SUFFICES ASSUME NEW x \in End, x \notin torn
               PROVE  Begins(handled[x], sent'[Peer(x)])
    BY <1>2 DEF HandledBegins
  <2>1. Begins(handled[x], sent[Peer(x)]) /\ Len(handled[x]) \in Nat
    BY <1>0, TypesOfAnEnd, LenProperties DEF HandledBegins
  <2>2. CASE x = p
    <3>1. Begins(handled[x], sent[e]) /\ Len(handled[x]) \in Nat
      BY <1>1, <2>1, <2>2
    <3>2. Begins(handled[x], Append(sent[e], request))
      BY <1>3, <3>1, BeginsGrows
    <3> QED
      BY <1>1, <1>3, <2>2, <3>2
  <2>3. CASE x = e
    BY <1>1, <1>3, <2>1, <2>3 DEF p
  <2> QED
    BY <1>1, <2>2, <2>3
<1>10. ReadersInStep'
  <2> SUFFICES ASSUME NEW x \in End, x \notin torn, status'[x] = "open"
               PROVE  InStep(sent'[Peer(x)], handled'[x], reader'[x], received'[x] \o wire'[x],
                             status'[Peer(x)])
    BY <1>2 DEF ReadersInStep
  <2>1. status[x] = "open"
    BY <1>0, <1>2, <1>6 DEF StreamType
  <2>2. CASE x = p
    <3>1. /\ status[p] = "open" /\ status' = status
          /\ wire'[p] = wire[p] \o Cells(request)
      BY <1>0, <1>1, <1>6, <2>1, <2>2 DEF StreamType
    <3>2. InStep(sent[e], handled[p], reader[p], received[p] \o wire[p], "open")
      BY <1>0, <1>1, <1>2, <2>1, <2>2 DEF ReadersInStep
    <3>3. Begins(handled[p], sent[e])
      BY <1>0, <1>1, <2>2 DEF HandledBegins
    <3>4. /\ handled[p] \in Seq([header : Header, len : 0 .. Huge]) /\ reader[p] \in Reader
          /\ wire[p] \in Seq(Cell) /\ received[p] \in Seq(Cell)
      BY <1>0, <1>1, TypesOfAnEnd
    <3>5. received[p] \o wire[p] \in Seq(Cell)
      BY <3>4, ConcatProperties
    <3>6. InStep(sent'[e], handled[p], reader[p], (received[p] \o wire[p]) \o Cells(request), "open")
      BY <1>3, <1>5, <3>2, <3>3, <3>4, <3>5, WritingKeepsInStep
    <3>7. (received[p] \o wire[p]) \o Cells(request) = received[p] \o (wire[p] \o Cells(request))
      <4>1. \A s, t, u \in Seq(Cell) : (s \o t) \o u = s \o (t \o u)
        BY ConcatAssociative
      <4> QED
        BY <1>5, <3>4, <4>1
    <3> QED
      BY <1>1, <1>2, <2>2, <3>1, <3>6, <3>7
  <2>3. CASE x = e
    <3>1. status'[p] = status[p] /\ wire'[e] = wire[e] /\ Peer(x) = p
      BY <1>0, <1>1, <1>6, <2>3 DEF StreamType, p
    <3> QED
      BY <1>0, <1>2, <1>3, <2>1, <2>3, <3>1, UntouchedStaysInStep
  <2> QED
    BY <1>1, <2>2, <2>3
<1>11. OnlyEmptyRequestsDisconnect'
  <2>1. \A x \in End : status'[x] = status[x] \/ (x = e /\ status'[x] = "dead")
    BY <1>0, <1>6 DEF StreamType
  <2>2. "server" \in End /\ "client" \in End
    BY DEF End
  <2>3. ASSUME NEW i \in DOMAIN sent["client"]
        PROVE  i \in DOMAIN sent'["client"] /\ sent'["client"][i] = sent["client"][i]
    <3>1. CASE e = "client"
      <4>1. i \in 1 .. Len(sent[e]) /\ DOMAIN sent'[e] = 1 .. Len(sent'[e])
        BY <1>3, <2>3, <3>1, LenProperties
      <4> QED
        BY <1>3, <1>4, <3>1, <4>1
    <3>2. CASE e # "client"
      BY <1>1, <1>3, <2>2, <2>3, <3>2
    <3> QED
      BY <3>1, <3>2
  <2> QED
    BY <1>0, <1>2, <2>1, <2>2, <2>3 DEF OnlyEmptyRequestsDisconnect
<1> QED
  BY <1>7, <1>8, <1>9, <1>10, <1>11 DEF IInv

LEMMA ArriveKeepsIInv ==
    ASSUME IInv, NEW e \in End, Arrive(e)
    PROVE  IInv'
<1>0. StreamType /\ SentIsMapped /\ HandledBegins /\ ReadersInStep /\ OnlyEmptyRequestsDisconnect
  BY DEF IInv
<1>1. wire[e] \in Seq(Cell) /\ received[e] \in Seq(Cell) /\ wire[e] # <<>>
  BY <1>0, TypesOfAnEnd DEF Arrive
<1>2. /\ wire' = [wire EXCEPT ![e] = Tail(wire[e])]
      /\ received' = [received EXCEPT ![e] = Append(received[e], Head(wire[e]))]
      /\ UNCHANGED <<status, reader, reset, sent, handled, torn>>
  BY DEF Arrive
<1>3. /\ Tail(wire[e]) \in Seq(Cell) /\ Head(wire[e]) \in Cell
      /\ Append(received[e], Head(wire[e])) \in Seq(Cell)
  BY <1>1, HeadTailProperties, AppendProperties
<1>4. \A x \in End : received'[x] \o wire'[x] = received[x] \o wire[x]
  <2> SUFFICES ASSUME NEW x \in End PROVE received'[x] \o wire'[x] = received[x] \o wire[x]
    OBVIOUS
  <2>1. CASE x = e
    <3>1. received'[e] = Append(received[e], Head(wire[e])) /\ wire'[e] = Tail(wire[e])
      BY <1>0, <1>2 DEF StreamType
    <3>2. Append(received[e], Head(wire[e])) \o Tail(wire[e]) = received[e] \o wire[e]
      BY <1>1, ArrivalMovesNothing
    <3> QED
      BY <2>1, <3>1, <3>2
  <2>2. CASE x # e
    BY <1>0, <1>2, <2>2 DEF StreamType
  <2> QED
    BY <2>1, <2>2
<1>5. StreamType'
  <2>1. wire' \in [End -> Seq(Cell)] /\ received' \in [End -> Seq(Cell)]
    BY <1>0, <1>2, <1>3 DEF StreamType
  <2> QED
    BY <1>0, <1>2, <2>1 DEF StreamType
<1>6. SentIsMapped' /\ HandledBegins' /\ OnlyEmptyRequestsDisconnect'
  BY <1>0, <1>2 DEF SentIsMapped, HandledBegins, OnlyEmptyRequestsDisconnect
<1>7. ReadersInStep'
  <2> SUFFICES ASSUME NEW x \in End, x \notin torn, status[x] = "open"
               PROVE  InStep(sent'[Peer(x)], handled'[x], reader'[x], received'[x] \o wire'[x],
                             status'[Peer(x)])
    BY <1>2 DEF ReadersInStep
  <2> QED
    BY <1>0, <1>2, <1>4, UntouchedStaysInStep
<1> QED
  BY <1>5, <1>6, <1>7 DEF IInv

(* Whatever an end does with its own reader when it leaves, the other end  *)
(* stays in step.                                                          *)
LEMMA LeaveKeepsIInv ==
    ASSUME IInv, NEW e \in End, NEW how \in {"closed", "dead"}, Leave(e, how),
           sent' = sent, handled' = handled, torn \subseteq torn', torn' \subseteq torn \cup {e},
           received' \in [End -> Seq(Cell)], received'[Peer(e)] = received[Peer(e)],
           reader' \in [End -> Reader], reader'[Peer(e)] = reader[Peer(e)],
           reader'[e].at = "len" => reader'[e].len = 0 /\ reader'[e].header = "unmapped",
           OnlyEmptyRequestsDisconnect'
    PROVE  IInv'
<1> DEFINE p == Peer(e)
<1>0. StreamType /\ SentIsMapped /\ HandledBegins /\ ReadersInStep
  BY DEF IInv
<1>1. p \in End /\ p # e /\ Peer(p) = e /\ \A x \in End : x = e \/ x = p
  BY Ends
<1>2. /\ status' = [status EXCEPT ![e] = how]
      /\ \/ wire' = wire /\ reset' = reset
         \/ wire' = [wire EXCEPT ![p] = <<>>] /\ reset' = [reset EXCEPT ![p] = "pending"]
  BY DEF Leave
<1>p. reader'[p] = reader[p] /\ received'[p] = received[p]
  OBVIOUS
<1> HIDE DEF p
<1>3. StreamType'
  <2>1. wire' \in [End -> Seq(Cell)]
    <3>1. <<>> \in Seq(Cell)
      OBVIOUS
    <3> QED
      BY <1>0, <1>2, <3>1 DEF StreamType
  <2>2. status' \in [End -> {"open", "closed", "dead"}]
    BY <1>0, <1>2 DEF StreamType
  <2>3. reset' \in [End -> {"no", "pending", "reported"}]
    BY <1>0, <1>2 DEF StreamType
  <2>4. torn' \subseteq End
    BY <1>0 DEF StreamType
  <2>5. ASSUME NEW x \in End
        PROVE  reader'[x].at = "len" => reader'[x].len = 0 /\ reader'[x].header = "unmapped"
    <3>1. reader[x].at = "len" => reader[x].len = 0 /\ reader[x].header = "unmapped"
      BY <1>0 DEF StreamType
    <3>2. x = e \/ reader'[x] = reader[x]
      BY <1>1, <1>p
    <3>3. CASE x = e
      BY <3>3
    <3>4. CASE reader'[x] = reader[x]
      BY <3>1, <3>4
    <3> QED
      BY <3>2, <3>3, <3>4
  <2> QED
    BY <1>0, <2>1, <2>2, <2>3, <2>4, <2>5 DEF StreamType, Reader
<1>4. SentIsMapped'
  BY <1>0 DEF SentIsMapped
<1>5. HandledBegins'
  BY <1>0 DEF HandledBegins
<1>6. ReadersInStep'
  <2> SUFFICES ASSUME NEW x \in End, x \notin torn', status'[x] = "open"
               PROVE  InStep(sent[Peer(x)], handled[x], reader'[x], received'[x] \o wire'[x],
                             status'[Peer(x)])
    BY DEF ReadersInStep
  <2>1. x = p
    <3>1. status'[e] = how
      BY <1>0, <1>2 DEF StreamType
    <3> QED
      BY <1>1, <3>1
  <2>2. /\ status[p] = "open" /\ p \notin torn
        /\ status'[e] # "open"
        /\ wire'[p] = wire[p] \/ wire'[p] = <<>>
    BY <1>0, <1>1, <1>2, <2>1 DEF StreamType
  <2>3. InStep(sent[e], handled[p], reader[p], received[p] \o wire[p], status[e])
    BY <1>0, <1>1, <2>2 DEF ReadersInStep
  <2>4. Begins(handled[p], sent[e])
    BY <1>0, <1>1, <2>2 DEF HandledBegins
  <2>5. /\ sent[e] \in Seq(Request) /\ handled[p] \in Seq([header : Header, len : 0 .. Huge])
        /\ wire[p] \in Seq(Cell) /\ received[p] \in Seq(Cell) /\ reader[p] \in Reader
    BY <1>0, <1>1, TypesOfAnEnd
  <2>6. CASE wire'[p] = wire[p]
    <3>1. InStep(sent[e], handled[p], reader[p], received[p] \o wire[p], status'[e])
      BY <2>2, <2>3, LeavingKeepsInStep
    <3> QED
      BY <1>1, <1>p, <2>1, <2>6, <3>1
  <2>7. CASE wire'[p] = <<>>
    <3>1. InStep(sent[e], handled[p], reader[p], received[p] \o <<>>, status'[e])
      BY <2>2, <2>3, <2>4, <2>5, DroppingKeepsInStep
    <3> QED
      BY <1>1, <1>p, <2>1, <2>7, <3>1
  <2> QED
    BY <2>2, <2>6, <2>7
<1> QED
  BY <1>3, <1>4, <1>5, <1>6 DEF IInv

LEMMA DieOfKeepsIInv ==
    ASSUME IInv, NEW line, DieOf(line)
    PROVE  IInv'
<1>0. StreamType
  BY DEF IInv
<1>1. /\ Leave("client", "dead")
      /\ UNCHANGED <<received, reader, sent, handled, torn>>
  BY DEF DieOf
<1>2. "client" \in End
  BY DEF End
<1>3. status'["client"] = "dead"
  BY <1>0, <1>1, <1>2 DEF Leave, StreamType
<1>4. OnlyEmptyRequestsDisconnect'
  BY <1>3 DEF OnlyEmptyRequestsDisconnect
<1>5. /\ received' \in [End -> Seq(Cell)] /\ reader' \in [End -> Reader]
      /\ reader'["client"].at = "len" =>
            reader'["client"].len = 0 /\ reader'["client"].header = "unmapped"
  BY <1>0, <1>1, <1>2 DEF StreamType, Reader
<1> QED
  BY <1>1, <1>2, <1>4, <1>5, LeaveKeepsIInv

LEMMA SelectFailsKeepsIInv ==
    ASSUME IInv, SelectFails
    PROVE  IInv'
<1>0. StreamType /\ SentIsMapped /\ HandledBegins /\ ReadersInStep /\ OnlyEmptyRequestsDisconnect
  BY DEF IInv
<1>1. /\ status["client"] = "closed" /\ status' = [status EXCEPT !["client"] = "dead"]
      /\ UNCHANGED <<wire, received, reader, reset, sent, handled, torn>>
  BY DEF SelectFails
<1>2. "client" \in End /\ "server" \in End
  BY DEF End
<1>3. \A x \in End : status'[x] = status[x] \/ (status[x] # "open" /\ status'[x] # "open")
  BY <1>0, <1>1 DEF StreamType
<1>4. StreamType'
  BY <1>0, <1>1 DEF StreamType
<1>5. SentIsMapped' /\ HandledBegins'
  BY <1>0, <1>1 DEF SentIsMapped, HandledBegins
<1>6. OnlyEmptyRequestsDisconnect'
  BY <1>0, <1>1, <1>2 DEF OnlyEmptyRequestsDisconnect, StreamType
<1>7. ReadersInStep'
  <2> SUFFICES ASSUME NEW x \in End, x \notin torn, status'[x] = "open"
               PROVE  InStep(sent'[Peer(x)], handled'[x], reader'[x], received'[x] \o wire'[x],
                             status'[Peer(x)])
    BY <1>1 DEF ReadersInStep
  <2>1. InStep(sent[Peer(x)], handled[x], reader[x], received[x] \o wire[x], status[Peer(x)])
    BY <1>0, <1>3 DEF ReadersInStep
  <2>2. CASE status'[Peer(x)] = status[Peer(x)]
    BY <1>1, <2>1, <2>2
  <2>3. CASE status'[Peer(x)] # "open"
    <3>1. InStep(sent[Peer(x)], handled[x], reader[x], received[x] \o wire[x], status'[Peer(x)])
      BY <2>1, <2>3, LeavingKeepsInStep
    <3> QED
      BY <1>1, <3>1
  <2> QED
    BY <1>3, <2>2, <2>3, Ends
<1> QED
  BY <1>4, <1>5, <1>6, <1>7 DEF IInv

LEMMA MinOfTwo ==
    ASSUME NEW a \in Nat, NEW b \in Nat
    PROVE  Min({a, b}) = IF a <= b THEN a ELSE b
BY DEF Min

LEMMA ARestart ==
    /\ [at |-> "len", len |-> 0, header |-> "unmapped"] \in Reader
    /\ \A e \in End : StreamType =>
          NewRequest(e) = [reader EXCEPT ![e] = [at |-> "len", len |-> 0, header |-> "unmapped"]]
<1>1. "unmapped" \in Header /\ 0 \in 0 .. Huge
  BY HugeIsNat DEF Header
<1> QED
  BY <1>1 DEF Reader, NewRequest

(* n cells are taken from what an end has received. *)
LEMMA TakeCellsTakes ==
    ASSUME StreamType, NEW e \in End, NEW n \in 0 .. Len(received[e]), TakeCells(e, n)
    PROVE  /\ received' \in [End -> Seq(Cell)]
           /\ received'[Peer(e)] = received[Peer(e)]
           /\ Taken(received[e] \o wire[e], n, received'[e] \o wire[e])
<1> DEFINE r == DropFirst(received[e], n)
<1>1. /\ received[e] \in Seq(Cell) /\ wire[e] \in Seq(Cell)
      /\ Peer(e) \in End /\ Peer(e) # e
  BY TypesOfAnEnd, Ends
<1>2. received' = [received EXCEPT ![e] = r]
  BY DEF TakeCells, DropFirst
<1>3. r \in Seq(Cell) /\ Taken(received[e] \o wire[e], n, r \o wire[e])
  BY <1>1, TakingFromTheFront
<1> HIDE DEF r
<1>4. received'[e] = r /\ received'[Peer(e)] = received[Peer(e)]
  BY <1>1, <1>2 DEF StreamType
<1>5. received' \in [End -> Seq(Cell)]
  BY <1>2, <1>3 DEF StreamType
<1> QED
  BY <1>3, <1>4, <1>5

(* A read that executes nothing. *)
LEMMA ReadingKeepsIInv ==
    ASSUME IInv, NEW e \in End, NEW rd \in Reader,
           UNCHANGED <<status, wire, reset, sent, handled, torn>>,
           received' \in [End -> Seq(Cell)], received'[Peer(e)] = received[Peer(e)],
           reader' = [reader EXCEPT ![e] = rd], rd.at # "len",
           e \notin torn =>
               InStep(sent[Peer(e)], handled[e], rd, received'[e] \o wire[e], status[Peer(e)])
    PROVE  IInv'
<1>0. StreamType /\ SentIsMapped /\ HandledBegins /\ ReadersInStep /\ OnlyEmptyRequestsDisconnect
  BY DEF IInv
<1>1. /\ reader'[e] = rd
      /\ \A x \in End \ {e} : reader'[x] = reader[x] /\ x = Peer(e)
  BY <1>0, Ends DEF StreamType
<1>2. StreamType'
  <2>1. reader' \in [End -> Reader]
    BY <1>0 DEF StreamType, Reader
  <2>2. ASSUME NEW x \in End
        PROVE  reader'[x].at = "len" => reader'[x].len = 0 /\ reader'[x].header = "unmapped"
    <3>1. reader[x].at = "len" => reader[x].len = 0 /\ reader[x].header = "unmapped"
      BY <1>0 DEF StreamType
    <3>2. CASE x = e
      BY <1>1, <3>2
    <3>3. CASE x # e
      BY <1>1, <3>1, <3>3
    <3> QED
      BY <3>2, <3>3
  <2> QED
    BY <1>0, <2>1, <2>2 DEF StreamType, Reader
<1>3. SentIsMapped' /\ HandledBegins' /\ OnlyEmptyRequestsDisconnect'
  BY <1>0 DEF SentIsMapped, HandledBegins, OnlyEmptyRequestsDisconnect
<1>4. ReadersInStep'
  <2> SUFFICES ASSUME NEW x \in End, x \notin torn, status[x] = "open"
               PROVE  InStep(sent'[Peer(x)], handled'[x], reader'[x], received'[x] \o wire'[x],
                             status'[Peer(x)])
    BY DEF ReadersInStep
  <2>1. CASE x = e
    BY <1>1, <2>1
  <2>2. CASE x # e
    <3>1. reader'[x] = reader[x] /\ received'[x] = received[x]
      BY <1>1, <2>2
    <3> QED
      BY <1>0, <3>1, UntouchedStaysInStep
  <2> QED
    BY <2>1, <2>2
<1> QED
  BY <1>2, <1>3, <1>4 DEF IInv

LEMMA ReadLenKeepsIInv ==
    ASSUME IInv, NEW e \in End, ReadLen(e)
    PROVE  IInv'
<1> DEFINE h == Head(received[e])
           rd == [reader[e] EXCEPT !.at = "header", !.len = AsLen(h)]
<1>0. StreamType /\ HandledBegins /\ ReadersInStep
  BY DEF IInv
<1>1. /\ status[e] = "open" /\ reader[e].at = "len" /\ received[e] # <<>>
      /\ TakeCells(e, 1)
      /\ UNCHANGED <<status, wire, reset, sent, handled, torn>>
  BY DEF ReadLen
<1>2. /\ sent[Peer(e)] \in Seq(Request)
      /\ handled[e] \in Seq([header : Header, len : 0 .. Huge])
      /\ received[e] \in Seq(Cell) /\ reader[e] \in Reader
  BY <1>0, Ends, TypesOfAnEnd
<1>3. reader' = [reader EXCEPT ![e] = rd]
  BY DEF ReadLen
<1>4. 1 \in 0 .. Len(received[e])
  BY <1>1, <1>2, EmptySeq
<1>5. /\ received' \in [End -> Seq(Cell)]
      /\ received'[Peer(e)] = received[Peer(e)]
      /\ Taken(received[e] \o wire[e], 1, received'[e] \o wire[e])
      /\ Len(received[e] \o wire[e]) \in Nat \ {0}
      /\ (received[e] \o wire[e])[1] = h
      /\ h \in Cell
  <2>1. /\ received' \in [End -> Seq(Cell)]
        /\ received'[Peer(e)] = received[Peer(e)]
        /\ Taken(received[e] \o wire[e], 1, received'[e] \o wire[e])
    BY <1>0, <1>1, <1>4, TakeCellsTakes
  <2>2. wire[e] \in Seq(Cell)
    BY <1>0, TypesOfAnEnd
  <2>3. /\ Len(received[e] \o wire[e]) \in Nat \ {0}
        /\ (received[e] \o wire[e])[1] = Head(received[e])
        /\ Head(received[e]) \in Cell
    BY <1>1, <1>2, <2>2, TheFrontIsReceived
  <2> QED
    BY <2>1, <2>3
<1>6. AsLen(h) \in 0 .. Huge
  BY <1>5, HugeIsNat DEF AsLen, Cell
<1> HIDE DEF h
<1>7. rd \in Reader /\ rd.at = "header" /\ rd.len = AsLen(h)
  BY <1>2, <1>6 DEF Reader
<1> HIDE DEF rd
<1>8. ASSUME e \notin torn
      PROVE  InStep(sent[Peer(e)], handled[e], rd, received'[e] \o wire[e], status[Peer(e)])
  <2>1. Begins(handled[e], sent[Peer(e)])
    BY <1>0, <1>8 DEF HandledBegins
  <2>2. InStep(sent[Peer(e)], handled[e], reader[e], received[e] \o wire[e], status[Peer(e)])
    BY <1>0, <1>1, <1>8 DEF ReadersInStep
  <2> QED
    BY <1>1, <1>2, <1>5, <1>7, <2>1, <2>2, LenKeepsInStep
<1> QED
  BY <1>1, <1>3, <1>5, <1>7, <1>8, ReadingKeepsIInv

LEMMA ReadHeaderKeepsIInv ==
    ASSUME IInv, NEW e \in End, ReadHeader(e)
    PROVE  IInv'
<1> DEFINE h == Head(received[e])
<1>0. StreamType /\ HandledBegins /\ ReadersInStep
  BY DEF IInv
<1>1. /\ status[e] = "open" /\ reader[e].at = "header" /\ received[e] # <<>>
      /\ TakeCells(e, 1)
      /\ UNCHANGED <<status, wire, reset, sent, handled, torn>>
  BY DEF ReadHeader
<1>2. /\ sent[Peer(e)] \in Seq(Request)
      /\ handled[e] \in Seq([header : Header, len : 0 .. Huge])
      /\ received[e] \in Seq(Cell) /\ reader[e] \in Reader
  BY <1>0, Ends, TypesOfAnEnd
<1>3. PICK header \in AsHeader(h) :
          reader' = [reader EXCEPT ![e].at = "payload", ![e].header = header]
  BY DEF ReadHeader
<1> DEFINE rd == [reader[e] EXCEPT !.at = "payload", !.header = header]
<1>4. 1 \in 0 .. Len(received[e])
  BY <1>1, <1>2, EmptySeq
<1>5. /\ received' \in [End -> Seq(Cell)]
      /\ received'[Peer(e)] = received[Peer(e)]
      /\ Taken(received[e] \o wire[e], 1, received'[e] \o wire[e])
      /\ Len(received[e] \o wire[e]) \in Nat \ {0}
      /\ (received[e] \o wire[e])[1] = h
      /\ h \in Cell
  <2>1. /\ received' \in [End -> Seq(Cell)]
        /\ received'[Peer(e)] = received[Peer(e)]
        /\ Taken(received[e] \o wire[e], 1, received'[e] \o wire[e])
    BY <1>0, <1>1, <1>4, TakeCellsTakes
  <2>2. wire[e] \in Seq(Cell)
    BY <1>0, TypesOfAnEnd
  <2>3. /\ Len(received[e] \o wire[e]) \in Nat \ {0}
        /\ (received[e] \o wire[e])[1] = Head(received[e])
        /\ Head(received[e]) \in Cell
    BY <1>1, <1>2, <2>2, TheFrontIsReceived
  <2> QED
    BY <2>1, <2>3
<1>6. header \in Header
  BY <1>3, <1>5 DEF AsHeader, Cell
<1> HIDE DEF h
<1>r. reader' = [reader EXCEPT ![e] = rd]
  BY <1>3
<1>7. rd \in Reader /\ rd.at = "payload" /\ rd.len = reader[e].len /\ rd.header = header
  BY <1>2, <1>6 DEF Reader
<1> HIDE DEF rd
<1>8. ASSUME e \notin torn
      PROVE  InStep(sent[Peer(e)], handled[e], rd, received'[e] \o wire[e], status[Peer(e)])
  <2>1. Begins(handled[e], sent[Peer(e)])
    BY <1>0, <1>8 DEF HandledBegins
  <2>2. InStep(sent[Peer(e)], handled[e], reader[e], received[e] \o wire[e], status[Peer(e)])
    BY <1>0, <1>1, <1>8 DEF ReadersInStep
  <2>3. rd.header \in AsHeader((received[e] \o wire[e])[1])
    BY <1>3, <1>5, <1>7
  <2> QED
    BY <1>1, <1>2, <1>5, <1>7, <2>1, <2>2, <2>3, HeaderKeepsInStep
<1> QED
  BY <1>1, <1>r, <1>5, <1>7, <1>8, ReadingKeepsIInv

(* A read that completes a request, and whose action does not end the      *)
(* program.                                                                *)
LEMMA ExecutingKeepsIInv ==
    ASSUME IInv, NEW e \in End, NEW rd \in Reader,
           UNCHANGED <<status, wire, reset, sent>>,
           torn \subseteq torn', torn' \subseteq torn \cup {e},
           received' \in [End -> Seq(Cell)], received'[Peer(e)] = received[Peer(e)],
           reader' = [reader EXCEPT ![e] = rd],
           rd.at = "len", rd.len = 0, rd.header = "unmapped",
           handled' \in [End -> Seq([header : Header, len : 0 .. Huge])],
           handled'[Peer(e)] = handled[Peer(e)],
           e \notin torn' => Begins(handled'[e], sent[Peer(e)]),
           e \notin torn' /\ status[e] = "open" =>
               InStep(sent[Peer(e)], handled'[e], rd, received'[e] \o wire[e], status[Peer(e)])
    PROVE  IInv'
<1>0. StreamType /\ SentIsMapped /\ HandledBegins /\ ReadersInStep /\ OnlyEmptyRequestsDisconnect
  BY DEF IInv
<1>1. /\ reader'[e] = rd
      /\ \A x \in End \ {e} : x = Peer(e) /\ reader'[x] = reader[x]
  BY <1>0, Ends DEF StreamType
<1>2. StreamType'
  <2>1. reader' \in [End -> Reader]
    BY <1>0 DEF StreamType, Reader
  <2>2. ASSUME NEW x \in End
        PROVE  reader'[x].at = "len" => reader'[x].len = 0 /\ reader'[x].header = "unmapped"
    <3>1. reader[x].at = "len" => reader[x].len = 0 /\ reader[x].header = "unmapped"
      BY <1>0 DEF StreamType
    <3>2. CASE x = e
      BY <1>1, <3>2
    <3>3. CASE x # e
      BY <1>1, <3>1, <3>3
    <3> QED
      BY <3>2, <3>3
  <2>3. torn' \subseteq End
    BY <1>0 DEF StreamType
  <2> QED
    BY <1>0, <2>1, <2>2, <2>3 DEF StreamType, Reader
<1>3. SentIsMapped' /\ OnlyEmptyRequestsDisconnect'
  BY <1>0 DEF SentIsMapped, OnlyEmptyRequestsDisconnect
<1>4. HandledBegins'
  <2> SUFFICES ASSUME NEW x \in End, x \notin torn'
               PROVE  Begins(handled'[x], sent'[Peer(x)])
    BY DEF HandledBegins
  <2>1. CASE x = e
    BY <2>1
  <2>2. CASE x # e
    BY <1>0, <1>1, <2>2 DEF HandledBegins
  <2> QED
    BY <2>1, <2>2
<1>5. ReadersInStep'
  <2> SUFFICES ASSUME NEW x \in End, x \notin torn', status[x] = "open"
               PROVE  InStep(sent'[Peer(x)], handled'[x], reader'[x], received'[x] \o wire'[x],
                             status'[Peer(x)])
    BY DEF ReadersInStep
  <2>1. CASE x = e
    BY <1>1, <2>1
  <2>2. CASE x # e
    <3>1. reader'[x] = reader[x] /\ received'[x] = received[x] /\ handled'[x] = handled[x]
      BY <1>1, <2>2
    <3>2. x \notin torn
      OBVIOUS
    <3> QED
      BY <1>0, <3>1, <3>2, UntouchedStaysInStep
  <2> QED
    BY <2>1, <2>2
<1> QED
  BY <1>2, <1>3, <1>4, <1>5 DEF IInv

LEMMA ReadPayloadKeepsIInv ==
    ASSUME IInv, NEW e \in End, ReadPayload(e)
    PROVE  IInv'
<1> DEFINE p == Peer(e)
           n == PayloadRead(e)
           rd == [at |-> "len", len |-> 0, header |-> "unmapped"]
           request == [header |-> reader[e].header, len |-> reader[e].len]
           R == [header : Header, len : 0 .. Huge]
<1>0. StreamType /\ SentIsMapped /\ HandledBegins /\ ReadersInStep
  BY DEF IInv
<1>1. /\ status[e] = "open" /\ reader[e].at = "payload"
      /\ ExecuteAction(e, reader[e].header, reader[e].len)
      /\ torn' = IF n < reader[e].len THEN torn \cup {e} ELSE torn
      /\ TakeCells(e, n)
      /\ reader' = NewRequest(e)
      /\ sent' = sent
  BY DEF ReadPayload
<1>2. /\ p \in End /\ p # e /\ Peer(p) = e
      /\ sent[p] \in Seq(Request) /\ handled[e] \in Seq(R)
      /\ received[e] \in Seq(Cell) /\ reader[e] \in Reader
  BY <1>0, Ends, TypesOfAnEnd
<1>3. rd \in Reader /\ reader' = [reader EXCEPT ![e] = rd]
  BY <1>0, <1>1, ARestart
<1>4. reader[e].len \in Nat /\ Len(received[e]) \in Nat /\ request \in R
  BY <1>2, HugeIsNat, LenProperties DEF Reader
<1>5. n = IF reader[e].len <= Len(received[e]) THEN reader[e].len ELSE Len(received[e])
  BY <1>4, MinOfTwo DEF PayloadRead
<1>6. n \in 0 .. Len(received[e]) /\ n <= reader[e].len
  BY <1>4, <1>5
<1> HIDE DEF n
<1>7. e \notin torn' => e \notin torn /\ n = reader[e].len
  BY <1>1, <1>4, <1>6
<1>8. torn \subseteq torn' /\ torn' \subseteq torn \cup {e}
  BY <1>1
<1>9. /\ received' \in [End -> Seq(Cell)] /\ received'[p] = received[p]
      /\ Taken(received[e] \o wire[e], n, received'[e] \o wire[e])
  BY <1>0, <1>1, <1>6, TakeCellsTakes
<1> HIDE DEF p, rd, request, R
<1>10. rd.at = "len" /\ rd.len = 0 /\ rd.header = "unmapped"
  BY DEF rd
<1>11. ASSUME e \notin torn'
       PROVE  /\ Begins(handled[e], sent[p])
              /\ InStep(sent[p], handled[e], reader[e], received[e] \o wire[e], status[p])
  BY <1>0, <1>1, <1>7, <1>11 DEF HandledBegins, ReadersInStep, p
<1>12. ASSUME e \notin torn'
       PROVE  request.header \in Mapped[e]
  <2>1. /\ Len(handled[e]) + 1 \in 1 .. Len(sent[p])
        /\ sent[p][Len(handled[e]) + 1] = [header |-> reader[e].header, len |-> reader[e].len]
    BY <1>1, <1>2, <1>11, <1>12, CompleteIsNext
  <2>2. sent[p][Len(handled[e]) + 1].header \in Mapped[Peer(p)]
    BY <1>0, <1>2, <2>1 DEF SentIsMapped
  <2> QED
    BY <1>2, <2>1, <2>2 DEF request
<1>13. CASE reader[e].header \in Mapped[e]
  <2>1. /\ handled' = [handled EXCEPT ![e] = Append(handled[e], request)]
        /\ UNCHANGED <<status, wire, reset>>
    BY <1>1, <1>13 DEF ExecuteAction, request
  <2>2. Append(handled[e], request) \in Seq(R)
    BY <1>2, <1>4, AppendProperties
  <2>3. /\ handled' \in [End -> Seq(R)]
        /\ handled'[e] = Append(handled[e], request) /\ handled'[p] = handled[p]
    BY <1>0, <1>2, <2>1, <2>2 DEF StreamType, R
  <2>4. ASSUME e \notin torn'
        PROVE  /\ Begins(handled'[e], sent[p])
               /\ InStep(sent[p], handled'[e], rd, received'[e] \o wire[e], status[p])
    <3>1. request = [header |-> reader[e].header, len |-> reader[e].len]
      BY DEF request
    <3>2. Taken(received[e] \o wire[e], reader[e].len, received'[e] \o wire[e])
      BY <1>7, <1>9, <2>4
    <3>3. /\ Begins(Append(handled[e], request), sent[p])
          /\ InStep(sent[p], Append(handled[e], request), rd, received'[e] \o wire[e], status[p])
      BY <1>1, <1>2, <1>3, <1>4, <1>10, <1>11, <2>4, <3>1, <3>2, PayloadKeepsInStep
    <3> QED
      BY <2>3, <3>3
  <2>5. /\ UNCHANGED <<status, wire, reset, sent>>
        /\ handled' \in [End -> Seq([header : Header, len : 0 .. Huge])]
    BY <1>1, <2>1, <2>3 DEF R
  <2> QED
    BY <1>3, <1>8, <1>9, <1>10, <2>3, <2>4, <2>5, ExecutingKeepsIInv DEF p
<1>14. CASE reader[e].header \notin Mapped[e] /\ e = "client"
  <2>1. Leave(e, "dead") /\ handled' = handled
    BY <1>1, <1>14 DEF ExecuteAction
  <2>2. status'["client"] = "dead"
    BY <1>0, <1>14, <2>1 DEF Leave, StreamType
  <2>3. OnlyEmptyRequestsDisconnect'
    BY <2>2 DEF OnlyEmptyRequestsDisconnect
  <2>4. reader' \in [End -> Reader] /\ reader'[p] = reader[p] /\ reader'[e] = rd
    BY <1>0, <1>2, <1>3 DEF StreamType, Reader
  <2> QED
    BY <1>1, <1>8, <1>9, <1>10, <2>1, <2>3, <2>4, LeaveKeepsIInv DEF p
<1>15. CASE reader[e].header \notin Mapped[e] /\ e # "client"
  <2>1. UNCHANGED <<status, wire, reset, sent, handled>>
    BY <1>1, <1>15 DEF ExecuteAction
  <2>2. e \in torn'
    BY <1>12, <1>15 DEF request
  <2>3. handled' \in [End -> Seq([header : Header, len : 0 .. Huge])]
        /\ handled'[p] = handled[p]
    BY <1>0, <2>1 DEF StreamType
  <2> QED
    BY <1>3, <1>8, <1>9, <1>10, <2>1, <2>2, <2>3, ExecutingKeepsIInv DEF p
<1> QED
  BY <1>13, <1>14, <1>15

LEMMA ReadNothingKeepsIInv ==
    ASSUME IInv, NEW e \in End, ReadNothing(e)
    PROVE  IInv'
<1> DEFINE p == Peer(e)
           rd == [at |-> "len", len |-> 0, header |-> "unmapped"]
<1>0. StreamType /\ HandledBegins /\ ReadersInStep
  BY DEF IInv
<1>1. /\ status[e] = "open"
      /\ \/ status[p] # "open"
         \/ reader[e].at = "payload" /\ reader[e].len = 0
      /\ Leave(e, "closed")
      /\ reader' = NewRequest(e)
      /\ UNCHANGED <<received, sent, handled, torn>>
  BY DEF ReadNothing, EndOfStream
<1>2. /\ p \in End /\ p # e
      /\ sent[p] \in Seq(Request) /\ handled[e] \in Seq([header : Header, len : 0 .. Huge])
      /\ reader[e] \in Reader
  BY <1>0, Ends, TypesOfAnEnd
<1>3. rd \in Reader /\ reader' = [reader EXCEPT ![e] = rd]
  BY <1>0, <1>1, ARestart
<1>4. rd.at = "len" /\ rd.len = 0 /\ rd.header = "unmapped"
  OBVIOUS
<1> HIDE DEF rd
<1>5. /\ reader' \in [End -> Reader] /\ reader'[p] = reader[p] /\ reader'[e] = rd
      /\ received' \in [End -> Seq(Cell)] /\ received'[p] = received[p]
  BY <1>0, <1>1, <1>2, <1>3 DEF StreamType, Reader
<1>6. status'[e] = "closed" /\ status'[p] = status[p]
  BY <1>0, <1>1, <1>2 DEF Leave, StreamType
<1>7. OnlyEmptyRequestsDisconnect'
  <2>1. CASE e = "client"
    BY <1>6, <2>1 DEF OnlyEmptyRequestsDisconnect
  <2>2. CASE e # "client"
    <3>1. e = "server" /\ p = "client"
      BY <2>2 DEF End, Peer
    <3>2. CASE status[p] # "open"
      BY <1>6, <3>1, <3>2 DEF OnlyEmptyRequestsDisconnect
    <3>3. CASE reader[e].at = "payload" /\ reader[e].len = 0
      <4> SUFFICES ASSUME e \notin torn
                   PROVE  \E i \in DOMAIN sent[p] : sent[p][i].len = 0
        BY <1>1, <3>1 DEF OnlyEmptyRequestsDisconnect
      <4>1. Begins(handled[e], sent[p])
        BY <1>0 DEF HandledBegins
      <4>2. InStep(sent[p], handled[e], reader[e], received[e] \o wire[e], status[p])
        BY <1>0, <1>1 DEF ReadersInStep
      <4> HIDE DEF p
      <4>3. /\ Len(handled[e]) + 1 \in 1 .. Len(sent[p])
            /\ sent[p][Len(handled[e]) + 1] = [header |-> reader[e].header, len |-> reader[e].len]
        BY <1>2, <3>3, <4>1, <4>2, CompleteIsNext
      <4>4. Len(handled[e]) + 1 \in DOMAIN sent[p]
        BY <1>2, <4>3, LenProperties
      <4> QED
        BY <3>3, <4>3, <4>4
    <3> QED
      BY <1>1, <3>2, <3>3
  <2> QED
    BY <2>1, <2>2
<1> QED
  BY <1>1, <1>4, <1>5, <1>7, LeaveKeepsIInv

LEMMA ReadErrorKeepsIInv ==
    ASSUME IInv, NEW e \in End, ReadError(e)
    PROVE  IInv'
<1> DEFINE p == Peer(e)
           rd == [at |-> "len", len |-> 0, header |-> "unmapped"]
<1>0. StreamType /\ SentIsMapped /\ HandledBegins /\ ReadersInStep /\ OnlyEmptyRequestsDisconnect
  BY DEF IInv
<1>1. /\ status[e] = "open" /\ status[p] # "open"
      /\ wire[e] = <<>> /\ received[e] = <<>>
      /\ reset' = [reset EXCEPT ![e] = "reported"]
      /\ status' = IF e = "client" THEN [status EXCEPT ![e] = "dead"] ELSE status
      /\ reader' = NewRequest(e)
      /\ UNCHANGED <<wire, received, sent, handled, torn>>
  BY DEF ReadError, EndOfStream
<1>2. /\ p \in End /\ p # e /\ \A x \in End : x = e \/ x = p
      /\ sent[p] \in Seq(Request) /\ handled[e] \in Seq([header : Header, len : 0 .. Huge])
      /\ reader[e] \in Reader
  BY <1>0, Ends, TypesOfAnEnd
<1>3. rd \in Reader /\ reader' = [reader EXCEPT ![e] = rd]
  BY <1>0, <1>1, ARestart
<1>4. rd.at = "len" /\ rd.len = 0 /\ rd.header = "unmapped"
  OBVIOUS
<1> HIDE DEF rd
<1>5. /\ reader'[e] = rd
      /\ \A x \in End \ {e} : reader'[x] = reader[x]
  BY <1>0, <1>3 DEF StreamType
<1>6. status'[p] = status[p] /\ (status'[e] = status[e] \/ status'[e] = "dead")
  BY <1>0, <1>1, <1>2 DEF StreamType
<1>7. StreamType'
  <2>1. reader' \in [End -> Reader]
    BY <1>0, <1>3 DEF StreamType, Reader
  <2>2. status' \in [End -> {"open", "closed", "dead"}]
    BY <1>0, <1>1 DEF StreamType
  <2>3. reset' \in [End -> {"no", "pending", "reported"}]
    BY <1>0, <1>1 DEF StreamType
  <2>4. ASSUME NEW x \in End
        PROVE  reader'[x].at = "len" => reader'[x].len = 0 /\ reader'[x].header = "unmapped"
    <3>1. reader[x].at = "len" => reader[x].len = 0 /\ reader[x].header = "unmapped"
      BY <1>0 DEF StreamType
    <3>2. CASE x = e
      BY <1>4, <1>5, <3>2
    <3>3. CASE x # e
      BY <1>5, <3>1, <3>3
    <3> QED
      BY <3>2, <3>3
  <2> QED
    BY <1>0, <1>1, <2>1, <2>2, <2>3, <2>4 DEF StreamType, Reader
<1>8. SentIsMapped' /\ HandledBegins'
  BY <1>0, <1>1 DEF SentIsMapped, HandledBegins
<1>9. OnlyEmptyRequestsDisconnect'
  <2>1. CASE e = "client"
    <3>1. status'["client"] = "dead"
      BY <1>0, <1>1, <2>1 DEF StreamType
    <3> QED
      BY <3>1 DEF OnlyEmptyRequestsDisconnect
  <2>2. CASE e # "client"
    BY <1>0, <1>1, <2>2 DEF OnlyEmptyRequestsDisconnect
  <2> QED
    BY <2>1, <2>2
<1>10. ReadersInStep'
  <2> SUFFICES ASSUME NEW x \in End, x \notin torn, status'[x] = "open"
               PROVE  InStep(sent[Peer(x)], handled[x], reader'[x], received[x] \o wire[x],
                             status'[Peer(x)])
    BY <1>1 DEF ReadersInStep
  <2>1. x = e
    BY <1>1, <1>2, <1>6
  <2>2. Begins(handled[e], sent[p])
    BY <1>0, <2>1 DEF HandledBegins
  <2>3. InStep(sent[p], handled[e], reader[e], received[e] \o wire[e], status[p])
    BY <1>0, <1>1, <2>1 DEF ReadersInStep
  <2>4. received[e] \o wire[e] = <<>>
    BY <1>1
  <2>5. status'[p] # "open"
    BY <1>1, <1>6
  <2> HIDE DEF p
  <2>6. InStep(sent[p], handled[e], rd, received[e] \o wire[e], status'[p])
    BY <1>2, <1>3, <1>4, <2>2, <2>3, <2>4, <2>5, ResetKeepsInStep
  <2> QED
    BY <1>5, <2>1, <2>6 DEF p
<1> QED
  BY <1>7, <1>8, <1>9, <1>10 DEF IInv

-----------------------------------------------------------------------------
LEMMA SendLineKeepsIInv ==
    ASSUME IInv, NEW line, SendLine(line)
    PROVE  IInv'
<1>1. \A l \in DOMAIN LobbyRequestOf :
          LobbyRequestOf[l] \in Request /\ LobbyRequestOf[l].header \in Mapped["server"]
  BY DEF LobbyRequestOf, Request, Header, Mapped
<1>2. \A l \in DOMAIN GameRequestOf :
          GameRequestOf[l] \in Request /\ GameRequestOf[l].header \in Mapped["server"]
  BY DEF GameRequestOf, Request, Header, Mapped
<1>3. RequestOf[line] \in Request /\ RequestOf[line].header \in Mapped["server"]
  BY <1>1, <1>2 DEF SendLine, RequestOf
<1>4. "client" \in End /\ Peer("client") = "server"
  BY DEF End, Peer
<1>5. Write("client", RequestOf[line])
  BY DEF SendLine
<1> QED
  BY <1>3, <1>4, <1>5, WriteKeepsIInv

LEMMA WhisperOrBroadcastKeepsIInv ==
    ASSUME IInv, WhisperOrBroadcast
    PROVE  IInv'
<1> DEFINE request == [header |-> "kReceiveMsg", len |-> 2]
<1>1. request \in Request /\ request.header \in Mapped["client"]
  BY DEF Request, Header, Mapped
<1>2. "server" \in End /\ Peer("server") = "client"
  BY DEF End, Peer
<1>3. Write("server", request)
  BY DEF WhisperOrBroadcast
<1> HIDE DEF request
<1> QED
  BY <1>1, <1>2, <1>3, WriteKeepsIInv

LEMMA NextKeepsIInv == IInv /\ [Next]_vars => IInv'
<1> SUFFICES ASSUME IInv, [Next]_vars PROVE IInv'
  OBVIOUS
<1>1. ASSUME NEW line \in Lines, SendLine(line) \/ DieOf(line)
      PROVE  IInv'
  BY <1>1, SendLineKeepsIInv, DieOfKeepsIInv
<1>2. ASSUME NEW e \in End, Arrive(e) \/ Read(e)
      PROVE  IInv'
  BY <1>2, ArriveKeepsIInv, ReadLenKeepsIInv, ReadHeaderKeepsIInv, ReadPayloadKeepsIInv,
     ReadNothingKeepsIInv, ReadErrorKeepsIInv DEF Read
<1>3. CASE UNCHANGED vars
  BY <1>3 DEF vars, IInv, StreamType, SentIsMapped, HandledBegins, ReadersInStep,
              OnlyEmptyRequestsDisconnect
<1> QED
  BY <1>1, <1>2, <1>3, WhisperOrBroadcastKeepsIInv, SelectFailsKeepsIInv DEF Next

LEMMA IInvariance == Spec => []IInv
BY InitIInv, NextKeepsIInv, PTL DEF Spec

-----------------------------------------------------------------------------
(* Every reader is between two fields of a request, and starts each        *)
(* request with no field of an earlier one, for any lines and any number   *)
(* of requests.                                                            *)
THEOREM StreamTypeCorrect == Spec => []TypeOK
<1>1. IInv => TypeOK
  <2> SUFFICES ASSUME StreamType PROVE TypeOK
    BY DEF IInv
  <2>1. ASSUME NEW e \in End PROVE Range(sent[e]) \subseteq Request
    BY TypesOfAnEnd, LenProperties, ElementOfSeq DEF Range
  <2> QED
    BY <2>1 DEF StreamType, TypeOK
<1> QED
  BY <1>1, IInvariance, PTL

(* As long as no payload is torn, each end executes the requests the other *)
(* wrote, in their order, however the cells arrive and whenever the        *)
(* connection ends.                                                        *)
THEOREM StreamCorrect == Spec => []RequestsAreHandledAsSent
<1>1. IInv => RequestsAreHandledAsSent
  <2> SUFFICES ASSUME IInv, NEW e \in End, e \notin torn
               PROVE  IsPrefix(handled[e], sent[Peer(e)])
    BY DEF RequestsAreHandledAsSent
  <2>1. /\ sent[Peer(e)] \in Seq(Request)
        /\ handled[e] \in Seq([header : Header, len : 0 .. Huge])
    BY Ends, TypesOfAnEnd DEF IInv
  <2>2. Begins(handled[e], sent[Peer(e)])
    BY DEF IInv, HandledBegins
  <2> QED
    BY <2>1, <2>2, PrefixElementByElement
<1> QED
  BY <1>1, IInvariance, PTL

(* A client that is still there is disconnected for an empty request or a  *)
(* torn one only.                                                          *)
THEOREM DisconnectsCorrect == Spec => []OnlyEmptyRequestsDisconnect
<1>1. IInv => OnlyEmptyRequestsDisconnect
  BY DEF IInv
<1> QED
  BY <1>1, IInvariance, PTL
=============================================================================
