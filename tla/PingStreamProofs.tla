--------------------------- MODULE PingStreamProofs ---------------------------
(***************************************************************************)
(* Proofs about PingStream, for any number of pings and replies: its       *)
(* safety properties follow from an invariant about each ping, Local, and  *)
(* one about what the page shows.                                          *)
(***************************************************************************)
EXTENDS PingStream, FiniteSetTheorems, TLAPS

(***************************************************************************)
(* The updates among the messages on their way to the browser.             *)
(***************************************************************************)
Updates(seq, those) == {i \in DOMAIN seq : seq[i].type = "update" /\ seq[i].data \in those}
Count(seq, those) == Cardinality(Updates(seq, those))

In(reply, those) == IF reply \in those THEN 1 ELSE 0
Adds(msg, those) == IF msg.type = "update" THEN In(msg.data, those) ELSE 0

LEMMA UpdatesFinite ==
  ASSUME NEW seq \in Seq(Messages), NEW those
  PROVE  /\ IsFiniteSet(Updates(seq, those)) /\ Count(seq, those) \in Nat
         /\ Count(<<>>, those) = 0
<1>1. Len(seq) \in Nat /\ DOMAIN seq = 1 .. Len(seq)
  OBVIOUS
<1>2. IsFiniteSet(1 .. Len(seq)) /\ Updates(seq, those) \in SUBSET (1 .. Len(seq))
  BY <1>1, FS_Interval DEF Updates
<1>3. IsFiniteSet(Updates(seq, those))
  BY <1>2, FS_Subset
<1>4. Updates(<<>>, those) = {}
  BY DEF Updates
<1> QED
  BY <1>3, <1>4, FS_CardinalityType, FS_EmptySet DEF Count

LEMMA CountAppend ==
  ASSUME NEW seq \in Seq(Messages), NEW msg \in Messages, NEW those
  PROVE  Count(Append(seq, msg), those) = Count(seq, those) + Adds(msg, those)
<1> DEFINE n == Len(seq)
           all == Append(seq, msg)
<1>1. /\ n \in Nat /\ DOMAIN seq = 1 .. n /\ DOMAIN all = 1 .. n + 1
      /\ all[n + 1] = msg /\ \A i \in 1 .. n : all[i] = seq[i]
  OBVIOUS
<1> HIDE DEF n, all
<1>2. IsFiniteSet(Updates(seq, those)) /\ Count(seq, those) \in Nat
  BY UpdatesFinite
<1>3. n + 1 \notin Updates(seq, those)
  BY <1>1 DEF Updates
<1>4. CASE Adds(msg, those) = 1
  <2>1. Updates(all, those) = Updates(seq, those) \cup {n + 1}
    BY <1>1, <1>4 DEF Updates, Adds, In
  <2>2. Cardinality(Updates(seq, those) \cup {n + 1}) = Cardinality(Updates(seq, those)) + 1
    BY <1>2, <1>3, FS_AddElement
  <2> QED
    BY <1>4, <2>1, <2>2 DEF Count, all
<1>5. CASE Adds(msg, those) = 0
  <2>1. Updates(all, those) = Updates(seq, those)
    BY <1>1, <1>5 DEF Updates, Adds, In
  <2> QED
    BY <1>2, <1>5, <2>1 DEF Count, all
<1> QED
  BY <1>4, <1>5 DEF Adds, In

LEMMA CountTail ==
  ASSUME NEW seq \in Seq(Messages), seq # <<>>, NEW those
  PROVE  /\ Count(seq, those) = Count(Tail(seq), those) + Adds(Head(seq), those)
         /\ Count(Tail(seq), those) \in Nat
<1> DEFINE n == Len(seq)
           rest == Tail(seq)
           here == Updates(seq, those)
           there == Updates(rest, those)
<1>1. /\ n \in Nat /\ n > 0 /\ DOMAIN seq = 1 .. n /\ DOMAIN rest = 1 .. n - 1
      /\ \A i \in 1 .. n - 1 : rest[i] = seq[i + 1]
      /\ Head(seq) = seq[1] /\ rest \in Seq(Messages)
  OBVIOUS
<1>2. IsFiniteSet(here) /\ IsFiniteSet(there) /\ Count(rest, those) \in Nat
  BY <1>1, UpdatesFinite
<1> HIDE DEF n, rest
<1>3. Cardinality(here \ {1}) = Cardinality(there)
  <2> DEFINE shift == [i \in there |-> i + 1]
  <2>1. \A i \in there : i \in 1 .. n - 1 /\ i + 1 \in here \ {1}
    BY <1>1 DEF Updates
  <2>2. \A j \in here \ {1} : j - 1 \in there /\ (j - 1) + 1 = j
    BY <1>1 DEF Updates
  <2> HIDE DEF here, there
  <2>3. shift \in [there -> here \ {1}]
    BY <2>1
  <2>4. \A i, j \in there : i # j => shift[i] # shift[j]
    BY <2>1
  <2>5. \A j \in here \ {1} : \E i \in there : shift[i] = j
    BY <2>2
  <2>6. shift \in Bijection(there, here \ {1})
    BY <2>3, <2>4, <2>5 DEF Bijection, Injection, Surjection, IsInjective
  <2>7. ExistsBijection(there, here \ {1})
    BY <2>6 DEF ExistsBijection
  <2> QED
    BY <1>2, <2>7, FS_Bijection
<1>4. Adds(Head(seq), those) = IF 1 \in here THEN 1 ELSE 0
  BY <1>1 DEF Updates, Adds, In
<1>5. Cardinality(here \ {1}) = IF 1 \in here THEN Cardinality(here) - 1 ELSE Cardinality(here)
  <2> HIDE DEF here
  <2> QED
    BY <1>2, FS_RemoveElement
<1>6. Cardinality(here) \in Nat
  BY <1>2, FS_CardinalityType
<1>7. Cardinality(here) = Cardinality(there) + Adds(Head(seq), those)
  <2> HIDE DEF here, there
  <2> QED
    BY <1>2, <1>3, <1>4, <1>5, <1>6 DEF Count
<1> QED
  BY <1>2, <1>7 DEF Count, rest, here, there

(***************************************************************************)
(* The invariant about a ping.  Its handler and its pump know which reply  *)
(* they carry; what the browser still receives is followed by nothing      *)
(* after the last message; every reply is in one place, in the lines of    *)
(* the page in the end, and is counted once on either side.                *)
(***************************************************************************)
Seqs == {reply \in Replies : HasSeq(reply)}

Sending(p) == IF pump[p] = "send" THEN 1 ELSE 0
Writing(p) == IF handler[p] = "write" THEN 1 ELSE 0
Written(p, those) == IF handler[p] = "write" THEN In(resp[p], those) ELSE 0

Stage(p) ==
  /\ sock[p] = "new" <=> handler[p] = "none"
  /\ handler[p] \in {"none", "lookup", "listen"} => pump[p] = "none"
  /\ handler[p] \in {"range", "write"} => pump[p] # "none"
  /\ handler[p] = "write" <=> resp[p] # None
  /\ pump[p] = "send" <=> carried[p] # None
  /\ handler[p] \in {"none", "lookup", "listen"} =>
       stats[p].sent = 0 /\ stats[p].received = 0

Dialog(p) ==
  /\ sock[p] = "open" => p = pingWs
  /\ inbox[p] # <<>> => sock[p] = "open"
  /\ \A i \in DOMAIN inbox[p] :
       inbox[p][i].type # "update" => handler[p] = "done" /\ i = Len(inbox[p])

Bound(p) ==
  /\ stats[p].sent + Sending(p) <= taken[p]
  /\ stats[p].received + Sending(p) <= taken[p]
  /\ sock[p] = "open" =>
       /\ lines.sent + Count(inbox[p], Seqs) + Writing(p) + Sending(p) <= taken[p]
       /\ lines.received + Count(inbox[p], {"echo"}) + Writing(p) + Sending(p) <= taken[p]

Agree(p) ==
  sock[p] = "open" /\ p \notin broken /\ handler[p] # "done" =>
    /\ stats[p].sent = lines.sent + Count(inbox[p], Seqs) + Written(p, Seqs)
    /\ "disputed" \notin excused =>
         stats[p].received = lines.received + Count(inbox[p], {"echo"})
                               + Written(p, {"echo"})

Tallied(p) ==
  \A i \in DOMAIN inbox[p] : inbox[p][i].type = "summary" =>
    /\ inbox[p][i].summary.sent = lines.sent + Count(inbox[p], Seqs)
    /\ "disputed" \notin excused =>
         inbox[p][i].summary.received = lines.received + Count(inbox[p], {"echo"})

Stoppable(p) ==
  sock[p] = "open" => isPinging \/ handler[p] = "done" \/ "late close" \in excused

\* Statistics are shown once nothing more can arrive.
Silent(p) ==
  summary # None /\ "late close" \notin excused /\ sock[p] = "open" =>
    handler[p] = "done" /\ inbox[p] = <<>>

Local(p) ==
  /\ Stage(p) /\ Dialog(p) /\ Bound(p) /\ Agree(p) /\ Tallied(p)
  /\ Stoppable(p) /\ Silent(p)

Inv == TypeOK /\ (\A p \in Pings : Local(p)) /\ SummaryMatchesLines

\* What a ping has on the server.
Own(p) == <<handler[p], pump[p], resp[p], carried[p], stats[p], taken[p]>>

\* A ping that a step of another leaves alone.
LEMMA Frame ==
  ASSUME NEW q \in Pings, Local(q), UNCHANGED Own(q),
         UNCHANGED <<sock[q], inbox[q], lines, pingWs>>,
         excused \subseteq excused', q \in broken => q \in broken',
         summary' = summary \/ "late close" \in excused' \/ sock[q] # "open",
         isPinging' = isPinging \/ "late close" \in excused' \/ sock[q] # "open"
  PROVE  Local(q)'
<1>1. Stage(q)' /\ Dialog(q)'
  BY DEF Local, Own, Stage, Dialog
<1>2. Bound(q)'
  BY DEF Local, Own, Bound, Sending, Writing
<1>3. Agree(q)'
  BY DEF Local, Own, Agree, Written
<1>4. Tallied(q)'
  BY DEF Local, Own, Tallied
<1>5. Stoppable(q)' /\ Silent(q)'
  BY DEF Local, Own, Stoppable, Silent
<1> QED
  BY <1>1, <1>2, <1>3, <1>4, <1>5 DEF Local

\* A ping whose socket is not open, or no longer.
LEMMA Aside ==
  ASSUME NEW q \in Pings, Local(q), UNCHANGED Own(q),
         sock'[q] # "open", inbox'[q] = <<>>, sock'[q] = "new" <=> sock[q] = "new",
         sock[q] = "closed" => sock'[q] = "closed",
         q \in broken => q \in broken' \/ sock'[q] = "closed"
  PROVE  Local(q)'
<1>1. Stage(q)' /\ Dialog(q)'
  BY DEF Local, Own, Stage, Dialog
<1>2. Bound(q)'
  BY DEF Local, Own, Bound, Sending, Writing
<1>3. Agree(q)' /\ Stoppable(q)' /\ Silent(q)'
  BY DEF Agree, Stoppable, Silent
<1>4. Tallied(q)'
  <2>1. DOMAIN inbox'[q] = {}
    OBVIOUS
  <2> QED
    BY <2>1 DEF Tallied
<1> QED
  BY <1>1, <1>2, <1>3, <1>4 DEF Local

LEMMA InitInv == Init => Inv
<1> SUFFICES ASSUME Init PROVE Inv
  OBVIOUS
<1>0. MaxReplies \in Nat
  BY PingStreamAssumption
<1>1. NoStats \in Stats
  BY <1>0 DEF NoStats, Stats
<1>2. TypeOK
  <2>1. <<>> \in Seq(Messages)
    OBVIOUS
  <2>2. /\ inbox \in [Pings -> Seq(Messages)] /\ stats \in [Pings -> Stats]
        /\ lines \in Stats
    BY <1>1, <2>1 DEF Init
  <2>3. taken \in [Pings -> 0 .. MaxReplies]
    BY <1>0 DEF Init
  <2>4. /\ pingWs \in Pings \cup {None} /\ isPinging \in BOOLEAN
        /\ summary \in Stats \cup {None}
        /\ sock \in [Pings -> {"new", "open", "closing", "closed"}]
        /\ broken \subseteq Pings /\ reader \subseteq Pings /\ cancelled \subseteq Pings
        /\ handler \in [Pings -> {"none", "lookup", "listen", "range", "write", "done"}]
        /\ pump \in [Pings -> {"none", "select", "send", "exited"}]
        /\ carried \in [Pings -> Replies \cup {None}]
        /\ resp \in [Pings -> Replies \cup {None}]
        /\ abandoned \subseteq Pings
        /\ excused \subseteq {"late close", "disputed"}
    BY DEF Init
  <2> QED
    BY <2>2, <2>3, <2>4 DEF TypeOK
<1>3. ASSUME NEW p \in Pings PROVE Local(p)
  <2>1. /\ sock[p] = "new" /\ inbox[p] = <<>> /\ handler[p] = "none" /\ pump[p] = "none"
        /\ carried[p] = None /\ resp[p] = None /\ taken[p] = 0
        /\ stats[p].sent = 0 /\ stats[p].received = 0 /\ summary = None
    BY DEF Init, NoStats
  <2> QED
    BY <2>1
    DEF Local, Stage, Dialog, Bound, Agree, Tallied, Stoppable, Silent, Sending, Writing, Written
<1>4. SummaryMatchesLines
  BY DEF Init, SummaryMatchesLines
<1> QED
  BY <1>2, <1>3, <1>4 DEF Inv

\* The kinds of messages.
LEMMA MessageKinds ==
  /\ \A reply \in Replies : /\ Update(reply) \in Messages
                            /\ Update(reply).type = "update" /\ Update(reply).data = reply
  /\ Error \in Messages /\ Error.type = "error"
  /\ \A count \in Stats : /\ Summary(count) \in Messages
                          /\ Summary(count).type = "summary"
                          /\ Summary(count).summary = count
  /\ \A msg \in Messages :
       /\ msg.type \in {"update", "error", "summary"}
       /\ msg.type = "update" => msg.data \in Replies
       /\ msg.type = "summary" => msg.summary \in Stats
<1>1. ASSUME NEW reply \in Replies
      PROVE  /\ Update(reply) \in Messages
             /\ Update(reply).type = "update" /\ Update(reply).data = reply
  BY DEF Messages, Update
<1>2. Error \in Messages /\ Error.type = "error"
  BY DEF Messages, Error
<1>3. ASSUME NEW count \in Stats
      PROVE  /\ Summary(count) \in Messages
             /\ Summary(count).type = "summary" /\ Summary(count).summary = count
  BY DEF Messages, Summary
<1>4. ASSUME NEW msg \in Messages
      PROVE  /\ msg.type \in {"update", "error", "summary"}
             /\ msg.type = "update" => msg.data \in Replies
             /\ msg.type = "summary" => msg.summary \in Stats
  <2>1. \/ msg = Error
        \/ \E reply \in Replies : msg = Update(reply)
        \/ \E count \in Stats : msg = Summary(count)
    BY DEF Messages
  <2>2. CASE msg = Error
    BY <1>2, <2>2
  <2>3. CASE \E reply \in Replies : msg = Update(reply)
    BY <1>1, <2>3
  <2>4. CASE \E count \in Stats : msg = Summary(count)
    BY <1>3, <2>4
  <2> QED
    BY <2>1, <2>2, <2>3, <2>4
<1> QED
  BY <1>1, <1>2, <1>3, <1>4

LEMMA StatsFields ==
  ASSUME NEW count \in Stats
  PROVE  /\ count.sent \in Nat /\ count.received \in Nat
         /\ count.sent <= MaxReplies /\ count.received <= MaxReplies
  BY PingStreamAssumption DEF Stats

\* What a reply adds to a count.
LEMMA CountedFields ==
  ASSUME NEW count \in Stats, NEW reply \in Replies, NEW answers
  PROVE  /\ Counted(count, reply, answers).sent = count.sent + In(reply, Seqs)
         /\ Counted(count, reply, answers).received = count.received + In(reply, answers)
         /\ /\ count.sent + In(reply, Seqs) <= MaxReplies
            /\ count.received + In(reply, answers) <= MaxReplies
            => Counted(count, reply, answers) \in Stats
<1> DEFINE a == count.sent + (IF HasSeq(reply) THEN 1 ELSE 0)
           b == count.received + (IF reply \in answers THEN 1 ELSE 0)
<1>1. count.sent \in Nat /\ count.received \in Nat /\ MaxReplies \in Nat
  BY StatsFields, PingStreamAssumption
<1>2. a = count.sent + In(reply, Seqs) /\ b = count.received + In(reply, answers)
  BY DEF In, Seqs
<1>3. a \in Nat /\ b \in Nat
  BY <1>1
<1> HIDE DEF a, b
<1>4. [sent |-> a, received |-> b].sent = a /\ [sent |-> a, received |-> b].received = b
  OBVIOUS
<1>5. a <= MaxReplies /\ b <= MaxReplies => [sent |-> a, received |-> b] \in Stats
  BY <1>1, <1>3 DEF Stats
<1>6. Counted(count, reply, answers) = [sent |-> a, received |-> b]
  BY DEF Counted, a, b
<1> QED
  BY <1>2, <1>4, <1>5, <1>6

\* The types of what belongs to one ping.
LEMMA PingTypes ==
  ASSUME TypeOK, NEW p \in Pings
  PROVE  /\ inbox[p] \in Seq(Messages) /\ stats[p] \in Stats
         /\ stats[p].sent \in Nat /\ stats[p].received \in Nat
         /\ lines \in Stats /\ lines.sent \in Nat /\ lines.received \in Nat
         /\ taken[p] \in Nat /\ taken[p] <= MaxReplies /\ MaxReplies \in Nat
         /\ Count(inbox[p], Seqs) \in Nat /\ Count(inbox[p], {"echo"}) \in Nat
         /\ Count(<<>>, Seqs) = 0 /\ Count(<<>>, {"echo"}) = 0
<1>1. inbox[p] \in Seq(Messages) /\ stats[p] \in Stats /\ lines \in Stats
  BY DEF TypeOK
<1>2. taken[p] \in 0 .. MaxReplies /\ MaxReplies \in Nat
  BY PingStreamAssumption DEF TypeOK
<1>3. taken[p] \in Nat /\ taken[p] <= MaxReplies
  BY <1>2
<1> QED
  BY <1>1, <1>2, <1>3, StatsFields, UpdatesFinite

\* While its socket is open, a ping is that of the dialog.
LEMMA OnlyOne ==
  ASSUME Inv, NEW p \in Pings, NEW q \in Pings, p # q, sock[p] = "open"
  PROVE  p = pingWs /\ sock[q] # "open" /\ inbox[q] = <<>>
  BY DEF Inv, Local, Dialog

LEMMA StartPingStep ==
  ASSUME Inv, NEW p \in Pings, StartPing(p)
  PROVE  Inv'
<1>0. TypeOK /\ \A q \in Pings : Local(q)
  BY DEF Inv
<1>1. /\ sock[p] = "new" /\ pingWs' = p /\ isPinging' = TRUE /\ lines' = NoStats
      /\ summary' = None
      /\ sock' = [q \in Pings |-> IF q = p THEN "open"
                                ELSE IF q = pingWs /\ sock[q] = "open" THEN "closing"
                                ELSE sock[q]]
      /\ inbox' = [q \in Pings |-> IF q = pingWs THEN <<>> ELSE inbox[q]]
      /\ handler' = [handler EXCEPT ![p] = "lookup"]
      /\ UNCHANGED <<broken, reader, pump, carried, resp, cancelled, stats, taken,
                     abandoned, excused>>
  BY DEF StartPing, IsNext, OpenPingModal
<1>2. NoStats \in Stats /\ NoStats.sent = 0 /\ NoStats.received = 0
  BY PingStreamAssumption DEF NoStats, Stats
<1>3. TypeOK'
  <2>1. sock' \in [Pings -> {"new", "open", "closing", "closed"}]
    BY <1>0, <1>1 DEF TypeOK
  <2>2. inbox' \in [Pings -> Seq(Messages)]
    <3>1. <<>> \in Seq(Messages)
      OBVIOUS
    <3> QED
      BY <1>0, <1>1, <3>1 DEF TypeOK
  <2>3. handler' \in [Pings -> {"none", "lookup", "listen", "range", "write", "done"}]
    BY <1>0, <1>1 DEF TypeOK
  <2> QED
    BY <1>0, <1>1, <1>2, <2>1, <2>2, <2>3 DEF TypeOK
<1>4. ASSUME NEW q \in Pings, q # p PROVE Local(q)'
  <2>1. Local(q) /\ sock'[q] # "open" /\ inbox'[q] = <<>>
    BY <1>0, <1>1, <1>4 DEF Local, Dialog
  <2>2. UNCHANGED Own(q)
    BY <1>0, <1>1, <1>4 DEF Own, TypeOK
  <2>3. /\ sock'[q] = "new" <=> sock[q] = "new"
        /\ sock[q] = "closed" => sock'[q] = "closed"
        /\ q \in broken => q \in broken'
    BY <1>1, <1>4
  <2> QED
    BY <2>1, <2>2, <2>3, Aside
<1>5. Local(p)'
  <2>1. Local(p)
    BY <1>0
  <2>2. /\ sock'[p] = "open" /\ inbox'[p] = <<>> /\ handler'[p] = "lookup"
        /\ handler[p] = "none" /\ pump'[p] = "none" /\ carried'[p] = None /\ resp'[p] = None
        /\ stats'[p].sent = 0 /\ stats'[p].received = 0 /\ taken'[p] = taken[p]
    BY <1>0, <1>1, <2>1 DEF Local, Stage, Dialog, TypeOK
  <2>3. Stage(p)' /\ Dialog(p)' /\ Stoppable(p)' /\ Silent(p)'
    BY <1>1, <2>2 DEF Stage, Dialog, Stoppable, Silent
  <2>4. taken[p] \in Nat /\ Count(<<>>, Seqs) = 0 /\ Count(<<>>, {"echo"}) = 0
    BY <1>0, PingTypes
  <2>5. Bound(p)'
    BY <1>1, <1>2, <2>2, <2>4 DEF Bound, Sending, Writing
  <2>6. Written(p, Seqs)' = 0 /\ Written(p, {"echo"})' = 0
    BY <2>2 DEF Written
  <2>7. Agree(p)'
    <3>1. Count(inbox'[p], Seqs) = 0 /\ Count(inbox'[p], {"echo"}) = 0
      BY <2>2, <2>4
    <3>2. lines'.sent = 0 /\ lines'.received = 0
      BY <1>1, <1>2
    <3>3. stats'[p].sent = lines'.sent + Count(inbox'[p], Seqs) + 0
      BY <2>2, <3>1, <3>2
    <3>4. stats'[p].received = lines'.received + Count(inbox'[p], {"echo"}) + 0
      BY <2>2, <3>1, <3>2
    <3> QED
      BY <2>6, <3>3, <3>4 DEF Agree
  <2>8. Tallied(p)'
    <3>1. DOMAIN inbox'[p] = {}
      BY <2>2
    <3> QED
      BY <3>1 DEF Tallied
  <2> QED
    BY <2>3, <2>5, <2>7, <2>8 DEF Local
<1>6. SummaryMatchesLines'
  BY <1>1 DEF SummaryMatchesLines
<1> QED
  BY <1>3, <1>4, <1>5, <1>6 DEF Inv

\* close() of the dialog's socket concerns one ping, and forgets its messages.
LEMMA ClosedSocket ==
  ASSUME TypeOK, CloseDialogSocket
  PROVE  /\ sock' \in [Pings -> {"new", "open", "closing", "closed"}]
         /\ inbox' \in [Pings -> Seq(Messages)]
         /\ \A q \in Pings :
              IF q = pingWs /\ sock[q] = "open"
                THEN sock'[q] = "closing" /\ inbox'[q] = <<>>
                ELSE sock'[q] = sock[q] /\ inbox'[q] = inbox[q]
<1> DEFINE closing == {p \in Pings : p = pingWs /\ sock[p] = "open"}
<1>1. /\ sock' = [p \in Pings |-> IF p \in closing THEN "closing" ELSE sock[p]]
      /\ inbox' = [p \in Pings |-> IF p \in closing THEN <<>> ELSE inbox[p]]
  BY DEF CloseDialogSocket
<1>2. <<>> \in Seq(Messages)
  OBVIOUS
<1>3. sock' \in [Pings -> {"new", "open", "closing", "closed"}]
  BY <1>1 DEF TypeOK
<1>4. inbox' \in [Pings -> Seq(Messages)]
  BY <1>1, <1>2 DEF TypeOK
<1> QED
  BY <1>1, <1>3, <1>4

LEMMA CloseStep ==
  ASSUME Inv, TogglePing \/ ClosePingModal
  PROVE  Inv'
<1>0. TypeOK /\ \A q \in Pings : Local(q)
  BY DEF Inv
<1>1. /\ CloseDialogSocket
      /\ UNCHANGED <<lines, summary, broken, handler, reader, pump, carried, resp,
                     cancelled, stats, taken, abandoned, excused>>
      /\ pingWs' \in {pingWs, None} /\ isPinging' \in {isPinging, FALSE}
  BY DEF TogglePing, ClosePingModal, pageVars, serverVars
<1>2. /\ sock' \in [Pings -> {"new", "open", "closing", "closed"}]
      /\ inbox' \in [Pings -> Seq(Messages)]
      /\ \A q \in Pings :
           IF q = pingWs /\ sock[q] = "open"
             THEN sock'[q] = "closing" /\ inbox'[q] = <<>>
             ELSE sock'[q] = sock[q] /\ inbox'[q] = inbox[q]
  BY <1>0, <1>1, ClosedSocket
<1>3. TypeOK'
  BY <1>0, <1>1, <1>2 DEF TypeOK
<1>4. ASSUME NEW q \in Pings PROVE Local(q)'
  <2>1. /\ Local(q) /\ (sock[q] = "open" => q = pingWs)
        /\ (inbox[q] # <<>> => sock[q] = "open")
    BY <1>0 DEF Local, Dialog
  <2>2. /\ sock'[q] # "open" /\ inbox'[q] = <<>> /\ (sock'[q] = "new" <=> sock[q] = "new")
        /\ (sock[q] = "closed" => sock'[q] = "closed") /\ broken' = broken
    BY <1>1, <1>2, <2>1
  <2>3. UNCHANGED Own(q)
    BY <1>1 DEF Own
  <2> QED
    BY <2>1, <2>2, <2>3, Aside
<1>5. SummaryMatchesLines'
  BY <1>1 DEF Inv, SummaryMatchesLines
<1> QED
  BY <1>3, <1>4, <1>5 DEF Inv

LEMMA OnCloseStep ==
  ASSUME Inv, NEW p \in Pings, OnClose(p)
  PROVE  Inv'
<1>0. TypeOK /\ \A q \in Pings : Local(q)
  BY DEF Inv
<1>1. /\ sock' = [sock EXCEPT ![p] = "closed"] /\ inbox' = [inbox EXCEPT ![p] = <<>>]
      /\ broken' = broken \ {p} /\ isPinging' = FALSE
      /\ summary' = IF isPinging THEN lines ELSE summary
      /\ excused' = IF isPinging /\ p # pingWs THEN excused \cup {"late close"} ELSE excused
      /\ UNCHANGED <<pingWs, lines, handler, reader, pump, carried, resp, cancelled, stats,
                     taken, abandoned>>
  BY DEF OnClose, serverVars
<1>2. TypeOK'
  <2>1. sock' \in [Pings -> {"new", "open", "closing", "closed"}]
    BY <1>0, <1>1 DEF TypeOK
  <2>2. inbox' \in [Pings -> Seq(Messages)]
    <3>1. <<>> \in Seq(Messages)
      OBVIOUS
    <3> QED
      BY <1>0, <1>1, <3>1 DEF TypeOK
  <2>3. summary' \in Stats \cup {None} /\ excused' \subseteq {"late close", "disputed"}
    BY <1>0, <1>1 DEF TypeOK
  <2> QED
    BY <1>0, <1>1, <2>1, <2>2, <2>3 DEF TypeOK
<1>3. /\ sock'[p] = "closed" /\ inbox'[p] = <<>>
      /\ \A q \in Pings \ {p} : sock'[q] = sock[q] /\ inbox'[q] = inbox[q]
      /\ \A q \in Pings : UNCHANGED Own(q)
  BY <1>0, <1>1 DEF TypeOK, Own
<1>4. Local(p)'
  <2>1. Local(p) /\ sock[p] # "new"
    BY <1>0 DEF OnClose, Gone
  <2> QED
    BY <1>3, <2>1, Aside
<1>5. ASSUME NEW q \in Pings, q # p PROVE Local(q)'
  <2>1. Local(q) /\ (sock[q] = "open" => q = pingWs)
    BY <1>0 DEF Local, Dialog
  <2>2. CASE sock[q] # "open"
    BY <1>1, <1>3, <1>5, <2>1, <2>2, Frame
  <2>3. CASE sock[q] = "open"
    <3>1. p # pingWs
      BY <1>5, <2>1, <2>3
    <3>2. /\ excused \subseteq excused'
          /\ summary' = summary \/ "late close" \in excused'
          /\ isPinging' = isPinging \/ "late close" \in excused'
      BY <1>0, <1>1, <3>1 DEF TypeOK
    <3> QED
      BY <1>1, <1>3, <1>5, <2>1, <3>2, Frame
  <2> QED
    BY <2>2, <2>3
<1>6. SummaryMatchesLines'
  BY <1>1 DEF Inv, SummaryMatchesLines
<1> QED
  BY <1>2, <1>4, <1>5, <1>6 DEF Inv

LEMMA BreakStep ==
  ASSUME Inv, NEW p \in Pings, Break(p)
  PROVE  Inv'
<1>0. TypeOK /\ \A q \in Pings : Local(q)
  BY DEF Inv
<1>1. /\ broken' = broken \cup {p}
      /\ UNCHANGED <<pingWs, isPinging, lines, summary, sock, inbox, handler, reader, pump,
                     carried, resp, cancelled, stats, taken, abandoned, excused>>
  BY DEF Break, pageVars, serverVars
<1>2. TypeOK'
  BY <1>0, <1>1 DEF TypeOK
<1>3. ASSUME NEW q \in Pings PROVE Local(q)'
  <2>1. Local(q) /\ UNCHANGED Own(q)
    BY <1>0, <1>1 DEF Own
  <2> QED
    BY <1>1, <2>1, Frame
<1>4. SummaryMatchesLines'
  BY <1>1 DEF Inv, SummaryMatchesLines
<1> QED
  BY <1>2, <1>3, <1>4 DEF Inv

\* The browser takes a message: what was on its way is now a line, or it was the
\* last one.
LEMMA MessageStep ==
  ASSUME Inv, NEW p \in Pings, Message(p)
  PROVE  Inv'
<1> DEFINE msg == Head(inbox[p])
<1>0. /\ TypeOK /\ SummaryMatchesLines /\ \A q \in Pings : Local(q)
      /\ inbox[p] \in Seq(Messages) /\ inbox[p] # <<>>
  BY DEF Inv, TypeOK, Message
<1>1. /\ inbox' = [inbox EXCEPT ![p] = Tail(@)]
      /\ \/ /\ msg.type = "update"
            /\ lines' = PageCounts(lines, msg.data)
            /\ UNCHANGED <<isPinging, summary>>
         \/ /\ msg.type # "update"
            /\ isPinging' = FALSE
            /\ summary' = IF msg.type = "summary" THEN msg.summary ELSE summary
            /\ UNCHANGED lines
      /\ UNCHANGED <<pingWs, sock, broken, handler, reader, pump, carried, resp, cancelled,
                     stats, taken, abandoned, excused>>
  BY DEF Message, serverVars
<1>2. Stage(p) /\ Dialog(p) /\ Bound(p) /\ Agree(p) /\ Tallied(p) /\ Stoppable(p)
        /\ Silent(p)
  BY <1>0 DEF Local
<1>3. sock[p] = "open" /\ p = pingWs
  BY <1>0, <1>2 DEF Dialog
<1>4. /\ Len(inbox[p]) \in Nat /\ Len(inbox[p]) > 0 /\ DOMAIN inbox[p] = 1 .. Len(inbox[p])
      /\ msg = inbox[p][1] /\ msg \in Messages /\ Tail(inbox[p]) \in Seq(Messages)
      /\ DOMAIN Tail(inbox[p]) = 1 .. Len(inbox[p]) - 1
      /\ Len(Tail(inbox[p])) = Len(inbox[p]) - 1
      /\ \A i \in 1 .. Len(inbox[p]) - 1 : Tail(inbox[p])[i] = inbox[p][i + 1]
  BY <1>0
<1> HIDE DEF msg
<1>5. /\ inbox' \in [Pings -> Seq(Messages)] /\ inbox'[p] = Tail(inbox[p])
      /\ \A q \in Pings \ {p} : inbox'[q] = inbox[q]
  BY <1>0, <1>1, <1>4 DEF TypeOK
<1>6. /\ Count(inbox[p], Seqs) = Count(inbox'[p], Seqs) + Adds(msg, Seqs)
      /\ Count(inbox[p], {"echo"}) = Count(inbox'[p], {"echo"}) + Adds(msg, {"echo"})
      /\ Count(inbox'[p], Seqs) \in Nat /\ Count(inbox'[p], {"echo"}) \in Nat
  BY <1>0, <1>5, CountTail DEF msg
<1>7. /\ stats[p].sent \in Nat /\ stats[p].received \in Nat /\ lines \in Stats
      /\ lines.sent \in Nat /\ lines.received \in Nat
      /\ taken[p] \in Nat /\ taken[p] <= MaxReplies /\ MaxReplies \in Nat
      /\ Sending(p) \in {0, 1} /\ Writing(p) \in {0, 1} /\ Written(p, Seqs) \in {0, 1}
      /\ Written(p, {"echo"}) \in {0, 1}
  BY <1>0, PingTypes DEF Sending, Writing, Written, In
<1>8. /\ msg.type = "update" => msg.data \in Replies
      /\ msg.type = "summary" => msg.summary \in Stats
  BY <1>4, MessageKinds
<1>9. ASSUME NEW q \in Pings, q # p PROVE Local(q)'
  <2>1. Local(q) /\ sock[q] # "open" /\ inbox[q] = <<>>
    BY <1>0, <1>3, <1>9, OnlyOne
  <2>2. UNCHANGED Own(q)
    BY <1>1 DEF Own
  <2> QED
    BY <1>1, <1>5, <1>9, <2>1, <2>2, Aside
<1>10. 1 \in DOMAIN inbox[p]
  BY <1>4
\* What the step shows, whichever message it is.
<1>11. /\ lines' \in Stats /\ summary' \in Stats \cup {None} /\ isPinging' \in BOOLEAN
       /\ lines'.sent = lines.sent + Adds(msg, Seqs)
       /\ lines'.received = lines.received + Adds(msg, {"echo"})
       /\ summary' = summary \/ (handler[p] = "done" /\ inbox'[p] = <<>>)
       /\ SummaryMatchesLines'
  <2>1. CASE msg.type = "update"
    <3>1. lines' = Counted(lines, msg.data, {"echo"}) /\ UNCHANGED <<isPinging, summary>>
      BY <1>1, <2>1 DEF PageCounts
    <3>2. /\ lines.sent + In(msg.data, Seqs) <= MaxReplies
          /\ lines.received + In(msg.data, {"echo"}) <= MaxReplies
      BY <1>2, <1>3, <1>6, <1>7, <2>1 DEF Bound, Adds, In
    <3>3. /\ lines'.sent = lines.sent + Adds(msg, Seqs)
          /\ lines'.received = lines.received + Adds(msg, {"echo"})
          /\ lines' \in Stats
      BY <1>7, <1>8, <2>1, <3>1, <3>2, CountedFields DEF Adds
    <3>4. SummaryMatchesLines'
      BY <1>0, <1>1, <1>2, <1>3, <3>1 DEF Silent, SummaryMatchesLines
    <3>5. summary' \in Stats \cup {None} /\ isPinging' \in BOOLEAN
      BY <1>0, <3>1 DEF TypeOK
    <3>6. summary' = summary
      BY <3>1
    <3> QED
      BY <3>3, <3>4, <3>5, <3>6
  <2>2. CASE msg.type # "update"
    <3>1. /\ isPinging' = FALSE /\ lines' = lines
          /\ summary' = IF msg.type = "summary" THEN msg.summary ELSE summary
      BY <1>1, <2>2
    <3>2. handler[p] = "done" /\ Len(inbox[p]) = 1
      BY <1>2, <1>4, <1>10, <2>2 DEF Dialog
    <3>3. inbox'[p] = <<>>
      BY <1>4, <1>5, <3>2
    <3>4. Adds(msg, Seqs) = 0 /\ Adds(msg, {"echo"}) = 0
      BY <2>2 DEF Adds
    <3>5. Count(inbox[p], Seqs) = 0 /\ Count(inbox[p], {"echo"}) = 0
      BY <1>0, <1>6, <3>3, <3>4, PingTypes
    <3>6. SummaryMatchesLines'
      <4>1. CASE msg.type = "summary"
        <5>1. /\ msg.summary.sent = lines.sent + Count(inbox[p], Seqs)
              /\ "disputed" \notin excused =>
                   msg.summary.received = lines.received + Count(inbox[p], {"echo"})
          BY <1>2, <1>4, <1>10, <4>1 DEF Tallied
        <5>2. lines.sent + 0 = lines.sent /\ lines.received + 0 = lines.received
          BY <1>7
        <5> QED
          BY <1>1, <3>1, <3>5, <4>1, <5>1, <5>2 DEF SummaryMatchesLines
      <4>2. CASE msg.type # "summary"
        BY <1>0, <1>1, <3>1, <4>2 DEF SummaryMatchesLines
      <4> QED
        BY <4>1, <4>2
    <3>7. summary' \in Stats \cup {None}
      BY <1>0, <1>8, <3>1 DEF TypeOK
    <3>8. lines.sent + 0 = lines.sent /\ lines.received + 0 = lines.received
      BY <1>7
    <3> QED
      BY <1>7, <3>1, <3>2, <3>3, <3>4, <3>6, <3>7, <3>8
  <2> QED
    BY <2>1, <2>2
<1>12. TypeOK'
  BY <1>0, <1>1, <1>5, <1>11 DEF TypeOK
<1>13. Stage(p)'
  BY <1>1, <1>2 DEF Stage
<1>14. Stoppable(p)'
  <2>1. CASE handler[p] = "done"
    BY <1>1, <2>1 DEF Stoppable
  <2>2. CASE handler[p] # "done"
    <3>1. msg.type = "update"
      BY <1>2, <1>4, <1>10, <2>2 DEF Dialog
    <3>2. UNCHANGED isPinging
      BY <1>1, <3>1
    <3> QED
      BY <1>1, <1>2, <3>2 DEF Stoppable
  <2> QED
    BY <2>1, <2>2
<1>15. Dialog(p)'
  BY <1>1, <1>2, <1>3, <1>4, <1>5 DEF Dialog
<1>16. Silent(p)'
  BY <1>0, <1>1, <1>2, <1>3, <1>11 DEF Silent
<1>17. /\ lines'.sent + Count(inbox'[p], Seqs) = lines.sent + Count(inbox[p], Seqs)
       /\ lines'.received + Count(inbox'[p], {"echo"})
            = lines.received + Count(inbox[p], {"echo"})
  BY <1>6, <1>7, <1>11 DEF Adds, In
<1>18. UNCHANGED <<Sending(p), Writing(p), Written(p, Seqs), Written(p, {"echo"})>>
  BY <1>1 DEF Sending, Writing, Written
<1>19. Bound(p)'
  BY <1>1, <1>2, <1>17, <1>18 DEF Bound
<1>20. Agree(p)'
  BY <1>1, <1>2, <1>17, <1>18 DEF Agree
<1>21. Tallied(p)'
  <2>1. ASSUME NEW i \in DOMAIN inbox'[p]
        PROVE  i + 1 \in DOMAIN inbox[p] /\ inbox'[p][i] = inbox[p][i + 1]
    BY <1>4, <1>5
  <2> QED
    BY <1>1, <1>2, <1>17, <2>1 DEF Tallied
<1> QED
  BY <1>9, <1>11, <1>12, <1>13, <1>14, <1>15, <1>16, <1>19, <1>20, <1>21 DEF Inv, Local

(***************************************************************************)
(* The handler and the pump.  What they do concerns their own ping.        *)
(***************************************************************************)
LEMMA ServerStep ==
  ASSUME Inv, NEW p \in Pings, UNCHANGED <<pageVars, sock, broken>>, excused \subseteq excused',
         \A q \in Pings \ {p} : UNCHANGED <<inbox[q], Own(q)>>,
         TypeOK', Local(p)'
  PROVE  Inv'
<1>1. ASSUME NEW q \in Pings, q # p PROVE Local(q)'
  <2>1. Local(q) /\ UNCHANGED Own(q) /\ inbox'[q] = inbox[q]
    BY <1>1 DEF Inv
  <2>2. UNCHANGED <<pingWs, isPinging, lines, summary, sock, broken>>
    BY DEF pageVars
  <2> QED
    BY <2>1, <2>2, Frame
<1>2. SummaryMatchesLines'
  BY DEF Inv, SummaryMatchesLines, pageVars
<1> QED
  BY <1>1, <1>2 DEF Inv

LEMMA LookupStep ==
  ASSUME Inv, NEW p \in Pings, Lookup(p)
  PROVE  Inv'
<1>0. TypeOK /\ Local(p)
  BY DEF Inv
<1>1. /\ handler[p] = "lookup" /\ handler' = [handler EXCEPT ![p] = "listen"]
      /\ reader' = reader \cup {p}
      /\ UNCHANGED <<pageVars, netVars, pump, carried, resp, cancelled, stats, taken,
                     abandoned, excused>>
  BY DEF Lookup, GoTo
<1>2. TypeOK'
  BY <1>0, <1>1 DEF TypeOK, pageVars, netVars
<1>3. handler'[p] = "listen" /\ \A q \in Pings \ {p} : handler'[q] = handler[q]
  BY <1>0, <1>1 DEF TypeOK
<1>4. UNCHANGED <<Sending(p), Writing(p), Written(p, Seqs), Written(p, {"echo"})>>
  BY <1>1, <1>3 DEF Sending, Writing, Written
<1>5. Stage(p)' /\ Dialog(p)' /\ Stoppable(p)' /\ Silent(p)'
  BY <1>0, <1>1, <1>3
  DEF Local, Stage, Dialog, Stoppable, Silent, pageVars, netVars
<1>6. Bound(p)' /\ Tallied(p)'
  BY <1>0, <1>1, <1>4 DEF Local, Bound, Tallied, pageVars, netVars
<1>7. Agree(p)'
  BY <1>0, <1>1, <1>3, <1>4 DEF Local, Agree, pageVars, netVars
<1>8. \A q \in Pings \ {p} : UNCHANGED <<inbox[q], Own(q)>>
  BY <1>1, <1>3 DEF Own, netVars
<1> QED
  BY <1>1, <1>2, <1>5, <1>6, <1>7, <1>8, ServerStep DEF Local, netVars

LEMMA ListenStep ==
  ASSUME Inv, NEW p \in Pings, Listen(p)
  PROVE  Inv'
<1>0. TypeOK /\ Local(p)
  BY DEF Inv
<1>1. /\ handler[p] = "listen" /\ handler' = [handler EXCEPT ![p] = "range"]
      /\ pump[p] = "none" /\ pump' = [pump EXCEPT ![p] = "select"]
      /\ UNCHANGED <<pageVars, netVars, reader, carried, resp, cancelled, stats, taken,
                     abandoned, excused>>
  BY DEF Listen, GoTo, PumpTo
<1>2. TypeOK'
  BY <1>0, <1>1 DEF TypeOK, pageVars, netVars
<1>3. /\ handler'[p] = "range" /\ pump'[p] = "select"
      /\ \A q \in Pings \ {p} : handler'[q] = handler[q] /\ pump'[q] = pump[q]
  BY <1>0, <1>1 DEF TypeOK
<1>4. UNCHANGED <<Sending(p), Writing(p), Written(p, Seqs), Written(p, {"echo"})>>
  BY <1>1, <1>3 DEF Sending, Writing, Written
<1>5. Stage(p)' /\ Dialog(p)' /\ Stoppable(p)' /\ Silent(p)'
  BY <1>0, <1>1, <1>3
  DEF Local, Stage, Dialog, Stoppable, Silent, pageVars, netVars
<1>6. Bound(p)' /\ Tallied(p)'
  BY <1>0, <1>1, <1>4 DEF Local, Bound, Tallied, pageVars, netVars
<1>7. Agree(p)'
  BY <1>0, <1>1, <1>3, <1>4 DEF Local, Agree, pageVars, netVars
<1>8. \A q \in Pings \ {p} : UNCHANGED <<inbox[q], Own(q)>>
  BY <1>1, <1>3 DEF Own, netVars
<1> QED
  BY <1>1, <1>2, <1>5, <1>6, <1>7, <1>8, ServerStep DEF Local, netVars

LEMMA ReadFailsStep ==
  ASSUME Inv, NEW p \in Pings, ReadFails(p)
  PROVE  Inv'
<1>0. TypeOK /\ Local(p)
  BY DEF Inv
<1>1. /\ reader' = reader \ {p} /\ cancelled' = cancelled \cup {p}
      /\ UNCHANGED <<pageVars, netVars, handler, pump, carried, resp, stats, taken,
                     abandoned, excused>>
  BY DEF ReadFails
<1>2. TypeOK'
  BY <1>0, <1>1 DEF TypeOK, pageVars, netVars
<1>3. \A q \in Pings : UNCHANGED <<inbox[q], Own(q)>>
  BY <1>1 DEF Own, netVars
<1>4. UNCHANGED <<pingWs, isPinging, lines, summary, sock, broken>>
  BY <1>1 DEF pageVars, netVars
<1>5. Local(p)'
  BY <1>0, <1>1, <1>3, <1>4, Frame
<1> QED
  BY <1>1, <1>2, <1>3, <1>5, ServerStep DEF netVars

LEMMA PumpEndStep ==
  ASSUME Inv, NEW p \in Pings, PumpExits(p) \/ ListenEnds(p)
  PROVE  Inv'
<1>0. TypeOK /\ Local(p)
  BY DEF Inv
<1>1. /\ pump[p] = "select" /\ pump' = [pump EXCEPT ![p] = "exited"]
      /\ UNCHANGED <<pageVars, netVars, handler, reader, carried, resp, cancelled, stats, taken,
                     abandoned, excused>>
  BY DEF PumpExits, ListenEnds, PumpTo
<1>2. TypeOK'
  BY <1>0, <1>1 DEF TypeOK, pageVars, netVars
<1>3. pump'[p] = "exited" /\ \A q \in Pings \ {p} : pump'[q] = pump[q]
  BY <1>0, <1>1 DEF TypeOK
<1>4. UNCHANGED <<Sending(p), Writing(p), Written(p, Seqs), Written(p, {"echo"})>>
  BY <1>1, <1>3 DEF Sending, Writing, Written
<1>5. Stage(p)' /\ Dialog(p)' /\ Stoppable(p)' /\ Silent(p)'
  BY <1>0, <1>1, <1>3
  DEF Local, Stage, Dialog, Stoppable, Silent, pageVars, netVars
<1>6. Bound(p)' /\ Agree(p)' /\ Tallied(p)'
  BY <1>0, <1>1, <1>4 DEF Local, Bound, Agree, Tallied, pageVars, netVars
<1>7. \A q \in Pings \ {p} : UNCHANGED <<inbox[q], Own(q)>>
  BY <1>1, <1>3 DEF Own, netVars
<1> QED
  BY <1>1, <1>2, <1>5, <1>6, <1>7, ServerStep DEF Local, netVars

LEMMA TakeStep ==
  ASSUME Inv, NEW p \in Pings, Take(p)
  PROVE  Inv'
<1>0. TypeOK /\ Local(p)
  BY DEF Inv
<1>1. PICK reply \in Replies :
        /\ taken[p] < MaxReplies /\ taken' = [taken EXCEPT ![p] = @ + 1]
        /\ pump[p] = "select" /\ pump' = [pump EXCEPT ![p] = "send"]
        /\ carried' = [carried EXCEPT ![p] = reply]
        /\ UNCHANGED <<pageVars, netVars, handler, reader, resp, cancelled, stats, abandoned,
                       excused>>
  <2>1. p \in Nat /\ p > 0 /\ taken[p] \in Nat /\ MaxReplies \in Nat
    BY <1>0, PingTypes, PingStreamAssumption
  <2>2. taken[p] < MaxReplies
    BY <2>1 DEF Take
  <2> QED
    BY <2>2 DEF Take, PumpTo
<1>2. /\ stats[p].sent \in Nat /\ stats[p].received \in Nat
      /\ lines.sent \in Nat /\ lines.received \in Nat /\ taken[p] \in Nat /\ MaxReplies \in Nat
      /\ Count(inbox[p], Seqs) \in Nat /\ Count(inbox[p], {"echo"}) \in Nat
      /\ Writing(p) \in {0, 1}
  BY <1>0, PingTypes DEF Writing
<1>3. TypeOK'
  <2>1. taken[p] + 1 \in 0 .. MaxReplies
    BY <1>1, <1>2
  <2>2. taken' \in [Pings -> 0 .. MaxReplies]
    BY <1>0, <1>1, <2>1 DEF TypeOK
  <2>3. /\ pump' \in [Pings -> {"none", "select", "send", "exited"}]
        /\ carried' \in [Pings -> Replies \cup {None}]
    BY <1>0, <1>1 DEF TypeOK
  <2> QED
    BY <1>0, <1>1, <2>2, <2>3 DEF TypeOK, pageVars, netVars
<1>4. /\ pump'[p] = "send" /\ carried'[p] = reply /\ taken'[p] = taken[p] + 1
      /\ \A q \in Pings \ {p} : UNCHANGED <<pump[q], carried[q], taken[q]>>
  BY <1>0, <1>1 DEF TypeOK
<1>5. reply # None
  BY PingStreamAssumption
<1>6. /\ Sending(p) = 0 /\ Sending(p)' = 1
      /\ UNCHANGED <<Writing(p), Written(p, Seqs), Written(p, {"echo"})>>
  BY <1>1, <1>4 DEF Sending, Writing, Written
<1>7. Stage(p)' /\ Dialog(p)' /\ Stoppable(p)' /\ Silent(p)'
  BY <1>0, <1>1, <1>4, <1>5
  DEF Local, Stage, Dialog, Stoppable, Silent, pageVars, netVars
<1>8. Agree(p)' /\ Tallied(p)'
  BY <1>0, <1>1, <1>6 DEF Local, Agree, Tallied, pageVars, netVars
<1>9. Bound(p)'
  BY <1>0, <1>1, <1>2, <1>4, <1>6 DEF Local, Bound, pageVars, netVars
<1>10. \A q \in Pings \ {p} : UNCHANGED <<inbox[q], Own(q)>>
  BY <1>1, <1>4 DEF Own, netVars
<1> QED
  BY <1>1, <1>3, <1>7, <1>8, <1>9, <1>10, ServerStep DEF Local, netVars

\* A reply goes from the pump to the handler, which counts it before it writes.
LEMMA ReceiveStep ==
  ASSUME Inv, NEW p \in Pings, Receive(p)
  PROVE  Inv'
<1> DEFINE reply == carried[p]
<1>0. TypeOK /\ Local(p)
  BY DEF Inv
<1>1. /\ handler[p] = "range" /\ handler' = [handler EXCEPT ![p] = "write"]
      /\ pump[p] = "send" /\ pump' = [pump EXCEPT ![p] = "select"]
      /\ stats' = [stats EXCEPT ![p] = HandlerCounts(stats[p], reply)]
      /\ excused' = IF reply = "disputed" THEN excused \cup {"disputed"} ELSE excused
      /\ resp' = [resp EXCEPT ![p] = reply] /\ carried' = [carried EXCEPT ![p] = None]
      /\ UNCHANGED <<pageVars, netVars, reader, cancelled, taken, abandoned>>
  BY DEF Receive, GoTo, PumpTo
<1>2. reply # None /\ reply \in Replies
  BY <1>0, <1>1 DEF Local, Stage, TypeOK
<1> HIDE DEF reply
<1>3. /\ stats[p] \in Stats /\ stats[p].sent \in Nat /\ stats[p].received \in Nat
      /\ lines.sent \in Nat /\ lines.received \in Nat
      /\ taken[p] \in Nat /\ taken[p] <= MaxReplies /\ MaxReplies \in Nat
      /\ Count(inbox[p], Seqs) \in Nat /\ Count(inbox[p], {"echo"}) \in Nat
  BY <1>0, PingTypes
<1>4. /\ Sending(p) = 1 /\ Writing(p) = 0 /\ Written(p, Seqs) = 0 /\ Written(p, {"echo"}) = 0
  BY <1>1 DEF Sending, Writing, Written
<1>5. stats[p].sent + 1 <= taken[p] /\ stats[p].received + 1 <= taken[p]
  BY <1>0, <1>4 DEF Local, Bound
<1> DEFINE heard == In(reply, {"echo", "disputed"})
<1>6. In(reply, Seqs) \in {0, 1} /\ heard \in {0, 1}
  BY DEF In
<1> HIDE DEF heard
<1>17. /\ stats[p].sent + In(reply, Seqs) <= taken[p]
       /\ stats[p].sent + In(reply, Seqs) <= MaxReplies
  <2> DEFINE seen == In(reply, Seqs)
             sent == stats[p].sent
             most == taken[p]
  <2>1. seen \in {0, 1} /\ sent \in Nat /\ most \in Nat /\ most <= MaxReplies
        /\ MaxReplies \in Nat /\ sent + 1 <= most
    BY <1>3, <1>5, <1>6
  <2> HIDE DEF seen, sent, most
  <2>2. sent + seen <= most /\ sent + seen <= MaxReplies
    BY <2>1
  <2> QED
    BY <2>2 DEF seen, sent, most
<1>18. stats[p].received + heard <= taken[p] /\ stats[p].received + heard <= MaxReplies
  <2> DEFINE received == stats[p].received
             most == taken[p]
  <2>1. heard \in {0, 1} /\ received \in Nat /\ most \in Nat /\ most <= MaxReplies
        /\ MaxReplies \in Nat /\ received + 1 <= most
    BY <1>3, <1>5, <1>6
  <2> HIDE DEF received, most
  <2>2. received + heard <= most /\ received + heard <= MaxReplies
    BY <2>1
  <2> QED
    BY <2>2 DEF received, most
<1>7. /\ HandlerCounts(stats[p], reply).sent = stats[p].sent + In(reply, Seqs)
      /\ HandlerCounts(stats[p], reply).received = stats[p].received + heard
      /\ HandlerCounts(stats[p], reply) \in Stats
  BY <1>2, <1>3, <1>17, <1>18, CountedFields DEF HandlerCounts, heard
<1>8. TypeOK'
  <2>1. /\ handler' \in [Pings -> {"none", "lookup", "listen", "range", "write", "done"}]
        /\ pump' \in [Pings -> {"none", "select", "send", "exited"}]
        /\ carried' \in [Pings -> Replies \cup {None}]
        /\ resp' \in [Pings -> Replies \cup {None}]
    BY <1>0, <1>1, <1>2 DEF TypeOK
  <2>2. stats' \in [Pings -> Stats] /\ excused' \subseteq {"late close", "disputed"}
    BY <1>0, <1>1, <1>7 DEF TypeOK
  <2> QED
    BY <1>0, <1>1, <2>1, <2>2 DEF TypeOK, pageVars, netVars
<1>9. /\ handler'[p] = "write" /\ pump'[p] = "select" /\ resp'[p] = reply /\ carried'[p] = None
      /\ stats'[p].sent = stats[p].sent + In(reply, Seqs)
      /\ stats'[p].received = stats[p].received + heard
      /\ \A q \in Pings \ {p} :
           UNCHANGED <<handler[q], pump[q], resp[q], carried[q], stats[q]>>
  BY <1>0, <1>1, <1>7 DEF TypeOK
<1>10. /\ Sending(p)' = 0 /\ Writing(p)' = 1
       /\ Written(p, Seqs)' = In(reply, Seqs) /\ Written(p, {"echo"})' = In(reply, {"echo"})
  BY <1>9 DEF Sending, Writing, Written
<1>11. excused \subseteq excused'
  BY <1>1
<1>12. Stage(p)' /\ Dialog(p)' /\ Stoppable(p)' /\ Silent(p)'
  BY <1>0, <1>1, <1>2, <1>9, <1>11
  DEF Local, Stage, Dialog, Stoppable, Silent, pageVars, netVars
<1>13. Tallied(p)'
  BY <1>0, <1>1, <1>11 DEF Local, Tallied, pageVars, netVars
<1>14. Bound(p)'
  <2>1. /\ stats'[p].sent \in Nat /\ stats'[p].received \in Nat
        /\ stats'[p].sent <= taken[p] /\ stats'[p].received <= taken[p]
    <3>1. stats'[p].sent <= taken[p] /\ stats'[p].received <= taken[p]
      BY <1>9, <1>17, <1>18
    <3>2. stats'[p] \in Stats
      BY <1>8 DEF TypeOK
    <3> QED
      BY <3>1, <3>2, StatsFields
  <2>2. sock[p] = "open" =>
          /\ lines.sent + Count(inbox[p], Seqs) + 1 + 0 <= taken[p]
          /\ lines.received + Count(inbox[p], {"echo"}) + 1 + 0 <= taken[p]
    BY <1>0, <1>3, <1>4 DEF Local, Bound
  <2>3. UNCHANGED <<lines, sock, inbox, taken>>
    BY <1>1 DEF pageVars, netVars
  <2>4. /\ stats'[p].sent + Sending(p)' <= taken[p]
        /\ stats'[p].received + Sending(p)' <= taken[p]
    BY <1>10, <2>1
  <2> QED
    BY <1>10, <2>2, <2>3, <2>4 DEF Bound
<1>15. Agree(p)'
  <2>1. SUFFICES ASSUME sock[p] = "open", p \notin broken
                 PROVE  Agree(p)'
    BY <1>1 DEF Agree, netVars
  <2>2. stats[p].sent = lines.sent + Count(inbox[p], Seqs)
    <3>1. stats[p].sent = lines.sent + Count(inbox[p], Seqs) + Written(p, Seqs)
      BY <1>0, <1>1, <2>1 DEF Local, Agree
    <3> QED
      BY <1>3, <1>4, <3>1
  <2>3. ASSUME "disputed" \notin excused
        PROVE  stats[p].received = lines.received + Count(inbox[p], {"echo"})
    <3>1. stats[p].received =
            lines.received + Count(inbox[p], {"echo"}) + Written(p, {"echo"})
      BY <1>0, <1>1, <2>1, <2>3 DEF Local, Agree
    <3> QED
      BY <1>3, <1>4, <3>1
  <2>4. "disputed" \notin excused' =>
          "disputed" \notin excused /\ heard = In(reply, {"echo"})
    BY <1>1 DEF In, heard
  <2>5. stats'[p].sent = lines.sent + Count(inbox[p], Seqs) + Written(p, Seqs)'
    BY <1>9, <1>10, <2>2
  <2>6. "disputed" \notin excused' =>
          stats'[p].received = lines.received + Count(inbox[p], {"echo"}) + Written(p, {"echo"})'
    BY <1>9, <1>10, <2>3, <2>4
  <2> QED
    BY <1>1, <2>5, <2>6 DEF Agree, pageVars, netVars
<1>16. \A q \in Pings \ {p} : UNCHANGED <<inbox[q], Own(q)>>
  BY <1>1, <1>9 DEF Own, netVars
<1> QED
  BY <1>1, <1>8, <1>11, <1>12, <1>13, <1>14, <1>15, <1>16, ServerStep DEF Local, netVars

\* A write, by a handler that has not said its last word.
LEMMA Told ==
  ASSUME Inv, NEW p \in Pings, handler[p] # "done", NEW msg \in Messages, Tell(p, msg)
  PROVE  /\ inbox' \in [Pings -> Seq(Messages)]
         /\ \A q \in Pings \ {p} : inbox'[q] = inbox[q]
         /\ inbox'[p] # <<>> => sock[p] = "open"
         /\ \A i \in DOMAIN inbox'[p] : inbox'[p][i].type # "update" =>
              /\ inbox'[p][i] = msg /\ i = Len(inbox'[p])
              /\ sock[p] = "open" /\ p \notin broken
         /\ \A those :
              /\ Count(inbox'[p], those) \in Nat
              /\ Count(inbox'[p], those) =
                   Count(inbox[p], those) +
                     (IF sock[p] = "open" /\ p \notin broken THEN Adds(msg, those) ELSE 0)
<1> DEFINE seq == inbox[p]
<1>0. TypeOK /\ Dialog(p) /\ seq \in Seq(Messages)
  BY DEF Inv, TypeOK, Local
<1>1. \A i \in DOMAIN seq : seq[i].type = "update"
  BY <1>0 DEF Dialog
<1>2. Append(seq, msg) \in Seq(Messages)
  BY <1>0
<1>3. /\ DOMAIN Append(seq, msg) = 1 .. Len(seq) + 1 /\ Append(seq, msg)[Len(seq) + 1] = msg
      /\ Len(Append(seq, msg)) = Len(seq) + 1 /\ Len(seq) \in Nat
      /\ \A i \in 1 .. Len(seq) : Append(seq, msg)[i] = seq[i] /\ i \in DOMAIN seq
  BY <1>0
<1>4. \A i \in DOMAIN Append(seq, msg) : i \in 1 .. Len(seq) \/ i = Len(seq) + 1
  BY <1>3
<1>5. CASE sock[p] = "open" /\ p \notin broken
  <2>1. inbox' = [inbox EXCEPT ![p] = Append(seq, msg)]
    BY <1>5 DEF Tell
  <2> HIDE DEF seq
  <2>2. inbox' \in [Pings -> Seq(Messages)] /\ inbox'[p] = Append(seq, msg)
    BY <1>0, <1>2, <2>1 DEF TypeOK
  <2>3. \A q \in Pings \ {p} : inbox'[q] = inbox[q]
    BY <1>0, <2>1 DEF TypeOK
  <2>4. ASSUME NEW i \in DOMAIN inbox'[p], inbox'[p][i].type # "update"
        PROVE  inbox'[p][i] = msg /\ i = Len(inbox'[p])
    BY <1>1, <1>3, <1>4, <2>2, <2>4
  <2>5. ASSUME NEW those
        PROVE  /\ Count(inbox'[p], those) \in Nat
               /\ Count(inbox'[p], those) = Count(inbox[p], those) + Adds(msg, those)
    <3>1. Count(Append(seq, msg), those) \in Nat
      BY <1>2, UpdatesFinite
    <3>2. Count(Append(seq, msg), those) = Count(seq, those) + Adds(msg, those)
      BY <1>0, CountAppend
    <3> QED
      BY <2>2, <3>1, <3>2 DEF seq
  <2> QED
    BY <1>5, <2>2, <2>3, <2>4, <2>5
<1>6. CASE ~(sock[p] = "open" /\ p \notin broken)
  <2>1. inbox' = inbox
    BY <1>6 DEF Tell
  <2>2. inbox[p] # <<>> => sock[p] = "open"
    BY <1>0 DEF Dialog
  <2>3. ASSUME NEW those
        PROVE  Count(inbox[p], those) \in Nat /\ Count(inbox[p], those) = Count(inbox[p], those) + 0
    BY <1>0, UpdatesFinite
  <2> QED
    BY <1>0, <1>1, <1>6, <2>1, <2>2, <2>3 DEF TypeOK
<1> QED
  BY <1>5, <1>6

LEMMA RefuseStep ==
  ASSUME Inv, NEW p \in Pings, Refuse(p)
  PROVE  Inv'
<1>0. TypeOK /\ Local(p)
  BY DEF Inv
<1>1. /\ handler[p] \in {"lookup", "listen"} /\ handler' = [handler EXCEPT ![p] = "done"]
      /\ Tell(p, Error)
      /\ cancelled' = IF handler[p] = "listen" THEN cancelled \cup {p} ELSE cancelled
      /\ UNCHANGED <<pingWs, isPinging, lines, summary, sock, broken, reader, pump, carried,
                     resp, stats, taken, abandoned, excused>>
  BY DEF Refuse, pageVars
<1>2. Error \in Messages /\ Error.type = "error"
  BY MessageKinds
<1>3. handler[p] # "done"
  BY <1>1
<1>4. /\ inbox' \in [Pings -> Seq(Messages)]
      /\ \A q \in Pings \ {p} : inbox'[q] = inbox[q]
      /\ inbox'[p] # <<>> => sock[p] = "open"
      /\ \A i \in DOMAIN inbox'[p] : inbox'[p][i].type # "update" =>
           inbox'[p][i] = Error /\ i = Len(inbox'[p])
  BY <1>1, <1>2, <1>3, Told
<1>5. /\ Count(inbox[p], Seqs) \in Nat /\ Count(inbox[p], {"echo"}) \in Nat
      /\ Adds(Error, Seqs) = 0 /\ Adds(Error, {"echo"}) = 0
  BY <1>0, <1>2, PingTypes DEF Adds
<1>6. /\ Count(inbox'[p], Seqs) = Count(inbox[p], Seqs)
      /\ Count(inbox'[p], {"echo"}) = Count(inbox[p], {"echo"})
  BY <1>1, <1>2, <1>3, <1>5, Told
<1>7. TypeOK'
  BY <1>0, <1>1, <1>4 DEF TypeOK
<1>8. handler'[p] = "done" /\ \A q \in Pings \ {p} : handler'[q] = handler[q]
  BY <1>0, <1>1 DEF TypeOK
<1>9. Stage(p)' /\ Stoppable(p)'
  BY <1>0, <1>1, <1>8 DEF Local, Stage, Stoppable
<1>10. Silent(p)' /\ Agree(p)'
  BY <1>0, <1>1, <1>8 DEF Local, Silent, Agree
<1>11. Dialog(p)'
  BY <1>0, <1>1, <1>4, <1>8 DEF Local, Dialog
<1>12. Tallied(p)'
  BY <1>2, <1>4 DEF Tallied
<1>13. UNCHANGED <<Sending(p), Writing(p)>>
  BY <1>1, <1>8 DEF Sending, Writing
<1>14. Bound(p)'
  BY <1>0, <1>1, <1>6, <1>13 DEF Local, Bound
<1>15. \A q \in Pings \ {p} : UNCHANGED <<inbox[q], Own(q)>>
  BY <1>1, <1>4, <1>8 DEF Own
<1> QED
  BY <1>1, <1>7, <1>9, <1>10, <1>11, <1>12, <1>14, <1>15, ServerStep DEF Local, pageVars

\* The counted reply leaves for the page.
LEMMA WriteStep ==
  ASSUME Inv, NEW p \in Pings, Write(p)
  PROVE  Inv'
<1> DEFINE reply == resp[p]
           msg == Update(reply)
<1>0. TypeOK /\ Local(p)
  BY DEF Inv
<1>1. /\ handler[p] = "write" /\ handler' = [handler EXCEPT ![p] = "range"]
      /\ Tell(p, msg) /\ resp' = [resp EXCEPT ![p] = None]
      /\ UNCHANGED <<pingWs, isPinging, lines, summary, sock, broken, reader, pump, carried,
                     cancelled, stats, taken, abandoned, excused>>
  BY DEF Write, GoTo, pageVars
<1>2. reply \in Replies
  BY <1>0, <1>1 DEF Local, Stage, TypeOK
<1>3. msg \in Messages /\ msg.type = "update" /\ msg.data = reply
  BY <1>2, MessageKinds
<1> HIDE DEF msg, reply
<1>4. handler[p] # "done"
  BY <1>1
<1>5. /\ inbox' \in [Pings -> Seq(Messages)]
      /\ \A q \in Pings \ {p} : inbox'[q] = inbox[q]
      /\ inbox'[p] # <<>> => sock[p] = "open"
      /\ \A i \in DOMAIN inbox'[p] : inbox'[p][i].type = "update"
  BY <1>1, <1>3, <1>4, Told
<1>6. \A those :
        /\ Count(inbox'[p], those) \in Nat
        /\ Count(inbox'[p], those) =
             Count(inbox[p], those) +
               (IF sock[p] = "open" /\ p \notin broken THEN In(reply, those) ELSE 0)
  <2> SUFFICES ASSUME NEW those
               PROVE  /\ Count(inbox'[p], those) \in Nat
                      /\ Count(inbox'[p], those) =
                           Count(inbox[p], those) +
                             (IF sock[p] = "open" /\ p \notin broken
                                THEN In(reply, those) ELSE 0)
    OBVIOUS
  <2>1. Adds(msg, those) = In(reply, those)
    BY <1>3 DEF Adds
  <2>2. /\ Count(inbox'[p], those) \in Nat
        /\ Count(inbox'[p], those) =
             Count(inbox[p], those) +
               (IF sock[p] = "open" /\ p \notin broken THEN Adds(msg, those) ELSE 0)
    BY <1>1, <1>3, <1>4, Told
  <2> QED
    BY <2>1, <2>2
<1>7. TypeOK'
  <2>1. /\ handler' \in [Pings -> {"none", "lookup", "listen", "range", "write", "done"}]
        /\ resp' \in [Pings -> Replies \cup {None}]
    BY <1>0, <1>1 DEF TypeOK
  <2> QED
    BY <1>0, <1>1, <1>5, <2>1 DEF TypeOK
<1>8. /\ handler'[p] = "range" /\ resp'[p] = None
      /\ \A q \in Pings \ {p} : handler'[q] = handler[q] /\ resp'[q] = resp[q]
  BY <1>0, <1>1 DEF TypeOK
<1>9. Stage(p)' /\ Stoppable(p)'
  BY <1>0, <1>1, <1>8 DEF Local, Stage, Stoppable
<1>10. Silent(p)'
  BY <1>0, <1>1, <1>8 DEF Local, Silent
<1>11. Dialog(p)'
  BY <1>0, <1>1, <1>5 DEF Local, Dialog
<1>12. Tallied(p)'
  BY <1>5 DEF Tallied
<1>13. /\ stats[p].sent \in Nat /\ stats[p].received \in Nat
       /\ lines.sent \in Nat /\ lines.received \in Nat /\ taken[p] \in Nat
       /\ Count(inbox[p], Seqs) \in Nat /\ Count(inbox[p], {"echo"}) \in Nat
  BY <1>0, PingTypes
<1>14. /\ Writing(p) = 1 /\ Writing(p)' = 0 /\ Sending(p)' = Sending(p) /\ Sending(p) \in {0, 1}
       /\ Written(p, Seqs) = In(reply, Seqs) /\ Written(p, Seqs)' = 0
       /\ Written(p, {"echo"}) = In(reply, {"echo"}) /\ Written(p, {"echo"})' = 0
  BY <1>1, <1>8 DEF Writing, Sending, Written, reply
<1>15. In(reply, Seqs) \in {0, 1} /\ In(reply, {"echo"}) \in {0, 1}
  BY DEF In
<1>16. Bound(p)'
  <2>1. /\ Count(inbox'[p], Seqs) \in Nat /\ Count(inbox'[p], Seqs) <= Count(inbox[p], Seqs) + 1
        /\ Count(inbox'[p], {"echo"}) \in Nat
        /\ Count(inbox'[p], {"echo"}) <= Count(inbox[p], {"echo"}) + 1
    BY <1>6, <1>13, <1>15
  <2>2. sock[p] = "open" =>
          /\ lines.sent + Count(inbox[p], Seqs) + 1 + Sending(p) <= taken[p]
          /\ lines.received + Count(inbox[p], {"echo"}) + 1 + Sending(p) <= taken[p]
    BY <1>0, <1>14 DEF Local, Bound
  <2>3. sock[p] = "open" =>
          /\ lines.sent + Count(inbox'[p], Seqs) + 0 + Sending(p) <= taken[p]
          /\ lines.received + Count(inbox'[p], {"echo"}) + 0 + Sending(p) <= taken[p]
    BY <1>13, <1>14, <2>1, <2>2
  <2>4. stats[p].sent + Sending(p) <= taken[p] /\ stats[p].received + Sending(p) <= taken[p]
    BY <1>0 DEF Local, Bound
  <2> QED
    BY <1>1, <1>14, <2>3, <2>4 DEF Bound
<1>17. Agree(p)'
  <2>1. SUFFICES ASSUME sock[p] = "open", p \notin broken
                 PROVE  Agree(p)'
    BY <1>1 DEF Agree
  <2>2. /\ Count(inbox'[p], Seqs) = Count(inbox[p], Seqs) + In(reply, Seqs)
        /\ Count(inbox'[p], {"echo"}) = Count(inbox[p], {"echo"}) + In(reply, {"echo"})
    BY <1>6, <2>1
  <2>3. stats[p].sent = lines.sent + Count(inbox'[p], Seqs) + 0
    <3>1. stats[p].sent = lines.sent + Count(inbox[p], Seqs) + In(reply, Seqs)
      BY <1>0, <1>4, <1>14, <2>1 DEF Local, Agree
    <3> QED
      BY <1>13, <1>15, <2>2, <3>1
  <2>4. ASSUME "disputed" \notin excused
        PROVE  stats[p].received = lines.received + Count(inbox'[p], {"echo"}) + 0
    <3>1. stats[p].received = lines.received + Count(inbox[p], {"echo"}) + In(reply, {"echo"})
      BY <1>0, <1>4, <1>14, <2>1, <2>4 DEF Local, Agree
    <3> QED
      BY <1>13, <1>15, <2>2, <3>1
  <2> QED
    BY <1>1, <1>14, <2>3, <2>4 DEF Agree
<1>18. \A q \in Pings \ {p} : UNCHANGED <<inbox[q], Own(q)>>
  BY <1>1, <1>5, <1>8 DEF Own
<1> QED
  BY <1>1, <1>7, <1>9, <1>10, <1>11, <1>12, <1>16, <1>17, <1>18, ServerStep DEF Local, pageVars

\* The handler leaves its loop: the browser that hears of it has seen every
\* reply that was counted.
LEMMA SummariseStep ==
  ASSUME Inv, NEW p \in Pings, WriteFails(p) \/ RangeEnds(p)
  PROVE  Inv'
<1> DEFINE count == stats[p]
           msg == Summary(count)
<1>0. TypeOK /\ Local(p)
  BY DEF Inv
<1>1. /\ handler' = [handler EXCEPT ![p] = "done"]
      /\ \/ handler[p] = "write" /\ (p \in broken \/ sock[p] = "closed")
         \/ handler[p] = "range" /\ pump[p] = "exited"
      /\ Tell(p, msg) /\ cancelled' = cancelled \cup {p}
      /\ stats' = [stats EXCEPT ![p] = NoStats] /\ resp' = [resp EXCEPT ![p] = None]
      /\ abandoned' \in {abandoned, abandoned \cup {p}}
      /\ UNCHANGED <<pingWs, isPinging, lines, summary, sock, broken, reader, pump, carried,
                     taken, excused>>
  BY DEF WriteFails, RangeEnds, Summarise, GoTo, pageVars
<1>2. /\ count \in Stats /\ count.sent \in Nat /\ count.received \in Nat
      /\ lines.sent \in Nat /\ lines.received \in Nat /\ taken[p] \in Nat
      /\ Count(inbox[p], Seqs) \in Nat /\ Count(inbox[p], {"echo"}) \in Nat
  BY <1>0, PingTypes
<1>3. msg \in Messages /\ msg.type = "summary" /\ msg.summary = count
  BY <1>2, MessageKinds
<1> HIDE DEF msg
<1>4. handler[p] # "done"
  BY <1>1
<1>5. /\ inbox' \in [Pings -> Seq(Messages)]
      /\ \A q \in Pings \ {p} : inbox'[q] = inbox[q]
      /\ inbox'[p] # <<>> => sock[p] = "open"
      /\ \A i \in DOMAIN inbox'[p] : inbox'[p][i].type # "update" =>
           /\ inbox'[p][i] = msg /\ i = Len(inbox'[p])
           /\ sock[p] = "open" /\ p \notin broken
  BY <1>1, <1>3, <1>4, Told
<1>6. Adds(msg, Seqs) = 0 /\ Adds(msg, {"echo"}) = 0
  BY <1>3 DEF Adds
<1>7. /\ Count(inbox'[p], Seqs) = Count(inbox[p], Seqs)
      /\ Count(inbox'[p], {"echo"}) = Count(inbox[p], {"echo"})
  BY <1>1, <1>2, <1>3, <1>4, <1>6, Told
<1>8. NoStats \in Stats /\ NoStats.sent = 0 /\ NoStats.received = 0
  BY PingStreamAssumption DEF NoStats, Stats
<1>9. TypeOK'
  <2>1. /\ handler' \in [Pings -> {"none", "lookup", "listen", "range", "write", "done"}]
        /\ resp' \in [Pings -> Replies \cup {None}] /\ stats' \in [Pings -> Stats]
    BY <1>0, <1>1, <1>8 DEF TypeOK
  <2> QED
    BY <1>0, <1>1, <1>5, <2>1 DEF TypeOK
<1>10. /\ handler'[p] = "done" /\ resp'[p] = None /\ stats'[p] = NoStats
       /\ \A q \in Pings \ {p} : UNCHANGED <<handler[q], resp[q], stats[q]>>
  BY <1>0, <1>1 DEF TypeOK
<1>11. Stage(p)' /\ Stoppable(p)'
  BY <1>0, <1>1, <1>10 DEF Local, Stage, Stoppable
<1>12. Silent(p)' /\ Agree(p)'
  BY <1>0, <1>1, <1>4, <1>10 DEF Local, Silent, Agree
<1>13. Dialog(p)'
  BY <1>0, <1>1, <1>5, <1>10 DEF Local, Dialog
<1>14. Tallied(p)'
  <2>1. SUFFICES ASSUME NEW i \in DOMAIN inbox'[p], inbox'[p][i].type = "summary"
                 PROVE  /\ inbox'[p][i].summary.sent = lines.sent + Count(inbox[p], Seqs)
                        /\ "disputed" \notin excused =>
                             inbox'[p][i].summary.received =
                               lines.received + Count(inbox[p], {"echo"})
    BY <1>1, <1>7 DEF Tallied
  <2>2. /\ inbox'[p][i].summary = count /\ sock[p] = "open" /\ p \notin broken
        /\ handler[p] = "range"
    BY <1>1, <1>3, <1>5, <2>1
  <2>3. Written(p, Seqs) = 0 /\ Written(p, {"echo"}) = 0
    BY <2>2 DEF Written
  <2>4. count.sent = lines.sent + Count(inbox[p], Seqs)
    <3>1. count.sent = lines.sent + Count(inbox[p], Seqs) + Written(p, Seqs)
      BY <1>0, <1>4, <2>2 DEF Local, Agree
    <3> QED
      BY <1>2, <2>3, <3>1
  <2>5. ASSUME "disputed" \notin excused
        PROVE  count.received = lines.received + Count(inbox[p], {"echo"})
    <3>1. count.received = lines.received + Count(inbox[p], {"echo"}) + Written(p, {"echo"})
      BY <1>0, <1>4, <2>2, <2>5 DEF Local, Agree
    <3> QED
      BY <1>2, <2>3, <3>1
  <2> QED
    BY <2>2, <2>4, <2>5
<1>15. Bound(p)'
  <2>1. /\ Sending(p)' = Sending(p) /\ Sending(p) \in {0, 1}
        /\ Writing(p)' = 0 /\ Writing(p) \in {0, 1}
    BY <1>1, <1>10 DEF Sending, Writing
  <2>2. Sending(p) <= taken[p]
    BY <1>0, <1>2, <2>1 DEF Local, Bound
  <2>3. sock[p] = "open" =>
          /\ lines.sent + Count(inbox[p], Seqs) + 0 + Sending(p) <= taken[p]
          /\ lines.received + Count(inbox[p], {"echo"}) + 0 + Sending(p) <= taken[p]
    <3>1. sock[p] = "open" =>
            /\ lines.sent + Count(inbox[p], Seqs) + Writing(p) + Sending(p) <= taken[p]
            /\ lines.received + Count(inbox[p], {"echo"}) + Writing(p) + Sending(p) <= taken[p]
      BY <1>0 DEF Local, Bound
    <3> QED
      BY <1>2, <2>1, <3>1
  <2>4. 0 + Sending(p) <= taken[p]
    BY <2>1, <2>2
  <2> QED
    BY <1>1, <1>7, <1>8, <1>10, <2>1, <2>3, <2>4 DEF Bound
<1>16. \A q \in Pings \ {p} : UNCHANGED <<inbox[q], Own(q)>>
  BY <1>1, <1>5, <1>10 DEF Own
<1> QED
  BY <1>1, <1>9, <1>11, <1>12, <1>13, <1>14, <1>15, <1>16, ServerStep DEF Local, pageVars

(***************************************************************************)
(* Every step keeps the invariant.                                         *)
(***************************************************************************)
LEMMA NextStep == Inv /\ [Next]_vars => Inv'
<1> SUFFICES ASSUME Inv, [Next]_vars PROVE Inv'
  OBVIOUS
<1>1. ASSUME NEW p \in Pings, Page(p) PROVE Inv'
  BY <1>1, StartPingStep, MessageStep, OnCloseStep DEF Page
<1>2. ASSUME NEW p \in Pings, Handler(p) PROVE Inv'
  BY <1>2, LookupStep, RefuseStep, ListenStep, ReceiveStep, WriteStep, SummariseStep DEF Handler
<1>3. ASSUME NEW p \in Pings, Pump(p) PROVE Inv'
  BY <1>3, TakeStep, PumpEndStep DEF Pump
<1>4. ASSUME NEW p \in Pings, Break(p) \/ ReadFails(p) PROVE Inv'
  BY <1>4, BreakStep, ReadFailsStep
<1>5. ASSUME TogglePing \/ ClosePingModal PROVE Inv'
  BY <1>5, CloseStep
<1>6. CASE UNCHANGED vars
  <2>1. /\ UNCHANGED <<pingWs, isPinging, lines, summary, sock, inbox, broken, handler, reader,
                       pump, carried, resp, cancelled, stats, taken, abandoned, excused>>
    BY <1>6 DEF vars, pageVars, netVars, serverVars
  <2>2. TypeOK'
    BY <2>1 DEF Inv, TypeOK
  <2>3. ASSUME NEW q \in Pings PROVE Local(q)'
    <3>1. Local(q) /\ UNCHANGED Own(q)
      BY <2>1 DEF Inv, Own
    <3> QED
      BY <2>1, <3>1, Frame
  <2>4. SummaryMatchesLines'
    BY <2>1 DEF Inv, SummaryMatchesLines
  <2> QED
    BY <2>2, <2>3, <2>4 DEF Inv
<1> QED
  BY <1>1, <1>2, <1>3, <1>4, <1>5, <1>6 DEF Next

LEMMA Invariant == Spec => []Inv
  BY InitInv, NextStep, PTL DEF Spec

(***************************************************************************)
(* The theorems.                                                           *)
(***************************************************************************)

\* The variables always have the values that TypeOK gives them; handlers, pumps
\* and what they carry go together; and no reply is counted twice: what a side has
\* counted, together with what it is still to count, is never more than what the
\* router has sent.
THEOREM TypeCorrect == Spec => [](TypeOK /\ \A p \in Pings : Stage(p) /\ Bound(p))
<1>1. Inv => TypeOK /\ \A p \in Pings : Stage(p) /\ Bound(p)
  BY DEF Inv, Local
<1> QED
  BY <1>1, Invariant, PTL

\* However many pings are started, stopped and broken off, an open socket is that
\* of the dialog, and the button stops a ping that may still send replies, unless
\* the close event of an earlier one has ended the display.
THEOREM StopCorrect == Spec => []PingCanBeStopped
<1>1. Inv => PingCanBeStopped
  BY DEF Inv, Local, Dialog, Stoppable, PingCanBeStopped
<1> QED
  BY <1>1, Invariant, PTL

\* Whichever side has counted, and whatever has ended the ping, the statistics
\* are those of the lines on the screen: a summary that arrives comes after all
\* the replies that the handler has counted.
THEOREM SummaryCorrect == Spec => []SummaryMatchesLines
<1>1. Inv => SummaryMatchesLines
  BY DEF Inv
<1> QED
  BY <1>1, Invariant, PTL

(***************************************************************************)
(* Statistics are final.                                                   *)
(***************************************************************************)

\* A ping that is shown as running has no statistics yet.
ShownAtEnd == summary # None => ~isPinging

LEMMA ShownStep == ShownAtEnd /\ [Next]_vars => ShownAtEnd'
<1> SUFFICES ASSUME ShownAtEnd, [Next]_vars PROVE ShownAtEnd'
  OBVIOUS
<1>1. CASE UNCHANGED <<summary, isPinging>>
  BY <1>1 DEF ShownAtEnd
<1>2. ASSUME NEW p \in Pings, StartPing(p) PROVE ShownAtEnd'
  BY <1>2 DEF StartPing, OpenPingModal, ShownAtEnd
<1>3. ASSUME NEW p \in Pings, Message(p) PROVE ShownAtEnd'
  BY <1>3 DEF Message, ShownAtEnd
<1>4. ASSUME NEW p \in Pings, OnClose(p) PROVE ShownAtEnd'
  BY <1>4 DEF OnClose, ShownAtEnd
<1>5. CASE ClosePingModal
  BY <1>5 DEF ClosePingModal, ShownAtEnd
<1>6. ASSUME NEW p \in Pings,
             Break(p) \/ Handler(p) \/ ReadFails(p) \/ Pump(p) \/ TogglePing
      PROVE  ShownAtEnd'
  <2>1. UNCHANGED pageVars
    BY <1>6 DEF Break, Handler, Lookup, Refuse, Listen, Receive, Write, WriteFails,
       RangeEnds, Summarise, ReadFails, Pump, Take, PumpExits, ListenEnds, TogglePing
  <2> QED
    BY <1>1, <2>1 DEF pageVars
<1>7. CASE TogglePing
  BY <1>1, <1>7 DEF TogglePing, pageVars
<1> QED
  BY <1>1, <1>2, <1>3, <1>4, <1>5, <1>6, <1>7 DEF Next, Page, vars, pageVars

\* Only the page changes what it shows.
LEMMA FinalStep ==
  Inv /\ ShownAtEnd /\ [Next]_vars
    => (summary # None /\ summary' # None /\ "late close" \notin excused'
          => UNCHANGED <<summary, lines>>)
<1> SUFFICES ASSUME Inv, ShownAtEnd, [Next]_vars, summary # None, summary' # None,
                    "late close" \notin excused'
             PROVE  UNCHANGED <<summary, lines>>
  OBVIOUS
<1>1. ASSUME NEW p \in Pings, StartPing(p) PROVE FALSE
  BY <1>1 DEF StartPing, OpenPingModal
<1>2. ASSUME NEW p \in Pings, Message(p) PROVE FALSE
  <2>1. Local(p) /\ inbox[p] # <<>> /\ UNCHANGED excused
    BY <1>2 DEF Inv, Message
  <2> QED
    BY <2>1 DEF Local, Dialog, Silent
<1>3. ASSUME NEW p \in Pings, OnClose(p) PROVE UNCHANGED <<summary, lines>>
  BY <1>3 DEF OnClose, ShownAtEnd
<1>4. ASSUME NEW p \in Pings, Break(p) \/ Handler(p) \/ ReadFails(p) \/ Pump(p)
      PROVE  UNCHANGED <<summary, lines>>
  BY <1>4 DEF Break, Handler, Lookup, Refuse, Listen, Receive, Write, WriteFails,
     RangeEnds, Summarise, ReadFails, Pump, Take, PumpExits, ListenEnds, pageVars
<1>5. ASSUME TogglePing \/ ClosePingModal PROVE UNCHANGED <<summary, lines>>
  BY <1>5 DEF TogglePing, ClosePingModal, pageVars
<1> QED
  BY <1>1, <1>2, <1>3, <1>4, <1>5 DEF Next, Page, vars, pageVars

\* Once statistics are shown, nothing that arrives later changes them or the lines
\* they are about: the handler says nothing after its summary, and the close event
\* finds the display stopped.
THEOREM FinalCorrect == Spec => StatisticsAreFinal
<1>1. Init => ShownAtEnd
  BY DEF Init, ShownAtEnd
<1>2. Spec => []ShownAtEnd
  BY <1>1, ShownStep, PTL DEF Spec
<1> QED
  BY <1>2, Invariant, FinalStep, PTL DEF Spec, StatisticsAreFinal

(***************************************************************************)
(* A ping whose browser has gone does not wait for a reply.                *)
(***************************************************************************)

\* As long as its handler has not ended, somebody listens to the browser or the
\* context is cancelled already.
Listened ==
  \A p \in Pings : handler[p] \in {"listen", "range", "write"} => p \in reader \cup cancelled

\* A handler that has left its loop has left the pump alone only if a write to the
\* browser failed.
Left ==
  \A p \in Pings :
    handler[p] = "done" /\ p \notin abandoned => pump[p] \in {"none", "exited"}

\* Whoever has to move next does not depend on a reply: the pump at its send has a
\* handler to take what it carries, and the pump at its select is cancelled, or
\* the reader will cancel it when the browser has gone.  When the handler is done,
\* so is its pump, unless a write failed.
DeparturesAreHeard ==
  /\ \A p \in Pings :
       handler[p] = "range" =>
         \/ pump[p] \in {"send", "exited"}
         \/ pump[p] = "select" /\ p \in reader \cup cancelled
  /\ Left

LEMMA ListenedStep == Inv /\ Listened /\ [Next]_vars => Listened'
<1> SUFFICES ASSUME Inv, Listened, [Next]_vars, NEW p \in Pings,
                    handler'[p] \in {"listen", "range", "write"}
             PROVE  p \in reader' \cup cancelled'
  BY DEF Listened
<1>1. handler \in [Pings -> {"none", "lookup", "listen", "range", "write", "done"}]
  BY DEF Inv, TypeOK
<1>2. handler[p] \in {"listen", "range", "write"} => p \in reader \cup cancelled
  BY DEF Listened
<1>3. ASSUME NEW q \in Pings, StartPing(q) PROVE p \in reader' \cup cancelled'
  BY <1>1, <1>2, <1>3 DEF StartPing
<1>4. ASSUME NEW q \in Pings, Lookup(q) PROVE p \in reader' \cup cancelled'
  BY <1>1, <1>2, <1>4 DEF Lookup, GoTo
<1>5. ASSUME NEW q \in Pings, ReadFails(q) PROVE p \in reader' \cup cancelled'
  BY <1>2, <1>5 DEF ReadFails
<1>6. ASSUME NEW q \in Pings, Refuse(q) \/ WriteFails(q) \/ RangeEnds(q)
      PROVE  p \in reader' \cup cancelled'
  BY <1>1, <1>2, <1>6 DEF Refuse, WriteFails, RangeEnds, Summarise, GoTo
<1>7. ASSUME NEW q \in Pings, Listen(q) \/ Receive(q) \/ Write(q)
      PROVE  p \in reader' \cup cancelled'
  BY <1>1, <1>2, <1>7 DEF Listen, Receive, Write, GoTo
<1>8. ASSUME NEW q \in Pings, Message(q) \/ OnClose(q) \/ Break(q) \/ Pump(q)
      PROVE  p \in reader' \cup cancelled'
  BY <1>2, <1>8 DEF Message, OnClose, Break, Pump, Take, PumpExits, ListenEnds, serverVars
<1>9. ASSUME TogglePing \/ ClosePingModal PROVE p \in reader' \cup cancelled'
  BY <1>2, <1>9 DEF TogglePing, ClosePingModal, serverVars
<1> QED
  BY <1>2, <1>3, <1>4, <1>5, <1>6, <1>7, <1>8, <1>9 DEF Next, Page, Handler, vars, serverVars

LEMMA LeftStep == Inv /\ Left /\ [Next]_vars => Left'
<1> SUFFICES ASSUME Inv, Left, [Next]_vars, NEW p \in Pings,
                    handler'[p] = "done", p \notin abandoned'
             PROVE  pump'[p] \in {"none", "exited"}
  BY DEF Left
<1>1. /\ handler \in [Pings -> {"none", "lookup", "listen", "range", "write", "done"}]
      /\ pump \in [Pings -> {"none", "select", "send", "exited"}]
      /\ Stage(p)
  BY DEF Inv, TypeOK, Local
<1>2. handler[p] = "done" /\ p \notin abandoned => pump[p] \in {"none", "exited"}
  BY DEF Left
<1>3. ASSUME NEW q \in Pings, StartPing(q) PROVE pump'[p] \in {"none", "exited"}
  BY <1>1, <1>2, <1>3 DEF StartPing
<1>4. ASSUME NEW q \in Pings, Lookup(q) \/ Write(q) PROVE pump'[p] \in {"none", "exited"}
  BY <1>1, <1>2, <1>4 DEF Lookup, Write, GoTo
<1>5. ASSUME NEW q \in Pings, Refuse(q) PROVE pump'[p] \in {"none", "exited"}
  BY <1>1, <1>2, <1>5 DEF Refuse, Stage
<1>6. ASSUME NEW q \in Pings, WriteFails(q) \/ RangeEnds(q)
      PROVE  pump'[p] \in {"none", "exited"}
  BY <1>1, <1>2, <1>6 DEF WriteFails, RangeEnds, Summarise, GoTo
<1>7. ASSUME NEW q \in Pings, Listen(q) \/ Receive(q) PROVE pump'[p] \in {"none", "exited"}
  BY <1>1, <1>2, <1>7 DEF Listen, Receive, GoTo, PumpTo
<1>8. ASSUME NEW q \in Pings, Pump(q) PROVE pump'[p] \in {"none", "exited"}
  BY <1>1, <1>2, <1>8 DEF Pump, Take, PumpExits, ListenEnds, PumpTo
<1>9. ASSUME NEW q \in Pings, Message(q) \/ OnClose(q) \/ Break(q) \/ ReadFails(q)
      PROVE  pump'[p] \in {"none", "exited"}
  BY <1>2, <1>9 DEF Message, OnClose, Break, ReadFails, serverVars
<1>10. ASSUME TogglePing \/ ClosePingModal PROVE pump'[p] \in {"none", "exited"}
  BY <1>2, <1>10 DEF TogglePing, ClosePingModal, serverVars
<1> QED
  BY <1>2, <1>3, <1>4, <1>5, <1>6, <1>7, <1>8, <1>9, <1>10
  DEF Next, Page, Handler, vars, serverVars

\* What DeparturesEndPings rests on, for any number of pings and replies: a handler
\* whose browser has gone is never left waiting for a reply that need not come, and
\* leaves a pump behind only when it was writing to that browser.
THEOREM DeparturesHeard == Spec => []DeparturesAreHeard
<1>1. Init => Listened /\ Left
  BY DEF Init, Listened, Left
<1>2. Spec => []Listened /\ []Left
  BY <1>1, Invariant, ListenedStep, LeftStep, PTL DEF Spec
<1>3. Inv /\ Listened /\ Left => DeparturesAreHeard
  <2> SUFFICES ASSUME Inv, Listened, Left, NEW p \in Pings, handler[p] = "range"
               PROVE  \/ pump[p] \in {"send", "exited"}
                      \/ pump[p] = "select" /\ p \in reader \cup cancelled
    BY DEF DeparturesAreHeard
  <2>1. pump[p] \in {"select", "send", "exited"}
    BY DEF Inv, TypeOK, Local, Stage
  <2> QED
    BY <2>1 DEF Listened
<1> QED
  BY <1>2, <1>3, Invariant, PTL
=============================================================================
