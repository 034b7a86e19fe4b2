---------------------------- MODULE DashboardProofs ----------------------------
(***************************************************************************)
(* Proofs about Dashboard, for any number of customers, clicks and events: *)
(* TypeInv is inductive; over it the two properties of the streams are     *)
(* inductive as they stand, and SelectedIsCurrent follows from CurrentInv. *)
(***************************************************************************)
EXTENDS Dashboard, FiniteSetTheorems, TLAPS

(***************************************************************************)
(* Types.  Every stream is owed to a click, to an event or to the answer   *)
(* of the page load.                                                       *)
(***************************************************************************)
PlainOK ==
  /\ status \in [Customers -> Status]
  /\ ws \in BOOLEAN
  /\ listAnswer \in {"asked", "read", "done", "failed"}
  /\ urlAnswer \in Status \cup {"asked", "done"}
  /\ list \in [Customers -> Status]
  /\ own \in Status
  /\ selected \in Selection \cup {None}
  /\ stale \subseteq Selection
  /\ excused \subseteq {"timer", "late timer", "late answer"}

\* The rows and the events that are still to be published: each is of a write of its
\* own, and the one of the last write to a row says what the row says.
ServerOK ==
  /\ creating \subseteq Created /\ unsent \subseteq Write /\ IsFiniteSet(unsent)
  /\ wrote \in [Customers -> 0 .. changes] /\ told \in [Customers -> 0 .. changes]
  /\ \A u \in unsent :
       u.n <= changes /\ (u.n = wrote[u.id] => u.status = status[u.id])

Owed == Cardinality(unsent)

SeqOK == events \in Seq(Event) /\ streams \in Seq(Stream)

CountOK ==
  /\ clicks \in 0 .. MaxClicks /\ changes \in 0 .. MaxChanges
  /\ drops \in 0 .. MaxDrops
  /\ timers \in Nat /\ trafficWs \in 0 .. Len(streams)
  /\ timers + Len(events) + Owed <= changes
  /\ Len(streams) + timers + Len(events) + Owed
       <= clicks + changes + (IF urlAnswer = "done" THEN 1 ELSE 0)

\* Before anything is selected, nothing is streamed.
NobodyInv == selected = None => timers = 0 /\ Len(streams) = 0

TypeInv == PlainOK /\ ServerOK /\ SeqOK /\ CountOK /\ NobodyInv

LEMMA TypeInit == Init => TypeInv
<1> SUFFICES ASSUME Init PROVE TypeInv
  OBVIOUS
<1>1. Owed = 0 /\ IsFiniteSet(unsent)
  BY FS_EmptySet DEF Init, Owed
<1>2. PlainOK
  <2>1. list \in [Customers -> Status]
    BY DEF Init, Status
  <2> QED
    BY <2>1 DEF Init, PlainOK, Status
<1>5. SeqOK
  BY DEF Init, SeqOK
<1>3. ServerOK
  BY <1>1 DEF Init, ServerOK
<1>4. CountOK /\ NobodyInv
  BY <1>1, DashboardAssumption DEF Init, CountOK, NobodyInv
<1> QED
  BY <1>2, <1>3, <1>4, <1>5 DEF TypeInv

LEMMA TypeImplied == TypeInv => TypeOK
<1> SUFFICES ASSUME TypeInv PROVE TypeOK
  OBVIOUS
<1>1. SeqOK /\ CountOK /\ PlainOK /\ ServerOK
  BY DEF TypeInv
<1>2. events \in Seq(Event) /\ streams \in Seq(Stream)
  BY <1>1 DEF SeqOK
<1>3. Len(events) \in Nat /\ Len(streams) \in Nat /\ Owed \in Nat
  BY <1>1, <1>2, FS_CardinalityType DEF ServerOK, Owed
<1>4. /\ Len(events) <= MaxChanges /\ timers \in 0 .. MaxChanges
      /\ Len(streams) <= MaxClicks + MaxChanges + 1
  BY <1>1, <1>3, DashboardAssumption DEF CountOK
<1>5. 0 .. changes \subseteq 0 .. MaxChanges
  BY <1>1, DashboardAssumption DEF CountOK
<1>6. wrote \in [Customers -> 0 .. MaxChanges] /\ told \in [Customers -> 0 .. MaxChanges]
  BY <1>1, <1>5 DEF ServerOK
<1> QED
  BY <1>1, <1>2, <1>4, <1>6 DEF PlainOK, ServerOK, CountOK, TypeOK

\* A write to a row.
LEMMA RowSet ==
  ASSUME PlainOK, ServerOK, CountOK, NEW c \in Customers, NEW s \in Status, SetRow(c, s)
  PROVE  /\ changes \in Nat /\ changes' = changes + 1 /\ changes' \in 0 .. MaxChanges
         /\ status' \in [Customers -> Status]
         /\ \A d \in Customers : status'[d] = IF d = c THEN s ELSE status[d]
         /\ wrote' \in [Customers -> 0 .. changes'] /\ told \in [Customers -> 0 .. changes']
         /\ \A d \in Customers : wrote'[d] = IF d = c THEN changes + 1 ELSE wrote[d]
         /\ \A u \in unsent :
              /\ u \in Write /\ u.id \in Customers /\ u.n <= changes
              /\ u.n = wrote'[u.id] => u.status = status'[u.id]
<1>1. /\ changes < MaxChanges /\ changes' = changes + 1
      /\ status' = [status EXCEPT ![c] = s]
      /\ wrote' = [wrote EXCEPT ![c] = changes + 1]
  BY DEF SetRow
<1>2. changes \in Nat /\ changes' \in 0 .. MaxChanges
  BY <1>1, DashboardAssumption DEF CountOK
<1>3. status \in [Customers -> Status]
  BY DEF PlainOK
<1>4. status' \in [Customers -> Status]
      /\ \A d \in Customers : status'[d] = IF d = c THEN s ELSE status[d]
  BY <1>1, <1>3
<1>5. 0 .. changes \subseteq 0 .. changes' /\ changes + 1 \in 0 .. changes'
  BY <1>1, <1>2
<1>6. wrote \in [Customers -> 0 .. changes'] /\ told \in [Customers -> 0 .. changes']
  BY <1>5 DEF ServerOK
<1>7. wrote' \in [Customers -> 0 .. changes']
      /\ \A d \in Customers : wrote'[d] = IF d = c THEN changes + 1 ELSE wrote[d]
  BY <1>1, <1>5, <1>6
<1>8. ASSUME NEW u \in unsent
      PROVE  /\ u \in Write /\ u.id \in Customers /\ u.n <= changes
             /\ u.n = wrote'[u.id] => u.status = status'[u.id]
  <2>1. u \in Write /\ u.n <= changes /\ (u.n = wrote[u.id] => u.status = status[u.id])
    BY DEF ServerOK
  <2>2. u.id \in Customers /\ u.n \in Nat
    BY <2>1 DEF Write
  <2>3. u.n # changes + 1
    BY <1>2, <2>1, <2>2
  <2> QED
    BY <1>4, <1>7, <2>1, <2>2, <2>3
<1> QED
  BY <1>1, <1>2, <1>4, <1>6, <1>7, <1>8

\* What the server's steps do to what is still to be published.
LEMMA Writing ==
  ASSUME PlainOK, ServerOK, CountOK, NEW c \in Customers,
         UpdateStatus(c) \/ CreateEnds(c)
  PROVE  /\ ServerOK' /\ Owed \in Nat /\ Owed' \in Nat /\ Owed' <= Owed + 1
         /\ changes' = changes + 1 /\ changes' \in 0 .. MaxChanges
         /\ status' \in [Customers -> Status]
         /\ \A d \in Customers \ {c} : status'[d] = status[d] /\ wrote'[d] = wrote[d]
         /\ told' = told /\ told[c] # wrote'[c]
<1>1. PICK s \in Status :
        /\ SetRow(c, s)
        /\ \/ unsent' = unsent
           \/ unsent' = unsent \cup {[n |-> changes + 1, id |-> c, status |-> s]}
  BY DEF UpdateStatus, CreateEnds, Status
<1>2. creating' \subseteq creating /\ told' = told
  BY DEF UpdateStatus, CreateEnds
<1>3. /\ changes \in Nat /\ changes' = changes + 1 /\ changes' \in 0 .. MaxChanges
      /\ status' \in [Customers -> Status]
      /\ \A d \in Customers : status'[d] = IF d = c THEN s ELSE status[d]
      /\ wrote' \in [Customers -> 0 .. changes'] /\ told \in [Customers -> 0 .. changes']
      /\ \A d \in Customers : wrote'[d] = IF d = c THEN changes + 1 ELSE wrote[d]
      /\ \A u \in unsent :
           /\ u \in Write /\ u.id \in Customers /\ u.n <= changes
           /\ u.n = wrote'[u.id] => u.status = status'[u.id]
  BY <1>1, RowSet
<1>4. told[c] # wrote'[c]
  <2>1. told[c] \in 0 .. changes /\ wrote'[c] = changes + 1
    BY <1>3 DEF ServerOK
  <2> QED
    BY <1>3, <2>1
<1>5. IsFiniteSet(unsent) /\ Owed \in Nat
  BY FS_CardinalityType DEF ServerOK, Owed
<1> DEFINE u == [n |-> changes + 1, id |-> c, status |-> s]
<1>6. /\ u \in Write /\ u.n = changes + 1 /\ u.id = c /\ u.status = s
  <2>1. changes + 1 \in 1 .. MaxChanges
    BY <1>3
  <2> QED
    BY <2>1 DEF Write
<1>7. CASE unsent' = unsent
  <2>1. \A v \in unsent' : v.n <= changes'
    <3>1. \A v \in unsent : v.n \in Nat
      BY <1>3 DEF Write
    <3> QED
      BY <1>3, <1>7, <3>1
  <2>2. ServerOK'
    BY <1>2, <1>3, <1>5, <1>7, <2>1 DEF ServerOK
  <2>3. Owed' = Owed
    BY <1>7 DEF Owed
  <2> QED
    BY <1>2, <1>3, <1>4, <1>5, <2>2, <2>3
<1>8. CASE unsent' = unsent \cup {u}
  <2> HIDE DEF u
  <2>1. u \notin unsent
    BY <1>3, <1>6
  <2>2. IsFiniteSet(unsent') /\ Owed' = Owed + 1
    BY <1>5, <1>8, <2>1, FS_AddElement DEF Owed
  <2>3. \A v \in unsent' : v \in Write /\ v.n <= changes'
    <3>1. \A v \in unsent : v.n \in Nat
      BY <1>3 DEF Write
    <3> QED
      BY <1>3, <1>6, <1>8, <3>1
  <2>4. \A v \in unsent' : v.n = wrote'[v.id] => v.status = status'[v.id]
    BY <1>3, <1>6, <1>8
  <2>5. ServerOK'
    BY <1>2, <1>3, <2>2, <2>3, <2>4 DEF ServerOK
  <2> QED
    BY <1>2, <1>3, <1>4, <1>5, <2>2, <2>5
<1> QED
  BY <1>1, <1>7, <1>8

LEMMA Publishing ==
  ASSUME ServerOK, CountOK, NEW u \in unsent, Publish(u) \/ PublishFails(u)
  PROVE  /\ ServerOK' /\ Owed \in Nat /\ Owed' \in Nat /\ Owed' + 1 = Owed
         /\ u.id \in Customers /\ u.status \in Status
         /\ UNCHANGED <<status, changes, wrote>>
<1>1. /\ unsent' = unsent \ {u}
      /\ told' = told \/ told' = [told EXCEPT ![u.id] = u.n]
      /\ UNCHANGED <<status, creating, changes, wrote>>
  BY DEF Publish, PublishFails
<1>2. u \in Write /\ u.n <= changes
  BY DEF ServerOK
<1>3. u.id \in Customers /\ u.status \in Status /\ u.n \in Nat /\ changes \in Nat
  BY <1>2, DashboardAssumption DEF Write, CountOK
<1>4. u.n \in 0 .. changes
  BY <1>2, <1>3
<1>5. told' \in [Customers -> 0 .. changes]
  BY <1>1, <1>4 DEF ServerOK
<1>6. IsFiniteSet(unsent) /\ Owed \in Nat
  BY FS_CardinalityType DEF ServerOK, Owed
<1>7. IsFiniteSet(unsent') /\ Owed' = Owed - 1 /\ Owed' \in Nat
  <2>1. IsFiniteSet(unsent') /\ Owed' = Owed - 1
    BY <1>1, <1>6, FS_RemoveElement DEF Owed
  <2>2. Owed' \in Nat
    BY <2>1, FS_CardinalityType DEF Owed
  <2> QED
    BY <2>1, <2>2
<1>8. ServerOK'
  BY <1>1, <1>5, <1>7 DEF ServerOK
<1> QED
  BY <1>1, <1>3, <1>6, <1>7, <1>8

\* Nobody else touches them.
LEMMA ServerStill ==
  ASSUME TypeInv, UNCHANGED serverVars
  PROVE  /\ ServerOK' /\ Owed \in Nat /\ Owed' = Owed
         /\ UNCHANGED <<status, changes, wrote, told>>
<1>1. ServerOK /\ Owed \in Nat
  BY FS_CardinalityType DEF TypeInv, ServerOK, Owed
<1> QED
  BY <1>1 DEF serverVars, ServerOK, Owed

\* Closing a stream keeps the others and whom they are for.
LEMMA ClosedStreams ==
  ASSUME SeqOK
  PROVE  /\ Closed \in Seq(Stream) /\ Len(Closed) = Len(streams)
         /\ \A i \in DOMAIN streams :
              /\ Closed[i].to = streams[i].to
              /\ Closed[i].open => streams[i].open /\ i # trafficWs
<1>0. streams \in Seq(Stream)
  BY DEF SeqOK
<1>1. /\ streams \in Seq(Stream) /\ Len(streams) \in Nat
      /\ DOMAIN streams = 1 .. Len(streams)
      /\ \A i \in 1 .. Len(streams) : streams[i] \in Stream
  BY <1>0
<1>2. ASSUME NEW i \in DOMAIN streams PROVE Closed[i] \in Stream
  <2>1. streams[i] \in Stream /\ [streams[i] EXCEPT !.open = FALSE] \in Stream
    BY <1>1 DEF Stream
  <2> QED
    BY <2>1 DEF Closed
<1>3. Closed \in [1 .. Len(streams) -> Stream]
  BY <1>1, <1>2 DEF Closed
<1>4. Closed \in Seq(Stream) /\ Len(Closed) = Len(streams)
  BY <1>1, <1>3
<1>5. \A i \in DOMAIN streams :
        /\ Closed[i].to = streams[i].to
        /\ Closed[i].open => streams[i].open /\ i # trafficWs
  BY <1>1 DEF Closed, Stream
<1> QED
  BY <1>4, <1>5

\* What connecting does to the streams.
LEMMA Connected ==
  ASSUME NEW earlier \in Seq(Stream), NEW c \in Customers, Connect(earlier, c)
  PROVE  /\ streams' \in Seq(Stream) /\ Len(streams') = Len(earlier) + 1
         /\ trafficWs' = Len(earlier) + 1
         /\ streams'[Len(earlier) + 1] = [to |-> c, open |-> TRUE]
         /\ streams'[trafficWs'].to = c
         /\ \A i \in 1 .. Len(earlier) : streams'[i] = earlier[i]
<1>1. [to |-> c, open |-> TRUE] \in Stream
  BY DEF Stream
<1>2. [to |-> c, open |-> TRUE].to = c
  OBVIOUS
<1> HIDE DEF Stream
<1> QED
  BY <1>1, <1>2 DEF Connect

\* A selection is somebody.
LEMMA Selecting ==
  ASSUME NEW c \in Customers, NEW f \in {"list", "url"}
  PROVE  /\ [id |-> c, from |-> f] \in Selection /\ [id |-> c, from |-> f] # None
         /\ [id |-> c, from |-> f].id = c /\ [id |-> c, from |-> f].from = f
<1>1. [id |-> c, from |-> f] \in Selection
  BY DEF Selection
<1> QED
  BY <1>1, DashboardAssumption

\* The first event in flight.
LEMMA FirstEvent ==
  ASSUME SeqOK, events # <<>>
  PROVE  /\ Head(events) \in Event
         /\ Head(events).id \in Customers /\ Head(events).status \in Status
<1>1. events \in Seq(Event)
  BY DEF SeqOK
<1>2. Head(events) \in Event
  BY <1>1
<1> QED
  BY <1>2 DEF Event

\* The selected object gets a status, the others keep theirs.
LEMMA SelectedSet ==
  ASSUME PlainOK, selected # None, NEW s \in Status, SetSelectedStatus(s)
  PROVE  /\ list' \in [Customers -> Status] /\ own' \in Status
         /\ \A c \in Customers :
              list'[c] = IF selected = [id |-> c, from |-> "list"] THEN s ELSE list[c]
         /\ own' = IF selected.from = "url" THEN s ELSE own
<1>1. /\ selected \in Selection
      /\ list \in [Customers -> Status] /\ own \in Status
  BY DEF PlainOK
<1>2. \A c \in Customers : selected = [id |-> c, from |-> "list"]
                             <=> selected.id = c /\ selected.from = "list"
  BY <1>1 DEF Selection
<1>3. selected.id \in Customers /\ selected.from \in {"list", "url"}
  BY <1>1 DEF Selection
<1> HIDE DEF Selection, Status
<1>4. CASE selected.from = "list"
  BY <1>1, <1>2, <1>3, <1>4 DEF SetSelectedStatus
<1>5. CASE selected.from = "url"
  BY <1>1, <1>2, <1>3, <1>5 DEF SetSelectedStatus
<1> QED
  BY <1>3, <1>4, <1>5

\* A step changes what it says of the counts, and the other parts stay typed.
LEMMA TypeStep == TypeInv /\ [Next]_vars => TypeInv'
<1> SUFFICES ASSUME TypeInv, [Next]_vars PROVE TypeInv'
  OBVIOUS
<1>0. PlainOK /\ ServerOK /\ SeqOK /\ CountOK /\ NobodyInv
  BY DEF TypeInv
<1>b. /\ events \in Seq(Event) /\ streams \in Seq(Stream)
      /\ Len(events) \in Nat /\ Len(streams) \in Nat /\ Owed \in Nat
  BY <1>0, FS_CardinalityType DEF SeqOK, ServerOK, Owed
<1>c. UNCHANGED serverVars => ServerOK' /\ UNCHANGED <<status, changes, Owed>>
  BY ServerStill
<1>1. CASE UNCHANGED vars
  <2>1. /\ ServerOK' /\ UNCHANGED <<status, changes, Owed>>
        /\ UNCHANGED <<wsVars, loadVars, objects, streamVars, history>>
    BY <1>1, <1>c DEF vars
  <2> QED
    BY <1>0, <2>1 DEF wsVars, loadVars, objects, streamVars, history,
       TypeInv, PlainOK, SeqOK, CountOK, NobodyInv
<1>2. ASSUME NEW c \in Customers, UpdateStatus(c) \/ CreateEnds(c) PROVE TypeInv'
  <2>1. UNCHANGED <<wsVars, loadVars, objects, streamVars, history>>
    BY <1>2 DEF UpdateStatus, CreateEnds
  <2>2. /\ ServerOK' /\ Owed' \in Nat /\ Owed' <= Owed + 1
        /\ changes' = changes + 1 /\ changes' \in 0 .. MaxChanges
        /\ status' \in [Customers -> Status]
    BY <1>0, <1>2, Writing
  <2>3. PlainOK' /\ SeqOK' /\ NobodyInv'
    BY <1>0, <2>1, <2>2 DEF wsVars, loadVars, objects, streamVars, history,
       PlainOK, SeqOK, NobodyInv
  <2>4. CountOK'
    <3>1. /\ UNCHANGED <<streams, trafficWs, timers, clicks, drops, urlAnswer>>
          /\ Len(events') = Len(events)
      BY <2>1 DEF wsVars, loadVars, streamVars
    <3> QED
      BY <1>0, <1>b, <2>2, <3>1 DEF CountOK
  <2> QED
    BY <2>2, <2>3, <2>4 DEF TypeInv
<1>13. ASSUME NEW u \in unsent, Publish(u) \/ PublishFails(u) PROVE TypeInv'
  <2>1. /\ ServerOK' /\ Owed' \in Nat /\ Owed' + 1 = Owed
        /\ u.id \in Customers /\ u.status \in Status
        /\ UNCHANGED <<status, changes>>
    BY <1>0, <1>13, Publishing
  <2>2. UNCHANGED <<ws, drops, loadVars, objects, streamVars, excused>>
    BY <1>13 DEF Publish, PublishFails, wsVars, history
  <2>3. events' \in Seq(Event) /\ Len(events') \in Nat /\ Len(events') <= Len(events) + 1
    <3>1. PICK event \in Event : events' = Append(events, event) \/ events' = events
      <4>1. [id |-> u.id, status |-> u.status] \in Event
        BY <2>1 DEF Event
      <4> QED
        BY <1>13, <4>1 DEF Publish, PublishFails, wsVars
    <3> QED
      BY <1>b, <3>1
  <2>4. stale' \subseteq Selection
    BY <1>0, <1>13 DEF Publish, PublishFails, ObjectsOf, PlainOK, history
  <2>5. PlainOK' /\ SeqOK' /\ NobodyInv'
    BY <1>0, <2>1, <2>2, <2>3, <2>4
    DEF loadVars, objects, streamVars, PlainOK, SeqOK, NobodyInv
  <2>6. CountOK'
    <3>1. UNCHANGED <<streams, trafficWs, timers, clicks, drops, urlAnswer, changes>>
      BY <2>1, <2>2 DEF loadVars, streamVars
    <3>2. Len(events') + Owed' <= Len(events) + Owed
      <4> DEFINE a == Len(events')
                 b == Len(events)
                 x == Owed'
                 y == Owed
      <4>1. a \in Nat /\ b \in Nat /\ a <= b + 1
        BY <1>b, <2>3
      <4>2. x \in Nat /\ y \in Nat /\ x + 1 = y
        BY <1>b, <2>1
      <4> HIDE DEF a, b, x, y
      <4>3. a + x <= b + y
        BY <4>1, <4>2
      <4> QED
        BY <4>3 DEF a, b, x, y
    <3>3. /\ timers \in Nat /\ changes \in Nat /\ clicks \in Nat
          /\ timers + Len(events) + Owed <= changes
          /\ Len(streams) + timers + Len(events) + Owed
               <= clicks + changes + (IF urlAnswer = "done" THEN 1 ELSE 0)
      BY <1>0, DashboardAssumption DEF CountOK
    <3>4. timers + Len(events') + Owed' <= changes
      BY <1>b, <2>1, <2>3, <3>2, <3>3
    <3>5. Len(streams) + timers + Len(events') + Owed'
            <= clicks + changes + (IF urlAnswer = "done" THEN 1 ELSE 0)
      BY <1>b, <2>1, <2>3, <3>2, <3>3
    <3> QED
      BY <1>0, <3>1, <3>4, <3>5 DEF CountOK
  <2> QED
    BY <2>1, <2>5, <2>6 DEF TypeInv
<1>14. ASSUME AnswerList \/ ListAnswered \/ ListFails PROVE TypeInv'
  <2>1. /\ UNCHANGED <<serverVars, wsVars, urlAnswer, clicks, own, selected, streamVars,
                       excused>>
        /\ listAnswer' \in {"read", "done", "failed"}
        /\ list' = list \/ list' = status
        /\ stale' \subseteq stale
    BY <1>14 DEF AnswerList, ListAnswered, ListFails, objects, history
  <2>2. ServerOK' /\ UNCHANGED <<status, changes, Owed>>
    BY <1>c, <2>1
  <2>3. PlainOK' /\ SeqOK'
    BY <1>0, <2>1, <2>2 DEF wsVars, streamVars, PlainOK, SeqOK
  <2>4. CountOK' /\ NobodyInv'
    BY <1>0, <2>1, <2>2 DEF wsVars, streamVars, CountOK, NobodyInv
  <2> QED
    BY <2>2, <2>3, <2>4 DEF TypeInv
<1>3. CASE AnswerUrl
  <2>0. ServerOK' /\ UNCHANGED <<status, changes, Owed>>
    BY <1>3, <1>c DEF AnswerUrl
  <2>1. PlainOK' /\ SeqOK'
    BY <1>0, <1>3, <2>0, DashboardAssumption
    DEF AnswerUrl, wsVars, objects, streamVars, PlainOK, SeqOK
  <2>2. urlAnswer = "asked" /\ urlAnswer' \in Status
    BY <1>0, <1>3, DashboardAssumption DEF AnswerUrl, PlainOK
  <2>3. urlAnswer # "done" /\ urlAnswer' # "done"
    BY <2>2 DEF Status
  <2>4. CountOK' /\ NobodyInv'
    BY <1>0, <1>3, <2>0, <2>3 DEF AnswerUrl, wsVars, objects, streamVars, CountOK, NobodyInv
  <2> QED
    BY <2>0, <2>1, <2>4 DEF TypeInv
<1>4. ASSUME NEW c \in Customers, SelectCustomer(c) PROVE TypeInv'
  <2>1. [id |-> c, from |-> "list"] \in Selection
    BY DEF Selection
  <2>2. /\ streams' \in Seq(Stream) /\ Len(streams') \in Nat
        /\ Len(streams') <= Len(streams) + 1
        /\ trafficWs' \in 0 .. Len(streams')
    <3>0. Closed \in Seq(Stream) /\ Len(Closed) = Len(streams)
      BY <1>0, ClosedStreams
    <3>1. CASE Connect(Closed, c)
      <4>1. /\ streams' \in Seq(Stream) /\ Len(streams') = Len(Closed) + 1
            /\ trafficWs' = Len(Closed) + 1
        BY <3>0, <3>1, Connected
      <4> QED
        BY <1>b, <3>0, <4>1
    <3>2. CASE Disconnect
      BY <1>b, <3>0, <3>2 DEF Disconnect
    <3> QED
      BY <1>4, <3>1, <3>2 DEF SelectCustomer
  <2>3. /\ UNCHANGED <<status, changes, Owed, events, ws, drops, listAnswer, urlAnswer, list,
                       own, timers, stale, excused>>
        /\ clicks < MaxClicks /\ clicks' = clicks + 1
        /\ selected' = [id |-> c, from |-> "list"] /\ ServerOK'
    BY <1>4, <1>c DEF SelectCustomer, wsVars, history
  <2>4. PlainOK' /\ SeqOK'
    BY <1>0, <2>1, <2>2, <2>3 DEF PlainOK, SeqOK
  <2>5. selected' # None
    BY <2>1, <2>3, DashboardAssumption
  <2>6. CountOK' /\ NobodyInv'
    <3>1. NobodyInv'
      BY <2>5 DEF NobodyInv
    <3>2. CountOK'
      BY <1>0, <1>b, <2>2, <2>3, DashboardAssumption DEF CountOK
    <3> QED
      BY <3>1, <3>2
  <2> QED
    BY <2>3, <2>4, <2>6 DEF TypeInv
<1>5. CASE UrlAnswered
  <2>1. [id |-> UrlCustomer, from |-> "url"] \in Selection
    BY DashboardAssumption DEF Selection
  <2>2. /\ streams' \in Seq(Stream) /\ Len(streams') \in Nat
        /\ Len(streams') <= Len(streams) + 1
        /\ trafficWs' \in 0 .. Len(streams')
    <3>1. CASE Connect(streams, UrlCustomer)
      <4>1. UrlCustomer \in Customers
        BY DashboardAssumption
      <4>2. /\ streams' \in Seq(Stream) /\ Len(streams') = Len(streams) + 1
            /\ trafficWs' = Len(streams) + 1
        BY <1>b, <3>1, <4>1, Connected
      <4> QED
        BY <1>b, <4>2
    <3>2. CASE UNCHANGED <<streams, trafficWs>>
      BY <1>0, <1>b, <3>2 DEF CountOK
    <3> QED
      BY <1>5, <3>1, <3>2 DEF UrlAnswered
  <2>3. /\ urlAnswer \in Status /\ urlAnswer' = "done" /\ own' = urlAnswer
        /\ selected' = [id |-> UrlCustomer, from |-> "url"]
        /\ UNCHANGED <<status, changes, Owed, events, ws, drops, listAnswer, clicks, list,
                       timers, stale>>
        /\ excused' \subseteq excused \cup {"late answer"} /\ ServerOK'
    BY <1>5, <1>c DEF UrlAnswered, Excuse, wsVars
  <2>4. urlAnswer # "done"
    BY <2>3 DEF Status
  <2>5. PlainOK' /\ SeqOK'
    BY <1>0, <2>1, <2>2, <2>3 DEF PlainOK, SeqOK
  <2>6. selected' # None
    BY <2>1, <2>3, DashboardAssumption
  <2>7. CountOK' /\ NobodyInv'
    <3>1. NobodyInv'
      BY <2>6 DEF NobodyInv
    <3>2. CountOK'
      <4>1. UNCHANGED <<changes, Owed, events, drops, clicks, timers>>
        BY <2>3
      <4>2. Len(events') = Len(events)
        BY <4>1
      <4>3. MaxClicks \in Nat /\ MaxChanges \in Nat /\ MaxDrops \in Nat
        BY DashboardAssumption
      <4>4. Len(streams') + timers' + Len(events') + Owed' <= clicks' + changes' + 1
        BY <1>0, <1>b, <2>2, <2>4, <4>1, <4>2, <4>3 DEF CountOK
      <4>5. urlAnswer' = "done"
        BY <2>3
      <4> QED
        BY <1>0, <2>2, <4>1, <4>2, <4>4, <4>5 DEF CountOK
    <3> QED
      BY <3>1, <3>2
  <2> QED
    BY <2>3, <2>5, <2>7 DEF TypeInv
<1>6. CASE UrlFails
  <2>0. ServerOK' /\ UNCHANGED <<status, changes, Owed>>
    BY <1>6, <1>c DEF UrlFails
  <2>1. PlainOK' /\ SeqOK' /\ NobodyInv'
    BY <1>0, <1>6, <2>0 DEF UrlFails, wsVars, objects, streamVars, history,
       PlainOK, SeqOK, NobodyInv
  <2>2. CountOK'
    BY <1>0, <1>b, <1>6, <2>0 DEF UrlFails, wsVars, streamVars, CountOK
  <2> QED
    BY <2>0, <2>1, <2>2 DEF TypeInv
<1>7. CASE HandlePPPoEEvent
  <2>1. /\ events # <<>> /\ events' = Tail(events) /\ Head(events) \in Event
        /\ events' \in Seq(Event) /\ Len(events') = Len(events) - 1
        /\ Len(events') \in Nat
    BY <1>b, <1>7 DEF HandlePPPoEEvent
  <2> DEFINE e == Head(events)
  <2>2. e.id \in Customers /\ e.status \in Status
    BY <2>1 DEF Event
  <2>3. /\ UNCHANGED <<status, changes, Owed, ws, drops, listAnswer, urlAnswer, clicks,
                       excused>>
        /\ ServerOK'
    BY <1>7, <1>c DEF HandlePPPoEEvent, loadVars
  <2> HIDE DEF e
  <2>4. CASE IsSelected(e.id) /\ UpdateSelected(e)
             /\ stale' = (stale \cup ObjectsOf({e.id})) \ {selected}
    <3>1. /\ list' \in [Customers -> Status] /\ own' \in Status
          /\ selected' = selected /\ selected # None
      BY <1>0, <2>2, <2>4, SelectedSet DEF UpdateSelected, IsSelected
    <3>2. /\ streams' \in Seq(Stream) /\ Len(streams') = Len(streams)
          /\ trafficWs' \in 0 .. Len(streams')
          /\ timers' \in {timers, timers + 1}
      <4>1. CASE Disconnect /\ UNCHANGED timers
        <5>1. Closed \in Seq(Stream) /\ Len(Closed) = Len(streams)
          BY <1>0, ClosedStreams
        <5> QED
          BY <1>b, <4>1, <5>1 DEF Disconnect
      <4>2. CASE timers' = timers + 1 /\ UNCHANGED <<streams, trafficWs>>
        BY <1>0, <1>b, <4>2 DEF CountOK
      <4> QED
        BY <2>4, <4>1, <4>2 DEF UpdateSelected
    <3>3. stale' \subseteq Selection
      BY <1>0, <2>4 DEF ObjectsOf, PlainOK
    <3>4. PlainOK' /\ SeqOK'
      BY <1>0, <2>1, <2>3, <3>1, <3>2, <3>3 DEF PlainOK, SeqOK
    <3>5. CountOK' /\ NobodyInv'
      BY <1>0, <1>b, <2>1, <2>3, <3>1, <3>2 DEF CountOK, NobodyInv
    <3> QED
      BY <2>3, <3>4, <3>5 DEF TypeInv
  <2>5. CASE /\ ~IsSelected(e.id)
             /\ stale' = stale \cup ObjectsOf({e.id})
             /\ UNCHANGED <<objects, streamVars>>
    <3>1. stale' \subseteq Selection
      BY <1>0, <2>5 DEF ObjectsOf, PlainOK
    <3>2. UNCHANGED <<list, own, selected, streams, trafficWs, timers>>
      BY <2>5 DEF objects, streamVars
    <3>3. PlainOK' /\ SeqOK'
      BY <1>0, <2>1, <2>3, <3>1, <3>2 DEF PlainOK, SeqOK
    <3>4. CountOK' /\ NobodyInv'
      BY <1>0, <1>b, <2>1, <2>3, <3>2 DEF CountOK, NobodyInv
    <3> QED
      BY <2>3, <3>3, <3>4 DEF TypeInv
  <2> QED
    BY <1>7, <2>4, <2>5 DEF HandlePPPoEEvent, e
<1>8. CASE TimerFires
  <2>0. timers > 0 /\ timers \in Nat
    BY <1>0, <1>8 DEF TimerFires, CountOK
  <2>a. selected # None
    BY <1>0, <2>0 DEF NobodyInv
  <2>1. selected \in Selection /\ selected # None
    BY <1>0, <2>a DEF PlainOK
  <2>2. selected.id \in Customers
    BY <2>1 DEF Selection
  <2>3. /\ streams' \in Seq(Stream) /\ Len(streams') = Len(streams) + 1
        /\ trafficWs' = Len(streams')
    <3>1. Connect(streams, selected.id)
      BY <1>8 DEF TimerFires
    <3>2. /\ streams' \in Seq(Stream) /\ Len(streams') = Len(streams) + 1
          /\ trafficWs' = Len(streams) + 1
      BY <1>b, <2>2, <3>1, Connected
    <3> QED
      BY <3>2
  <2>4. /\ UNCHANGED <<status, changes, Owed, events, ws, drops, listAnswer, urlAnswer, clicks,
                       list, own, selected, stale>>
        /\ timers > 0 /\ timers' = timers - 1
        /\ excused' \subseteq excused \cup {"timer", "late timer"} /\ ServerOK'
    BY <1>8, <1>c DEF TimerFires, Excuse, wsVars, loadVars, objects
  <2>5. PlainOK' /\ SeqOK'
    BY <1>0, <2>3, <2>4 DEF PlainOK, SeqOK
  <2>6. CountOK' /\ NobodyInv'
    <3>1. NobodyInv'
      BY <2>1, <2>4 DEF NobodyInv
    <3>2. CountOK'
      <4>1. /\ UNCHANGED <<changes, Owed, events, drops, urlAnswer, clicks>>
            /\ timers > 0 /\ timers' = timers - 1
            /\ Len(streams') = Len(streams) + 1 /\ trafficWs' = Len(streams')
        BY <2>3, <2>4
      <4>2. Len(events') = Len(events)
        BY <4>1
      <4>3. MaxClicks \in Nat /\ MaxChanges \in Nat /\ MaxDrops \in Nat
        BY DashboardAssumption
      <4>4. timers' \in Nat
        BY <1>0, <4>1 DEF CountOK
      <4>5. trafficWs' \in 0 .. Len(streams')
        BY <1>b, <4>1
      <4>6. timers' + Len(events') + Owed' <= changes'
        BY <1>0, <1>b, <4>1, <4>2, <4>3 DEF CountOK
      <4>7. /\ clicks' \in 0 .. MaxClicks /\ changes' \in 0 .. MaxChanges
            /\ drops' \in 0 .. MaxDrops
        BY <1>0, <4>1 DEF CountOK
      <4>8. Len(streams') + timers' + Len(events') + Owed'
              <= clicks' + changes' + (IF urlAnswer' = "done" THEN 1 ELSE 0)
        BY <1>0, <1>b, <4>1, <4>2, <4>3 DEF CountOK
      <4> QED
        BY <4>4, <4>5, <4>6, <4>7, <4>8 DEF CountOK
    <3> QED
      BY <3>1, <3>2
  <2> QED
    BY <2>4, <2>5, <2>6 DEF TypeInv
<1>9. ASSUME NEW i \in DOMAIN streams, StreamEnds(i) PROVE TypeInv'
  <2>1. [streams[i] EXCEPT !.open = FALSE] \in Stream
    <3>1. streams[i] \in Stream
      BY <1>b
    <3> QED
      BY <3>1 DEF Stream
  <2>2. streams' = [streams EXCEPT ![i] = [streams[i] EXCEPT !.open = FALSE]]
    BY <1>9 DEF StreamEnds
  <2>3. streams' \in Seq(Stream) /\ Len(streams') = Len(streams)
    BY <1>b, <2>1, <2>2
  <2>4. /\ UNCHANGED <<status, changes, Owed, events, ws, drops, listAnswer, urlAnswer, clicks,
                       list, own, selected, trafficWs, timers, stale, excused>>
        /\ ServerOK'
    BY <1>9, <1>c DEF StreamEnds, wsVars, loadVars, objects, history
  <2>5. PlainOK' /\ SeqOK'
    BY <1>0, <2>3, <2>4 DEF PlainOK, SeqOK
  <2>6. CountOK' /\ NobodyInv'
    BY <1>0, <2>3, <2>4 DEF CountOK, NobodyInv
  <2> QED
    BY <2>4, <2>5, <2>6 DEF TypeInv
<1>10. CASE WsCloses
  <2>1. /\ events' \in Seq(Event) /\ Len(events') = 0
        /\ drops < MaxDrops /\ drops' = drops + 1 /\ ws' = FALSE
        /\ UNCHANGED <<status, changes, Owed, listAnswer, urlAnswer, clicks, list, own,
                       selected, streams, trafficWs, timers, excused>>
        /\ ServerOK'
    BY <1>10, <1>c DEF WsCloses, loadVars, objects, streamVars
  <2>2. stale' \subseteq Selection
    BY <1>0, <1>10 DEF WsCloses, ObjectsOf, PlainOK
  <2>3. PlainOK' /\ SeqOK'
    BY <1>0, <2>1, <2>2 DEF PlainOK, SeqOK
  <2>4. CountOK' /\ NobodyInv'
    BY <1>0, <1>b, <2>1, DashboardAssumption DEF CountOK, NobodyInv
  <2> QED
    BY <2>1, <2>3, <2>4 DEF TypeInv
<1>11. CASE ConnectWebSocket
  <2>1. ServerOK' /\ UNCHANGED <<status, changes, Owed>>
    BY <1>11, <1>c DEF ConnectWebSocket
  <2> QED
    BY <1>0, <1>11, <2>1 DEF ConnectWebSocket, loadVars, objects, streamVars,
       history, TypeInv, PlainOK, SeqOK, CountOK, NobodyInv
<1> QED
  BY <1>1, <1>2, <1>3, <1>4, <1>5, <1>6, <1>7, <1>8, <1>9, <1>10, <1>11,
     <1>13, <1>14 DEF Next

\* Every variable keeps to its values.  Streams are opened for a reason: each is owed
\* to a click, to a write whose event was published or to the answer of the page load,
\* together with the timers and the events that may still open one; and none is there
\* before anybody is selected.  What a callback has still to publish about the last
\* write to a row is what the row says.
THEOREM TypeCorrect == Spec => [](TypeOK /\ ServerOK /\ CountOK /\ NobodyInv)
<1>1. TypeInv => TypeOK /\ ServerOK /\ CountOK /\ NobodyInv
  BY TypeImplied DEF TypeInv
<1> QED
  BY <1>1, TypeInit, TypeStep, PTL DEF Spec

(***************************************************************************)
(* Streams.  Both properties are inductive over the types: that nothing is *)
(* streamed before a selection makes the first answer of the page load     *)
(* harmless.                                                               *)
(***************************************************************************)
\* The domain of a sequence of streams, and what its elements are.
LEMMA StreamElements ==
  ASSUME NEW seq \in Seq(Stream)
  PROVE  /\ DOMAIN seq = 1 .. Len(seq) /\ Len(seq) \in Nat
         /\ \A i \in DOMAIN seq :
              seq[i] \in Stream /\ seq[i].open \in BOOLEAN /\ seq[i].to \in Customers
<1>1. /\ DOMAIN seq = 1 .. Len(seq) /\ Len(seq) \in Nat
      /\ \A i \in DOMAIN seq : seq[i] \in Stream
  OBVIOUS
<1> QED
  BY <1>1 DEF Stream

\* A timer runs only for somebody; nothing is streamed for nobody.
LEMMA TimedSelection ==
  ASSUME TypeInv, timers > 0
  PROVE  selected # None /\ selected \in Selection /\ selected.id \in Customers
<1>1. timers # 0
  BY DEF TypeInv, CountOK
<1>2. selected # None
  BY <1>1 DEF TypeInv, NobodyInv
<1>3. selected \in Selection
  BY <1>2 DEF TypeInv, PlainOK
<1> QED
  BY <1>2, <1>3 DEF Selection

LEMMA NobodyStreamed ==
  ASSUME TypeInv, selected = None
  PROVE  DOMAIN streams = {} /\ Len(streams) = 0 /\ trafficWs = 0
<1>1. Len(streams) = 0
  BY DEF TypeInv, NobodyInv
<1>2. streams \in Seq(Stream) /\ trafficWs \in 0 .. Len(streams)
  BY DEF TypeInv, SeqOK, CountOK
<1>3. DOMAIN streams = 1 .. 0
  BY <1>1, <1>2
<1> QED
  BY <1>1, <1>2, <1>3

\* Connecting over streams that are all closed leaves one open.
LEMMA OpenConnected ==
  ASSUME NEW earlier \in Seq(Stream), NEW c \in Customers, Connect(earlier, c),
         \A i \in DOMAIN earlier : ~earlier[i].open
  PROVE  Open' \subseteq {trafficWs'}
<1>1. /\ streams' \in Seq(Stream) /\ Len(streams') = Len(earlier) + 1
      /\ trafficWs' = Len(earlier) + 1
      /\ \A i \in 1 .. Len(earlier) : streams'[i] = earlier[i]
  BY Connected
<1>2. /\ DOMAIN earlier = 1 .. Len(earlier) /\ Len(earlier) \in Nat
      /\ DOMAIN streams' = 1 .. Len(streams')
  BY <1>1, StreamElements
<1>3. ASSUME NEW i \in DOMAIN streams', streams'[i].open PROVE i = trafficWs'
  <2>1. CASE i \in 1 .. Len(earlier)
    BY <1>1, <1>2, <1>3, <2>1
  <2>2. CASE i = Len(earlier) + 1
    BY <1>1, <2>2
  <2> QED
    BY <1>1, <1>2, <2>1, <2>2
<1> QED
  BY <1>3 DEF Open

\* After the stream that the page refers to is closed, none is open.
LEMMA NoneOpen ==
  ASSUME SeqOK, Open \subseteq {trafficWs}
  PROVE  \A i \in DOMAIN Closed : ~Closed[i].open
<1>1. DOMAIN Closed = DOMAIN streams
  BY DEF Closed
<1> QED
  BY <1>1, ClosedStreams DEF Open

LEMMA OpenStep == TypeInv /\ NoStreamLeftOpen /\ [Next]_vars => NoStreamLeftOpen'
<1> SUFFICES ASSUME TypeInv, NoStreamLeftOpen, [Next]_vars,
                    excused' \cap {"timer", "late answer"} = {}
             PROVE  Open' \subseteq {trafficWs'}
  BY DEF NoStreamLeftOpen
<1>0. PlainOK /\ SeqOK /\ CountOK /\ NobodyInv
  BY DEF TypeInv
<1>a. streams \in Seq(Stream)
  BY <1>0 DEF SeqOK
<1>b. Open \subseteq {trafficWs} => \A i \in DOMAIN Closed : ~Closed[i].open
  BY <1>0, NoneOpen
<1>c. Closed \in Seq(Stream)
  BY <1>0, ClosedStreams
<1>d. DOMAIN streams = 1 .. Len(streams) /\ Len(streams) \in Nat
  BY <1>a, StreamElements
<1>e. \A i \in DOMAIN streams : streams[i] \in Stream
  BY <1>a, StreamElements
<1>1. CASE UNCHANGED <<streams, trafficWs, excused>>
  BY <1>1 DEF NoStreamLeftOpen, Open
<1>2. ASSUME NEW c \in Customers, SelectCustomer(c) PROVE Open' \subseteq {trafficWs'}
  <2>1. Open \subseteq {trafficWs}
    BY <1>2 DEF SelectCustomer, history, NoStreamLeftOpen
  <2>2. CASE Connect(Closed, c)
    BY <1>b, <1>c, <2>1, <2>2, OpenConnected
  <2>3. CASE Disconnect
    BY <1>b, <2>1, <2>3 DEF Disconnect, Open
  <2> QED
    BY <1>2, <2>2, <2>3 DEF SelectCustomer
<1>3. CASE UrlAnswered
  <2>1. selected = None /\ excused' = excused
    BY <1>3 DEF UrlAnswered, Excuse
  <2>2. \A i \in DOMAIN streams : ~streams[i].open
    BY <2>1, NobodyStreamed
  <2>3. CASE Connect(streams, UrlCustomer)
    BY <1>a, <2>2, <2>3, OpenConnected, DashboardAssumption
  <2>4. CASE UNCHANGED <<streams, trafficWs>>
    BY <1>1, <2>1, <2>4
  <2> QED
    BY <1>3, <2>3, <2>4 DEF UrlAnswered
<1>4. CASE HandlePPPoEEvent
  <2>1. excused' = excused /\ Open \subseteq {trafficWs}
    BY <1>4 DEF HandlePPPoEEvent, NoStreamLeftOpen
  <2>2. CASE Disconnect
    BY <1>b, <2>1, <2>2 DEF Disconnect, Open
  <2>3. CASE UNCHANGED <<streams, trafficWs>>
    BY <1>1, <2>1, <2>3
  <2> QED
    BY <1>4, <2>2, <2>3 DEF HandlePPPoEEvent, UpdateSelected, streamVars
<1>5. CASE TimerFires
  <2>2. selected.id \in Customers
    BY <1>5, TimedSelection DEF TimerFires
  <2>3. excused \subseteq excused' /\ trafficWs \notin Open
    BY <1>5 DEF TimerFires, Excuse
  <2>4. Open \subseteq {trafficWs}
    BY <2>3 DEF NoStreamLeftOpen
  <2>5. \A i \in DOMAIN streams : ~streams[i].open
    BY <2>3, <2>4 DEF Open
  <2>6. Connect(streams, selected.id)
    BY <1>5 DEF TimerFires
  <2> QED
    BY <1>a, <2>2, <2>5, <2>6, OpenConnected
<1>6. ASSUME NEW k \in DOMAIN streams, StreamEnds(k) PROVE Open' \subseteq {trafficWs'}
  <2>1. /\ excused' = excused /\ trafficWs' = trafficWs
        /\ streams' = [streams EXCEPT ![k] = [streams[k] EXCEPT !.open = FALSE]]
    BY <1>6 DEF StreamEnds, history
  <2>2. Open \subseteq {trafficWs}
    BY <2>1 DEF NoStreamLeftOpen
  <2>3. streams[k] \in Stream
    BY <1>a, <1>e
  <2>4. ~[streams[k] EXCEPT !.open = FALSE].open
    BY <2>3 DEF Stream
  <2>5. \A i \in DOMAIN streams' : i \in DOMAIN streams /\ (streams'[i].open => streams[i].open)
    BY <2>1, <2>4
  <2> QED
    BY <2>1, <2>2, <2>5 DEF Open
<1> QED
  BY <1>1, <1>2, <1>3, <1>4, <1>5, <1>6
  DEF Next, UpdateStatus, CreateEnds, Publish, PublishFails, AnswerList, ListAnswered,
      ListFails, AnswerUrl, UrlFails, WsCloses, ConnectWebSocket, vars, streamVars, history

\* No stream is left open, whatever the number of customers, clicks and events,
\* unless a timer or a late answer of the page load has replaced it.
THEOREM OpenCorrect == Spec => []NoStreamLeftOpen
<1>1. Init => NoStreamLeftOpen
  BY DEF Init, NoStreamLeftOpen, Open
<1> QED
  BY <1>1, TypeInit, TypeStep, OpenStep, PTL DEF Spec

\* The status that is set is the one that is shown.
LEMMA StatusSet ==
  ASSUME PlainOK, selected # None, NEW s \in Status, SetSelectedStatus(s),
         selected' = selected
  PROVE  SelectedStatus' = s
<1>1. selected \in Selection
  BY DEF PlainOK
<1>2. /\ selected.id \in Customers /\ selected.from \in {"list", "url"}
      /\ selected = [id |-> selected.id, from |-> "list"] <=> selected.from = "list"
  BY <1>1 DEF Selection
<1>3. /\ list'[selected.id] =
           IF selected = [id |-> selected.id, from |-> "list"] THEN s ELSE list[selected.id]
      /\ own' = IF selected.from = "url" THEN s ELSE own
  BY <1>2, SelectedSet
<1>4. CASE selected.from = "list"
  BY <1>2, <1>3, <1>4 DEF SelectedStatus
<1>5. CASE selected.from = "url"
  BY <1>2, <1>3, <1>5 DEF SelectedStatus
<1> QED
  BY <1>2, <1>4, <1>5

\* The page refers to one of the streams.
LEMMA ReferredStream ==
  ASSUME TypeInv, trafficWs # 0
  PROVE  trafficWs \in DOMAIN streams
<1>1. streams \in Seq(Stream) /\ trafficWs \in 0 .. Len(streams)
  BY DEF TypeInv, SeqOK, CountOK
<1>2. DOMAIN streams = 1 .. Len(streams) /\ Len(streams) \in Nat
  BY <1>1, StreamElements
<1>3. trafficWs \in 1 .. Len(streams)
  BY <1>1, <1>2
<1> QED
  BY <1>2, <1>3

\* Only what is in the sidebar can be selected there.
ListInv == selected # None /\ selected.from = "list" => listAnswer = "done"

LEMMA ListInit == Init => ListInv
  BY DEF Init, ListInv

LEMMA ListStep == ListInv /\ [Next]_vars => ListInv'
<1> SUFFICES ASSUME ListInv, [Next]_vars PROVE ListInv'
  OBVIOUS
<1>1. CASE UNCHANGED <<listAnswer, selected>>
  BY <1>1 DEF ListInv
<1>2. ASSUME NEW c \in Customers, SelectCustomer(c) PROVE ListInv'
  BY <1>2 DEF SelectCustomer, ListInv
<1>3. CASE UrlAnswered
  <2>1. selected' = [id |-> UrlCustomer, from |-> "url"]
    BY <1>3 DEF UrlAnswered
  <2>2. selected'.from = "url"
    BY <2>1
  <2> QED
    BY <2>2 DEF ListInv
<1>4. ASSUME AnswerList \/ ListAnswered \/ ListFails PROVE ListInv'
  <2>1. listAnswer # "done" /\ selected' = selected
    BY <1>4 DEF AnswerList, ListAnswered, ListFails, objects
  <2> QED
    BY <2>1 DEF ListInv
<1>5. CASE HandlePPPoEEvent
  BY <1>1, <1>5 DEF HandlePPPoEEvent, UpdateSelected, loadVars, objects
<1> QED
  BY <1>1, <1>2, <1>3, <1>4, <1>5
  DEF Next, UpdateStatus, CreateEnds, Publish, PublishFails, AnswerUrl, UrlFails, TimerFires,
      StreamEnds, WsCloses, ConnectWebSocket, vars, loadVars, objects

LEMMA FollowStep ==
  TypeInv /\ ListInv /\ StreamFollowsSelection /\ [Next]_vars => StreamFollowsSelection'
<1> SUFFICES ASSUME TypeInv, ListInv, StreamFollowsSelection, [Next]_vars,
                    trafficWs' # 0, "late answer" \notin excused'
             PROVE  /\ IsSelected(streams[trafficWs].to)'
                    /\ (SelectedStatus = "active" \/ "late timer" \in excused)'
  BY DEF StreamFollowsSelection
<1>0. PlainOK /\ SeqOK /\ CountOK /\ NobodyInv
  BY DEF TypeInv
<1>a. streams \in Seq(Stream) /\ Closed \in Seq(Stream)
  BY <1>0, ClosedStreams DEF SeqOK
<1>1. CASE UNCHANGED <<list, own, selected, streams, trafficWs, excused>>
  BY <1>1 DEF StreamFollowsSelection, IsSelected, SelectedStatus
<1>2. ASSUME NEW c \in Customers, SelectCustomer(c)
      PROVE  /\ IsSelected(streams[trafficWs].to)'
             /\ (SelectedStatus = "active" \/ "late timer" \in excused)'
  <2>1. list[c] = "active" /\ Connect(Closed, c)
    BY <1>2 DEF SelectCustomer, Disconnect
  <2>2. streams'[trafficWs'].to = c
    BY <1>a, <2>1, Connected
  <2>3. selected' = [id |-> c, from |-> "list"] /\ list' = list
    BY <1>2 DEF SelectCustomer
  <2>4. selected'.id = c /\ selected'.from = "list" /\ selected' # None
    BY <2>3, Selecting
  <2> QED
    BY <2>1, <2>2, <2>3, <2>4 DEF IsSelected, SelectedStatus
<1>3. CASE UrlAnswered
  <2>0. UrlCustomer \in Customers
    BY DashboardAssumption
  <2>1. selected = None
    BY <1>3 DEF UrlAnswered, Excuse
  <2>2. trafficWs = 0
    BY <2>1, NobodyStreamed
  <2>3. urlAnswer = "active" /\ Connect(streams, UrlCustomer)
    BY <1>3, <2>2 DEF UrlAnswered
  <2>4. streams'[trafficWs'].to = UrlCustomer
    BY <1>a, <2>0, <2>3, Connected
  <2>5. selected' = [id |-> UrlCustomer, from |-> "url"] /\ own' = urlAnswer
    BY <1>3 DEF UrlAnswered
  <2>6. selected'.id = UrlCustomer /\ selected'.from = "url" /\ selected' # None
    BY <2>0, <2>5, Selecting
  <2> QED
    BY <2>3, <2>4, <2>5, <2>6 DEF IsSelected, SelectedStatus
<1>4. CASE HandlePPPoEEvent
  <2> DEFINE e == Head(events)
  <2>1. excused' = excused /\ events # <<>>
    BY <1>4 DEF HandlePPPoEEvent
  <2>3. e.status \in Status
    BY <1>0, <2>1, FirstEvent
  <2>4. CASE UNCHANGED <<objects, streamVars>>
    BY <1>1, <2>1, <2>4 DEF objects, streamVars
  <2>5. CASE IsSelected(e.id) /\ UpdateSelected(e)
    <3>1. /\ e.status = "active" /\ SetSelectedStatus(e.status)
          /\ UNCHANGED <<streams, trafficWs, selected>> /\ selected # None
      BY <2>5 DEF UpdateSelected, IsSelected, Disconnect
    <3> HIDE DEF e
    <3>2. SelectedStatus' = "active"
      BY <1>0, <2>3, <3>1, StatusSet
    <3> QED
      BY <2>1, <3>1, <3>2 DEF StreamFollowsSelection, IsSelected
  <2> QED
    BY <1>4, <2>4, <2>5 DEF HandlePPPoEEvent
<1>5. CASE TimerFires
  <2>1. selected # None /\ selected.id \in Customers
    BY <1>5, TimedSelection DEF TimerFires
  <2>2. Connect(streams, selected.id)
    BY <1>5 DEF TimerFires
  <2>3. streams'[trafficWs'].to = selected.id
    BY <1>a, <2>1, <2>2, Connected
  <2>4. UNCHANGED <<list, own, selected>>
    BY <1>5 DEF TimerFires, objects
  <2>5. CASE SelectedStatus = "inactive"
    BY <1>5, <2>1, <2>3, <2>4, <2>5 DEF TimerFires, Excuse, IsSelected
  <2>6. CASE SelectedStatus # "inactive"
    <3>1. SelectedStatus \in Status
      BY <1>0, <2>1 DEF SelectedStatus, PlainOK
    <3>2. SelectedStatus = "active"
      BY <2>6, <3>1 DEF Status
    <3> QED
      BY <2>1, <2>3, <2>4, <3>2 DEF IsSelected, SelectedStatus
  <2> QED
    BY <2>5, <2>6
<1>6. ASSUME NEW k \in DOMAIN streams, StreamEnds(k)
      PROVE  /\ IsSelected(streams[trafficWs].to)'
             /\ (SelectedStatus = "active" \/ "late timer" \in excused)'
  <2>1. /\ UNCHANGED <<list, own, selected, trafficWs, excused>>
        /\ streams' = [streams EXCEPT ![k] = [streams[k] EXCEPT !.open = FALSE]]
    BY <1>6 DEF StreamEnds, history, objects
  <2>2. trafficWs \in DOMAIN streams
    BY <2>1, ReferredStream
  <2>3. streams[trafficWs] \in Stream /\ streams[k] \in Stream
    BY <1>a, <2>2, StreamElements
  <2>4. [streams[k] EXCEPT !.open = FALSE].to = streams[k].to
    BY <2>3 DEF Stream
  <2>5. streams'[trafficWs].to = streams[trafficWs].to
    BY <2>1, <2>2, <2>4
  <2> QED
    BY <2>1, <2>5 DEF StreamFollowsSelection, IsSelected, SelectedStatus
<1>7. CASE AnswerList
  <2>1. UNCHANGED <<own, selected, streams, trafficWs, excused>> /\ listAnswer # "done"
    BY <1>7 DEF AnswerList, streamVars
  <2>2. selected # None /\ selected.from # "list"
    BY <2>1 DEF StreamFollowsSelection, IsSelected, ListInv
  <2> QED
    BY <2>1, <2>2 DEF StreamFollowsSelection, IsSelected, SelectedStatus
<1> QED
  BY <1>1, <1>2, <1>3, <1>4, <1>5, <1>6, <1>7
  DEF Next, UpdateStatus, CreateEnds, Publish, PublishFails, ListAnswered, ListFails,
      AnswerUrl, UrlFails, WsCloses, ConnectWebSocket, vars, streamVars, objects, history

\* The traffic that is drawn is that of the selected customer, whatever the number
\* of customers, clicks and events, but for the late answer and the late timer.
THEOREM SelectionCorrect == Spec => []StreamFollowsSelection
<1>1. Init => StreamFollowsSelection
  BY DEF Init, StreamFollowsSelection
<1> QED
  BY <1>1, TypeInit, TypeStep, ListInit, ListStep, FollowStep, PTL DEF Spec

(***************************************************************************)
(* Statuses.  What the page shows is current because the last event in     *)
(* flight about a customer tells the row as it is, if it is about the last *)
(* write, and because an answer on its way to the page is followed like an *)
(* object that is there.                                                   *)
(***************************************************************************)
Carries(seq, c) == \E i \in DOMAIN seq : seq[i].id = c

\* Customers whose last write has been published last.
Agreed == {c \in Customers : told[c] = wrote[c]}

Tells(seq, rows, who) ==
  \A i \in DOMAIN seq :
    /\ seq[i].id \in who
    /\ \A j \in DOMAIN seq : j > i => seq[j].id # seq[i].id
    => seq[i].status = rows[seq[i].id]

\* What an object says; the second one of UrlCustomer may still be an answer.
Value(o) == IF o.from = "list" THEN list[o.id]
            ELSE IF urlAnswer = "done" THEN own ELSE urlAnswer

Followed(o) ==
  /\ o.from = "list" => listAnswer \in {"read", "done"}
  /\ o.from = "url" => o.id = UrlCustomer /\ (urlAnswer \in Status \/ selected = o)

EventInv == (~ws => events = <<>>) /\ Tells(events, status, Agreed)

UrlInv ==
  selected # None /\ selected.from = "url" =>
    urlAnswer = "done" /\ selected.id = UrlCustomer

ValueInv ==
  \A o \in Selection :
    Followed(o) /\ o \notin stale /\ o.id \in Agreed /\ ~Carries(events, o.id)
      => Value(o) = status[o.id]

CurrentInv == EventInv /\ UrlInv /\ ValueInv

LEMMA CarriesAppend ==
  ASSUME NEW seq \in Seq(Event), NEW e \in Event
  PROVE  \A d : Carries(Append(seq, e), d) <=> Carries(seq, d) \/ d = e.id
<1>1. /\ DOMAIN seq = 1 .. Len(seq) /\ Len(seq) \in Nat
      /\ DOMAIN Append(seq, e) = 1 .. Len(seq) + 1
      /\ \A i \in 1 .. Len(seq) : Append(seq, e)[i] = seq[i]
      /\ Append(seq, e)[Len(seq) + 1] = e
  OBVIOUS
<1> QED
  BY <1>1 DEF Carries

\* What the server's steps do to the agreement of writes and events.
LEMMA WritingAgreed ==
  ASSUME TypeInv, NEW c \in Customers, UpdateStatus(c) \/ CreateEnds(c)
  PROVE  /\ Agreed' \subseteq Agreed \ {c}
         /\ \A d \in Customers \ {c} : status'[d] = status[d]
<1>1. /\ \A d \in Customers \ {c} : status'[d] = status[d] /\ wrote'[d] = wrote[d]
      /\ told' = told /\ told[c] # wrote'[c]
  BY Writing DEF TypeInv
<1> QED
  BY <1>1 DEF Agreed

LEMMA PublishAgreed ==
  ASSUME TypeInv, NEW u \in unsent, Publish(u)
  PROVE  /\ \A d \in Agreed' : d # u.id => d \in Agreed
         /\ u.id \in Agreed' => u.status = status[u.id]
<1>1. /\ told' = [told EXCEPT ![u.id] = u.n] /\ wrote' = wrote
      /\ told \in [Customers -> 0 .. changes]
      /\ u.n = wrote[u.id] => u.status = status[u.id]
  BY DEF Publish, TypeInv, ServerOK
<1>2. \A d \in Customers : told'[d] = IF d = u.id THEN u.n ELSE told[d]
  BY <1>1
<1> QED
  BY <1>1, <1>2 DEF Agreed

\* An event that is published is the last.
LEMMA TellsAppend ==
  ASSUME NEW seq \in Seq(Event), NEW rows, NEW who, NEW new, Tells(seq, rows, who),
         NEW e \in Event, \A d \in new : d # e.id => d \in who,
         e.id \in new => e.status = rows[e.id]
  PROVE  Tells(Append(seq, e), rows, new)
<1> DEFINE all == Append(seq, e)
           n == Len(seq)
<1>1. /\ n \in Nat /\ DOMAIN seq = 1 .. n /\ DOMAIN all = 1 .. n + 1
      /\ \A i \in 1 .. n : all[i] = seq[i]
      /\ all[n + 1] = e
  OBVIOUS
<1> HIDE DEF all, n
<1>2. ASSUME NEW i \in DOMAIN all, all[i].id \in new,
             \A j \in DOMAIN all : j > i => all[j].id # all[i].id
      PROVE  all[i].status = rows[all[i].id]
  <2>1. CASE i = n + 1
    BY <1>1, <1>2, <2>1
  <2>2. CASE i \in 1 .. n
    <3>1. all[i].id # e.id
      BY <1>1, <1>2, <2>2
    <3>2. \A j \in DOMAIN seq : j > i => seq[j].id # seq[i].id
      BY <1>1, <1>2, <2>2
    <3>3. seq[i].id \in who
      BY <1>1, <1>2, <2>2, <3>1
    <3> QED
      BY <1>1, <2>2, <3>2, <3>3 DEF Tells
  <2> QED
    BY <1>1, <2>1, <2>2
<1> QED
  BY <1>2 DEF Tells, all

\* Handling the first event; when it was the last about its customer, it told
\* the row.
LEMMA TellsTail ==
  ASSUME NEW seq \in Seq(Event), NEW rows, NEW who, Tells(seq, rows, who),
         seq # <<>>
  PROVE  /\ Tells(Tail(seq), rows, who)
         /\ \A d : Carries(seq, d) => Carries(Tail(seq), d) \/ d = Head(seq).id
         /\ Head(seq).id \in who /\ ~Carries(Tail(seq), Head(seq).id)
              => Head(seq).status = rows[Head(seq).id]
<1> DEFINE rest == Tail(seq)
           n == Len(seq)
<1>1. /\ n \in Nat /\ n > 0 /\ DOMAIN seq = 1 .. n /\ DOMAIN rest = 1 .. n - 1
      /\ \A i \in 1 .. n - 1 : rest[i] = seq[i + 1]
      /\ Head(seq) = seq[1]
  OBVIOUS
<1> HIDE DEF rest, n
<1>2. ASSUME NEW i \in DOMAIN rest, rest[i].id \in who,
             \A j \in DOMAIN rest : j > i => rest[j].id # rest[i].id
      PROVE  rest[i].status = rows[rest[i].id]
  <2>1. i + 1 \in DOMAIN seq
    BY <1>1
  <2>2. ASSUME NEW j \in DOMAIN seq, j > i + 1 PROVE seq[j].id # seq[i + 1].id
    <3>1. j - 1 \in DOMAIN rest /\ j - 1 > i /\ rest[j - 1] = seq[j]
      BY <1>1, <2>2
    <3> QED
      BY <1>1, <1>2, <3>1
  <2>3. seq[i + 1].status = rows[seq[i + 1].id]
    BY <1>1, <1>2, <2>1, <2>2 DEF Tells
  <2> QED
    BY <1>1, <2>3
<1>3. ASSUME NEW i \in DOMAIN seq, i # 1 PROVE i - 1 \in DOMAIN rest /\ rest[i - 1] = seq[i]
  BY <1>1, <1>3
<1>4. \A d : Carries(seq, d) => Carries(rest, d) \/ d = Head(seq).id
  BY <1>1, <1>3 DEF Carries
<1>5. ASSUME Head(seq).id \in who, ~Carries(rest, Head(seq).id)
      PROVE  Head(seq).status = rows[Head(seq).id]
  <2>1. \A j \in DOMAIN seq : j > 1 => seq[j].id # seq[1].id
    BY <1>1, <1>3, <1>5 DEF Carries
  <2>2. 1 \in DOMAIN seq
    BY <1>1
  <2> QED
    BY <1>1, <1>5, <2>1, <2>2 DEF Tells
<1> QED
  BY <1>2, <1>4, <1>5 DEF Tells, rest

LEMMA CurrentInit == Init => CurrentInv
<1> SUFFICES ASSUME Init PROVE CurrentInv
  OBVIOUS
<1>1. EventInv /\ UrlInv
  BY DEF Init, EventInv, Tells, UrlInv
<1>2. ASSUME NEW o \in Selection, Followed(o) PROVE FALSE
  <2>1. urlAnswer \notin Status /\ selected = None /\ listAnswer = "asked"
    BY DEF Init, Status
  <2>2. o.from \in {"list", "url"}
    BY DEF Selection
  <2> QED
    BY <1>2, <2>1, <2>2, DashboardAssumption DEF Followed
<1> QED
  BY <1>1, <1>2 DEF CurrentInv, ValueInv

\* Nobody else has a part in the agreement.
LEMMA AgreedStill ==
  ASSUME TypeInv, UNCHANGED serverVars
  PROVE  Agreed' = Agreed /\ status' = status
  BY ServerStill DEF Agreed

LEMMA EventStep == TypeInv /\ EventInv /\ [Next]_vars => EventInv'
<1> SUFFICES ASSUME TypeInv, EventInv, [Next]_vars PROVE EventInv'
  OBVIOUS
<1>0. /\ events \in Seq(Event) /\ Tells(events, status, Agreed)
      /\ (~ws => events = <<>>)
  BY DEF TypeInv, SeqOK, EventInv
<1>1. CASE UNCHANGED <<serverVars, events, ws>>
  BY <1>1, AgreedStill DEF EventInv
<1>2. ASSUME NEW c \in Customers, UpdateStatus(c) \/ CreateEnds(c) PROVE EventInv'
  <2>1. /\ Agreed' \subseteq Agreed \ {c}
        /\ \A d \in Customers \ {c} : status'[d] = status[d]
    BY <1>2, WritingAgreed
  <2>2. Agreed \subseteq Customers
    BY DEF Agreed
  <2>3. \A d \in Agreed' : d \in Agreed /\ status'[d] = status[d]
    BY <2>1, <2>2
  <2>4. UNCHANGED <<events, ws>>
    BY <1>2 DEF UpdateStatus, CreateEnds, wsVars
  <2>5. Tells(events, status', Agreed')
    BY <1>0, <2>3 DEF Tells
  <2> QED
    BY <1>0, <2>4, <2>5 DEF EventInv
<1>3. ASSUME NEW u \in unsent, Publish(u) PROVE EventInv'
  <2>1. /\ \A d \in Agreed' : d # u.id => d \in Agreed
        /\ u.id \in Agreed' => u.status = status[u.id]
        /\ u.id \in Customers /\ u.status \in Status
    BY <1>3, PublishAgreed, Publishing DEF TypeInv
  <2>2. ws' = ws /\ status' = status
    BY <1>3 DEF Publish
  <2> DEFINE e == [id |-> u.id, status |-> u.status]
  <2>3. e \in Event /\ e.id = u.id /\ e.status = u.status
    BY <2>1 DEF Event
  <2>4. CASE ws /\ events' = Append(events, e)
    <3> HIDE DEF e
    <3>1. Tells(Append(events, e), status, Agreed')
      BY <1>0, <2>1, <2>3, TellsAppend
    <3> QED
      BY <2>2, <2>4, <3>1 DEF EventInv
  <2>5. CASE ~ws /\ events' = events
    <3>1. events' = <<>>
      BY <1>0, <2>5
    <3> QED
      BY <2>2, <3>1 DEF EventInv, Tells
  <2> QED
    BY <1>3, <2>4, <2>5 DEF Publish
<1>4. ASSUME NEW u \in unsent, PublishFails(u) PROVE EventInv'
  <2>1. UNCHANGED <<status, told, wrote, events, ws>>
    BY <1>4 DEF PublishFails, wsVars
  <2>2. Agreed' = Agreed
    BY <2>1 DEF Agreed
  <2> QED
    BY <2>1, <2>2 DEF EventInv
<1>5. CASE HandlePPPoEEvent
  <2>1. /\ events # <<>> /\ events' = Tail(events) /\ ws /\ ws' = ws
        /\ Agreed' = Agreed /\ status' = status
    BY <1>5, AgreedStill DEF HandlePPPoEEvent
  <2>2. Tells(Tail(events), status, Agreed)
    BY <1>0, <2>1, TellsTail
  <2> QED
    BY <2>1, <2>2 DEF EventInv
<1>6. CASE WsCloses
  <2>1. events' = <<>>
    BY <1>6 DEF WsCloses
  <2> QED
    BY <2>1 DEF EventInv, Tells
<1>7. CASE ConnectWebSocket
  <2>1. events' = events /\ ws' /\ Agreed' = Agreed /\ status' = status
    BY <1>7, AgreedStill DEF ConnectWebSocket
  <2> QED
    BY <1>0, <2>1 DEF EventInv
<1> QED
  BY <1>1, <1>2, <1>3, <1>4, <1>5, <1>6, <1>7
  DEF Next, AnswerList, ListAnswered, ListFails, AnswerUrl, SelectCustomer, UrlAnswered,
      UrlFails, TimerFires, StreamEnds, vars, wsVars

LEMMA UrlStep == TypeInv /\ UrlInv /\ [Next]_vars => UrlInv'
<1> SUFFICES ASSUME TypeInv, UrlInv, [Next]_vars PROVE UrlInv'
  OBVIOUS
<1>1. CASE UNCHANGED <<urlAnswer, selected>>
  BY <1>1 DEF UrlInv
<1>2. CASE AnswerUrl
  <2>1. urlAnswer # "done" /\ selected' = selected
    BY <1>2 DEF AnswerUrl, objects
  <2> QED
    BY <2>1 DEF UrlInv
<1>3. ASSUME NEW c \in Customers, SelectCustomer(c) PROVE UrlInv'
  <2>1. selected' = [id |-> c, from |-> "list"]
    BY <1>3 DEF SelectCustomer
  <2> QED
    BY <2>1 DEF UrlInv
<1>4. CASE UrlAnswered
  <2>1. selected' = [id |-> UrlCustomer, from |-> "url"] /\ urlAnswer' = "done"
    BY <1>4 DEF UrlAnswered
  <2> QED
    BY <2>1 DEF UrlInv
<1>5. CASE UrlFails
  BY <1>5 DEF UrlFails, UrlInv, objects
<1>6. CASE HandlePPPoEEvent
  BY <1>1, <1>6 DEF HandlePPPoEEvent, UpdateSelected, loadVars, objects
<1> QED
  BY <1>1, <1>2, <1>3, <1>4, <1>5, <1>6
  DEF Next, UpdateStatus, CreateEnds, Publish, PublishFails, AnswerList, ListAnswered,
      ListFails, TimerFires, StreamEnds, WsCloses, ConnectWebSocket, vars, loadVars, objects

\* Two objects of the page differ in their customer or in where they come from.
LEMMA SameSelection ==
  ASSUME NEW o \in Selection, NEW p \in Selection, o.id = p.id, o.from = p.from
  PROVE  o = p
  BY DEF Selection

\* What the handler of an event does to the objects' values.
LEMMA HandledValue ==
  ASSUME TypeInv, CurrentInv, HandlePPPoEEvent, NEW o \in Selection,
         Followed(o)', o \notin stale', o.id \in Agreed, ~Carries(events, o.id)'
  PROVE  Value(o)' = status[o.id]
<1> DEFINE e == Head(events)
<1>1. /\ PlainOK /\ SeqOK /\ events \in Seq(Event) /\ events # <<>>
      /\ events' = Tail(events) /\ UNCHANGED <<listAnswer, urlAnswer>>
      /\ Tells(events, status, Agreed)
  BY DEF TypeInv, SeqOK, HandlePPPoEEvent, loadVars, CurrentInv, EventInv
<1>2. e \in Event /\ e.id \in Customers /\ e.status \in Status
  BY <1>1, FirstEvent
<1>3. /\ \A d : Carries(events, d) => Carries(events', d) \/ d = e.id
      /\ e.id \in Agreed /\ ~Carries(events', e.id) => e.status = status[e.id]
  BY <1>1, TellsTail
<1>4. o.id \in Customers /\ o.from \in {"list", "url"}
  BY DEF Selection
<1>5. \/ /\ IsSelected(e.id) /\ UpdateSelected(e)
         /\ stale' = (stale \cup ObjectsOf({e.id})) \ {selected}
      \/ /\ ~IsSelected(e.id) /\ UNCHANGED <<objects, streamVars>>
         /\ stale' = stale \cup ObjectsOf({e.id})
  BY DEF HandlePPPoEEvent
<1> HIDE DEF e
<1>6. selected' = selected
  BY <1>5 DEF UpdateSelected, objects
<1>7. Followed(o)
  BY <1>1, <1>6 DEF Followed
<1>8. o.id = e.id => o \in ObjectsOf({e.id})
  BY <1>7 DEF ObjectsOf, Followed
<1>9. CASE ~IsSelected(e.id)
  <2>1. o.id # e.id /\ o \notin stale
    BY <1>5, <1>8, <1>9
  <2>2. ~Carries(events, o.id)
    BY <1>3, <2>1
  <2>3. Value(o)' = Value(o)
    BY <1>1, <1>5, <1>9 DEF Value, objects
  <2> QED
    BY <1>7, <2>1, <2>2, <2>3 DEF CurrentInv, ValueInv
<1>10. CASE IsSelected(e.id)
  <2>1. /\ selected # None /\ selected.id = e.id /\ selected \in Selection
        /\ SetSelectedStatus(e.status)
        /\ stale' = (stale \cup ObjectsOf({e.id})) \ {selected}
    BY <1>1, <1>5, <1>10 DEF IsSelected, UpdateSelected, PlainOK
  <2>2. selected.from \in {"list", "url"}
    BY <2>1 DEF Selection
  <2>3. CASE o = selected
    <3>1. SelectedStatus' = e.status
      BY <1>1, <1>2, <1>6, <2>1, StatusSet
    <3>2. selected.from = "url" => urlAnswer' = "done"
      BY <1>1, <2>1 DEF CurrentInv, UrlInv
    <3>3. Value(o)' = SelectedStatus'
      BY <1>6, <2>1, <2>2, <2>3, <3>2 DEF Value, SelectedStatus
    <3>4. e.status = status[e.id]
      BY <1>1, <1>3, <2>1, <2>3
    <3> QED
      BY <2>1, <2>3, <3>1, <3>3, <3>4
  <2>4. CASE o # selected
    <3>1. o.id # e.id /\ o \notin stale
      BY <1>8, <2>1, <2>4
    <3>2. ~Carries(events, o.id)
      BY <1>3, <3>1
    <3>3. Value(o) = status[o.id]
      BY <1>7, <3>1, <3>2 DEF CurrentInv, ValueInv
    <3>4. list'[o.id] = list[o.id]
      <4>1. [id |-> o.id, from |-> "list"].id # selected.id
        BY <2>1, <3>1
      <4>2. list'[o.id] = IF selected = [id |-> o.id, from |-> "list"]
                            THEN e.status ELSE list[o.id]
        BY <1>1, <1>2, <1>4, <2>1, SelectedSet
      <4> QED
        BY <4>1, <4>2
    <3>5. o.from = "url" => own' = own
      <4>1. own' = IF selected.from = "url" THEN e.status ELSE own
        BY <1>1, <1>2, <2>1, SelectedSet
      <4>2. selected.from = "url" => selected.id = UrlCustomer
        BY <2>1 DEF CurrentInv, UrlInv
      <4>3. o.from = "url" => o.id = UrlCustomer
        BY <1>7 DEF Followed
      <4> QED
        BY <2>1, <3>1, <4>1, <4>2, <4>3
    <3>6. Value(o)' = Value(o)
      BY <1>1, <1>4, <3>4, <3>5 DEF Value
    <3> QED
      BY <3>3, <3>6
  <2> QED
    BY <2>3, <2>4
<1> QED
  BY <1>9, <1>10

LEMMA ValueStep == TypeInv /\ CurrentInv /\ [Next]_vars => ValueInv'
<1> SUFFICES ASSUME TypeInv, CurrentInv, [Next]_vars, NEW o \in Selection,
                    Followed(o)', o \notin stale', o.id \in Agreed', ~Carries(events, o.id)'
             PROVE  Value(o)' = status'[o.id]
  BY DEF ValueInv
<1>0. PlainOK /\ events \in Seq(Event) /\ UrlInv /\ (~ws => events = <<>>)
  BY DEF TypeInv, SeqOK, CurrentInv, EventInv
<1>a. Followed(o) /\ o \notin stale /\ o.id \in Agreed /\ ~Carries(events, o.id)
        => Value(o) = status[o.id]
  BY DEF CurrentInv, ValueInv
<1>b. o.id \in Customers /\ o.from \in {"list", "url"}
  BY DEF Selection
<1>c. Followed(o)' => \A C : o.id \in C => o \in ObjectsOf(C)
  BY DEF ObjectsOf, Followed
<1>d. UNCHANGED serverVars => status' = status /\ o.id \in Agreed
  BY AgreedStill
<1>1. CASE UNCHANGED <<serverVars, events, listAnswer, urlAnswer, list, own, selected, stale>>
  BY <1>1, <1>a, <1>d DEF Followed, Value
<1>2. ASSUME NEW c \in Customers, UpdateStatus(c) \/ CreateEnds(c)
      PROVE  Value(o)' = status'[o.id]
  <2>1. /\ Agreed' \subseteq Agreed \ {c}
        /\ \A d \in Customers \ {c} : status'[d] = status[d]
    BY <1>2, WritingAgreed
  <2>2. UNCHANGED <<events, listAnswer, urlAnswer, list, own, selected, stale>>
    BY <1>2 DEF UpdateStatus, CreateEnds, wsVars, loadVars, objects, history
  <2>3. o.id \in Agreed /\ status'[o.id] = status[o.id]
    BY <1>b, <2>1
  <2> QED
    BY <1>a, <2>2, <2>3 DEF Followed, Value
<1>9. ASSUME NEW u \in unsent, Publish(u) PROVE Value(o)' = status'[o.id]
  <2>1. /\ \A d \in Agreed' : d # u.id => d \in Agreed
        /\ u.id \in Customers /\ u.status \in Status
    BY <1>9, PublishAgreed, Publishing DEF TypeInv
  <2>2. /\ UNCHANGED <<status, listAnswer, urlAnswer, list, own, selected>>
        /\ \/ ws /\ stale' = stale
           \/ ~ws /\ events' = events /\ stale' = stale \cup ObjectsOf({u.id})
    BY <1>9 DEF Publish, loadVars, objects
  <2> DEFINE e == [id |-> u.id, status |-> u.status]
  <2>3. e \in Event /\ e.id = u.id
    BY <2>1 DEF Event
  <2>4. ws => events' = Append(events, e)
    BY <1>9 DEF Publish
  <2> HIDE DEF e
  <2>5. Carries(Append(events, e), o.id) <=> Carries(events, o.id) \/ o.id = u.id
    BY <1>0, <2>3, CarriesAppend
  <2>6. o.id # u.id /\ ~Carries(events, o.id) /\ o \notin stale
    <3>1. CASE ws
      BY <2>2, <2>4, <2>5, <3>1
    <3>2. CASE ~ws
      BY <1>c, <2>2, <3>2
    <3> QED
      BY <3>1, <3>2
  <2> QED
    BY <1>a, <2>1, <2>2, <2>6 DEF Followed, Value
<1>10. ASSUME NEW u \in unsent, PublishFails(u) PROVE Value(o)' = status'[o.id]
  <2>1. UNCHANGED <<status, told, wrote, events, listAnswer, urlAnswer, list, own, selected,
                    stale>>
    BY <1>10 DEF PublishFails, wsVars, loadVars, objects, history
  <2>2. o.id \in Agreed
    BY <2>1 DEF Agreed
  <2> QED
    BY <1>a, <2>1, <2>2 DEF Followed, Value
<1>11. CASE AnswerList
  <2>1. /\ UNCHANGED <<events, urlAnswer, own, selected>> /\ list' = status
        /\ stale' = {p \in stale : p.from = "url"}
        /\ status' = status /\ o.id \in Agreed
    BY <1>11, <1>d DEF AnswerList, wsVars
  <2>2. CASE o.from = "list"
    BY <2>1, <2>2 DEF Value
  <2>3. CASE o.from = "url"
    BY <1>a, <2>1, <2>3 DEF Followed, Value
  <2> QED
    BY <1>b, <2>2, <2>3
<1>12. ASSUME ListAnswered \/ ListFails PROVE Value(o)' = status'[o.id]
  <2>1. /\ UNCHANGED <<events, urlAnswer, list, own, selected, stale>>
        /\ listAnswer' \in {"read", "done"} => listAnswer = "read"
        /\ status' = status /\ o.id \in Agreed
    BY <1>12, <1>d DEF ListAnswered, ListFails, wsVars, objects, history
  <2>2. Followed(o)
    BY <2>1 DEF Followed
  <2> QED
    BY <1>a, <2>1, <2>2 DEF Value
<1>3. CASE AnswerUrl
  <2>1. /\ UNCHANGED <<events, listAnswer, list, own, selected>>
        /\ urlAnswer' = status[UrlCustomer]
        /\ stale' = {p \in stale : p.from = "list"}
        /\ status' = status /\ o.id \in Agreed
    BY <1>3, <1>d DEF AnswerUrl, wsVars, objects
  <2>2. CASE o.from = "list"
    BY <1>a, <2>1, <2>2 DEF Followed, Value
  <2>3. CASE o.from = "url"
    <3>1. o.id = UrlCustomer
      BY <2>3 DEF Followed
    <3>2. urlAnswer' \in Status
      BY <1>0, <1>b, <2>1, <3>1 DEF PlainOK
    <3>3. urlAnswer' # "done"
      BY <3>2 DEF Status
    <3> QED
      BY <2>1, <2>3, <3>1, <3>3 DEF Value
  <2> QED
    BY <1>b, <2>2, <2>3
<1>4. ASSUME NEW c \in Customers, SelectCustomer(c) PROVE Value(o)' = status'[o.id]
  <2>1. /\ UNCHANGED <<events, listAnswer, urlAnswer, list, own, stale>>
        /\ selected' = [id |-> c, from |-> "list"]
        /\ status' = status /\ o.id \in Agreed
    BY <1>4, <1>d DEF SelectCustomer, wsVars, history
  <2>2. selected'.from = "list"
    BY <2>1
  <2>3. Followed(o)
    BY <2>1, <2>2 DEF Followed
  <2> QED
    BY <1>a, <2>1, <2>3 DEF Value
<1>5. CASE UrlAnswered
  <2>1. /\ UNCHANGED <<events, listAnswer, list, stale>>
        /\ urlAnswer \in Status /\ urlAnswer' = "done" /\ own' = urlAnswer
        /\ status' = status /\ o.id \in Agreed
    BY <1>5, <1>d DEF UrlAnswered, wsVars
  <2>2. urlAnswer # "done"
    BY <2>1 DEF Status
  <2>3. Followed(o)
    BY <2>1 DEF Followed
  <2> QED
    BY <1>a, <1>b, <2>1, <2>2, <2>3 DEF Value
<1>6. CASE UrlFails
  <2>1. /\ UNCHANGED <<events, listAnswer, list, own, selected, stale>>
        /\ urlAnswer # "done" /\ urlAnswer' = "done"
        /\ status' = status /\ o.id \in Agreed
    BY <1>6, <1>d DEF UrlFails, wsVars, objects, history
  <2>2. o.from = "list"
    <3>1. "done" \notin Status
      BY DEF Status
    <3>2. o.from = "url" => selected = o
      BY <2>1, <3>1 DEF Followed
    <3>3. o # None
      BY DashboardAssumption
    <3> QED
      BY <1>0, <1>b, <2>1, <3>2, <3>3 DEF UrlInv
  <2> QED
    BY <1>a, <2>1, <2>2 DEF Followed, Value
<1>7. CASE HandlePPPoEEvent
  <2>1. status' = status /\ o.id \in Agreed
    BY <1>7, <1>d DEF HandlePPPoEEvent
  <2> QED
    BY <1>7, <2>1, HandledValue
<1>8. CASE WsCloses
  <2>1. /\ UNCHANGED <<listAnswer, urlAnswer, list, own, selected>>
        /\ stale' = stale \cup ObjectsOf({events[i].id : i \in DOMAIN events})
        /\ status' = status /\ o.id \in Agreed
    BY <1>8, <1>d DEF WsCloses, loadVars, objects
  <2>2. o \notin stale /\ ~Carries(events, o.id)
    BY <1>c, <2>1 DEF Carries
  <2>3. Followed(o)
    BY <2>1 DEF Followed
  <2> QED
    BY <1>a, <2>1, <2>2, <2>3 DEF Value
<1> QED
  BY <1>1, <1>2, <1>3, <1>4, <1>5, <1>6, <1>7, <1>8, <1>9, <1>10,
     <1>11, <1>12
  DEF Next, TimerFires, StreamEnds, ConnectWebSocket, vars, wsVars, loadVars, objects, history

LEMMA CurrentImplied == TypeInv /\ ListInv /\ CurrentInv => SelectedIsCurrent
<1> SUFFICES ASSUME TypeInv, ListInv, CurrentInv, selected # None, selected \notin stale,
                    told[selected.id] = wrote[selected.id],
                    \A i \in DOMAIN events : events[i].id # selected.id
             PROVE  SelectedStatus = status[selected.id]
  BY DEF SelectedIsCurrent
<1>1. selected \in Selection
  BY DEF TypeInv, PlainOK
<1>2. selected.id \in Customers /\ selected.from \in {"list", "url"} /\ UrlInv
  BY <1>1 DEF Selection, CurrentInv
<1>3. Followed(selected) /\ selected.id \in Agreed
  BY <1>2 DEF Followed, UrlInv, ListInv, Agreed
<1>4. Value(selected) = status[selected.id]
  BY <1>1, <1>3 DEF CurrentInv, ValueInv, Carries
<1> QED
  BY <1>2, <1>4 DEF Value, SelectedStatus, UrlInv

\* For any number of customers, events and clicks, and in whatever order answers,
\* clicks and events come, the selected customer is shown as the server has it, once
\* the events about it are handled, unless an event was lost, found somebody else
\* selected, or the last one was not about the last write to the row.
THEOREM StatusCorrect == Spec => []SelectedIsCurrent
<1>1. TypeInv /\ CurrentInv /\ [Next]_vars => CurrentInv'
  BY EventStep, UrlStep, ValueStep DEF CurrentInv
<1> QED
  BY <1>1, TypeInit, TypeStep, ListInit, ListStep, CurrentInit, CurrentImplied, PTL DEF Spec
=============================================================================
