------------------------------ MODULE SystemProofs ------------------------------
(***************************************************************************)
(* Proofs about System: each invariant speaks of a few variables, and a    *)
(* frame lemma names the steps that change them.                           *)
(***************************************************************************)
EXTENDS System, ToolsProofs, SequenceTheorems, TLAPS

-----------------------------------------------------------------------------
(***************************************************************************)
(* What the streams of the gateway deliver: the event hub                  *)
(* (gateway/internal/server/events.go), streamDesktopEvents and TailLogs.  *)
(***************************************************************************)

\* Events are numbered in the order of their publication.
Increasing(seq)       == \A i, j \in DOMAIN seq : i < j => seq[i] < seq[j]
Between(seq, low, top) == \A i \in DOMAIN seq : low < seq[i] /\ seq[i] <= top

StreamType ==
  [phase : {"closed", "subscribed", "open"}, sub : Nat, snap : Nat,
   todo : Seq(Nat), chan : Seq(Nat), sent : Seq(Nat), missed : SUBSET Nat]

\* Where the events in a stream come from: n of them have been published.
Placed(stream, n) ==
  /\ stream.sub <= n /\ stream.snap <= n
  /\ Between(stream.todo, 0, stream.snap) /\ Increasing(stream.todo)
  /\ Between(stream.chan, stream.sub, n) /\ Increasing(stream.chan)
  /\ Len(stream.chan) <= ChannelLimit
  /\ Between(stream.sent, 0, n)
  /\ \A e \in stream.missed : stream.sub < e /\ e <= n

\* What has been sent lies before what is still to be sent, except that the
\* channel may repeat what the history held.
Sorted(stream) ==
  /\ \A i, j \in DOMAIN stream.sent :
       i < j /\ stream.sent[i] >= stream.sent[j] =>
         stream.sent[i] <= stream.snap /\ stream.sub < stream.sent[j]
  /\ \A i \in DOMAIN stream.sent, k \in DOMAIN stream.chan :
       stream.sent[i] >= stream.chan[k] => stream.sent[i] <= stream.snap
  /\ \A i \in DOMAIN stream.sent, k \in DOMAIN stream.todo : stream.sent[i] < stream.todo[k]

\* No event gets lost on the way, except where a channel was full.
Reaches(stream, n) ==
  /\ stream.phase = "closed" => stream = Closed
  /\ stream.phase = "subscribed" =>
       /\ stream.sent = <<>> /\ stream.todo = <<>>
       /\ \A e \in stream.sub + 1 .. n : e \in EventsOf(stream.chan) \/ e \in stream.missed
  /\ stream.phase = "open" =>
       \A e \in 1..n :
         \/ e \in Got(stream)
         \/ e <= stream.snap - HistoryLimit /\ (e <= stream.sub \/ e \in stream.missed)
         \/ e > stream.snap /\ e \in stream.missed

StreamInv(stream, n) == stream \in StreamType /\ Placed(stream, n) /\ Sorted(stream) /\ Reaches(stream, n)

\* The history is the last events, in order.
HistoryInv(hist, n) ==
  /\ hist \in Seq(Nat)
  /\ Len(hist) = IF n <= HistoryLimit THEN n ELSE HistoryLimit
  /\ \A k \in 1..Len(hist) : hist[k] = n - Len(hist) + k

HubInv ==
  /\ published \in Nat /\ HistoryInv(history, published)
  /\ DOMAIN streams = Stream
  /\ \A s \in Stream : StreamInv(streams[s], published)

-----------------------------------------------------------------------------
\* What appending an event adds to a sequence of events.
LEMMA Appended ==
  ASSUME NEW s \in Seq(Nat), NEW e \in Nat
  PROVE  /\ Append(s, e) \in Seq(Nat) /\ Len(Append(s, e)) = Len(s) + 1 /\ Len(s) \in Nat
         /\ DOMAIN s = 1..Len(s) /\ DOMAIN Append(s, e) = 1 .. Len(s) + 1
         /\ \A i \in 1..Len(s) : Append(s, e)[i] = s[i]
         /\ Append(s, e)[Len(s) + 1] = e
         /\ EventsOf(Append(s, e)) = EventsOf(s) \cup {e}
<1> DEFINE t == Append(s, e)
<1>1. /\ t \in Seq(Nat) /\ Len(t) = Len(s) + 1 /\ t[Len(s) + 1] = e
      /\ \A i \in 1..Len(s) : t[i] = s[i]
  BY AppendProperties
<1>2. Len(s) \in Nat /\ DOMAIN s = 1..Len(s)
  BY LenProperties
<1>3. DOMAIN t = 1..Len(s) + 1
  BY <1>1, LenProperties
<1> HIDE DEF t
<1>4. EventsOf(t) = EventsOf(s) \cup {e}
  <2>1. ASSUME NEW x \in EventsOf(t) PROVE x \in EventsOf(s) \cup {e}
    <3>1. PICK i \in 1 .. Len(s) + 1 : x = t[i]
      BY <1>3 DEF EventsOf
    <3>2. i \in 1..Len(s) \/ i = Len(s) + 1
      BY <1>2
    <3> QED
      BY <1>1, <1>2, <3>1, <3>2 DEF EventsOf
  <2>2. ASSUME NEW x \in EventsOf(s) PROVE x \in EventsOf(t)
    <3>1. PICK i \in 1..Len(s) : x = s[i]
      BY <1>2 DEF EventsOf
    <3>2. i \in 1 .. Len(s) + 1 /\ x = t[i]
      BY <1>1, <1>2, <3>1
    <3> QED
      BY <1>3, <3>2 DEF EventsOf
  <2>3. e \in EventsOf(t)
    <3>1. Len(s) + 1 \in 1 .. Len(s) + 1
      BY <1>2
    <3> QED
      BY <1>1, <1>3, <3>1 DEF EventsOf
  <2> QED
    BY <2>1, <2>2, <2>3
<1> QED
  BY <1>1, <1>2, <1>3, <1>4 DEF t

\* What taking the first event off leaves.
LEMMA Taken ==
  ASSUME NEW s \in Seq(Nat), s # <<>>
  PROVE  /\ Head(s) \in Nat /\ Head(s) = s[1] /\ Tail(s) \in Seq(Nat)
         /\ Len(s) \in Nat \ {0} /\ Len(Tail(s)) = Len(s) - 1
         /\ DOMAIN s = 1..Len(s) /\ DOMAIN Tail(s) = 1 .. Len(s) - 1
         /\ \A i \in 1 .. Len(s) - 1 : Tail(s)[i] = s[i + 1]
         /\ EventsOf(s) = EventsOf(Tail(s)) \cup {Head(s)}
<1>1. /\ Head(s) \in Nat /\ Tail(s) \in Seq(Nat) /\ Len(Tail(s)) = Len(s) - 1
      /\ \A i \in 1..Len(Tail(s)) : Tail(s)[i] = s[i + 1]
  BY HeadTailProperties
<1>2. Len(s) \in Nat \ {0} /\ DOMAIN s = 1..Len(s)
  BY EmptySeq, LenProperties
<1>3. DOMAIN Tail(s) = 1 .. Len(s) - 1
  BY <1>1, LenProperties
<1>4. Head(s) = s[1]
  OBVIOUS
<1> DEFINE t == Tail(s)  h == Head(s)
<1> HIDE DEF t, h
<1>5. EventsOf(s) = EventsOf(t) \cup {h}
  <2>0. DOMAIN t = 1 .. Len(s) - 1 /\ h = s[1] /\ \A i \in 1 .. Len(s) - 1 : t[i] = s[i + 1]
    BY <1>1, <1>3, <1>4 DEF t, h
  <2>1. ASSUME NEW x \in EventsOf(s) PROVE x \in EventsOf(t) \cup {h}
    <3>1. PICK i \in 1..Len(s) : x = s[i]
      BY <1>2 DEF EventsOf
    <3>2. CASE i = 1
      BY <2>0, <3>1, <3>2
    <3>3. CASE i # 1
      <4>1. i - 1 \in 1 .. Len(s) - 1 /\ t[i - 1] = s[i - 1 + 1] /\ i - 1 + 1 = i
        BY <1>2, <2>0, <3>3
      <4> QED
        BY <2>0, <3>1, <4>1 DEF EventsOf
    <3> QED
      BY <3>2, <3>3
  <2>2. ASSUME NEW x \in EventsOf(t) PROVE x \in EventsOf(s)
    <3>1. PICK i \in 1 .. Len(s) - 1 : x = t[i]
      BY <2>0 DEF EventsOf
    <3>2. i + 1 \in 1..Len(s) /\ x = s[i + 1]
      BY <1>2, <2>0, <3>1
    <3> QED
      BY <1>2, <3>2 DEF EventsOf
  <2>3. h \in EventsOf(s)
    <3>1. 1 \in 1..Len(s)
      BY <1>2
    <3> QED
      BY <1>2, <2>0, <3>1 DEF EventsOf
  <2> QED
    BY <2>1, <2>2, <2>3
<1> QED
  BY <1>1, <1>2, <1>3, <1>4, <1>5 DEF t, h

\* Publish keeps the last events.
LEMMA HistoryMoves ==
  ASSUME NEW n \in Nat, NEW hist, HistoryInv(hist, n)
  PROVE  HistoryInv(LastOf(Append(hist, n + 1), HistoryLimit), n + 1)
<1> DEFINE t == Append(hist, n + 1)
<1>0. HistoryLimit \in Nat \ {0}
  BY GatewayAssumption
<1>1. /\ hist \in Seq(Nat) /\ Len(hist) \in Nat
      /\ Len(hist) = IF n <= HistoryLimit THEN n ELSE HistoryLimit
      /\ \A k \in 1..Len(hist) : hist[k] = n - Len(hist) + k
  BY LenProperties DEF HistoryInv
<1>2. /\ t \in Seq(Nat) /\ Len(t) = Len(hist) + 1
      /\ \A k \in 1..Len(hist) : t[k] = hist[k]
      /\ t[Len(hist) + 1] = n + 1
  BY <1>1, Appended
<1> HIDE DEF t
<1>3. ASSUME NEW k \in 1..Len(t) PROVE t[k] \in Nat /\ t[k] = n + 1 - Len(t) + k
  <2>1. CASE k = Len(hist) + 1
    BY <1>1, <1>2, <2>1
  <2>2. CASE k \in 1..Len(hist)
    <3>1. Len(hist) <= n /\ Len(hist) \in Nat /\ Len(t) = Len(hist) + 1 /\ k \in Nat
      BY <1>0, <1>1, <1>2, <2>2
    <3>2. t[k] = n - Len(hist) + k
      BY <1>1, <1>2, <2>2
    <3>3. n - Len(hist) + k \in Nat /\ n + 1 - Len(t) + k = n - Len(hist) + k
      BY <3>1
    <3> QED
      BY <3>2, <3>3
  <2> QED
    BY <1>1, <1>2, <2>1, <2>2
<1>4. CASE Len(t) <= HistoryLimit
  <2>1. Len(t) = n + 1
    BY <1>0, <1>1, <1>2, <1>4
  <2> QED
    BY <1>0, <1>2, <1>3, <1>4, <2>1 DEF HistoryInv, LastOf, t
<1>5. CASE ~(Len(t) <= HistoryLimit)
  <2>1. Len(t) = HistoryLimit + 1 /\ n >= HistoryLimit
    BY <1>0, <1>1, <1>2, <1>5
  <2> DEFINE u == SubSeq(t, 2, HistoryLimit + 1)
  <2>2. /\ u \in Seq(Nat) /\ Len(u) = HistoryLimit
        /\ \A i \in 1..HistoryLimit : u[i] = t[i + 1]
    <3>1. \A i \in 2 .. HistoryLimit + 1 : t[i] \in Nat
      BY <1>0, <1>3, <2>1
    <3>2. /\ u \in Seq(Nat)
          /\ Len(u) = IF 2 <= HistoryLimit + 1 THEN HistoryLimit + 1 - 2 + 1 ELSE 0
          /\ \A i \in 1 .. HistoryLimit + 1 - 2 + 1 : u[i] = t[2 + i - 1]
      BY <1>0, <3>1, SubSeqProperties
    <3> HIDE DEF u
    <3> QED
      BY <1>0, <3>2
  <2>3. LastOf(t, HistoryLimit) = u
    BY <1>0, <1>5, <2>1 DEF LastOf
  <2> HIDE DEF u
  <2>4. HistoryInv(u, n + 1)
    BY <1>0, <1>3, <2>1, <2>2 DEF HistoryInv
  <2> QED
    BY <2>3, <2>4 DEF t
<1> QED
  BY <1>4, <1>5

\* Offering an event to a stream.
LEMMA Offered ==
  ASSUME NEW n \in Nat, NEW stream, StreamInv(stream, n)
  PROVE  StreamInv(Offer(stream, n + 1), n + 1)
<1>0. stream \in StreamType /\ Placed(stream, n) /\ Sorted(stream) /\ Reaches(stream, n)
      /\ ChannelLimit \in Nat /\ n + 1 \in Nat
  BY GatewayAssumption DEF StreamInv
<1>a. /\ stream.sub \in Nat /\ stream.snap \in Nat
      /\ stream.todo \in Seq(Nat) /\ stream.chan \in Seq(Nat) /\ stream.sent \in Seq(Nat)
      /\ DOMAIN stream.sent = 1..Len(stream.sent) /\ Len(stream.sent) \in Nat
      /\ \A i \in DOMAIN stream.sent : stream.sent[i] \in Nat
      /\ \A i \in DOMAIN stream.chan : stream.chan[i] \in Nat
      /\ \A i \in DOMAIN stream.todo : stream.todo[i] \in Nat
  BY <1>0, LenProperties, ElementOfSeq DEF StreamType
<1>1. CASE stream.phase = "closed"
  <2>1. stream = Closed
    BY <1>0, <1>1 DEF Reaches
  <2>2. Placed(Closed, n + 1) /\ Sorted(Closed) /\ Reaches(Closed, n + 1) /\ Closed \in StreamType
    BY <1>0, EmptySeq, <2>1 DEF Closed, Placed, Sorted, Reaches, Between, Increasing, StreamType
  <2> QED
    BY <1>1, <2>1, <2>2 DEF Offer, StreamInv
<1>2. CASE stream.phase # "closed" /\ Len(stream.chan) < ChannelLimit
  <2> DEFINE chan == Append(stream.chan, n + 1)
             x == [stream EXCEPT !.chan = chan]
  <2>1. /\ chan \in Seq(Nat) /\ Len(chan) = Len(stream.chan) + 1 /\ Len(stream.chan) \in Nat
        /\ DOMAIN stream.chan = 1..Len(stream.chan) /\ DOMAIN chan = 1 .. Len(stream.chan) + 1
        /\ \A i \in 1..Len(stream.chan) : chan[i] = stream.chan[i]
        /\ chan[Len(stream.chan) + 1] = n + 1
        /\ EventsOf(chan) = EventsOf(stream.chan) \cup {n + 1}
    BY <1>0, <1>a, Appended
  <2> HIDE DEF chan
  <2>a. \A i \in DOMAIN chan : i \in 1..Len(stream.chan) \/ i = Len(stream.chan) + 1
    <3> DEFINE m == Len(stream.chan)
    <3>1. m \in Nat /\ DOMAIN chan = 1 .. m + 1
      BY <2>1
    <3> HIDE DEF m
    <3>2. \A i \in 1 .. m + 1 : i \in 1..m \/ i = m + 1
      BY <3>1
    <3> QED
      BY <3>1, <3>2 DEF m
  <2>2. /\ x \in StreamType /\ x.phase = stream.phase /\ x.sub = stream.sub /\ x.snap = stream.snap
        /\ x.todo = stream.todo /\ x.sent = stream.sent /\ x.missed = stream.missed /\ x.chan = chan
    BY <1>0, <2>1 DEF StreamType
  <2>3. Offer(stream, n + 1) = x
    BY <1>2 DEF Offer, chan
  <2> HIDE DEF x
  <2>4. Between(chan, stream.sub, n + 1) /\ Increasing(chan)
    <3>0. /\ Increasing(stream.chan) /\ stream.sub <= n
          /\ \A i \in 1..Len(stream.chan) :
               /\ stream.chan[i] \in Nat /\ stream.sub < stream.chan[i] /\ stream.chan[i] <= n
               /\ chan[i] = stream.chan[i]
      BY <1>0, <1>a, <2>1 DEF Placed, Between
    <3>2. Between(chan, stream.sub, n + 1)
      <4> SUFFICES ASSUME NEW i \in DOMAIN chan PROVE stream.sub < chan[i] /\ chan[i] <= n + 1
        BY DEF Between
      <4>1. CASE i = Len(stream.chan) + 1
        <5>1. chan[i] = n + 1
          BY <2>1, <4>1
        <5> QED
          BY <1>0, <1>a, <3>0, <5>1
      <4>2. CASE i \in 1..Len(stream.chan)
        <5>1. stream.chan[i] \in Nat /\ stream.sub < stream.chan[i] /\ stream.chan[i] <= n
              /\ chan[i] = stream.chan[i]
          BY <3>0, <4>2
        <5> QED
          BY <5>1
      <4> QED
        BY <2>a, <4>1, <4>2
    <3>3. ASSUME NEW i \in DOMAIN chan, NEW j \in DOMAIN chan, i < j PROVE chan[i] < chan[j]
      <4>0. Len(stream.chan) \in Nat
        BY <2>1
      <4>1. i \in 1..Len(stream.chan)
        BY <2>a, <3>3, <4>0
      <4>2. CASE j = Len(stream.chan) + 1
        BY <1>0, <2>1, <3>0, <4>1, <4>2, SMTT(30)
      <4>3. CASE j \in 1..Len(stream.chan)
        BY <2>1, <3>0, <3>3, <4>1, <4>3 DEF Increasing
      <4> QED
        BY <2>a, <4>2, <4>3
    <3> QED
      BY <3>2, <3>3 DEF Increasing
  <2>5. Placed(x, n + 1)
    <3>1. Between(stream.sent, 0, n + 1) /\ \A e \in stream.missed : stream.sub < e /\ e <= n + 1
      BY <1>0, <1>a, SMTT(30) DEF Placed, Between, StreamType
    <3> QED
      BY <1>0, <1>2, <1>a, <2>1, <2>2, <2>4, <3>1 DEF Placed
  <2>6. Sorted(x)
    <3>1. ASSUME NEW i \in DOMAIN stream.sent, NEW k \in DOMAIN chan, stream.sent[i] >= chan[k]
          PROVE  stream.sent[i] <= stream.snap
      <4>1. stream.sent[i] <= n
        BY <1>0 DEF Placed, Between
      <4>2. k \in 1..Len(stream.chan)
        <5>1. k \in 1..Len(stream.chan) \/ k = Len(stream.chan) + 1
          BY <2>a
        <5>2. k # Len(stream.chan) + 1
          BY <1>0, <1>a, <2>1, <3>1, <4>1, SMTT(30)
        <5> QED
          BY <5>1, <5>2
      <4> QED
        BY <1>0, <2>1, <3>1, <4>2 DEF Sorted
    <3> QED
      BY <1>0, <2>2, <3>1 DEF Sorted
  <2>7. Reaches(x, n + 1)
    <3>1. \A e \in 1 .. n + 1 : e \in 1..n \/ e = n + 1
      OBVIOUS
    <3>2. \A e \in stream.sub + 1 .. n + 1 : e \in stream.sub + 1 .. n \/ e = n + 1
      BY <1>a
    <3>3. EventsOf(stream.chan) \subseteq EventsOf(chan) /\ n + 1 \in EventsOf(chan)
      BY <2>1
    <3>4. Got(stream) \subseteq Got(x) /\ n + 1 \in Got(x)
      BY <2>2, <3>3 DEF Got
    <3> QED
      BY <1>0, <1>2, <2>2, <3>1, <3>2, <3>3, <3>4 DEF Reaches
  <2> QED
    BY <2>2, <2>3, <2>5, <2>6, <2>7 DEF StreamInv
<1>3. CASE stream.phase # "closed" /\ ~(Len(stream.chan) < ChannelLimit)
  <2> DEFINE x == [stream EXCEPT !.missed = @ \cup {n + 1}]
  <2>2. /\ x \in StreamType /\ x.phase = stream.phase /\ x.sub = stream.sub /\ x.snap = stream.snap
        /\ x.todo = stream.todo /\ x.sent = stream.sent /\ x.chan = stream.chan
        /\ x.missed = stream.missed \cup {n + 1}
    BY <1>0 DEF StreamType
  <2>3. Offer(stream, n + 1) = x
    BY <1>3 DEF Offer
  <2> HIDE DEF x
  <2>5. Placed(x, n + 1)
    <3>1. Between(stream.sent, 0, n + 1) /\ Between(stream.chan, stream.sub, n + 1)
          /\ \A e \in x.missed : stream.sub < e /\ e <= n + 1
      BY <1>0, <1>a, <2>2, SMTT(30) DEF Placed, Between, StreamType
    <3> QED
      BY <1>0, <1>a, <2>2, <3>1 DEF Placed
  <2>6. Sorted(x)
    BY <1>0, <2>2 DEF Sorted
  <2>7. Reaches(x, n + 1)
    <3>1. \A e \in 1 .. n + 1 : e \in 1..n \/ e = n + 1
      OBVIOUS
    <3>2. \A e \in stream.sub + 1 .. n + 1 : e \in stream.sub + 1 .. n \/ e = n + 1
      BY <1>a
    <3>4. Got(stream) = Got(x)
      BY <2>2 DEF Got
    <3>5. stream.snap < n + 1
      BY <1>0, <1>a DEF Placed
    <3> QED
      BY <1>0, <1>3, <1>a, <2>2, <3>1, <3>2, <3>4, <3>5 DEF Reaches
  <2> QED
    BY <2>2, <2>3, <2>5, <2>6, <2>7 DEF StreamInv
<1> QED
  BY <1>1, <1>2, <1>3

\* What the fields of a stream are.
LEMMA StreamFields ==
  ASSUME NEW n \in Nat, NEW stream, StreamInv(stream, n)
  PROVE  /\ stream.sub \in Nat /\ stream.snap \in Nat
         /\ stream.todo \in Seq(Nat) /\ stream.chan \in Seq(Nat) /\ stream.sent \in Seq(Nat)
         /\ Len(stream.sent) \in Nat /\ DOMAIN stream.sent = 1..Len(stream.sent)
         /\ \A i \in DOMAIN stream.sent : stream.sent[i] \in Nat /\ stream.sent[i] <= n
         /\ \A i \in DOMAIN stream.chan : stream.chan[i] \in Nat
         /\ \A i \in DOMAIN stream.todo : stream.todo[i] \in Nat
BY LenProperties, ElementOfSeq DEF StreamType, StreamInv, Placed, Between

\* A stream takes a copy of the history.
LEMMA Copying ==
  ASSUME NEW n \in Nat, NEW stream, StreamInv(stream, n), stream.phase = "subscribed",
         NEW hist, HistoryInv(hist, n), NEW x,
         x = [stream EXCEPT !.phase = "open", !.todo = hist, !.snap = n]
  PROVE  StreamInv(x, n)
<1>0. HistoryLimit \in Nat \ {0}
  BY GatewayAssumption
<1>1. /\ stream \in StreamType /\ Placed(stream, n) /\ Sorted(stream) /\ Reaches(stream, n)
  BY DEF StreamInv
<1>2. /\ hist \in Seq(Nat) /\ Len(hist) \in Nat /\ DOMAIN hist = 1..Len(hist)
      /\ Len(hist) = IF n <= HistoryLimit THEN n ELSE HistoryLimit
      /\ \A k \in 1..Len(hist) : hist[k] = n - Len(hist) + k
  BY LenProperties DEF HistoryInv
<1>3. /\ x \in StreamType /\ x.phase = "open" /\ x.todo = hist /\ x.snap = n
      /\ x.sub = stream.sub /\ x.chan = stream.chan /\ x.sent = stream.sent
      /\ x.missed = stream.missed
  BY <1>1, <1>2 DEF StreamType
<1>4. Between(hist, 0, n) /\ Increasing(hist) /\ Len(hist) <= n
  BY <1>0, <1>2 DEF Between, Increasing
<1>5. Placed(x, n)
  BY <1>1, <1>3, <1>4 DEF Placed
<1>6. x.sent = <<>> /\ DOMAIN x.sent = {}
  BY <1>1, <1>3, EmptySeq, LenProperties DEF Reaches
<1>7. Sorted(x)
  BY <1>6 DEF Sorted
<1>8. ASSUME NEW e \in 1..n
      PROVE  \/ e \in Got(x)
             \/ e <= x.snap - HistoryLimit /\ (e <= x.sub \/ e \in x.missed)
             \/ e > x.snap /\ e \in x.missed
  <2>1. CASE e > n - Len(hist)
    <3>1. e - n + Len(hist) \in 1..Len(hist)
      BY <1>2, <2>1
    <3>2. hist[e - n + Len(hist)] = e
      BY <1>2, <3>1
    <3>3. e \in EventsOf(hist)
      BY <1>2, <3>1, <3>2 DEF EventsOf
    <3> QED
      BY <1>3, <3>3 DEF Got
  <2>2. CASE e <= n - Len(hist)
    <3>1. e <= n - HistoryLimit
      BY <1>0, <1>2, <2>2
    <3>2. e <= stream.sub \/ e \in stream.sub + 1 .. n
      BY <1>1 DEF StreamType
    <3>3. e <= stream.sub \/ e \in EventsOf(stream.chan) \/ e \in stream.missed
      BY <1>1, <3>2 DEF Reaches
    <3>4. e \in EventsOf(stream.chan) => e \in Got(x)
      BY <1>3 DEF Got
    <3> QED
      BY <1>3, <3>1, <3>3, <3>4
  <2> QED
    BY <1>2, <2>1, <2>2
<1> QED
  BY <1>3, <1>5, <1>7, <1>8 DEF StreamInv, Reaches

\* A stream sends the next event of its copy of the history.
LEMMA Replaying ==
  ASSUME NEW n \in Nat, NEW stream, StreamInv(stream, n), stream.phase = "open", stream.todo # <<>>, NEW x,
         x = [stream EXCEPT !.sent = Append(@, Head(stream.todo)), !.todo = Tail(@)]
  PROVE  StreamInv(x, n)
<1>1. stream \in StreamType /\ Placed(stream, n) /\ Sorted(stream) /\ Reaches(stream, n)
  BY DEF StreamInv
<1> DEFINE head == Head(stream.todo)
           rest == Tail(stream.todo)
           sent == Append(stream.sent, head)
           m    == Len(stream.sent)
<1>2. /\ stream.todo \in Seq(Nat) /\ stream.sent \in Seq(Nat) /\ stream.snap \in Nat
      /\ \A i \in DOMAIN stream.sent : stream.sent[i] \in Nat /\ stream.sent[i] <= n
      /\ \A i \in DOMAIN stream.chan : stream.chan[i] \in Nat
      /\ \A i \in DOMAIN stream.todo : stream.todo[i] \in Nat
  BY StreamFields
<1>3. /\ head \in Nat /\ head = stream.todo[1] /\ rest \in Seq(Nat)
      /\ Len(stream.todo) \in Nat \ {0} /\ DOMAIN stream.todo = 1..Len(stream.todo)
      /\ DOMAIN rest = 1 .. Len(stream.todo) - 1
      /\ \A i \in 1 .. Len(stream.todo) - 1 : rest[i] = stream.todo[i + 1]
      /\ EventsOf(stream.todo) = EventsOf(rest) \cup {head}
  BY <1>2, Taken
<1>4. /\ sent \in Seq(Nat) /\ m \in Nat /\ DOMAIN stream.sent = 1..m /\ DOMAIN sent = 1 .. m + 1
      /\ \A i \in 1..m : sent[i] = stream.sent[i]
      /\ sent[m + 1] = head
      /\ EventsOf(sent) = EventsOf(stream.sent) \cup {head}
  BY <1>2, <1>3, Appended
<1>5. x = [stream EXCEPT !.sent = sent, !.todo = rest]
  OBVIOUS
<1> HIDE DEF head, rest, sent, m
<1>6. /\ x \in StreamType /\ x.phase = "open" /\ x.sub = stream.sub /\ x.snap = stream.snap
      /\ x.chan = stream.chan /\ x.missed = stream.missed /\ x.sent = sent /\ x.todo = rest
  BY <1>1, <1>3, <1>4, <1>5 DEF StreamType
<1>7. \A i \in DOMAIN sent : i \in DOMAIN stream.sent \/ i = m + 1
  BY <1>4
<1>8. 1 \in DOMAIN stream.todo /\ \A i \in DOMAIN rest : i + 1 \in DOMAIN stream.todo /\ 1 < i + 1
  BY <1>3
<1>9. 0 < head /\ head <= stream.snap /\ stream.snap <= n /\ \A i \in DOMAIN rest : head < rest[i] /\ rest[i] \in Nat
  BY <1>1, <1>2, <1>3, <1>8 DEF Placed, Between, Increasing
<1>10. Placed(x, n)
  <2>1. Between(rest, 0, stream.snap)
    BY <1>1, <1>3, <1>8 DEF Placed, Between
  <2>2. Increasing(rest)
    <3> SUFFICES ASSUME NEW i \in DOMAIN rest, NEW j \in DOMAIN rest, i < j PROVE rest[i] < rest[j]
      BY DEF Increasing
    <3>1. i + 1 < j + 1 /\ i + 1 \in DOMAIN stream.todo /\ j + 1 \in DOMAIN stream.todo
      BY <1>3, <1>8
    <3> QED
      BY <1>1, <1>3, <3>1 DEF Placed, Increasing
  <2>3. Between(sent, 0, n)
    <3> SUFFICES ASSUME NEW i \in DOMAIN sent PROVE 0 < sent[i] /\ sent[i] <= n
      BY DEF Between
    <3>1. CASE i = m + 1
      BY <1>2, <1>3, <1>4, <1>9, <3>1, SMTT(30)
    <3>2. CASE i \in DOMAIN stream.sent
      BY <1>1, <1>4, <3>2 DEF Placed, Between
    <3> QED
      BY <1>7, <3>1, <3>2
  <2> QED
    BY <1>1, <1>6, <2>1, <2>2, <2>3 DEF Placed
<1>11. Sorted(x)
  <2>1. \A i \in DOMAIN stream.sent : stream.sent[i] < head
    BY <1>1, <1>3, <1>8 DEF Sorted
  <2>2. ASSUME NEW i \in DOMAIN sent, NEW j \in DOMAIN sent, i < j, sent[i] >= sent[j]
        PROVE  sent[i] <= stream.snap /\ stream.sub < sent[j]
    <3>1. i \in DOMAIN stream.sent
      BY <1>4, <2>2
    <3>2. sent[i] = stream.sent[i] /\ sent[i] < head /\ sent[i] \in Nat
      BY <1>2, <1>4, <2>1, <3>1
    <3>3. j \in DOMAIN stream.sent
      BY <1>3, <1>4, <1>7, <2>2, <3>2
    <3> QED
      BY <1>1, <1>4, <2>2, <3>1, <3>3 DEF Sorted
  <2>3. ASSUME NEW i \in DOMAIN sent, NEW k \in DOMAIN stream.chan, sent[i] >= stream.chan[k]
        PROVE  sent[i] <= stream.snap
    BY <1>1, <1>4, <1>7, <1>9, <2>3 DEF Sorted
  <2>4. ASSUME NEW i \in DOMAIN sent, NEW k \in DOMAIN rest PROVE sent[i] < rest[k]
    <3>1. CASE i = m + 1
      BY <1>4, <1>9, <3>1
    <3>2. CASE i \in DOMAIN stream.sent
      BY <1>1, <1>3, <1>4, <1>8, <3>2 DEF Sorted
    <3> QED
      BY <1>7, <3>1, <3>2
  <2> QED
    BY <1>6, <2>2, <2>3, <2>4 DEF Sorted
<1>12. Got(x) = Got(stream)
  BY <1>3, <1>4, <1>6 DEF Got
<1> QED
  BY <1>1, <1>6, <1>10, <1>11, <1>12 DEF StreamInv, Reaches

\* A stream sends the next event of its channel.
LEMMA Forwarding ==
  ASSUME NEW n \in Nat, NEW stream, StreamInv(stream, n), stream.phase = "open",
         stream.todo = <<>>, stream.chan # <<>>, NEW x,
         x = [stream EXCEPT !.sent = Append(@, Head(stream.chan)), !.chan = Tail(@)]
  PROVE  StreamInv(x, n)
<1>1. stream \in StreamType /\ Placed(stream, n) /\ Sorted(stream) /\ Reaches(stream, n)
      /\ ChannelLimit \in Nat
  BY GatewayAssumption DEF StreamInv
<1> DEFINE head == Head(stream.chan)
           rest == Tail(stream.chan)
           sent == Append(stream.sent, head)
           m    == Len(stream.sent)
<1>2. /\ stream.chan \in Seq(Nat) /\ stream.sent \in Seq(Nat) /\ stream.snap \in Nat /\ stream.sub \in Nat
      /\ \A i \in DOMAIN stream.sent : stream.sent[i] \in Nat /\ stream.sent[i] <= n
      /\ \A i \in DOMAIN stream.chan : stream.chan[i] \in Nat
  BY StreamFields
<1>3. /\ head \in Nat /\ head = stream.chan[1] /\ rest \in Seq(Nat)
      /\ Len(stream.chan) \in Nat \ {0} /\ DOMAIN stream.chan = 1..Len(stream.chan)
      /\ DOMAIN rest = 1 .. Len(stream.chan) - 1 /\ Len(rest) = Len(stream.chan) - 1
      /\ \A i \in 1 .. Len(stream.chan) - 1 : rest[i] = stream.chan[i + 1]
      /\ EventsOf(stream.chan) = EventsOf(rest) \cup {head}
  BY <1>2, Taken
<1>4. /\ sent \in Seq(Nat) /\ m \in Nat /\ DOMAIN stream.sent = 1..m /\ DOMAIN sent = 1 .. m + 1
      /\ \A i \in 1..m : sent[i] = stream.sent[i]
      /\ sent[m + 1] = head
      /\ EventsOf(sent) = EventsOf(stream.sent) \cup {head}
  BY <1>2, <1>3, Appended, SMTT(30)
<1>5. x = [stream EXCEPT !.sent = sent, !.chan = rest]
  OBVIOUS
<1>a. DOMAIN stream.todo = {}
  BY EmptySeq, LenProperties
<1> HIDE DEF head, rest, sent, m
<1>6. /\ x \in StreamType /\ x.phase = "open" /\ x.sub = stream.sub /\ x.snap = stream.snap
      /\ x.todo = stream.todo /\ x.missed = stream.missed /\ x.sent = sent /\ x.chan = rest
  BY <1>1, <1>3, <1>4, <1>5 DEF StreamType
<1>7. \A i \in DOMAIN sent : i \in DOMAIN stream.sent \/ i = m + 1
  BY <1>4
<1>8. 1 \in DOMAIN stream.chan /\ \A i \in DOMAIN rest : i + 1 \in DOMAIN stream.chan /\ 1 < i + 1
  BY <1>3
<1>9. stream.sub < head /\ head <= n /\ \A i \in DOMAIN rest : head < rest[i] /\ rest[i] \in Nat
  BY <1>1, <1>2, <1>3, <1>8 DEF Placed, Between, Increasing
<1>10. Placed(x, n)
  <2>1. Between(rest, stream.sub, n)
    BY <1>1, <1>3, <1>8 DEF Placed, Between
  <2>2. Increasing(rest)
    <3> SUFFICES ASSUME NEW i \in DOMAIN rest, NEW j \in DOMAIN rest, i < j PROVE rest[i] < rest[j]
      BY DEF Increasing
    <3>1. i + 1 < j + 1 /\ i + 1 \in DOMAIN stream.chan /\ j + 1 \in DOMAIN stream.chan
      BY <1>3, <1>8
    <3> QED
      BY <1>1, <1>3, <3>1 DEF Placed, Increasing
  <2>3. Between(sent, 0, n)
    <3> SUFFICES ASSUME NEW i \in DOMAIN sent PROVE 0 < sent[i] /\ sent[i] <= n
      BY DEF Between
    <3>1. CASE i = m + 1
      BY <1>2, <1>3, <1>4, <1>9, <3>1, SMTT(30)
    <3>2. CASE i \in DOMAIN stream.sent
      BY <1>1, <1>4, <3>2 DEF Placed, Between
    <3> QED
      BY <1>7, <3>1, <3>2
  <2>4. Len(rest) <= ChannelLimit
    BY <1>1, <1>3 DEF Placed
  <2> QED
    BY <1>1, <1>6, <2>1, <2>2, <2>3, <2>4 DEF Placed
<1>11. Sorted(x)
  <2>1. \A i \in DOMAIN stream.sent : stream.sent[i] >= head => stream.sent[i] <= stream.snap
    BY <1>1, <1>3, <1>8 DEF Sorted
  <2>2. ASSUME NEW i \in DOMAIN sent, NEW j \in DOMAIN sent, i < j, sent[i] >= sent[j]
        PROVE  sent[i] <= stream.snap /\ stream.sub < sent[j]
    <3>1. i \in DOMAIN stream.sent /\ sent[i] = stream.sent[i]
      BY <1>4, <2>2
    <3>2. CASE j = m + 1
      BY <1>4, <1>9, <2>1, <2>2, <3>1, <3>2
    <3>3. CASE j \in DOMAIN stream.sent
      BY <1>1, <1>4, <2>2, <3>1, <3>3 DEF Sorted
    <3> QED
      BY <1>7, <3>2, <3>3
  <2>3. ASSUME NEW i \in DOMAIN sent, NEW k \in DOMAIN rest, sent[i] >= rest[k]
        PROVE  sent[i] <= stream.snap
    <3>1. i # m + 1
      BY <1>3, <1>4, <1>9, <2>3
    <3>2. i \in DOMAIN stream.sent /\ sent[i] = stream.sent[i] /\ k + 1 \in DOMAIN stream.chan
          /\ rest[k] = stream.chan[k + 1]
      BY <1>3, <1>4, <1>7, <1>8, <3>1
    <3> QED
      BY <1>1, <2>3, <3>2 DEF Sorted
  <2> QED
    BY <1>6, <1>a, <2>2, <2>3 DEF Sorted
<1>12. Got(x) = Got(stream)
  BY <1>3, <1>4, <1>6 DEF Got
<1> QED
  BY <1>1, <1>6, <1>10, <1>11, <1>12 DEF StreamInv, Reaches

-----------------------------------------------------------------------------
\* The hub changes only when a stream moves, when a request announces an
\* event and when the process stops.
LEMMA HubFrame ==
  ASSUME Next
  PROVE  \/ \E s \in Stream : Subscribe(s) \/ TakeHistory(s) \/ SendEvent(s) \/ Unsubscribe(s)
         \/ \E r \in Request : Announce(r)
         \/ GatewayStops
         \/ UNCHANGED hubVars
<1>1. CASE GatewayStep
  BY <1>1, Zenon DEF GatewayStep, AskFor, Submitted, Managed, Sent, Recorded, Arrive, GetUpdates, Deliver,
     Reply, Log, PollLog, Follow, ScheduleJob, GatewayStarts
<1>2. CASE UNCHANGED gatewayVars
  BY <1>2, Zenon DEF gatewayVars
<1>3. GatewayStep \/ UNCHANGED gatewayVars
  BY Zenon DEF Next, Work, Tick, Execute, Dispatch
<1> QED
  BY <1>1, <1>2, <1>3, Zenon

\* A stream that is closed, or has just subscribed.
LEMMA Fresh ==
  ASSUME NEW n \in Nat
  PROVE  StreamInv(Closed, n) /\ StreamInv([Closed EXCEPT !.phase = "subscribed", !.sub = n], n)
<1>0. <<>> \in Seq(Nat) /\ Len(<<>>) = 0 /\ DOMAIN <<>> = {} /\ ChannelLimit \in Nat
  BY GatewayAssumption, EmptySeq, LenProperties
<1>1. StreamInv(Closed, n)
  <2>1. Closed \in StreamType
    BY <1>0 DEF Closed, StreamType
  <2>2. Placed(Closed, n) /\ Sorted(Closed) /\ Reaches(Closed, n)
    BY <1>0 DEF Closed, Placed, Sorted, Reaches, Between, Increasing
  <2> QED
    BY <2>1, <2>2 DEF StreamInv
<1> DEFINE x == [Closed EXCEPT !.phase = "subscribed", !.sub = n]
<1>2. /\ Closed \in StreamType
      /\ Closed.snap = 0 /\ Closed.todo = <<>> /\ Closed.chan = <<>> /\ Closed.sent = <<>> /\ Closed.missed = {}
  BY <1>0 DEF Closed, StreamType
<1>3. x \in StreamType /\ Placed(x, n) /\ Sorted(x) /\ Reaches(x, n)
  <2>1. x \in StreamType
    BY <1>2 DEF StreamType
  <2>2. /\ x.phase = "subscribed" /\ x.sub = n /\ x.snap = 0 /\ x.todo = <<>> /\ x.chan = <<>>
        /\ x.sent = <<>> /\ x.missed = {}
    BY <1>2 DEF StreamType
  <2> HIDE DEF x
  <2>3. Between(<<>>, 0, 0) /\ Between(<<>>, n, n) /\ Between(<<>>, 0, n) /\ Increasing(<<>>)
    BY <1>0 DEF Between, Increasing
  <2>4. Placed(x, n)
    BY <1>0, <2>2, <2>3 DEF Placed
  <2>5. Sorted(x)
    BY <1>0, <2>2 DEF Sorted
  <2>6. Reaches(x, n)
    BY <2>2 DEF Reaches
  <2> QED
    BY <2>1, <2>4, <2>5, <2>6
<1>4. StreamInv(x, n)
  BY <1>3 DEF StreamInv
<1> QED
  BY <1>1, <1>4

\* The hub starts without events and without subscribers.
LEMMA HubInvInit == Init => HubInv
<1>1. <<>> \in Seq(Nat) /\ Len(<<>>) = 0
  BY EmptySeq
<1>2. HistoryInv(<<>>, 0)
  BY <1>1, GatewayAssumption DEF HistoryInv
<1> SUFFICES ASSUME Init PROVE HubInv
  OBVIOUS
<1>3. published = 0 /\ history = <<>> /\ streams = [s \in Stream |-> Closed]
  BY Zenon DEF Init, GatewayInit
<1>4. StreamInv(Closed, 0)
  BY Fresh
<1>5. DOMAIN streams = Stream /\ \A s \in Stream : streams[s] = Closed
  BY <1>3, Zenon
<1> QED
  BY <1>2, <1>3, <1>4, <1>5 DEF HubInv

\* One stream moves.
LEMMA StreamMoves ==
  ASSUME HubInv, NEW s \in Stream, NEW x, StreamInv(x, published),
         streams' = [streams EXCEPT ![s] = x], published' = published, history' = history
  PROVE  HubInv'
<1>1. DOMAIN streams' = Stream /\ streams'[s] = x /\ \A t \in Stream \ {s} : streams'[t] = streams[t]
  BY DEF HubInv
<1> QED
  BY <1>1 DEF HubInv

\* Publish, Subscribe, History, Unsubscribe and the loop of streamDesktopEvents
\* keep what is known of the streams; a restart of the process closes them.
LEMMA HubInvNext == HubInv /\ [Next]_vars => HubInv'
<1> SUFFICES ASSUME HubInv, [Next]_vars PROVE HubInv'
  OBVIOUS
<1>0. published \in Nat /\ HistoryInv(history, published) /\ DOMAIN streams = Stream
      /\ \A s \in Stream : StreamInv(streams[s], published)
  BY DEF HubInv
<1>1. CASE UNCHANGED hubVars
  BY <1>1, Zenon DEF hubVars, HubInv
<1>2. ASSUME NEW s \in Stream, Subscribe(s) PROVE HubInv'
  <2>1. streams' = [streams EXCEPT ![s] = [Closed EXCEPT !.phase = "subscribed", !.sub = published]]
        /\ published' = published /\ history' = history
    BY <1>2 DEF Subscribe
  <2> QED
    BY <1>0, <2>1, Fresh, StreamMoves
<1>3. ASSUME NEW s \in Stream, TakeHistory(s) PROVE HubInv'
  <2> DEFINE x == [streams[s] EXCEPT !.phase = "open", !.todo = history, !.snap = published]
  <2>1. streams' = [streams EXCEPT ![s] = x] /\ published' = published /\ history' = history
        /\ streams[s].phase = "subscribed"
    BY <1>3 DEF TakeHistory
  <2>2. StreamInv(x, published)
    BY <1>0, <2>1, Copying
  <2> HIDE DEF x
  <2> QED
    BY <2>1, <2>2, StreamMoves
<1>4. ASSUME NEW s \in Stream, SendEvent(s) PROVE HubInv'
  <2> DEFINE x == [streams[s] EXCEPT !.sent = Append(@, Head(streams[s].todo)), !.todo = Tail(@)]
             y == [streams[s] EXCEPT !.sent = Append(@, Head(streams[s].chan)), !.chan = Tail(@)]
  <2>1. /\ published' = published /\ history' = history /\ streams[s].phase = "open"
        /\ \/ streams[s].todo # <<>> /\ streams' = [streams EXCEPT ![s] = x]
           \/ streams[s].todo = <<>> /\ streams[s].chan # <<>> /\ streams' = [streams EXCEPT ![s] = y]
    BY <1>4 DEF SendEvent
  <2>2. CASE streams[s].todo # <<>> /\ streams' = [streams EXCEPT ![s] = x]
    <3>1. StreamInv(x, published)
      BY <1>0, <2>1, <2>2, Replaying
    <3> HIDE DEF x
    <3> QED
      BY <2>1, <2>2, <3>1, StreamMoves
  <2>3. CASE streams[s].todo = <<>> /\ streams[s].chan # <<>> /\ streams' = [streams EXCEPT ![s] = y]
    <3>1. StreamInv(y, published)
      BY <1>0, <2>1, <2>3, Forwarding
    <3> HIDE DEF y
    <3> QED
      BY <2>1, <2>3, <3>1, StreamMoves
  <2> QED
    BY <2>1, <2>2, <2>3
<1>5. ASSUME NEW s \in Stream, Unsubscribe(s) PROVE HubInv'
  <2>1. streams' = [streams EXCEPT ![s] = Closed] /\ published' = published /\ history' = history
    BY <1>5 DEF Unsubscribe
  <2> QED
    BY <1>0, <2>1, Fresh, StreamMoves
<1>6. ASSUME NEW r \in Request, Announce(r) PROVE HubInv'
  <2>1. /\ published' = published + 1 /\ history' = LastOf(Append(history, published + 1), HistoryLimit)
        /\ streams' = [s \in Stream |-> Offer(streams[s], published + 1)]
    BY <1>6 DEF Announce, Publish
  <2>2. HistoryInv(history', published')
    BY <1>0, <2>1, HistoryMoves
  <2>3. \A s \in Stream : StreamInv(streams'[s], published')
    BY <1>0, <2>1, Offered
  <2> QED
    BY <1>0, <2>1, <2>2, <2>3 DEF HubInv
<1>7. CASE GatewayStops
  <2>1. published' = 0 /\ history' = <<>> /\ streams' = [s \in Stream |-> Closed]
    BY <1>7, Zenon DEF GatewayStops
  <2>2. HistoryInv(<<>>, 0)
    BY EmptySeq, GatewayAssumption DEF HistoryInv
  <2> QED
    BY <2>1, <2>2, Fresh DEF HubInv
<1>8. CASE UNCHANGED vars
  BY <1>1, <1>8, Zenon DEF vars, gatewayVars, hubVars
<1> QED
  BY <1>1, <1>2, <1>3, <1>4, <1>5, <1>6, <1>7, <1>8, HubFrame, Zenon

\* What is known of a stream tells where its gaps and its repetitions come from.
LEMMA HubInvReaches == HubInv => EventsReachStreams
<1> SUFFICES ASSUME HubInv, NEW s \in Stream, streams[s].phase = "open"
             PROVE  /\ \A e \in 1..published :
                         \/ e \in Got(streams[s])
                         \/ e <= streams[s].snap - HistoryLimit
                              /\ (e <= streams[s].sub \/ e \in streams[s].missed)
                         \/ e > streams[s].snap /\ e \in streams[s].missed
                    /\ \A i, j \in DOMAIN streams[s].sent :
                         i < j /\ streams[s].sent[i] >= streams[s].sent[j] =>
                           streams[s].sent[i] <= streams[s].snap
                             /\ streams[s].sent[j] \in streams[s].sub + 1 .. streams[s].snap
  BY DEF EventsReachStreams
<1>1. published \in Nat /\ StreamInv(streams[s], published)
  BY DEF HubInv
<1>2. /\ streams[s].sub \in Nat /\ streams[s].snap \in Nat
      /\ \A i \in DOMAIN streams[s].sent : streams[s].sent[i] \in Nat
  BY <1>1, StreamFields
<1>3. ASSUME NEW i \in DOMAIN streams[s].sent, NEW j \in DOMAIN streams[s].sent,
             i < j, streams[s].sent[i] >= streams[s].sent[j]
      PROVE  streams[s].sent[i] <= streams[s].snap
               /\ streams[s].sent[j] \in streams[s].sub + 1 .. streams[s].snap
  <2>1. streams[s].sent[i] <= streams[s].snap /\ streams[s].sub < streams[s].sent[j]
    BY <1>1, <1>3 DEF StreamInv, Sorted
  <2> QED
    BY <1>2, <1>3, <2>1
<1> QED
  BY <1>1, <1>3 DEF StreamInv, Reaches

-----------------------------------------------------------------------------
\* The log and its followers change only in their own steps and when the
\* process stops.
LEMMA LogFrame ==
  ASSUME Next
  PROVE  \/ Log
         \/ \E f \in Follower : PollLog(f) \/ \E tail \in Tails : Follow(f, tail)
         \/ GatewayStops
         \/ UNCHANGED logVars
<1>1. CASE GatewayStep
  BY <1>1, Zenon DEF GatewayStep, Subscribe, TakeHistory, SendEvent, Unsubscribe, AskFor, Submitted, Managed,
     Sent, Recorded, Announce, Arrive, GetUpdates, Deliver, Reply, ScheduleJob, GatewayStarts
<1>2. CASE UNCHANGED gatewayVars
  BY <1>2, Zenon DEF gatewayVars
<1>3. GatewayStep \/ UNCHANGED gatewayVars
  BY Zenon DEF Next, Work, Tick, Execute, Dispatch
<1> QED
  BY <1>1, <1>2, <1>3, Zenon

FollowerType == [on : BOOLEAN, tail : Nat, seen : Nat, sent : Seq(Nat), shifted : BOOLEAN]

Numbers(n) == [k \in 1..n |-> k]

\* A follower whose windows all began at line one has sent the lines it has seen.
FollowerInv(follower, n) ==
  /\ follower \in FollowerType /\ follower.seen <= n
  /\ follower.on /\ ~follower.shifted => follower.sent = Numbers(follower.seen)

LogInv == lines \in Nat /\ DOMAIN followers = Follower /\ \A f \in Follower : FollowerInv(followers[f], lines)

\* The first lines of the log.
LEMMA NumbersSeq == ASSUME NEW n \in Nat PROVE Numbers(n) \in Seq(Nat) /\ Len(Numbers(n)) = n
BY DEF Numbers

\* What tailFile returns.
LEMMA Tailed ==
  ASSUME lines \in Nat, NEW n \in Nat
  PROVE  /\ TailFile(n) \in Seq(Nat) /\ Len(TailFile(n)) \in 0..lines
         /\ Len(TailFile(n)) = lines => TailFile(n) = Numbers(lines)
<1> DEFINE len == IF n = 0 \/ n > lines THEN lines ELSE n
<1>1. len \in 0..lines
  OBVIOUS
<1>2. TailFile(n) = [k \in 1..len |-> lines - len + k]
  BY DEF TailFile
<1> HIDE DEF len
<1>3. [k \in 1..len |-> lines - len + k] \in Seq(Nat) /\ Len([k \in 1..len |-> lines - len + k]) = len
  <2>1. \A k \in 1..len : lines - len + k \in Nat
    BY <1>1
  <2>2. len \in Nat
    BY <1>1
  <2> QED
    BY <2>1, <2>2
<1>4. len = lines => [k \in 1..len |-> lines - len + k] = Numbers(lines)
  BY DEF Numbers
<1> QED
  BY <1>1, <1>2, <1>3, <1>4

\* Joining what was sent with the rest of a window that begins at line one.
LEMMA Joined ==
  ASSUME NEW n \in Nat, NEW seen \in 0..n
  PROVE  Numbers(seen) \o SubSeq(Numbers(n), seen + 1, n) = Numbers(n)
<1>0. seen \in Nat /\ n - seen \in Nat /\ seen + (n - seen) = n
  OBVIOUS
<1> DEFINE s == Numbers(seen)
           t == SubSeq(Numbers(n), seen + 1, n)
           u == Numbers(n)
<1>1. s \in Seq(Nat) /\ Len(s) = seen /\ u \in Seq(Nat) /\ Len(u) = n
  BY <1>0, NumbersSeq
<1>2. \A i \in 1..n : u[i] = i
  BY DEF Numbers
<1>3. \A i \in 1..seen : s[i] = i
  BY DEF Numbers
<1> HIDE DEF s, u
<1>4. /\ t \in Seq(Nat) /\ Len(t) = n - seen /\ \A i \in 1 .. n - seen : t[i] = seen + i
  <2>1. \A i \in seen + 1 .. n : u[i] \in Nat
    BY <1>2
  <2>2. /\ t \in Seq(Nat) /\ Len(t) = IF seen + 1 <= n THEN n - (seen + 1) + 1 ELSE 0
        /\ \A i \in 1 .. n - (seen + 1) + 1 : t[i] = u[seen + 1 + i - 1]
    BY <2>1, SubSeqProperties DEF u
  <2> HIDE DEF t
  <2>3. \A i \in 1 .. n - seen : t[i] = u[seen + i] /\ seen + i \in 1..n
    BY <2>2
  <2> QED
    BY <1>2, <2>2, <2>3, SMTT(30)
<1> HIDE DEF t
<1>5. /\ s \o t \in Seq(Nat) /\ Len(s \o t) = seen + (n - seen)
      /\ \A i \in 1 .. seen + (n - seen) : (s \o t)[i] = IF i <= seen THEN s[i] ELSE t[i - seen]
  <2>1. /\ s \o t \in Seq(Nat) /\ Len(s \o t) = Len(s) + Len(t)
        /\ \A i \in 1 .. Len(s) + Len(t) : (s \o t)[i] = IF i <= Len(s) THEN s[i] ELSE t[i - Len(s)]
    BY <1>1, <1>4, ConcatProperties, Zenon
  <2> QED
    BY <1>1, <1>4, <2>1, Zenon
<1> DEFINE v == s \o t
<1>a. v \in Seq(Nat) /\ Len(v) = n /\ \A i \in 1..n : v[i] = IF i <= seen THEN s[i] ELSE t[i - seen]
  BY <1>0, <1>5
<1> HIDE DEF v
<1>6. ASSUME NEW i \in 1..n PROVE v[i] = u[i]
  <2>1. CASE i <= seen
    BY <1>0, <1>2, <1>3, <1>a, <2>1
  <2>2. CASE ~(i <= seen)
    <3>1. i - seen \in 1 .. n - seen /\ seen + (i - seen) = i
      BY <1>0, <2>2
    <3>2. v[i] = t[i - seen]
      BY <1>a, <2>2
    <3>3. t[i - seen] = seen + (i - seen)
      BY <1>4, <3>1, Zenon
    <3> QED
      BY <1>2, <3>1, <3>2, <3>3
  <2> QED
    BY <2>1, <2>2
<1>7. v = u
  BY <1>1, <1>6, <1>a, SeqEqual
<1> QED
  BY <1>7 DEF s, t, u, v

\* The log is empty and nobody follows it.
LEMMA LogInvInit == Init => LogInv
BY EmptySeq DEF Init, GatewayInit, LogInv, FollowerInv, FollowerType, NotFollowing

\* One follower moves.
LEMMA FollowerMoves ==
  ASSUME LogInv, NEW f \in Follower, NEW x, FollowerInv(x, lines),
         followers' = [followers EXCEPT ![f] = x], lines' = lines
  PROVE  LogInv'
<1>1. DOMAIN followers' = Follower /\ followers'[f] = x
      /\ \A g \in Follower \ {f} : followers'[g] = followers[g]
  BY DEF LogInv
<1> QED
  BY <1>1 DEF LogInv

\* TailLogs: a poll adds what lies beyond the lines the follower has seen.
LEMMA LogInvNext == LogInv /\ [Next]_vars => LogInv'
<1> SUFFICES ASSUME LogInv, [Next]_vars PROVE LogInv'
  OBVIOUS
<1>0. lines \in Nat /\ DOMAIN followers = Follower /\ \A f \in Follower : FollowerInv(followers[f], lines)
  BY DEF LogInv
<1>1. CASE UNCHANGED logVars
  BY <1>1, Zenon DEF logVars, LogInv
<1>2. CASE Log
  <2>1. lines' = lines + 1 /\ followers' = followers
    BY <1>2 DEF Log
  <2>2. \A f \in Follower : FollowerInv(followers[f], lines + 1)
    BY <1>0 DEF FollowerInv, FollowerType
  <2> QED
    BY <1>0, <2>1, <2>2 DEF LogInv
<1>3. ASSUME NEW f \in Follower, NEW tail \in Tails, Follow(f, tail) PROVE LogInv'
  <2> DEFINE window == TailFile(tail)
             x == [on |-> TRUE, tail |-> tail, seen |-> Len(window), sent |-> window,
                   shifted |-> Len(window) < lines]
  <2>1. followers' = [followers EXCEPT ![f] = x] /\ lines' = lines
    BY <1>3 DEF Follow
  <2>2. /\ window \in Seq(Nat) /\ Len(window) \in 0..lines /\ tail \in Nat
        /\ Len(window) = lines => window = Numbers(lines)
    BY <1>0, Tailed, GatewayAssumption
  <2> HIDE DEF window
  <2>a. (Len(window) < lines) \in BOOLEAN /\ Len(window) \in Nat /\ Len(window) <= lines
    BY <1>0, <2>2
  <2>b. x \in FollowerType
    BY <2>2, <2>a DEF FollowerType
  <2>c. x.on /\ x.seen = Len(window) /\ x.sent = window /\ (x.shifted <=> Len(window) < lines)
    OBVIOUS
  <2>3. FollowerInv(x, lines)
    <3> HIDE DEF x
    <3>1. ASSUME ~x.shifted PROVE x.sent = Numbers(x.seen)
      BY <1>0, <2>2, <2>a, <2>c, <3>1
    <3> QED
      BY <2>a, <2>b, <2>c, <3>1 DEF FollowerInv
  <2> HIDE DEF x
  <2> QED
    BY <2>1, <2>3, FollowerMoves
<1>4. ASSUME NEW f \in Follower, PollLog(f) PROVE LogInv'
  <2> DEFINE seen   == followers[f].seen
             window == TailFile(followers[f].tail + seen)
             x == [followers[f] EXCEPT
                     !.shifted = @ \/ Len(window) < lines,
                     !.sent = IF Len(window) <= seen THEN @ ELSE @ \o SubSeq(window, seen + 1, Len(window)),
                     !.seen = IF Len(window) <= seen THEN @ ELSE Len(window)]
  <2>1. followers' = [followers EXCEPT ![f] = x] /\ lines' = lines /\ followers[f].on
    BY <1>4 DEF PollLog
  <2>2. /\ followers[f] \in FollowerType /\ seen \in Nat /\ seen <= lines /\ followers[f].sent \in Seq(Nat)
        /\ followers[f].tail \in Nat /\ followers[f].tail + seen \in Nat
        /\ ~followers[f].shifted => followers[f].sent = Numbers(seen)
    BY <1>0, <2>1 DEF FollowerInv, FollowerType
  <2>3. /\ window \in Seq(Nat) /\ Len(window) \in 0..lines
        /\ Len(window) = lines => window = Numbers(lines)
    BY <1>0, <2>2, Tailed
  <2> HIDE DEF window
  <2>4. SubSeq(window, seen + 1, Len(window)) \in Seq(Nat)
    <3>1. \A i \in seen + 1 .. Len(window) : window[i] \in Nat
      BY <2>2, <2>3, ElementOfSeq, SMTT(30)
    <3> QED
      BY <2>2, <2>3, <3>1, SubSeqProperties
  <2>5. followers[f].sent \o SubSeq(window, seen + 1, Len(window)) \in Seq(Nat)
    BY <2>2, <2>4, ConcatProperties
  <2>6. /\ x \in FollowerType /\ x.on
        /\ x.shifted <=> (followers[f].shifted \/ Len(window) < lines)
        /\ x.sent = IF Len(window) <= seen THEN followers[f].sent
                    ELSE followers[f].sent \o SubSeq(window, seen + 1, Len(window))
        /\ x.seen = IF Len(window) <= seen THEN seen ELSE Len(window)
    <3> DEFINE sent == IF Len(window) <= seen THEN followers[f].sent
                       ELSE followers[f].sent \o SubSeq(window, seen + 1, Len(window))
               now == IF Len(window) <= seen THEN seen ELSE Len(window)
               shifted == followers[f].shifted \/ Len(window) < lines
    <3>1. sent \in Seq(Nat)
      BY <2>2, <2>5
    <3>2. now \in Nat /\ shifted \in BOOLEAN
      BY <2>2, <2>3 DEF FollowerType
    <3>3. x = [followers[f] EXCEPT !.shifted = shifted, !.sent = sent, !.seen = now]
      OBVIOUS
    <3> HIDE DEF x, sent, now, shifted
    <3>4. x \in FollowerType /\ x.on = followers[f].on /\ x.shifted = shifted /\ x.sent = sent /\ x.seen = now
      BY <2>2, <3>1, <3>2, <3>3 DEF FollowerType
    <3> QED
      BY <2>1, <3>4 DEF sent, now, shifted
  <2> HIDE DEF x
  <2>7. ASSUME ~x.shifted PROVE x.sent = Numbers(x.seen)
    <3>1. ~followers[f].shifted /\ Len(window) = lines
      BY <1>0, <2>3, <2>6, <2>7
    <3>2. CASE Len(window) <= seen
      BY <2>2, <2>6, <3>1, <3>2
    <3>3. CASE ~(Len(window) <= seen)
      <4>1. Numbers(seen) \o SubSeq(Numbers(lines), seen + 1, lines) = Numbers(lines)
        <5>1. seen \in 0..lines
          BY <1>0, <2>2
        <5> HIDE DEF seen
        <5> QED
          BY <1>0, <5>1, Joined
      <4> QED
        BY <2>2, <2>3, <2>6, <3>1, <3>3, <4>1
    <3> QED
      BY <3>2, <3>3
  <2>8. FollowerInv(x, lines)
    BY <1>0, <2>2, <2>3, <2>6, <2>7 DEF FollowerInv
  <2> QED
    BY <2>1, <2>8, FollowerMoves
<1>5. CASE GatewayStops
  <2>1. followers' = [f \in Follower |-> NotFollowing] /\ lines' = lines
    BY <1>5, Zenon DEF GatewayStops
  <2>2. FollowerInv(NotFollowing, lines)
    BY <1>0, EmptySeq DEF FollowerInv, FollowerType, NotFollowing
  <2> QED
    BY <1>0, <2>1, <2>2 DEF LogInv
<1>6. CASE UNCHANGED vars
  BY <1>1, <1>6, Zenon DEF vars, gatewayVars, logVars
<1> QED
  BY <1>1, <1>2, <1>3, <1>4, <1>5, <1>6, LogFrame, Zenon

\* streamDesktopEvents and TailLogs: a stream loses or repeats an event only
\* where the channel was full or the history overlapped, and a follower sends
\* the lines of the log in order as long as its windows began at line one.
THEOREM StreamsAreFaithful == Spec => []StreamsFaithful
<1>1. LogInv => LinesReachFollowers
  BY DEF LogInv, FollowerInv, Numbers, LinesReachFollowers
<1>2. HubInv /\ LogInv => StreamsFaithful
  BY <1>1, HubInvReaches DEF StreamsFaithful
<1> QED
  BY <1>2, HubInvInit, HubInvNext, LogInvInit, LogInvNext, PTL DEF Spec

-----------------------------------------------------------------------------
(***************************************************************************)
(* The scheduler.                                                          *)
(***************************************************************************)

\* The scheduler's state changes only in Schedule and when the process stops.
LEMMA JobFrame ==
  ASSUME Next
  PROVE  \/ \E j \in Job, target \in JobTarget, parses \in BOOLEAN : ScheduleJob(j, target, parses)
         \/ GatewayStops
         \/ UNCHANGED jobVars
<1>1. CASE GatewayStep
  BY <1>1, Zenon DEF GatewayStep, Subscribe, TakeHistory, SendEvent, Unsubscribe, AskFor, Submitted, Managed,
     Sent, Recorded, Announce, Arrive, GetUpdates, Deliver, Reply, Log, PollLog, Follow, GatewayStarts
<1>2. CASE UNCHANGED gatewayVars
  BY <1>2, Zenon DEF gatewayVars
<1>3. GatewayStep \/ UNCHANGED gatewayVars
  BY Zenon DEF Next, Work, Tick, Execute, Dispatch
<1> QED
  BY <1>1, <1>2, <1>3, Zenon

\* Every entry of the cron runner is the one the map names, with the tool the
\* last answer promised; entry ids are not shared between jobs.
EntryKnown(e) == ids[e.job] = e.id /\ promised[e.job] = e.target /\ e.id > 0

JobInv ==
  /\ nextId \in Nat /\ ids \in [Job -> 0..nextId]
  /\ promised \in [Job -> JobTarget \cup {NoTarget}]
  /\ cron \subseteq Entry
  /\ \A e \in cron : EntryKnown(e)
  /\ \A j \in Job : promised[j] # NoTarget => \E e \in cron : e.job = j
  /\ \A j, k \in Job : ids[j] = ids[k] => j = k \/ ids[j] = 0

\* The scheduler starts empty.
LEMMA JobInvInit == Init => JobInv
BY DEF Init, GatewayInit, JobInv

\* A step of the scheduler keeps the invariant.
LEMMA JobInvScheduled ==
  ASSUME JobInv, NEW j \in Job, NEW target \in JobTarget, NEW parses \in BOOLEAN,
         ScheduleJob(j, target, parses)
  PROVE  JobInv'
<1> DEFINE others == {e \in cron : e.id # ids[j]}
           new    == [id |-> nextId + 1, job |-> j, target |-> target]
<1>1. \A e \in others : e \in Entry /\ EntryKnown(e) /\ e.job \in Job /\ e.job # j
  BY DEF JobInv, EntryKnown, Entry
<1>2. \A k \in Job : k # j /\ promised[k] # NoTarget => \E e \in others : e.job = k
  <2> SUFFICES ASSUME NEW k \in Job, k # j, promised[k] # NoTarget
               PROVE  \E e \in others : e.job = k
    OBVIOUS
  <2>1. PICK e \in cron : e.job = k
    BY DEF JobInv
  <2>2. ids[k] = e.id /\ e.id > 0 /\ e.id \in Nat
    BY <2>1 DEF JobInv, EntryKnown, Entry
  <2>3. ids[j] # e.id
    BY <2>2 DEF JobInv
  <2> QED
    BY <2>1, <2>3
<1>3. CASE parses
  <2>1. /\ cron' = others \cup {new} /\ nextId' = nextId + 1
        /\ ids' = [ids EXCEPT ![j] = nextId + 1] /\ promised' = [promised EXCEPT ![j] = target]
    BY <1>3 DEF ScheduleJob
  <2>2. /\ nextId' \in Nat /\ ids' \in [Job -> 0..nextId'] /\ new \in Entry
        /\ promised' \in [Job -> JobTarget \cup {NoTarget}]
        /\ ids'[j] = nextId + 1 /\ \A k \in Job : k # j => ids'[k] = ids[k] /\ ids[k] \in 0..nextId
        /\ promised'[j] = target /\ \A k \in Job : k # j => promised'[k] = promised[k]
    BY <2>1 DEF JobInv, Entry
  <2>3. cron' \subseteq Entry
    BY <1>1, <2>1, <2>2
  <2>4. \A e \in cron' : EntryKnown(e)'
    BY <1>1, <2>1, <2>2 DEF EntryKnown, JobInv
  <2>5. \A k \in Job : promised'[k] # NoTarget => \E e \in cron' : e.job = k
    BY <1>2, <2>1, <2>2
  <2>6. \A k, l \in Job : ids'[k] = ids'[l] => k = l \/ ids'[k] = 0
    BY <2>2 DEF JobInv
  <2> QED
    BY <2>2, <2>3, <2>4, <2>5, <2>6 DEF JobInv
<1>4. CASE ~parses
  <2>1. /\ cron' = others /\ nextId' = nextId /\ ids' = ids
        /\ promised' = [promised EXCEPT ![j] = NoTarget]
    BY <1>4 DEF ScheduleJob
  <2>2. /\ promised' \in [Job -> JobTarget \cup {NoTarget}]
        /\ promised'[j] = NoTarget /\ \A k \in Job : k # j => promised'[k] = promised[k]
    BY <2>1 DEF JobInv
  <2>4. \A e \in cron' : EntryKnown(e)'
    BY <1>1, <2>1, <2>2 DEF EntryKnown
  <2>5. \A k \in Job : promised'[k] # NoTarget => \E e \in cron' : e.job = k
    BY <1>2, <2>1, <2>2
  <2> QED
    BY <1>1, <2>1, <2>2, <2>4, <2>5 DEF JobInv
<1> QED
  BY <1>3, <1>4

\* No step of the system but Schedule and a restart touches the entries.
LEMMA JobInvNext == JobInv /\ [Next]_vars => JobInv'
<1> SUFFICES ASSUME JobInv, [Next]_vars PROVE JobInv'
  OBVIOUS
<1>1. CASE Next
  <2>1. CASE \E j \in Job, target \in JobTarget, parses \in BOOLEAN : ScheduleJob(j, target, parses)
    BY <2>1, JobInvScheduled, Zenon
  <2>2. CASE GatewayStops
    <3>1. cron' = {} /\ nextId' = 0 /\ ids' = [j \in Job |-> 0] /\ promised' = [j \in Job |-> NoTarget]
      BY <2>2, Zenon DEF GatewayStops
    <3> QED
      BY <3>1 DEF JobInv
  <2>3. CASE UNCHANGED jobVars
    BY <2>3, Zenon DEF jobVars, JobInv, EntryKnown
  <2> QED
    BY <1>1, <2>1, <2>2, <2>3, JobFrame, Zenon
<1>2. CASE UNCHANGED vars
  BY <1>2, Zenon DEF vars, gatewayVars, jobVars, JobInv, EntryKnown
<1> QED
  BY <1>1, <1>2

\* One entry per job, with the tool of the last answer: what JobsKept asks.
LEMMA JobInvKeeps == JobInv => JobsKept
<1> SUFFICES ASSUME JobInv, NEW j \in Job
             PROVE  {e.target : e \in {x \in cron : x.job = j}} =
                      IF promised[j] = NoTarget THEN {} ELSE {promised[j]}
  BY DEF JobsKept, JobInv, EntryKnown
<1>1. \A e \in cron : e.job = j => e.target = promised[j] /\ e.target # NoTarget
  BY GatewayAssumption DEF JobInv, EntryKnown, Entry
<1> QED
  BY <1>1 DEF JobInv

\* Schedule: whatever the sequence of good and bad requests, a job whose last
\* request was accepted has exactly that entry, and no other job has one.
THEOREM JobsAreKept == Spec => []JobsKept
BY JobInvInit, JobInvNext, JobInvKeeps, PTL DEF Spec

-----------------------------------------------------------------------------
(***************************************************************************)
(* The Telegram connector.                                                 *)
(***************************************************************************)

\* The connector's state changes only in its own loop, when an update
\* arrives and when the process stops.
LEMMA BotFrame ==
  ASSUME Next
  PROVE  Arrive \/ GetUpdates \/ Deliver \/ Reply \/ GatewayStops \/ UNCHANGED botVars
<1>1. CASE GatewayStep
  BY <1>1, Zenon DEF GatewayStep, Subscribe, TakeHistory, SendEvent, Unsubscribe, AskFor, Submitted, Managed,
     Sent, Recorded, Announce, Log, PollLog, Follow, ScheduleJob, GatewayStarts
<1>2. CASE UNCHANGED gatewayVars
  BY <1>2, Zenon DEF gatewayVars
<1>3. GatewayStep \/ UNCHANGED gatewayVars
  BY Zenon DEF Next, Work, Tick, Execute, Dispatch
<1> QED
  BY <1>1, <1>2, <1>3, Zenon

Accounted(u) == u \in everHandled \cup Blank \cup failed

BotType ==
  /\ arrived \in 0..MaxUpdates /\ confirmed \in 0..arrived
  /\ bot \in [step : {"poll", "deliver", "reply"}, offset : 0..MaxUpdates + 1,
              next : 1..MaxUpdates + 1, last : 0..MaxUpdates]
  /\ handled \in [1..MaxUpdates -> Nat]

\* Where the loop is: the offset is one past the last update it took up.
BotPlace ==
  /\ bot.step # "poll" => bot.next <= bot.last /\ bot.last <= arrived
  /\ bot.step = "deliver" => bot.offset <= bot.next
  /\ bot.step = "reply" => bot.offset = bot.next + 1
  /\ bot.offset <= arrived + 1

Passed(u) == u <= confirmed \/ u < bot.offset \/ (bot.step = "deliver" /\ u < bot.next)

\* What lies behind it: updates it has not reached are not handled by this
\* process, and those it has passed are accounted for.
BotPast ==
  /\ \A u \in 1..MaxUpdates : handled[u] <= 1 /\ (handled[u] = 1 => u < bot.offset)
  /\ \A u \in 1..MaxUpdates : Passed(u) => Accounted(u)

BotInv == BotType /\ BotPlace /\ BotPast

\* The bot polls from the start of the updates.
LEMMA BotInvInit == Init => BotInv
BY GatewayAssumption DEF Init, GatewayInit, BotInv, BotType, BotPlace, BotPast, Passed, StartOfBot

\* What After does to the place in the loop.
LEMMA AfterMoves ==
  ASSUME BotType, NEW b \in [step : {"poll", "deliver", "reply"}, offset : 0..MaxUpdates + 1,
                             next : 1..MaxUpdates + 1, last : 0..MaxUpdates],
         b.next <= b.last
  PROVE  /\ After(b) \in [step : {"poll", "deliver", "reply"}, offset : 0..MaxUpdates + 1,
                          next : 1..MaxUpdates + 1, last : 0..MaxUpdates]
         /\ After(b).offset = b.offset /\ After(b).last = b.last /\ After(b).next = b.next + 1
         /\ After(b).step = IF b.next = b.last THEN "poll" ELSE "deliver"
<1>1. MaxUpdates \in Nat
  BY GatewayAssumption
<1>2. After(b) = [b EXCEPT !.step = IF b.next = b.last THEN "poll" ELSE "deliver", !.next = b.next + 1]
  BY DEF After
<1>3. b.next + 1 \in 1..MaxUpdates + 1
  BY <1>1
<1>4. (IF b.next = b.last THEN "poll" ELSE "deliver") \in {"poll", "deliver", "reply"}
  OBVIOUS
<1> QED
  BY <1>2, <1>3, <1>4

\* getUpdates: Telegram forgets the updates below the offset, all of them passed.
LEMMA BotInvPolled == ASSUME BotInv, GetUpdates PROVE BotInv'
<1> DEFINE below == IF bot.offset - 1 > confirmed THEN bot.offset - 1 ELSE confirmed
<1>0. MaxUpdates \in Nat
  BY GatewayAssumption
<1>1. /\ bot.step = "poll" /\ confirmed' = below
      /\ \/ bot' = bot
         \/ /\ below < arrived
            /\ bot' = [bot EXCEPT !.step = "deliver", !.next = below + 1, !.last = arrived]
      /\ arrived' = arrived /\ handled' = handled /\ everHandled' = everHandled /\ failed' = failed
  BY DEF GetUpdates
<1>2. below \in 0..arrived /\ below >= confirmed /\ below + 1 >= bot.offset
      /\ \A u \in 1..MaxUpdates : u <= below => u <= confirmed \/ u < bot.offset
  BY <1>0 DEF BotInv, BotType, BotPlace
<1> HIDE DEF below
<1>3. \A u \in 1..MaxUpdates : u <= below => Accounted(u)
  BY <1>2, Zenon DEF BotInv, BotPast, Passed
<1>4. CASE bot' = bot
  BY <1>0, <1>1, <1>2, <1>3, <1>4, SMTT(30) DEF BotInv, BotType, BotPlace, BotPast, Passed, Accounted
<1>5. CASE /\ below < arrived
           /\ bot' = [bot EXCEPT !.step = "deliver", !.next = below + 1, !.last = arrived]
  <2>1. /\ bot'.step = "deliver" /\ bot'.next = below + 1 /\ bot'.last = arrived
        /\ bot'.offset = bot.offset
        /\ bot' \in [step : {"poll", "deliver", "reply"}, offset : 0..MaxUpdates + 1,
                     next : 1..MaxUpdates + 1, last : 0..MaxUpdates]
    <3>1. below + 1 \in 1..MaxUpdates + 1 /\ arrived \in 0..MaxUpdates
      BY <1>0, <1>2, <1>5 DEF BotInv, BotType
    <3> QED
      BY <1>5, <3>1 DEF BotInv, BotType
  <2>2. BotType' /\ BotPlace'
    BY <1>0, <1>1, <1>2, <1>5, <2>1 DEF BotInv, BotType, BotPlace
  <2>3. \A u \in 1..MaxUpdates : u < below + 1 \/ u < bot.offset => u <= below
    BY <1>2, <1>0 DEF BotInv, BotType
  <2> QED
    BY <1>1, <1>3, <2>1, <2>2, <2>3 DEF BotInv, BotPast, Passed, Accounted
<1> QED
  BY <1>1, <1>4, <1>5

\* The offset moves past an update as it is handed to the engine.
LEMMA BotInvDelivered == ASSUME BotInv, Deliver PROVE BotInv'
<1>u. PICK u : u = bot.next
  OBVIOUS
<1> DEFINE past == [bot EXCEPT !.offset = u + 1]
           Bots == [step : {"poll", "deliver", "reply"}, offset : 0..MaxUpdates + 1,
                    next : 1..MaxUpdates + 1, last : 0..MaxUpdates]
<1>0. MaxUpdates \in Nat
  BY GatewayAssumption
<1>1. /\ bot.step = "deliver" /\ u \in 1..MaxUpdates /\ u <= bot.last /\ bot.last <= arrived
      /\ bot.offset <= u /\ arrived \in 0..MaxUpdates
      /\ arrived' = arrived /\ confirmed' = confirmed
  BY <1>0, <1>u DEF Deliver, BotInv, BotType, BotPlace
<1>2. past \in Bots /\ past.next = u /\ past.last = bot.last /\ past.offset = u + 1
      /\ past.step = "deliver"
  BY <1>0, <1>1, <1>u DEF BotInv, BotType
<1>3. /\ bot' \in {After(past), [past EXCEPT !.step = "reply"]}
      /\ \/ handled' = [handled EXCEPT ![u] = @ + 1]
         \/ handled' = handled
      /\ everHandled \subseteq everHandled' /\ failed \subseteq failed'
      /\ Accounted(u)'
  <2>1. CASE u \in Blank /\ bot' = After(past) /\ UNCHANGED <<handled, everHandled, failed>>
    BY <2>1 DEF Accounted
  <2>2. CASE /\ EngineHandles(u)
             /\ bot' \in {After(past), [past EXCEPT !.step = "reply"]} /\ UNCHANGED failed
    BY <2>2 DEF EngineHandles, Accounted
  <2>3. CASE /\ EngineHandles(u) \/ UNCHANGED <<handled, everHandled>>
             /\ failed' = failed \cup {u} /\ bot' = After(past)
    BY <2>3 DEF EngineHandles, Accounted
  <2> QED
    BY <1>u, <2>1, <2>2, <2>3, Zenon DEF Deliver
<1>4. /\ After(past) \in Bots
      /\ After(past).offset = u + 1 /\ After(past).last = bot.last /\ After(past).next = u + 1
      /\ After(past).step = IF u = bot.last THEN "poll" ELSE "deliver"
  BY <1>1, <1>2, AfterMoves DEF BotInv
<1>5. [past EXCEPT !.step = "reply"] \in Bots
      /\ [past EXCEPT !.step = "reply"].offset = u + 1
      /\ [past EXCEPT !.step = "reply"].last = bot.last
      /\ [past EXCEPT !.step = "reply"].next = u
      /\ [past EXCEPT !.step = "reply"].step = "reply"
  BY <1>2
<1> HIDE DEF past
<1>6. /\ bot' \in Bots /\ bot'.offset = u + 1 /\ bot'.last = bot.last
      /\ \/ bot'.next = u + 1 /\ bot'.step = IF u = bot.last THEN "poll" ELSE "deliver"
         \/ bot'.next = u /\ bot'.step = "reply"
  BY <1>3, <1>4, <1>5
<1>7. /\ handled' \in [1..MaxUpdates -> Nat]
      /\ \A v \in 1..MaxUpdates : handled'[v] <= 1 /\ (handled'[v] = 1 => v < u + 1)
  <2>1. handled \in [1..MaxUpdates -> Nat] /\ handled[u] = 0
        /\ \A v \in 1..MaxUpdates : handled[v] <= 1 /\ (handled[v] = 1 => v < u + 1)
    BY <1>0, <1>1 DEF BotInv, BotType, BotPast
  <2> QED
    BY <1>0, <1>1, <1>3, <2>1
<1>8. \A v \in 1..MaxUpdates : v < u => Accounted(v)
  BY <1>1, <1>u DEF BotInv, BotPast, Passed
<1>9. \A v \in 1..MaxUpdates :
        Passed(v)' => Accounted(v)'
  <2> SUFFICES ASSUME NEW v \in 1..MaxUpdates, v <= confirmed \/ v < u + 1
               PROVE  Accounted(v)'
    BY <1>0, <1>1, <1>6 DEF Passed
  <2>1. v < u \/ v = u \/ v <= confirmed
    BY <1>1
  <2>2. CASE v = u
    BY <1>3, <2>2
  <2>3. CASE v < u \/ v <= confirmed
    <3>1. Accounted(v)
      BY <1>8, <2>3, Zenon DEF BotInv, BotPast, Passed
    <3> QED
      BY <1>3, <3>1 DEF Accounted
  <2> QED
    BY <2>1, <2>2, <2>3
<1>10. BotType'
  BY <1>0, <1>1, <1>6, <1>7 DEF BotInv, BotType
<1>11. BotPlace'
  BY <1>0, <1>1, <1>2, <1>6 DEF BotPlace
<1> QED
  BY <1>6, <1>7, <1>9, <1>10, <1>11 DEF BotInv, BotPast, Passed

\* sendMessage: the loop goes on, whether or not the reply went out.
LEMMA BotInvReplied == ASSUME BotInv, Reply PROVE BotInv'
<1>0. MaxUpdates \in Nat
  BY GatewayAssumption
<1>1. /\ bot.step = "reply" /\ bot' = After(bot) /\ bot.next <= bot.last /\ bot.last <= arrived
      /\ bot.offset = bot.next + 1
      /\ arrived' = arrived /\ confirmed' = confirmed /\ handled' = handled
      /\ everHandled' = everHandled /\ failed' = failed
  BY DEF Reply, BotInv, BotPlace
<1>2. /\ bot' \in [step : {"poll", "deliver", "reply"}, offset : 0..MaxUpdates + 1,
                   next : 1..MaxUpdates + 1, last : 0..MaxUpdates]
      /\ bot'.offset = bot.offset /\ bot'.last = bot.last /\ bot'.next = bot.next + 1
      /\ bot'.step = IF bot.next = bot.last THEN "poll" ELSE "deliver"
  BY <1>1, AfterMoves DEF BotInv, BotType
<1>3. BotType' /\ BotPlace'
  BY <1>0, <1>1, <1>2 DEF BotInv, BotType, BotPlace
<1>4. \A u \in 1..MaxUpdates :
        bot'.step = "deliver" /\ u < bot'.next => u < bot.offset
  BY <1>1, <1>2
<1>5. \A u : Accounted(u)' <=> Accounted(u)
  BY <1>1 DEF Accounted
<1> QED
  BY <1>1, <1>2, <1>3, <1>4, <1>5 DEF BotInv, BotPast, Passed

\* No other step moves the bot, and a stopped process begins again at what
\* Telegram still keeps.
LEMMA BotInvNext == BotInv /\ [Next]_vars => BotInv'
<1> SUFFICES ASSUME BotInv, [Next]_vars PROVE BotInv'
  OBVIOUS
<1>0. MaxUpdates \in Nat
  BY GatewayAssumption
<1>1. CASE Next
  <2>1. CASE Arrive
    BY <1>0, <2>1 DEF Arrive, BotInv, BotType, BotPlace, BotPast, Passed, Accounted
  <2>2. CASE GatewayStops
    <3>1. /\ bot' = StartOfBot /\ handled' = [u \in 1..MaxUpdates |-> 0]
          /\ arrived' = arrived /\ confirmed' = confirmed
          /\ everHandled' = everHandled /\ failed' = failed
      BY <2>2, Zenon DEF GatewayStops
    <3> QED
      BY <1>0, <3>1 DEF BotInv, BotType, BotPlace, BotPast, Passed, Accounted, StartOfBot
  <2>3. CASE UNCHANGED botVars
    BY <2>3, Zenon DEF botVars, BotInv, BotType, BotPlace, BotPast, Passed, Accounted
  <2> QED
    BY <1>1, <2>1, <2>2, <2>3, BotFrame, BotInvPolled, BotInvDelivered, BotInvReplied, Zenon
<1>2. CASE UNCHANGED vars
  BY <1>2, Zenon DEF vars, gatewayVars, botVars, BotInv, BotType, BotPlace, BotPast, Passed, Accounted
<1> QED
  BY <1>1, <1>2

\* An update Telegram no longer keeps was handled, empty, or failed.
LEMMA BotInvAccounts == BotInv => UpdatesAccounted
<1>0. MaxUpdates \in Nat
  BY GatewayAssumption
<1> SUFFICES ASSUME BotInv PROVE UpdatesAccounted
  OBVIOUS
<1>1. \A u \in 1..confirmed : u \in 1..MaxUpdates /\ u <= confirmed
  BY <1>0 DEF BotInv, BotType
<1>2. \A u \in 1..confirmed : Accounted(u)
  BY <1>1 DEF BotInv, BotPast, Passed
<1> QED
  BY <1>2, Zenon DEF BotInv, BotPast, UpdatesAccounted, Accounted

-----------------------------------------------------------------------------
(***************************************************************************)
(* Messages sent through connectors.                                       *)
(***************************************************************************)

\* The publishing requests change only in their own steps and when the
\* process stops.
LEMMA RpcFrame ==
  ASSUME Next
  PROVE  \/ \E r \in Request :
              \/ \E kind \in {"submit", "send", "manage"} : AskFor(r, kind)
              \/ Submitted(r) \/ Managed(r) \/ Sent(r) \/ Recorded(r) \/ Announce(r)
         \/ GatewayStops
         \/ UNCHANGED rpcVars
<1>1. CASE GatewayStep
  BY <1>1, Zenon DEF GatewayStep, Subscribe, TakeHistory, SendEvent, Unsubscribe, Arrive, GetUpdates, Deliver,
     Reply, Log, PollLog, Follow, ScheduleJob, GatewayStarts
<1>2. CASE UNCHANGED gatewayVars
  BY <1>2, Zenon DEF gatewayVars
<1>3. GatewayStep \/ UNCHANGED gatewayVars
  BY Zenon DEF Next, Work, Tick, Execute, Dispatch
<1> QED
  BY <1>1, <1>2, <1>3, Zenon

RequestType == [kind : {"submit", "send", "manage"},
                step : {"idle", "asking", "recording", "telling", "done", "failed", "lost"},
                events : 0..2]

\* A message leaves while its request asks; from then on the request is
\* recording it, has recorded it, or did not end well.
SentOpen(request, gone, recorded) ==
  /\ gone /\ ~recorded => request.step \in {"recording", "failed", "lost"}
  /\ request.step \in {"idle", "asking"} => ~gone
  /\ request.step = "telling" => request.events > 0

RpcInv == /\ requests \in [Request -> RequestType]
          /\ \A r \in Request : SentOpen(requests[r], r \in left, r \in kept)
          /\ left \subseteq Request

\* No request is under way.
LEMMA RpcInvInit == Init => RpcInv
BY DEF Init, GatewayInit, RpcInv, RequestType, SentOpen

\* One request moves and neither sends nor records anything.
LEMMA RequestMoves ==
  ASSUME RpcInv, NEW r \in Request, NEW x \in RequestType, requests' = [requests EXCEPT ![r] = x],
         \A q \in Request \ {r} : (q \in left' <=> q \in left) /\ (q \in kept' <=> q \in kept),
         left' \subseteq Request,
         SentOpen(x, r \in left', r \in kept')
  PROVE  RpcInv'
<1>1. /\ requests' \in [Request -> RequestType] /\ requests'[r] = x
      /\ \A q \in Request \ {r} : requests'[q] = requests[q]
  BY DEF RpcInv
<1>2. \A q \in Request : SentOpen(requests'[q], q \in left', q \in kept')
  BY <1>1 DEF RpcInv, SentOpen
<1> QED
  BY <1>1, <1>2 DEF RpcInv, SentOpen

\* SubmitMessage, SendChannelMessage, PruneSessions and UpdatePairing: an event
\* is published only for what has been done.
LEMMA RpcInvNext == RpcInv /\ [Next]_vars => RpcInv'
<1> SUFFICES ASSUME RpcInv, [Next]_vars PROVE RpcInv'
  OBVIOUS
<1>0. requests \in [Request -> RequestType] /\ left \subseteq Request
  BY DEF RpcInv
<1>1. CASE Next
  <2>1. ASSUME NEW r \in Request, NEW kind \in {"submit", "send", "manage"}, AskFor(r, kind) PROVE RpcInv'
    <3> DEFINE x == [kind |-> kind, step |-> "asking", events |-> 0]
    <3>1. /\ requests[r].step = "idle" /\ requests' = [requests EXCEPT ![r] = x]
          /\ left' = left /\ kept' = kept
      BY <2>1 DEF AskFor
    <3>2. x \in RequestType /\ SentOpen(x, r \in left, r \in kept)
      BY <3>1 DEF RequestType, RpcInv, SentOpen
    <3> HIDE DEF x
    <3> QED
      BY <1>0, <3>1, <3>2, RequestMoves
  <2>2. ASSUME NEW r \in Request, NEW step \in {"telling", "failed"}, NEW n \in 0..2,
               requests' = [requests EXCEPT ![r] = [requests[r] EXCEPT !.step = step, !.events = n]],
               \A q \in Request \ {r} : (q \in left' <=> q \in left) /\ (q \in kept' <=> q \in kept),
               left' \subseteq Request,
               step = "telling" => n > 0 /\ (r \in left' => r \in kept')
        PROVE RpcInv'
    <3> DEFINE x == [requests[r] EXCEPT !.step = step, !.events = n]
    <3>1. x \in RequestType /\ x.step = step /\ x.events = n
      BY <1>0 DEF RequestType
    <3>2. SentOpen(x, r \in left', r \in kept')
      BY <2>2, <3>1 DEF SentOpen
    <3> HIDE DEF x
    <3> QED
      BY <2>2, <3>1, <3>2, RequestMoves DEF x
  <2>3. ASSUME NEW r \in Request, Submitted(r) \/ Managed(r) PROVE RpcInv'
    <3>1. /\ requests[r].step = "asking" /\ left' = left /\ kept' = kept
          /\ \/ requests' = [requests EXCEPT ![r].step = "failed"]
             \/ \E n \in 1..2 : requests' = [requests EXCEPT ![r].step = "telling", ![r].events = n]
      BY <2>3 DEF Submitted, Managed, Refuse, Tell
    <3>2. r \notin left
      BY <3>1 DEF RpcInv, SentOpen
    <3>3. CASE requests' = [requests EXCEPT ![r].step = "failed"]
      <4>1. requests[r].events \in 0..2
            /\ requests' = [requests EXCEPT ![r] =
                             [requests[r] EXCEPT !.step = "failed", !.events = requests[r].events]]
        BY <1>0, <3>3 DEF RequestType
      <4> QED
        BY <1>0, <2>2, <3>1, <3>2, <4>1
    <3>4. CASE \E n \in 1..2 : requests' = [requests EXCEPT ![r].step = "telling", ![r].events = n]
      <4>1. PICK n \in 1..2 :
              requests' = [requests EXCEPT ![r] = [requests[r] EXCEPT !.step = "telling", !.events = n]]
        BY <3>4
      <4>2. n \in 0..2 /\ n > 0 /\ left' \subseteq Request
        BY <1>0, <3>1
      <4> QED
        BY <2>2, <3>1, <3>2, <4>1, <4>2
    <3> QED
      BY <3>1, <3>3, <3>4
  <2>4. ASSUME NEW r \in Request, Sent(r) PROVE RpcInv'
    <3>1. /\ requests[r].step = "asking" /\ kept' = kept
          /\ \/ requests' = [requests EXCEPT ![r].step = "recording"]
             \/ requests' = [requests EXCEPT ![r].step = "failed"]
          /\ left' \in {left, left \cup {r}}
      BY <2>4 DEF Sent, Refuse
    <3>2. ASSUME NEW step \in {"recording", "failed"}, requests' = [requests EXCEPT ![r].step = step]
          PROVE RpcInv'
      <4> DEFINE x == [requests[r] EXCEPT !.step = step]
      <4>1. x \in RequestType /\ x.step = step
        BY <1>0 DEF RequestType
      <4>2. SentOpen(x, r \in left', r \in kept')
        BY <4>1 DEF SentOpen
      <4>3. requests' = [requests EXCEPT ![r] = x]
        BY <3>2
      <4> HIDE DEF x
      <4> QED
        BY <1>0, <3>1, <4>1, <4>2, <4>3, RequestMoves
    <3> QED
      BY <3>1, <3>2
  <2>5. ASSUME NEW r \in Request, Recorded(r) PROVE RpcInv'
    <3>1. /\ requests[r].step = "recording" /\ left' = left
          /\ \/ /\ requests' = [requests EXCEPT ![r].step = "telling", ![r].events = 1]
                /\ kept' = kept \cup {r}
             \/ /\ requests' = [requests EXCEPT ![r].step = "failed"]
                /\ kept' \in {kept, kept \cup {r}}
      BY <2>5 DEF Recorded, Refuse, Tell
    <3>3. CASE /\ requests' = [requests EXCEPT ![r].step = "failed"]
               /\ kept' \in {kept, kept \cup {r}}
      <4>1. requests[r].events \in 0..2
            /\ requests' = [requests EXCEPT ![r] =
                             [requests[r] EXCEPT !.step = "failed", !.events = requests[r].events]]
        BY <1>0, <3>3 DEF RequestType
      <4> QED
        BY <1>0, <2>2, <3>1, <3>3, <4>1
    <3>4. CASE /\ requests' = [requests EXCEPT ![r].step = "telling", ![r].events = 1]
               /\ kept' = kept \cup {r}
      <4>1. requests' = [requests EXCEPT ![r] = [requests[r] EXCEPT !.step = "telling", !.events = 1]]
        BY <3>4
      <4>2. 1 \in 0..2 /\ 1 > 0 /\ left' \subseteq Request /\ r \in kept'
            /\ \A q \in Request \ {r} : (q \in left' <=> q \in left) /\ (q \in kept' <=> q \in kept)
        BY <1>0, <3>1, <3>4
      <4> QED
        BY <2>2, <4>1, <4>2
    <3> QED
      BY <3>1, <3>3, <3>4
  <2>6. ASSUME NEW r \in Request, Announce(r) PROVE RpcInv'
    <3> DEFINE x == [requests[r] EXCEPT !.events = @ - 1,
                                        !.step = IF requests[r].events = 1 THEN "done" ELSE @]
    <3>1. /\ requests[r].step = "telling" /\ left' = left /\ kept' = kept
          /\ requests' = [requests EXCEPT ![r] = x]
      BY <2>6 DEF Announce
    <3>2. requests[r].events \in 1..2 /\ (r \in left => r \in kept)
      BY <1>0, <3>1 DEF RpcInv, SentOpen, RequestType
    <3>a. requests[r] \in RequestType
      BY <1>0
    <3>b. x.events = requests[r].events - 1
          /\ x.step = IF requests[r].events = 1 THEN "done" ELSE "telling"
      BY <3>1, <3>a DEF RequestType
    <3>c. requests[r].events - 1 \in 0..2
      BY <3>2
    <3>3. x \in RequestType
      BY <3>a, <3>c, <3>1 DEF RequestType
    <3>4. SentOpen(x, r \in left, r \in kept)
      BY <3>2, <3>b DEF SentOpen
    <3> HIDE DEF x
    <3> QED
      BY <1>0, <3>1, <3>3, <3>4, RequestMoves
  <2>7. CASE GatewayStops
    <3>1. /\ left' = left /\ kept' = kept
          /\ requests' = [r \in Request |->
               IF requests[r].step \in {"asking", "recording", "telling"}
               THEN [requests[r] EXCEPT !.step = "lost", !.events = 0] ELSE requests[r]]
      BY <2>7, Zenon DEF GatewayStops
    <3>2. ASSUME NEW r \in Request
          PROVE  /\ [requests[r] EXCEPT !.step = "lost", !.events = 0] \in RequestType
                 /\ [requests[r] EXCEPT !.step = "lost", !.events = 0].step = "lost"
      <4>1. requests[r] \in RequestType /\ 0 \in 0..2
        BY <1>0
      <4> QED
        BY <4>1 DEF RequestType
    <3>3. \A r \in Request : requests'[r] = requests[r] \/ (requests'[r].step = "lost")
      BY <3>1, <3>2
    <3>4. requests' \in [Request -> RequestType]
      BY <1>0, <3>1, <3>2
    <3>5. \A r \in Request : SentOpen(requests'[r], r \in left, r \in kept)
      BY <3>3 DEF RpcInv, SentOpen
    <3> QED
      BY <3>1, <3>4, <3>5 DEF RpcInv, SentOpen
  <2>8. CASE UNCHANGED rpcVars
    BY <2>8, Zenon DEF rpcVars, RpcInv, SentOpen
  <2> QED
    BY <1>1, <2>1, <2>3, <2>4, <2>5, <2>6, <2>7, <2>8, RpcFrame, Zenon
<1>2. CASE UNCHANGED vars
  BY <1>2, Zenon DEF vars, gatewayVars, rpcVars, RpcInv, SentOpen
<1> QED
  BY <1>1, <1>2

\* TelegramConnector.Start and SendChannelMessage: an update that Telegram has
\* forgotten is accounted for, none is handled twice in one life, and a
\* message that left is in the record unless its request did not end well.
THEOREM MessagesAreAccounted == Spec => []MessagesAccounted
<1>1. RpcInv => OutboundAccounted
  BY DEF RpcInv, SentOpen, OutboundAccounted
<1>2. BotInv /\ RpcInv => MessagesAccounted
  BY <1>1, BotInvAccounts DEF MessagesAccounted
<1> QED
  BY <1>2, BotInvInit, BotInvNext, RpcInvInit, RpcInvNext, PTL DEF Spec

-----------------------------------------------------------------------------
(***************************************************************************)
(* Tool calls, packages and machines.                                      *)
(***************************************************************************)

\* The tools and the packages change in their own steps, and when a tick, an
\* Execute of the gateway or an installer starts one.
LEMMA ToolsFrame ==
  ASSUME JobInv, Next
  PROVE  \/ \E c \in Call, target \in Target, deadline \in BOOLEAN :
              StartCall(c, target, deadline) /\ started' = started + 1
         \/ ToolsStep
         \/ UNCHANGED toolVars
<1>1. \A e \in cron : e.target \in Target
  BY SystemAssumption DEF JobInv, Entry
<1>2. CASE \E c \in Call : \/ \E e \in cron : Tick(e, c)
                           \/ \E target \in Target : Execute(c, target) \/ Dispatch(c, target)
  BY <1>1, <1>2, Zenon DEF Tick, Execute, Dispatch
<1> QED
  BY <1>2, Zenon DEF Next, Work

SystemInv == JobInv /\ ToolInv /\ PackageInv

\* The start of the scheduler, the calls and the directories.
LEMMA SystemInvInit == Init => SystemInv
BY JobInvInit, ToolInvInit, PackageInvInit DEF Init, SystemInv

\* The scheduler fires only tools it has an entry for, so every call that
\* starts has a target of the type.
LEMMA SystemInvNext == SystemInv /\ [Next]_vars => SystemInv'
<1> SUFFICES ASSUME SystemInv, [Next]_vars PROVE SystemInv'
  OBVIOUS
<1>1. JobInv'
  BY JobInvNext DEF SystemInv
<1>2. ToolTyped /\ ToolInv /\ PackageInv
  BY DEF SystemInv, ToolInv
<1>3. CASE UNCHANGED toolVars
  <2>1. ToolInv'
    BY <1>2, <1>3, Zenon DEF toolVars, ToolInv, ToolTyped, ToolsTypeOK, ToolShape, Explained, Permitted
  <2>2. \A d : Installing(d)' = Installing(d)
    BY <1>3, Zenon DEF toolVars, Installing, Into
  <2>3. PackageInv'
    BY <1>2, <1>3, CallsPackages DEF toolVars, FileSystem, PackageInv
  <2> QED
    BY <1>1, <2>1, <2>3 DEF SystemInv
<1>4. CASE ToolsStep
  <2>1. ToolInv' /\ ToolTyped'
    BY <1>2, <1>4, ToolsStepInv DEF ToolInv
  <2>2. PackageInv'
    BY <1>2, <1>4, <2>1, ToolsStepPackages
  <2> QED
    BY <1>1, <2>1, <2>2 DEF SystemInv
<1>5. ASSUME NEW c \in Call, NEW target \in Target, NEW deadline \in BOOLEAN,
             StartCall(c, target, deadline), started' = started + 1
      PROVE SystemInv'
  BY <1>1, <1>2, <1>5, StartCallInv, StartCallPackages DEF SystemInv
<1>6. CASE UNCHANGED vars
  BY <1>3, <1>6, Zenon DEF vars, toolVars
<1> QED
  BY <1>3, <1>4, <1>5, <1>6, ToolsFrame, Zenon DEF SystemInv

\* packaged_workspace: a workspace handed to the sandbox is one verified
\* bundle of the skill, unless an installation disturbed it.
THEOREM PackagesAreWhole == Spec => []PackagesWhole
<1>1. SystemInv => PackagesWhole
  BY DEF SystemInv, PackageInv, Faithful, PackagesWhole
<1> QED
  BY <1>1, SystemInvInit, SystemInvNext, PTL DEF Spec

\* LinuxFirecrackerBackend::execute and ToolExecutor::authorize: a machine
\* without a waiting call was given up, and one with a call is permitted.
THEOREM MachinesAreAccounted == Spec => []MachinesAccounted
<1>1. SystemInv => MachinesAccounted
  BY DEF SystemInv, ToolInv, Explained, Permitted, GivenUp, MachinesAccounted, MachinesExplained,
     MachinesPermitted
<1> QED
  BY <1>1, SystemInvInit, SystemInvNext, PTL DEF Spec

-----------------------------------------------------------------------------
(***************************************************************************)
(* Type correctness of System: every variable of the gateway, the tools    *)
(* and the installers keeps its type, for any clients and any limits.      *)
(***************************************************************************)

\* A follower's tail is what its client asked for, and the lines it has sent
\* are lines of the log.
Lined(follower, n) == follower.tail \in Tails \cup {0} /\ Between(follower.sent, 0, n)

\* What the other invariants leave open.
RestInv ==
  /\ up \in BOOLEAN /\ served \in Nat
  /\ kept \subseteq Request
  /\ everHandled \subseteq 1..MaxUpdates /\ failed \subseteq 1..MaxUpdates
  /\ \A f \in Follower : Lined(followers[f], lines)

\* The streams and the followers stay functions.
Functions == /\ streams = [s \in Stream |-> streams[s]]
             /\ followers = [f \in Follower |-> followers[f]]

\* Nothing has happened at the start.
LEMMA RestInvInit == Init => RestInv /\ Functions
BY EmptySeq DEF Init, GatewayInit, RestInv, Functions, Lined, Between, NotFollowing

\* A step replaces at most one stream and one follower.
LEMMA FunctionsNext == Functions /\ [Next]_vars => Functions'
<1> SUFFICES ASSUME Functions, [Next]_vars PROVE Functions'
  OBVIOUS
<1>1. streams' = [s \in Stream |-> streams'[s]]
  <2>1. ASSUME NEW s \in Stream, Subscribe(s) \/ TakeHistory(s) \/ SendEvent(s) \/ Unsubscribe(s)
        PROVE  streams' = [r \in Stream |-> streams'[r]]
    BY <2>1 DEF Functions, Subscribe, TakeHistory, SendEvent, Unsubscribe
  <2>2. CASE GatewayStops \/ \E r \in Request : Announce(r)
    BY <2>2 DEF GatewayStops, Announce, Publish
  <2>3. CASE UNCHANGED hubVars \/ UNCHANGED vars
    BY <2>3 DEF Functions, hubVars, gatewayVars, vars
  <2> QED
    BY <2>1, <2>2, <2>3, HubFrame
<1>2. followers' = [f \in Follower |-> followers'[f]]
  <2>1. ASSUME NEW f \in Follower, PollLog(f) \/ \E tail \in Tails : Follow(f, tail)
        PROVE  followers' = [g \in Follower |-> followers'[g]]
    BY <2>1 DEF Functions, PollLog, Follow
  <2>2. CASE GatewayStops
    BY <2>2 DEF GatewayStops
  <2>3. CASE Log \/ UNCHANGED logVars \/ UNCHANGED vars
    BY <2>3 DEF Functions, Log, logVars, gatewayVars, vars
  <2> QED
    BY <2>1, <2>2, <2>3, LogFrame
<1> QED
  BY <1>1, <1>2 DEF Functions

\* What the steps of the environment, the requests and the bot do to these.
LEMMA RestMoves ==
  ASSUME RestInv, BotInv, Next
  PROVE  /\ up' \in BOOLEAN /\ served' \in Nat /\ kept' \subseteq Request
         /\ everHandled' \subseteq 1..MaxUpdates /\ failed' \subseteq 1..MaxUpdates
<1>1. up' \in BOOLEAN /\ (served' = served \/ served' = served + 1)
  BY Zenon DEF RestInv, Next, Work, Tick, Execute, Dispatch, GatewayStep, Subscribe, TakeHistory, SendEvent,
     Unsubscribe, AskFor, Submitted, Managed, Sent, Recorded, Announce, Arrive, GetUpdates, Deliver, Reply,
     Log, PollLog, Follow, ScheduleJob, GatewayStops, GatewayStarts, Serve, gatewayVars
<1>2. kept' \subseteq Request
  <2>1. ASSUME NEW r \in Request, NEW kind \in {"submit", "send", "manage"}, AskFor(r, kind)
        PROVE  kept' = kept
    BY <2>1 DEF AskFor
  <2>2. ASSUME NEW r \in Request, Submitted(r) \/ Managed(r) \/ Sent(r) \/ Announce(r)
        PROVE  kept' = kept
    BY <2>2, Zenon DEF Submitted, Managed, Sent, Announce
  <2>3. ASSUME NEW r \in Request, Recorded(r)
        PROVE  kept' = kept \/ kept' = kept \cup {r}
    BY <2>3, Zenon DEF Recorded
  <2>4. GatewayStops \/ UNCHANGED rpcVars => kept' = kept
    BY Zenon DEF GatewayStops, rpcVars
  <2>5. kept' = kept \/ \E r \in Request : kept' = kept \cup {r}
    BY <2>1, <2>2, <2>3, <2>4, RpcFrame, Zenon
  <2> QED
    BY <2>5 DEF RestInv
<1>3. everHandled' \subseteq 1..MaxUpdates /\ failed' \subseteq 1..MaxUpdates
  <2>1. Arrive \/ GetUpdates \/ Reply \/ GatewayStops \/ UNCHANGED botVars
        => everHandled' = everHandled /\ failed' = failed
    BY Zenon DEF Arrive, GetUpdates, Reply, GatewayStops, botVars
  <2>2. ASSUME Deliver
        PROVE  /\ bot.next \in 1..MaxUpdates
               /\ everHandled' = everHandled \/ everHandled' = everHandled \cup {bot.next}
               /\ failed' = failed \/ failed' = failed \cup {bot.next}
    <3>1. bot.step = "deliver"
      BY <2>2 DEF Deliver
    <3>2. bot.next \in 1 .. MaxUpdates + 1 /\ bot.next <= bot.last /\ bot.last \in 0..MaxUpdates
      BY <3>1 DEF BotInv, BotType, BotPlace
    <3>3. bot.next \in 1..MaxUpdates
      BY <3>2, GatewayAssumption
    <3>4. everHandled' = everHandled \/ everHandled' = everHandled \cup {bot.next}
      BY <2>2, Zenon DEF Deliver, EngineHandles
    <3>5. failed' = failed \/ failed' = failed \cup {bot.next}
      BY <2>2, Zenon DEF Deliver
    <3> QED
      BY <3>3, <3>4, <3>5
  <2>3. CASE Deliver
    BY <2>2, <2>3 DEF RestInv
  <2>4. CASE Arrive \/ GetUpdates \/ Reply \/ GatewayStops \/ UNCHANGED botVars
    BY <2>1, <2>4 DEF RestInv
  <2> QED
    BY <2>3, <2>4, BotFrame
<1> QED
  BY <1>1, <1>2, <1>3 DEF RestInv

\* tailFile returns lines of the log.
LEMMA TailedLines ==
  ASSUME NEW n \in Nat, lines \in Nat
  PROVE  TailFile(n) \in Seq(Nat) /\ Between(TailFile(n), 0, lines)
<1> DEFINE len == IF n = 0 \/ n > lines THEN lines ELSE n
<1>1. len \in Nat /\ len <= lines
  OBVIOUS
<1>2. TailFile(n) = [k \in 1..len |-> lines - len + k]
  BY DEF TailFile
<1> HIDE DEF len
<1>3. \A k \in 1..len : lines - len + k \in Nat /\ 0 < lines - len + k /\ lines - len + k <= lines
  BY <1>1
<1>4. TailFile(n) \in Seq(Nat)
  BY <1>1, <1>2, <1>3, IsASeq
<1>5. DOMAIN TailFile(n) = 1..len /\ \A k \in 1..len : TailFile(n)[k] = lines - len + k
  BY <1>2
<1> QED
  BY <1>3, <1>4, <1>5 DEF Between

\* Adding the rest of a window to the lines that were sent.
LEMMA BetweenJoined ==
  ASSUME NEW s \in Seq(Nat), NEW t \in Seq(Nat), NEW m \in Nat, NEW n \in Nat,
         Between(s, 0, n), Between(t, 0, n), m < Len(t)
  PROVE  Between(s \o SubSeq(t, m + 1, Len(t)), 0, n)
<1> DEFINE r == SubSeq(t, m + 1, Len(t))
<1>0. Len(s) \in Nat /\ Len(t) \in Nat /\ DOMAIN s = 1..Len(s) /\ DOMAIN t = 1..Len(t)
  BY LenProperties
<1>1. /\ r \in Seq(Nat) /\ Len(r) = Len(t) - m
      /\ \A i \in 1 .. Len(t) - m : r[i] = t[m + i]
  <2>1. \A i \in m + 1 .. Len(t) : t[i] \in Nat
    BY <1>0, ElementOfSeq
  <2>2. /\ r \in Seq(Nat)
        /\ Len(r) = IF m + 1 <= Len(t) THEN Len(t) - (m + 1) + 1 ELSE 0
        /\ \A i \in 1 .. Len(t) - (m + 1) + 1 : r[i] = t[m + 1 + i - 1]
    BY <1>0, <2>1, SubSeqProperties
  <2> HIDE DEF r
  <2>3. Len(t) - (m + 1) + 1 = Len(t) - m /\ m + 1 <= Len(t)
    BY <1>0
  <2>4. ASSUME NEW i \in 1 .. Len(t) - m PROVE r[i] = t[m + i]
    <3>1. m + 1 + i - 1 = m + i
      BY <1>0
    <3> QED
      BY <2>2, <2>3, <3>1
  <2> QED
    BY <2>2, <2>3, <2>4
<1> HIDE DEF r
<1>2. /\ s \o r \in Seq(Nat) /\ Len(s \o r) = Len(s) + Len(r)
      /\ \A i \in 1 .. Len(s) + Len(r) : (s \o r)[i] = IF i <= Len(s) THEN s[i] ELSE r[i - Len(s)]
  BY <1>1, ConcatProperties, Zenon
<1>3. DOMAIN (s \o r) = 1 .. Len(s) + (Len(t) - m)
  BY <1>1, <1>2, LenProperties
<1> DEFINE u == s \o r
<1> HIDE DEF u
<1>a. u = s \o r
  BY DEF u
<1>4. ASSUME NEW i \in 1 .. Len(s) + (Len(t) - m)
      PROVE  0 < u[i] /\ u[i] <= n
  <2>1. u[i] = IF i <= Len(s) THEN s[i] ELSE r[i - Len(s)]
    BY <1>1, <1>2, <1>a
  <2>2. CASE i <= Len(s)
    <3>1. i \in DOMAIN s /\ u[i] = s[i]
      BY <1>0, <2>1, <2>2
    <3> QED
      BY <3>1 DEF Between
  <2>3. CASE ~(i <= Len(s))
    <3>1. i - Len(s) \in 1 .. Len(t) - m /\ m + (i - Len(s)) \in 1..Len(t)
      BY <1>0, <2>3
    <3>2. r[i - Len(s)] = t[m + (i - Len(s))]
      BY <1>1, <3>1
    <3> QED
      BY <1>0, <2>1, <2>3, <3>1, <3>2 DEF Between
  <2> QED
    BY <2>2, <2>3
<1> QED
  BY <1>3, <1>4, <1>a DEF Between, r

\* One follower moves.
LEMMA LinedMoves ==
  ASSUME RestInv, LogInv, NEW f \in Follower, NEW x, Lined(x, lines),
         followers' = [followers EXCEPT ![f] = x], lines' = lines
  PROVE  \A g \in Follower : Lined(followers[g], lines)'
BY DEF RestInv, LogInv, Lined, Between

\* TailLogs sends lines of the log only.
LEMMA LinedNext ==
  ASSUME RestInv, LogInv, Next
  PROVE  \A f \in Follower : Lined(followers[f], lines)'
<1>0. lines \in Nat /\ DOMAIN followers = Follower
      /\ \A f \in Follower : FollowerInv(followers[f], lines) /\ Lined(followers[f], lines)
  BY DEF LogInv, RestInv
<1>1. CASE UNCHANGED logVars
  BY <1>0, <1>1 DEF logVars, Lined, Between
<1>2. CASE Log
  <2>1. lines' = lines + 1 /\ followers' = followers
    BY <1>2 DEF Log
  <2>2. ASSUME NEW f \in Follower PROVE Lined(followers[f], lines + 1)
    <3>1. \A i \in DOMAIN followers[f].sent : followers[f].sent[i] \in Nat
      BY <1>0 DEF FollowerInv, FollowerType
    <3> QED
      BY <1>0, <3>1 DEF Lined, Between
  <2> QED
    BY <2>1, <2>2 DEF Lined, Between
<1>3. ASSUME NEW f \in Follower, NEW tail \in Tails, Follow(f, tail)
      PROVE  \A g \in Follower : Lined(followers[g], lines)'
  <2> DEFINE window == TailFile(tail)
             x == [on |-> TRUE, tail |-> tail, seen |-> Len(window), sent |-> window,
                   shifted |-> Len(window) < lines]
  <2>1. followers' = [followers EXCEPT ![f] = x] /\ lines' = lines
    BY <1>3 DEF Follow
  <2>2. Between(window, 0, lines)
    BY <1>0, TailedLines, GatewayAssumption
  <2> HIDE DEF window
  <2>3. Lined(x, lines)
    BY <2>2 DEF Lined
  <2> HIDE DEF x
  <2> QED
    BY <2>1, <2>3, LinedMoves
<1>4. ASSUME NEW f \in Follower, PollLog(f)
      PROVE  \A g \in Follower : Lined(followers[g], lines)'
  <2> DEFINE seen   == followers[f].seen
             window == TailFile(followers[f].tail + seen)
             sent   == IF Len(window) <= seen THEN followers[f].sent
                       ELSE followers[f].sent \o SubSeq(window, seen + 1, Len(window))
             x == [followers[f] EXCEPT
                     !.shifted = @ \/ Len(window) < lines,
                     !.sent = IF Len(window) <= seen THEN @ ELSE @ \o SubSeq(window, seen + 1, Len(window)),
                     !.seen = IF Len(window) <= seen THEN @ ELSE Len(window)]
  <2>1. followers' = [followers EXCEPT ![f] = x] /\ lines' = lines
    BY <1>4 DEF PollLog
  <2>2. /\ followers[f] \in FollowerType /\ seen \in Nat /\ followers[f].sent \in Seq(Nat)
        /\ followers[f].tail + seen \in Nat
        /\ followers[f].tail \in Tails \cup {0} /\ Between(followers[f].sent, 0, lines)
    BY <1>0 DEF FollowerInv, FollowerType, Lined
  <2>3. window \in Seq(Nat) /\ Between(window, 0, lines)
    BY <1>0, <2>2, TailedLines
  <2> HIDE DEF window
  <2>4. Len(window) \in Nat
    BY <2>3, LenProperties
  <2>5. Between(sent, 0, lines)
    <3>1. CASE Len(window) <= seen
      BY <2>2, <3>1
    <3>2. CASE ~(Len(window) <= seen)
      <4>1. seen < Len(window)
        BY <2>2, <2>4, <3>2
      <4> HIDE DEF seen
      <4> QED
        BY <1>0, <2>2, <2>3, <3>2, <4>1, BetweenJoined
    <3> QED
      BY <3>1, <3>2
  <2>6. x.tail = followers[f].tail /\ x.sent = sent
    BY <2>2 DEF FollowerType
  <2>7. Lined(x, lines)
    <3> HIDE DEF x, sent
    <3> QED
      BY <2>2, <2>5, <2>6 DEF Lined
  <2> HIDE DEF x
  <2> QED
    BY <2>1, <2>7, LinedMoves
<1>5. CASE GatewayStops
  <2>1. followers' = [f \in Follower |-> NotFollowing] /\ lines' = lines
    BY <1>5, Zenon DEF GatewayStops
  <2>2. Lined(NotFollowing, lines)
    BY <1>0, EmptySeq DEF Lined, Between, NotFollowing
  <2> QED
    BY <2>1, <2>2 DEF Lined
<1> QED
  BY <1>1, <1>2, <1>3, <1>4, <1>5, LogFrame, Zenon

\* Every step keeps what the other invariants leave open.
LEMMA RestInvNext == RestInv /\ BotInv /\ LogInv /\ [Next]_vars => RestInv'
<1> SUFFICES ASSUME RestInv, BotInv, LogInv, [Next]_vars PROVE RestInv'
  OBVIOUS
<1>1. CASE Next
  BY <1>1, RestMoves, LinedNext DEF RestInv
<1>2. CASE UNCHANGED vars
  BY <1>2, Zenon DEF vars, gatewayVars, rpcVars, botVars, logVars, RestInv, Lined, Between
<1> QED
  BY <1>1, <1>2

\* A sequence of numbers of events, or of lines.
LEMMA BetweenSeq ==
  ASSUME NEW s \in Seq(Nat), NEW n \in Nat, Between(s, 0, n)
  PROVE  s \in Seq(1..n)
<1>1. Len(s) \in Nat /\ DOMAIN s = 1..Len(s) /\ s = [i \in 1..Len(s) |-> s[i]]
  BY LenProperties
<1>2. \A i \in 1..Len(s) : s[i] \in 1..n
  <2>1. \A i \in 1..Len(s) : s[i] \in Nat
    BY <1>1, ElementOfSeq
  <2> QED
    BY <1>1, <2>1 DEF Between
<1> QED
  BY <1>1, <1>2, IsASeq

\* The type of a stream.
LEMMA StreamTyped ==
  ASSUME NEW stream, NEW n \in Nat, StreamInv(stream, n)
  PROVE  /\ stream \in [phase : {"closed", "subscribed", "open"}, sub : 0..n, snap : 0..n,
                        todo : Seq(1..n), chan : Seq(1..n), sent : Seq(1..n), missed : SUBSET (1..n)]
         /\ Len(stream.chan) <= ChannelLimit
<1>1. stream \in StreamType /\ Placed(stream, n)
  BY DEF StreamInv
<1>2. /\ stream.sub \in Nat /\ stream.snap \in Nat /\ stream.missed \subseteq Nat
      /\ stream.todo \in Seq(Nat) /\ stream.chan \in Seq(Nat) /\ stream.sent \in Seq(Nat)
  BY <1>1 DEF StreamType
<1>3. stream.sub \in 0..n /\ stream.snap \in 0..n /\ stream.missed \subseteq 1..n
  BY <1>1, <1>2 DEF Placed
<1>4. stream.todo \in Seq(1..n)
  <2>1. \A i \in DOMAIN stream.todo : stream.todo[i] \in Nat
    BY <1>2, LenProperties, ElementOfSeq
  <2>2. Between(stream.todo, 0, n)
    BY <1>1, <1>3, <2>1 DEF Placed, Between
  <2> QED
    BY <1>2, <2>2, BetweenSeq
<1>5. stream.chan \in Seq(1..n)
  <2>1. \A i \in DOMAIN stream.chan : stream.chan[i] \in Nat
    BY <1>2, LenProperties, ElementOfSeq
  <2>2. Between(stream.chan, 0, n)
    BY <1>1, <1>3, <2>1 DEF Placed, Between
  <2> QED
    BY <1>2, <2>2, BetweenSeq
<1>6. stream.sent \in Seq(1..n)
  BY <1>1, <1>2, BetweenSeq DEF Placed
<1> QED
  BY <1>1, <1>3, <1>4, <1>5, <1>6 DEF StreamType, Placed

\* The invariants together give every variable of the gateway its type.
LEMMA GatewayTyped == RestInv /\ Functions /\ HubInv /\ LogInv /\ BotInv /\ RpcInv /\ JobInv => GatewayTypeOK
<1> SUFFICES ASSUME RestInv, Functions, HubInv, LogInv, BotInv, RpcInv, JobInv PROVE GatewayTypeOK
  OBVIOUS
<1>1. /\ published \in Nat /\ history \in Seq(1..published) /\ Len(history) <= HistoryLimit
  <2>1. /\ published \in Nat /\ history \in Seq(Nat)
        /\ Len(history) = IF published <= HistoryLimit THEN published ELSE HistoryLimit
        /\ \A k \in 1..Len(history) : history[k] = published - Len(history) + k
    BY DEF HubInv, HistoryInv
  <2>2. HistoryLimit \in Nat /\ Len(history) \in Nat /\ DOMAIN history = 1..Len(history)
    BY <2>1, GatewayAssumption, LenProperties
  <2>3. Between(history, 0, published)
    BY <2>1, <2>2 DEF Between
  <2> QED
    BY <2>1, <2>2, <2>3, BetweenSeq
<1>2. /\ streams \in [Stream ->
           [phase : {"closed", "subscribed", "open"}, sub : 0..published, snap : 0..published,
            todo : Seq(1..published), chan : Seq(1..published), sent : Seq(1..published),
            missed : SUBSET (1..published)]]
      /\ \A s \in Stream : Len(streams[s].chan) <= ChannelLimit
  <2>1. \A s \in Stream :
          /\ streams[s] \in [phase : {"closed", "subscribed", "open"}, sub : 0..published, snap : 0..published,
                todo : Seq(1..published), chan : Seq(1..published), sent : Seq(1..published),
                missed : SUBSET (1..published)]
          /\ Len(streams[s].chan) <= ChannelLimit
    BY <1>1, StreamTyped DEF HubInv
  <2>2. streams = [s \in Stream |-> streams[s]]
    BY DEF Functions
  <2> QED
    BY <2>1, <2>2, Zenon
<1>3. lines \in Nat /\ followers \in [Follower ->
        [on : BOOLEAN, tail : Tails \cup {0}, seen : 0..lines, sent : Seq(1..lines), shifted : BOOLEAN]]
  <2>1. lines \in Nat
    BY DEF LogInv
  <2>2. ASSUME NEW f \in Follower
        PROVE  followers[f] \in
                 [on : BOOLEAN, tail : Tails \cup {0}, seen : 0..lines, sent : Seq(1..lines), shifted : BOOLEAN]
    <3>1. followers[f] \in FollowerType /\ followers[f].seen <= lines /\ Lined(followers[f], lines)
      BY DEF LogInv, FollowerInv, RestInv
    <3>2. followers[f].sent \in Seq(1..lines)
      BY <2>1, <3>1, BetweenSeq DEF FollowerType, Lined
    <3> QED
      BY <2>1, <3>1, <3>2 DEF FollowerType, Lined
  <2>3. followers = [f \in Follower |-> followers[f]]
    BY DEF Functions
  <2> QED
    BY <2>1, <2>2, <2>3, Zenon
<1>4. /\ up \in BOOLEAN /\ served \in Nat /\ left \subseteq Request /\ kept \subseteq Request
      /\ everHandled \subseteq 1..MaxUpdates /\ failed \subseteq 1..MaxUpdates
      /\ requests \in [Request -> RequestType]
  BY DEF RestInv, RpcInv
<1>5. BotType
  BY DEF BotInv
<1>6. /\ cron \subseteq Entry /\ ids \in [Job -> 0..nextId] /\ nextId \in Nat
      /\ promised \in [Job -> JobTarget \cup {NoTarget}]
  BY DEF JobInv
<1> QED
  BY <1>1, <1>2, <1>3, <1>4, <1>5, <1>6, Zenon DEF GatewayTypeOK, BotType, RequestType

\* Every variable of the gateway, the engine's tools and the installers keeps
\* its type.
THEOREM SystemIsTyped == Spec => []SystemTypeOK
<1>1. RestInv /\ Functions /\ HubInv /\ LogInv /\ BotInv /\ RpcInv /\ SystemInv => SystemTypeOK
  BY GatewayTyped DEF SystemInv, ToolInv, ToolTyped, SystemTypeOK
<1>2. SystemInv => JobInv
  BY DEF SystemInv
<1> QED
  BY <1>1, RestInvInit, RestInvNext, FunctionsNext, HubInvInit, HubInvNext, LogInvInit, LogInvNext, BotInvInit, BotInvNext,
     RpcInvInit, RpcInvNext, SystemInvInit, SystemInvNext, PTL DEF Spec
=================================================================================
