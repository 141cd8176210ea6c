----------------------------- MODULE PagesProofs -----------------------------
(***************************************************************************)
(* What a page shows never gets older, for any number of pages, visits and *)
(* crashes.  The argument: along the way from the published news to a page *)
(* (the handler's copy, the events on the wire of its connection, what is  *)
(* shown) age only increases, and only the handler of the page's present   *)
(* connection is on that way.                                              *)
(***************************************************************************)
EXTENDS Pages, TLAPS

\* The last news a page can know of.
Latest(p) == IF p \in Monitors THEN sample ELSE published

\* The events of s are in order, none older than lo or newer than hi.
Sorted(lo, s, hi) ==
    /\ \A i \in 1 .. Len(s) : lo <= s[i] /\ s[i] <= hi
    /\ \A i, j \in 1 .. Len(s) : i <= j => s[i] <= s[j]

\* What handler h, serving p, may still write is no older than this.
Reach(p, h) == IF handlerPc[h] = "Write" THEN copy[h] ELSE Latest(p)

WayTo(p) ==
    conn[p] \in Visits =>
        /\ client[conn[p]] = p
        /\ conn[p] <= visits
        /\ Sorted(shown[p], wire[conn[p]], Reach(p, conn[p]))
        /\ shown[p] <= Reach(p, conn[p])
        /\ Reach(p, conn[p]) <= Latest(p)

PagesInv ==
    /\ PagesTypeOK
    /\ entry \in {0, published}
    /\ \A h \in Visits : h > visits => wire[h] = <<>> /\ handlerPc[h] = "Unused"
    /\ \A p \in Pages : shown[p] <= Latest(p)
    /\ \A p \in Pages : WayTo(p)

------------------------------------------------------------------------------
\* Writing the handler's copy keeps the events in order.
LEMMA SortedAppend ==
    ASSUME NEW lo \in Nat, NEW s \in Seq(Nat \ {0}), NEW n \in Nat \ {0},
           Sorted(lo, s, n), lo <= n
    PROVE  Sorted(lo, Append(s, n), n)
  <1> DEFINE t == Append(s, n)
  <1>1. Len(t) = Len(s) + 1 /\ Len(s) \in Nat /\ t[Len(s) + 1] = n
    OBVIOUS
  <1>2. \A i \in 1 .. Len(s) : t[i] = s[i] /\ s[i] \in Nat
    OBVIOUS
  <1> HIDE DEF t
  <1>3. \A i \in 1 .. Len(t) : i \in 1 .. Len(s) \/ i = Len(s) + 1
    BY <1>1
  <1> QED
    BY <1>1, <1>2, <1>3 DEF Sorted, t

\* Reading one raises what is shown to the first event and no further.
LEMMA SortedTail ==
    ASSUME NEW lo \in Nat, NEW hi \in Nat, NEW s \in Seq(Nat \ {0}), s # <<>>,
           Sorted(lo, s, hi)
    PROVE  /\ Head(s) \in Nat /\ lo <= Head(s) /\ Head(s) <= hi
           /\ Tail(s) \in Seq(Nat \ {0})
           /\ Sorted(Head(s), Tail(s), hi)
  <1>1. Len(s) \in Nat \ {0} /\ Head(s) = s[1] /\ Len(Tail(s)) = Len(s) - 1
    OBVIOUS
  <1>2. \A i \in 1 .. Len(Tail(s)) : Tail(s)[i] = s[i + 1] /\ i + 1 \in 1 .. Len(s)
    BY <1>1
  <1>3. \A i \in 1 .. Len(s) : s[i] \in Nat
    OBVIOUS
  <1>4. Tail(s) \in Seq(Nat \ {0})
    OBVIOUS
  <1> HIDE DEF Sorted
  <1>5. lo <= Head(s) /\ Head(s) <= hi /\ Head(s) \in Nat
    BY <1>1, <1>3 DEF Sorted
  <1>6. \A i \in 1 .. Len(Tail(s)) : Head(s) <= Tail(s)[i] /\ Tail(s)[i] <= hi
    BY <1>1, <1>2 DEF Sorted
  <1>7. \A i, j \in 1 .. Len(Tail(s)) : i <= j => Tail(s)[i] <= Tail(s)[j]
    BY <1>1, <1>2 DEF Sorted
  <1> QED
    BY <1>4, <1>5, <1>6, <1>7 DEF Sorted

\* More news does not disturb events that are on their way.
LEMMA SortedWider ==
    ASSUME NEW lo \in Nat, NEW s \in Seq(Nat \ {0}), NEW hi \in Nat, NEW hi2 \in Nat,
           hi <= hi2, Sorted(lo, s, hi)
    PROVE  Sorted(lo, s, hi2)
  <1>1. \A i \in 1 .. Len(s) : s[i] \in Nat
    OBVIOUS
  <1> QED
    BY <1>1 DEF Sorted

\* Nothing on the wire is in order.
LEMMA SortedEmpty == \A lo, hi : Sorted(lo, <<>>, hi)
  BY DEF Sorted

------------------------------------------------------------------------------
LEMMA PagesInvInit == PagesInit => PagesInv
  <1> SUFFICES ASSUME PagesInit
               PROVE  PagesInv
    OBVIOUS
  <1>1. PagesTypeOK
    BY PagesAssumptions DEF PagesInit, PagesTypeOK, HandlerLabels, Visits, NoConnection
  <1>2. \A p \in Pages : conn[p] \notin Visits /\ shown[p] <= Latest(p)
    BY DEF PagesInit, Visits, NoConnection, Latest
  <1> QED
    BY <1>1, <1>2 DEF PagesInv, PagesInit, WayTo, Visits

\* Every variable keeps its type.
LEMMA PagesTypeStep ==
    ASSUME PagesTypeOK, PagesNext
    PROVE  PagesTypeOK'
  <1> USE DEF PagesTypeOK, handlerVars, browserVars, HandlerLabels
  <1>1. CASE Publish
    <2>1. published' \in Nat /\ entry' \in Nat
      BY <1>1 DEF Publish
    <2> QED
      BY <1>1, <2>1 DEF Publish
  <1>2. CASE Machine
    <2>1. sample' \in Nat \ {0}
      BY <1>2 DEF Machine
    <2> QED
      BY <1>2, <2>1 DEF Machine
  <1>9. CASE Restart
    BY <1>9 DEF Restart
  <1>10. CASE Crash
    BY <1>10 DEF Crash
  <1>3. ASSUME NEW h \in Visits, Read(h)
        PROVE  PagesTypeOK'
    <2>1. Source(client[h]) \in Nat \ {0}
      BY <1>3 DEF Read, Available, Source
    <2>2. copy' \in [Visits -> Nat] /\ handlerPc' \in [Visits -> HandlerLabels]
      BY <1>3, <2>1 DEF Read, Copied
    <2>3. \A k \in Visits : handlerPc'[k] = "Write" => copy'[k] # 0
      BY <1>3, <2>1 DEF Read, Copied
    <2> QED
      BY <1>3, <2>2, <2>3 DEF Read
  <1>4. ASSUME NEW h \in Visits, SampleFails(h)
        PROVE  PagesTypeOK'
    BY <1>4 DEF SampleFails
  <1>5. ASSUME NEW h \in Visits, Write(h)
        PROVE  PagesTypeOK'
    <2>1. wire[h] \in Seq(Nat \ {0}) /\ copy[h] \in Nat \ {0}
      BY <1>5 DEF Write
    <2>2. Append(wire[h], copy[h]) \in Seq(Nat \ {0})
      BY <2>1
    <2>3. wire' \in [Visits -> Seq(Nat \ {0})]
      BY <1>5, <2>2 DEF Write, Writer
    <2> QED
      BY <1>5, <2>3 DEF Write
  <1>6. ASSUME NEW p \in Pages, Visit(p)
        PROVE  PagesTypeOK'
    <2>1. visits' \in Visits /\ visits' \in 0 .. MaxVisits
      BY <1>6, PagesAssumptions DEF Visit, Visits
    <2> QED
      BY <1>6, <2>1 DEF Visit
  <1>7. ASSUME NEW p \in Pages, Deliver(p)
        PROVE  PagesTypeOK'
    <2>1. wire[conn[p]] \in Seq(Nat \ {0}) /\ wire[conn[p]] # <<>>
      BY <1>7 DEF Deliver
    <2>2. Head(wire[conn[p]]) \in Nat /\ Tail(wire[conn[p]]) \in Seq(Nat \ {0})
      BY <2>1
    <2> QED
      BY <1>7, <2>2 DEF Deliver
  <1>8. ASSUME NEW p \in Pages, EndOfStream(p) \/ Lose(p)
        PROVE  PagesTypeOK'
    <2>1. CASE EndOfStream(p)
      <3>1. conn' \in [Pages -> Visits \cup {NoConnection, GaveUp}]
        BY <2>1 DEF EndOfStream
      <3> QED
        BY <2>1, <3>1 DEF EndOfStream
    <2>2. CASE Lose(p)
      <3>1. conn' \in [Pages -> Visits \cup {NoConnection, GaveUp}]
        BY <2>2 DEF Lose
      <3>2. wire' \in [Visits -> Seq(Nat \ {0})]
        BY <2>2 DEF Lose
      <3> QED
        BY <2>2, <3>1, <3>2 DEF Lose
    <2> QED
      BY <1>8, <2>1, <2>2
  <1> QED
    BY <1>1, <1>2, <1>3, <1>4, <1>5, <1>6, <1>7, <1>8, <1>9, <1>10 DEF PagesNext, HandlerNext, BrowserNext

\* The numbers compared are numbers.
LEMMA WayType ==
    ASSUME PagesTypeOK, NEW p \in Pages
    PROVE  /\ Latest(p) \in Nat /\ shown[p] \in Nat /\ visits \in Nat
           /\ \A h \in Visits : Reach(p, h) \in Nat /\ wire[h] \in Seq(Nat \ {0}) /\ h \in Nat
  BY DEF PagesTypeOK, Latest, Reach, Visits

\* A step that leaves alone the page, its connection, what is on it and what
\* its handler is about to write keeps the page on its way; new news may come.
LEMMA WayKept ==
    ASSUME PagesTypeOK, PagesTypeOK', NEW p \in Pages, WayTo(p), shown[p] <= Latest(p),
           NEW c, conn[p] = c, conn'[p] = c, shown'[p] = shown[p],
           Latest(p) <= Latest(p)', visits <= visits',
           c \in Visits =>
               /\ wire'[c] = wire[c] /\ client'[c] = client[c]
               /\ handlerPc'[c] = "Write" => handlerPc[c] = "Write" /\ copy'[c] = copy[c]
    PROVE  WayTo(p)' /\ shown'[p] <= Latest(p)' /\ shown'[p] >= shown[p]
  <1>1. /\ Latest(p) \in Nat /\ shown[p] \in Nat /\ visits \in Nat
        /\ Latest(p)' \in Nat /\ visits' \in Nat
        /\ c \in Visits => /\ Reach(p, c) \in Nat /\ Reach(p, c)' \in Nat
                          /\ wire[c] \in Seq(Nat \ {0}) /\ c \in Nat
    BY DEF PagesTypeOK, Latest, Reach, Visits
  <1>2. shown'[p] <= Latest(p)' /\ shown'[p] >= shown[p]
    BY <1>1
  <1>3. ASSUME c \in Visits
        PROVE  /\ client'[c] = p /\ c <= visits'
               /\ Sorted(shown[p], wire[c], Reach(p, c)')
               /\ shown[p] <= Reach(p, c)' /\ Reach(p, c)' <= Latest(p)'
    <2>1. /\ client[c] = p /\ c <= visits
          /\ Sorted(shown[p], wire[c], Reach(p, c))
          /\ shown[p] <= Reach(p, c) /\ Reach(p, c) <= Latest(p)
      BY <1>3 DEF WayTo
    <2>2. Reach(p, c) <= Reach(p, c)' /\ Reach(p, c)' <= Latest(p)'
      BY <1>1, <1>3, <2>1 DEF Reach
    <2>3. Sorted(shown[p], wire[c], Reach(p, c)')
      BY <1>1, <1>3, <2>1, <2>2, SortedWider
    <2> QED
      BY <1>1, <1>3, <2>1, <2>2, <2>3
  <1> QED
    BY <1>2, <1>3 DEF WayTo

\* A page that loses its connection has nothing on its way.
LEMMA WayClosed ==
    ASSUME PagesTypeOK, NEW p \in Pages, shown[p] <= Latest(p), conn'[p] \notin Visits,
           shown'[p] = shown[p], UNCHANGED <<published, sample>>
    PROVE  WayTo(p)' /\ shown'[p] <= Latest(p)' /\ shown'[p] >= shown[p]
  <1>1. shown[p] \in Nat /\ Latest(p)' = Latest(p)
    BY WayType DEF Latest
  <1> QED
    BY <1>1 DEF WayTo

\* No step lets something older come behind something newer.
LEMMA WayStep ==
    ASSUME PagesInv, PagesNext, NEW p \in Pages
    PROVE  WayTo(p)' /\ shown'[p] <= Latest(p)' /\ shown'[p] >= shown[p]
  <1>1. PagesTypeOK /\ PagesTypeOK' /\ WayTo(p) /\ shown[p] <= Latest(p)
    BY PagesTypeStep DEF PagesInv
  <1> DEFINE Goal == WayTo(p)' /\ shown'[p] <= Latest(p)' /\ shown'[p] >= shown[p]
  <1> USE DEF handlerVars, browserVars
  <1>2. CASE Publish \/ Machine \/ Crash \/ Restart
    <2>1. Latest(p) <= Latest(p)'
      BY <1>1, <1>2 DEF PagesTypeOK, Latest, Publish, Machine, Crash, Restart
    <2>2. /\ UNCHANGED <<conn, shown, wire, client, copy, visits>>
          /\ \A h \in Visits : handlerPc'[h] = "Write" => handlerPc[h] = "Write"
      BY <1>1, <1>2 DEF PagesTypeOK, Publish, Machine, Crash, Restart
    <2>3. visits <= visits'
      BY <1>1, <2>2, WayType
    <2> QED
      BY <1>1, <2>1, <2>2, <2>3, WayKept
  <1>3. ASSUME NEW h \in Visits, Read(h)
        PROVE  Goal
    <2>1. /\ UNCHANGED <<conn, shown, wire, client, visits, published, sample>>
          /\ handlerPc[h] \in {"First", "Read"} /\ handlerPc'[h] = "Write" /\ copy'[h] = Source(client[h])
          /\ \A k \in Visits \ {h} : handlerPc'[k] = handlerPc[k] /\ copy'[k] = copy[k]
      BY <1>1, <1>3 DEF PagesTypeOK, Read, Copied
    <2>2. Latest(p)' = Latest(p)
      BY <2>1 DEF Latest
    <2>3. visits <= visits' /\ Latest(p) <= Latest(p)'
      BY <1>1, <2>1, <2>2, WayType
    <2>4. CASE conn[p] # h
      BY <1>1, <2>1, <2>3, <2>4, WayKept
    \* this handler's copy is the latest news there is
    <2>5. CASE conn[p] = h
      <3>1. client[h] = p
        BY <1>1, <2>5 DEF WayTo
      <3>2. Source(p) = Latest(p)
        BY <1>3, <3>1 DEF PagesInv, Read, Available, Source, Latest
      <3>3. Reach(p, h) = Latest(p) /\ Reach(p, h)' = Latest(p)
        BY <2>1, <3>1, <3>2 DEF Reach
      <3> QED
        BY <1>1, <2>1, <2>2, <2>5, <3>3, WayType DEF WayTo
    <2> QED
      BY <2>4, <2>5
  <1>4. ASSUME NEW h \in Visits, SampleFails(h)
        PROVE  Goal
    <2>1. /\ UNCHANGED <<conn, shown, wire, client, copy, visits, published, sample>>
          /\ \A k \in Visits : handlerPc'[k] = "Write" => handlerPc[k] = "Write"
      BY <1>1, <1>4 DEF PagesTypeOK, SampleFails
    <2>2. visits <= visits' /\ Latest(p) <= Latest(p)'
      BY <1>1, <2>1, WayType DEF Latest
    <2> QED
      BY <1>1, <2>1, <2>2, WayKept
  <1>5. ASSUME NEW h \in Visits, Write(h)
        PROVE  Goal
    <2>1. /\ UNCHANGED <<conn, shown, client, copy, visits, published, sample>>
          /\ handlerPc[h] = "Write" /\ handlerPc'[h] = "Read"
          /\ \A k \in Visits \ {h} : handlerPc'[k] = handlerPc[k] /\ wire'[k] = wire[k]
      BY <1>1, <1>5 DEF PagesTypeOK, Write, Writer
    <2>2. Latest(p)' = Latest(p)
      BY <2>1 DEF Latest
    <2>3. visits <= visits' /\ Latest(p) <= Latest(p)'
      BY <1>1, <2>1, <2>2, WayType
    <2>4. CASE conn[p] # h
      BY <1>1, <2>1, <2>3, <2>4, WayKept
    \* the copy was the newest on the way and now ends the wire
    <2>5. CASE conn[p] = h
      <3>1. /\ client[h] = p /\ h <= visits
            /\ Sorted(shown[p], wire[h], copy[h]) /\ shown[p] <= copy[h]
            /\ copy[h] <= Latest(p)
        BY <1>1, <2>1, <2>5 DEF WayTo, Reach
      <3>2. wire[h] \in Seq(Nat \ {0}) /\ copy[h] \in Nat \ {0} /\ shown[p] \in Nat
            /\ Latest(p) \in Nat
        BY <1>1, <2>1, WayType DEF PagesTypeOK
      <3>3. wire'[h] = Append(wire[h], copy[h])
        BY <1>1, <1>5, <2>5, <3>1 DEF PagesTypeOK, Write, Writer
      <3>4. Append(wire[h], copy[h]) \in Seq(Nat \ {0})
        BY <3>2
      <3>5. Sorted(shown[p], wire'[h], Latest(p))
        BY <3>1, <3>2, <3>3, <3>4, SortedAppend, SortedWider
      <3>6. Reach(p, h)' = Latest(p) /\ shown[p] <= Latest(p)
        BY <1>1, <2>1, <2>2 DEF Reach
      <3> QED
        BY <2>1, <2>2, <2>5, <3>1, <3>2, <3>5, <3>6 DEF WayTo
    <2> QED
      BY <2>4, <2>5
  <1>6. ASSUME NEW q \in Pages, Visit(q)
        PROVE  Goal
    <2>1. /\ UNCHANGED <<shown, wire, copy, published, sample>>
          /\ visits' = visits + 1 /\ visits' \in Visits
          /\ conn'[q] = visits' /\ client'[visits'] = q /\ handlerPc'[visits'] = "First"
          /\ \A k \in Visits \ {visits'} : handlerPc'[k] = handlerPc[k] /\ client'[k] = client[k]
          /\ p # q => conn'[p] = conn[p]
      BY <1>1, <1>6, PagesAssumptions DEF PagesTypeOK, Visit, Visits
    <2>2. Latest(p)' = Latest(p) /\ Latest(p) \in Nat /\ visits \in Nat /\ shown[p] \in Nat
      BY <1>1, <2>1, WayType DEF Latest
    <2>3. CASE p # q
      <3>1. conn[p] \in Visits => conn[p] # visits'
        BY <1>1, <2>1, <2>2 DEF WayTo, Visits
      <3>2. visits <= visits' /\ Latest(p) <= Latest(p)'
        BY <2>1, <2>2
      <3>3. conn[p] \in Visits => client'[conn[p]] = client[conn[p]] /\ handlerPc'[conn[p]] = handlerPc[conn[p]]
        BY <2>1, <3>1
      <3> QED
        BY <1>1, <2>1, <2>2, <2>3, <3>2, <3>3, WayKept
    \* a new connection has an empty wire
    <2>4. CASE p = q
      <3>1. wire'[visits'] = <<>>
        BY <2>1, <2>2 DEF PagesInv, Visits
      <3>2. Reach(p, conn[p])' = Latest(p)
        BY <2>1, <2>2, <2>4 DEF Reach
      <3> QED
        BY <1>1, <2>1, <2>2, <2>4, <3>1, <3>2, SortedEmpty DEF WayTo
    <2> QED
      BY <2>3, <2>4
  <1>7. ASSUME NEW q \in Pages, Deliver(q)
        PROVE  Goal
    <2>1. /\ UNCHANGED <<conn, client, handlerPc, copy, visits, published, sample>>
          /\ conn[q] \in Visits /\ wire[conn[q]] # <<>>
          /\ wire'[conn[q]] = Tail(wire[conn[q]]) /\ shown'[q] = Head(wire[conn[q]])
          /\ \A k \in Visits \ {conn[q]} : wire'[k] = wire[k]
          /\ p # q => shown'[p] = shown[p]
      BY <1>1, <1>7 DEF PagesTypeOK, Deliver
    <2>2. Latest(p)' = Latest(p) /\ Latest(p) <= Latest(p)' /\ visits <= visits'
      BY <1>1, <2>1, WayType DEF Latest
    <2>3. CASE p # q
      <3>1. conn[p] \in Visits => conn[p] # conn[q]
        BY <2>1, <2>3 DEF PagesInv, WayTo
      <3> QED
        BY <1>1, <2>1, <2>2, <2>3, <3>1, WayKept
    <2>4. CASE p = q
      <3> DEFINE c == conn[p]
      <3>1. /\ client[c] = p /\ c <= visits /\ Sorted(shown[p], wire[c], Reach(p, c))
            /\ Reach(p, c) <= Latest(p)
        BY <1>1, <2>1, <2>4 DEF WayTo
      <3>2. wire[c] \in Seq(Nat \ {0}) /\ Reach(p, c) \in Nat /\ shown[p] \in Nat /\ Latest(p) \in Nat
        BY <1>1, <2>1, <2>4, WayType
      <3>3. /\ shown[p] <= shown'[p] /\ shown'[p] <= Reach(p, c) /\ shown'[p] \in Nat
            /\ Sorted(shown'[p], Tail(wire[c]), Reach(p, c))
        BY <2>1, <2>4, <3>1, <3>2, SortedTail
      <3>4. Reach(p, conn[p])' = Reach(p, c)
        BY <2>1, <2>2 DEF Reach
      <3> QED
        BY <2>1, <2>2, <2>4, <3>1, <3>2, <3>3, <3>4 DEF WayTo
    <2> QED
      BY <2>3, <2>4
  <1>8. ASSUME NEW q \in Pages, EndOfStream(q) \/ Lose(q)
        PROVE  Goal
    <2>5. NoConnection \notin Visits /\ GaveUp \notin Visits
      BY PagesAssumptions DEF Visits, NoConnection, GaveUp
    <2>1. /\ UNCHANGED <<shown, client, handlerPc, copy, visits, published, sample>>
          /\ conn[q] \in Visits /\ conn'[q] \notin Visits
          /\ \A k \in Visits \ {conn[q]} : wire'[k] = wire[k]
          /\ p # q => conn'[p] = conn[p]
      BY <1>1, <1>8, <2>5 DEF PagesTypeOK, EndOfStream, Lose
    <2>2. Latest(p) <= Latest(p)' /\ visits <= visits'
      BY <1>1, <2>1, WayType DEF Latest
    <2>3. CASE p # q
      <3>1. conn[p] \in Visits => conn[p] # conn[q]
        BY <2>1, <2>3 DEF PagesInv, WayTo
      <3> QED
        BY <1>1, <2>1, <2>2, <2>3, <3>1, WayKept
    <2>4. CASE p = q
      BY <1>1, <2>1, <2>4, WayClosed
    <2> QED
      BY <2>3, <2>4
  <1> QED
    BY <1>2, <1>3, <1>4, <1>5, <1>6, <1>7, <1>8 DEF PagesNext, HandlerNext, BrowserNext

\* Handlers that have not started have written nothing, and an instance
\* shows either nothing or the last that was published.
LEMMA FreshStep ==
    ASSUME PagesInv, PagesNext
    PROVE  /\ entry' \in {0, published'}
           /\ \A h \in Visits : h > visits' => wire'[h] = <<>> /\ handlerPc'[h] = "Unused"
  <1> USE DEF handlerVars, browserVars
  <1>1. PagesTypeOK
    BY DEF PagesInv
  <1>2. entry' \in {0, published'}
    BY DEF PagesInv, PagesNext, Publish, Machine, Crash, Restart, HandlerNext, BrowserNext, Read,
       SampleFails, Write, Visit, Deliver, EndOfStream, Lose
  <1>3. ASSUME NEW h \in Visits, h > visits'
        PROVE  wire'[h] = <<>> /\ handlerPc'[h] = "Unused"
    <2>1. visits \in Nat /\ visits <= visits' /\ visits' \in Nat
      BY <1>1 DEF PagesTypeOK, PagesNext, Publish, Machine, Crash, Restart, HandlerNext, BrowserNext, Read,
         SampleFails, Write, Visit, Deliver, EndOfStream, Lose
    <2>2. wire[h] = <<>> /\ handlerPc[h] = "Unused" /\ h \in Nat
      BY <1>3, <2>1 DEF PagesInv, Visits
    <2>3. CASE Publish \/ Machine \/ Crash \/ Restart
      BY <1>1, <2>2, <2>3 DEF PagesTypeOK, Publish, Machine, Crash, Restart
    <2>4. CASE HandlerNext
      BY <1>1, <2>2, <2>4 DEF PagesTypeOK, HandlerNext, Read, SampleFails, Write, Writer
    <2>5. ASSUME NEW q \in Pages, Visit(q)
          PROVE  wire'[h] = <<>> /\ handlerPc'[h] = "Unused"
      BY <1>1, <1>3, <2>1, <2>2, <2>5 DEF PagesTypeOK, Visit
    <2>6. ASSUME NEW q \in Pages, Deliver(q) \/ EndOfStream(q) \/ Lose(q)
          PROVE  wire'[h] = <<>> /\ handlerPc'[h] = "Unused"
      BY <1>1, <2>2, <2>6 DEF PagesTypeOK, Deliver, EndOfStream, Lose
    <2> QED
      BY <2>3, <2>4, <2>5, <2>6 DEF PagesNext, BrowserNext
  <1> QED
    BY <1>2, <1>3

LEMMA PagesInvStep == PagesInv /\ [PagesNext]_pagesVars => PagesInv'
  <1> SUFFICES ASSUME PagesInv, [PagesNext]_pagesVars
               PROVE  PagesInv'
    OBVIOUS
  <1>1. CASE PagesNext
    BY <1>1, PagesTypeStep, WayStep, FreshStep DEF PagesInv
  <1>2. CASE UNCHANGED pagesVars
    BY <1>2 DEF PagesInv, PagesTypeOK, WayTo, Reach, Latest, Sorted, pagesVars, handlerVars, browserVars
  <1> QED
    BY <1>1, <1>2

\* Every variable of pages, connections and handlers keeps to its type; in
\* particular no event without a published entry is ever written.
THEOREM PagesTypeCorrect == PagesSpec => []PagesTypeOK
  <1>1. PagesInv => PagesTypeOK
    BY DEF PagesInv
  <1> QED
    BY <1>1, PagesInvInit, PagesInvStep, PTL DEF PagesSpec

\* Whatever connections are lost, whichever handlers are left over from them
\* and however often the receiver crashes, no page returns to older news.
THEOREM PagesOnlyAdvance == PagesSpec => NeverGoesBack
  <1>1. PagesInv /\ [PagesNext]_pagesVars => [\A p \in Pages : shown'[p] >= shown[p]]_pagesVars
    BY WayStep
  <1> QED
    BY <1>1, PagesInvInit, PagesInvStep, PTL DEF PagesSpec, NeverGoesBack
==============================================================================
