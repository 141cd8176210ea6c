-------------------------------- MODULE Pages --------------------------------
(***************************************************************************)
(* The pages of src/src/osd/osd.go and the browsers that show them.  A     *)
(* page opens an EventSource; the handler behind it goes on for ever:      *)
(* every second it copies what there is to show and writes the copy to     *)
(* its connection, without looking whether anybody still reads it.  An     *)
(* adapter page shows the adapter's entry of AdapterStatusMap, the monitor *)
(* page the figures of the machine.  A browser whose connection ends opens *)
(* another one, served by a new handler; the receiver may crash and be     *)
(* started again.                                                          *)
(*                                                                         *)
(* What is shown is numbered by when it was published: only its age        *)
(* matters here, what it says is the business of StateMachine.             *)
(***************************************************************************)
EXTENDS Naturals, Sequences

CONSTANTS
    Adapters,    \* open pages /adapter/<n>, all of the same adapter
    Monitors,    \* open pages /monitor
    MaxVisits,   \* bound on the connections opened
    MaxNews,     \* bound on the entries published, and on changes of the figures
    Buffer,      \* events a connection holds before a write blocks
    NoPage       \* the client of a handler not yet started

Pages  == Adapters \cup Monitors
Visits == 1 .. MaxVisits
NoConnection == 0
GaveUp == MaxVisits + 1   \* the EventSource was refused and will not retry

ASSUME PagesAssumptions ==
    /\ Adapters \cap Monitors = {}
    /\ MaxVisits \in Nat
    /\ MaxNews \in Nat
    /\ Buffer \in Nat \ {0}
    /\ NoPage \notin Pages

VARIABLES
    up,          \* the receiver is running
    published,   \* entries published so far, by all instances
    entry,       \* AdapterStatusMap[adapterID], 0: this instance has none yet
    sample,      \* what GetSystemStats would return
    visits,      \* connections opened so far; each has a handler
    client,      \* the page that opened the connection
    handlerPc,   \* what the handler is about to do
    copy,        \* adapterInfo or stats in the handler
    wire,        \* events written and not yet read
    conn,        \* the connection of the page
    shown        \* what the page shows, 0: nothing

handlerVars == <<visits, client, handlerPc, copy>>
browserVars == <<conn, shown>>
pagesVars == <<up, published, entry, sample, handlerVars, wire, browserVars>>

\* "Ended": the handler returned or its process is gone; "Refused": it
\* returned an error before the first event.
HandlerLabels == {"Unused", "First", "Read", "Write", "Ended", "Refused"}

PagesTypeOK ==
    /\ up \in BOOLEAN
    /\ published \in Nat
    /\ entry \in Nat
    /\ sample \in Nat \ {0}
    /\ visits \in 0 .. MaxVisits
    /\ client \in [Visits -> Pages \cup {NoPage}]
    /\ handlerPc \in [Visits -> HandlerLabels]
    /\ copy \in [Visits -> Nat]
    /\ \A h \in Visits : handlerPc[h] = "Write" => copy[h] # 0
    /\ wire \in [Visits -> Seq(Nat \ {0})]
    /\ conn \in [Pages -> Visits \cup {NoConnection, GaveUp}]
    /\ shown \in [Pages -> Nat]

PagesInit ==
    /\ up = TRUE
    /\ published = 0 /\ entry = 0 /\ sample = 1
    /\ visits = 0
    /\ client = [h \in Visits |-> NoPage]
    /\ handlerPc = [h \in Visits |-> "Unused"]
    /\ copy = [h \in Visits |-> 0]
    /\ wire = [h \in Visits |-> <<>>]
    /\ conn = [p \in Pages |-> NoConnection]
    /\ shown = [p \in Pages |-> 0]

------------------------------------------------------------------------------
(* The receiver.                                                            *)

Source(p) == IF p \in Monitors THEN sample ELSE entry

\* updateAdapterStatus of the adapter.
Publish ==
    /\ up
    /\ published < MaxNews
    /\ published' = published + 1
    /\ entry' = published'
    /\ UNCHANGED <<up, sample, handlerVars, wire, browserVars>>

\* A page is requested and its EventSource connects: a goroutine is started.
Visit(p) ==
    /\ up
    /\ conn[p] = NoConnection
    /\ visits < MaxVisits
    /\ visits' = visits + 1
    /\ client' = [client EXCEPT ![visits'] = p]
    /\ handlerPc' = [handlerPc EXCEPT ![visits'] = "First"]
    /\ conn' = [conn EXCEPT ![p] = visits']
    /\ UNCHANGED <<up, published, entry, sample, copy, wire, shown>>

\* Mutant: "if ok" is forgotten.
EvenIfMissing(h) == TRUE

\* An adapter that has no entry yet is looked up again a second later.
Available(h) == Source(client[h]) # 0

\* Mutant: the copy is made once, before the loop.
CopiedOnce(h) == IF copy[h] = 0 THEN Source(client[h]) ELSE copy[h]
Copied(h)     == Source(client[h])

Read(h) ==
    /\ up
    /\ handlerPc[h] \in {"First", "Read"}
    /\ Available(h)
    /\ copy' = [copy EXCEPT ![h] = Copied(h)]
    /\ handlerPc' = [handlerPc EXCEPT ![h] = "Write"]
    /\ UNCHANGED <<up, published, entry, sample, visits, client, wire, browserVars>>

\* Reading the machine's figures may fail.  http.Error is a refusal only if
\* nothing was written before.
SampleFails(h) ==
    /\ up
    /\ client[h] \in Monitors
    /\ handlerPc[h] \in {"First", "Read"}
    /\ handlerPc' = [handlerPc EXCEPT ![h] = IF handlerPc[h] = "First" THEN "Refused" ELSE "Ended"]
    /\ UNCHANGED <<up, published, entry, sample, visits, client, copy, wire, browserVars>>

\* Mutant: handlers share the page's writer instead of keeping their own.
SharedWriter(h) == IF conn[client[h]] \in Visits THEN conn[client[h]] ELSE h
Writer(h)       == h

\* What is written to a connection nobody reads is gone, and the error that
\* Fprintf may return is dropped.
Write(h) ==
    /\ up
    /\ handlerPc[h] = "Write"
    /\ LET w == Writer(h) IN
          IF conn[client[h]] = w
          THEN Len(wire[w]) < Buffer /\ wire' = [wire EXCEPT ![w] = Append(@, copy[h])]
          ELSE UNCHANGED wire
    /\ handlerPc' = [handlerPc EXCEPT ![h] = "Read"]
    /\ UNCHANGED <<up, published, entry, sample, visits, client, copy, browserVars>>

Crash ==
    /\ up
    /\ up' = FALSE
    /\ entry' = 0
    /\ handlerPc' = [h \in Visits |-> IF handlerPc[h] \in {"First", "Read", "Write"} THEN "Ended" ELSE handlerPc[h]]
    /\ UNCHANGED <<published, sample, visits, client, copy, wire, browserVars>>

Restart ==
    /\ ~up
    /\ up' = TRUE
    /\ UNCHANGED <<published, entry, sample, handlerVars, wire, browserVars>>

------------------------------------------------------------------------------
(* The machine and the browsers.                                            *)

Machine ==
    /\ sample < MaxNews
    /\ sample' = sample + 1
    /\ UNCHANGED <<up, published, entry, handlerVars, wire, browserVars>>

\* onmessage.
Deliver(p) ==
    /\ conn[p] \in Visits
    /\ wire[conn[p]] # <<>>
    /\ shown' = [shown EXCEPT ![p] = Head(wire[conn[p]])]
    /\ wire' = [wire EXCEPT ![conn[p]] = Tail(@)]
    /\ UNCHANGED <<up, published, entry, sample, handlerVars, conn>>

\* The response has ended: an EventSource retries, unless it was refused.
EndOfStream(p) ==
    /\ conn[p] \in Visits
    /\ wire[conn[p]] = <<>>
    /\ handlerPc[conn[p]] \in {"Ended", "Refused"}
    /\ conn' = [conn EXCEPT ![p] = IF handlerPc[conn[p]] = "Refused" THEN GaveUp ELSE NoConnection]
    /\ UNCHANGED <<up, published, entry, sample, handlerVars, wire, shown>>

\* The network fails between browser and receiver.
Lose(p) ==
    /\ conn[p] \in Visits
    /\ wire' = [wire EXCEPT ![conn[p]] = <<>>]
    /\ conn' = [conn EXCEPT ![p] = NoConnection]
    /\ UNCHANGED <<up, published, entry, sample, handlerVars, shown>>

------------------------------------------------------------------------------
HandlerNext == \E h \in Visits : Read(h) \/ SampleFails(h) \/ Write(h)
BrowserNext == \E p \in Pages : Visit(p) \/ Deliver(p) \/ EndOfStream(p) \/ Lose(p)

PagesNext == Publish \/ HandlerNext \/ BrowserNext \/ Machine \/ Crash \/ Restart

PagesSpec == PagesInit /\ [][PagesNext]_pagesVars

\* The Go scheduler runs every handler, and the browser reads what arrives.
\* Neither the network nor the receiver nor GetSystemStats is trusted.
PagesFairness ==
    /\ \A h \in Visits : WF_pagesVars(Read(h)) /\ WF_pagesVars(Write(h))
    /\ \A p \in Pages : WF_pagesVars(Deliver(p)) /\ WF_pagesVars(EndOfStream(p))

PagesFairSpec == PagesSpec /\ PagesFairness

------------------------------------------------------------------------------
\* A page never returns to older news: although handlers of connections that
\* were lost go on beside the current one with copies of their own, and
\* another instance may have taken over, what a page shows only gets newer.
NeverGoesBack == [][\A p \in Pages : shown'[p] >= shown[p]]_pagesVars

\* When there is no more news and a page has its connection, it shows the
\* last there was: no event that matters is lost on the way, however many
\* handlers and events of the past there are.
PageFollows ==
    \A p \in Pages, n \in 1 .. MaxNews :
        <>[](up /\ Source(p) = n /\ conn[p] \in Visits) => <>[](shown[p] = n)
==============================================================================
