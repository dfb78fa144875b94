------------------------------- MODULE Relay -------------------------------
(***************************************************************************)
(* A connection carried by one of the two proxies: how it is set up        *)
(* (backend/daemons/ingress_proxy.py by the port it came in on,            *)
(* backend/daemons/egress_proxy.py by the name it asks for) and how        *)
(* backend/daemons/relay.py moves bytes between the two sockets, one       *)
(* thread for both directions.                                             *)
(*                                                                         *)
(* Bytes are counted in pieces, and a socket's buffer holds BUF of them.   *)
(***************************************************************************)
EXTENDS Naturals, FiniteSets

CONSTANTS
  Names, Listed,          \* what may be asked for, and egress_allowlist.json
  Addresses, Routable,    \* what a name may resolve to, and what may be dialled
  None,
  BUF, MaxPieces          \* MaxPieces bounds what each end writes

Ends == {"near", "far"}   \* the client, and what it is joined to
Other(e) == IF e = "near" THEN "far" ELSE "near"

RelayAssumption ==
  /\ Listed \subseteq Names /\ Routable \subseteq Addresses
  /\ None \notin Names \cup Addresses /\ None \notin [from : Ends, left : Nat]
  /\ BUF \in Nat \ {0} /\ MaxPieces \in Nat

VARIABLES
  proxy,    \* "ingress" or "egress"
  phase,    \* "accepted", "resolved", "select", "send", "closed"
  asked,    \* the name in the request line
  found,    \* what it resolved to
  dialled,  \* the address connected to
  why,      \* how the connection came to be closed
  \* each end
  written, read, shut, gone,
  \* the two sockets of the proxy
  inbox,    \* received from an end, not yet read by the proxy
  outbox,   \* on the way to an end
  eof,      \* the proxy has shut down its side towards an end
  watched,  \* the selector's map
  ready,    \* what select() returned and is not dealt with yet
  hand      \* [from, left]: what sendall() has still to put away, or None

request == <<proxy, asked, found, dialled>>
ends    == <<written, read, shut, gone>>
sockets == <<inbox, outbox, eof>>
loop    == <<watched, ready, hand>>
vars    == <<request, phase, why, ends, sockets, loop>>

All(v) == [e \in Ends |-> v]

Init ==
  /\ proxy \in {"ingress", "egress"} /\ phase = "accepted"
  /\ asked = None /\ found = {} /\ dialled = None /\ why = None
  /\ written = All(0) /\ read = All(0) /\ shut = All(FALSE) /\ gone = All(FALSE)
  /\ inbox = All(0) /\ outbox = All(0) /\ eof = All(FALSE)
  /\ watched = {} /\ ready = {} /\ hand = None

Close(reason) == phase' = "closed" /\ why' = reason
Joined == phase' = "select" /\ watched' = Ends

-----------------------------------------------------------------------------
\* Setting it up.

\* The service behind the port is there or it is not.
Ingress ==
  /\ proxy = "ingress" /\ phase = "accepted"
  /\ \/ Joined /\ UNCHANGED why
     \/ Close("unreachable") /\ UNCHANGED watched
  /\ UNCHANGED <<request, ends, sockets, ready, hand>>

\* _request: the request line and its headers, malformed, slow or too long, or
\* a destination.
Request ==
  /\ proxy = "egress" /\ phase = "accepted"
  /\ \/ /\ Close("bad request") /\ UNCHANGED <<asked, found>>
     \/ \E name \in Names :
          /\ asked' = name
          /\ IF name \in Listed
             THEN /\ phase' = "resolved" /\ UNCHANGED why
                  /\ found' \in SUBSET Addresses \ {{}}
             ELSE Close("not listed") /\ UNCHANGED found
  /\ UNCHANGED <<proxy, dialled, ends, sockets, loop>>

\* _connect: every address the name has is looked at before the first of them is
\* tried, and those are the ones tried.
MayDialAny == found \cap Routable # {}
MayDial == found \subseteq Routable
Dial ==
  /\ phase = "resolved"
  /\ IF ~MayDial THEN Close("not routable") /\ UNCHANGED <<dialled, watched>>
     ELSE \/ dialled' \in found /\ Joined /\ UNCHANGED why
          \/ Close("unreachable") /\ UNCHANGED <<dialled, watched>>
  /\ UNCHANGED <<proxy, asked, found, ends, sockets, ready, hand>>

-----------------------------------------------------------------------------
\* The two ends.

Open == phase \in {"select", "send"}

Write(e) ==
  /\ Open /\ ~shut[e] /\ ~gone[e] /\ written[e] < MaxPieces /\ inbox[e] < BUF
  /\ written' = [written EXCEPT ![e] = @ + 1] /\ inbox' = [inbox EXCEPT ![e] = @ + 1]
  /\ UNCHANGED <<request, phase, why, read, shut, gone, outbox, eof, loop>>

ShutDown(e) ==
  /\ Open /\ ~shut[e] /\ ~gone[e]
  /\ shut' = [shut EXCEPT ![e] = TRUE]
  /\ UNCHANGED <<request, phase, why, written, read, gone, sockets, loop>>

Read(e) ==
  /\ ~gone[e] /\ outbox[e] > 0
  /\ read' = [read EXCEPT ![e] = @ + 1] /\ outbox' = [outbox EXCEPT ![e] = @ - 1]
  /\ UNCHANGED <<request, phase, why, written, shut, gone, inbox, eof, loop>>

Vanish(e) ==
  /\ Open /\ ~gone[e]
  /\ gone' = [gone EXCEPT ![e] = TRUE]
  /\ UNCHANGED <<request, phase, why, written, read, shut, sockets, loop>>

-----------------------------------------------------------------------------
\* relay.pump.

Readable(e) == inbox[e] > 0 \/ shut[e] \/ gone[e]

Select ==
  /\ phase = "select" /\ ready = {} /\ watched # {}
  /\ LET now == {e \in watched : Readable(e)} IN
       IF now # {} THEN ready' = now /\ UNCHANGED <<phase, why>>
       ELSE Close("idle") /\ UNCHANGED ready
  /\ UNCHANGED <<request, ends, sockets, watched, hand>>

Ended ==
  /\ phase = "select" /\ ready = {} /\ watched = {}
  /\ Close("ended") /\ UNCHANGED <<request, ends, sockets, loop>>

\* What was readable when select() returned still is: one recv() takes all of it.
Receive(e) ==
  /\ phase = "select" /\ e \in ready /\ ~gone[e] /\ inbox[e] > 0
  /\ phase' = "send" /\ hand' = [from |-> e, left |-> inbox[e]]
  /\ inbox' = [inbox EXCEPT ![e] = 0]
  /\ UNCHANGED <<request, why, ends, outbox, eof, watched, ready>>

Send ==
  /\ phase = "send" /\ LET to == Other(hand.from) IN
       /\ ~gone[to]
       /\ IF hand.left = 0
          THEN /\ phase' = "select" /\ hand' = None /\ ready' = ready \ {hand.from}
               /\ UNCHANGED outbox
          ELSE /\ outbox[to] < BUF
               /\ outbox' = [outbox EXCEPT ![to] = @ + 1]
               /\ hand' = [hand EXCEPT !.left = @ - 1]
               /\ UNCHANGED <<phase, ready>>
  /\ UNCHANGED <<request, why, ends, inbox, eof, watched>>

\* An end of stream is passed on, and the other direction goes on.
HalfClosedEnds(e) == Close("ended") /\ UNCHANGED <<watched, ready, eof>>
HalfClosed(e) ==
  /\ watched' = watched \ {e} /\ ready' = ready \ {e}
  /\ IF gone[Other(e)] THEN Close("error") /\ UNCHANGED eof
     ELSE eof' = [eof EXCEPT ![Other(e)] = TRUE] /\ UNCHANGED <<phase, why>>
EndOfStream(e) ==
  /\ phase = "select" /\ e \in ready /\ ~gone[e] /\ inbox[e] = 0
  /\ HalfClosed(e)
  /\ UNCHANGED <<request, ends, inbox, outbox, hand>>

\* A socket that was reset, on either call, and a receiver that does not take
\* its bytes for as long as the timeout: the pair is closed.
Broken ==
  /\ \/ phase = "select" /\ \E e \in ready : gone[e]
     \/ phase = "send" /\ gone[Other(hand.from)]
     \/ phase = "send" /\ hand.left > 0 /\ outbox[Other(hand.from)] = BUF
  /\ Close("error") /\ UNCHANGED <<request, ends, sockets, loop>>

Pump == Select \/ Ended \/ Send \/ Broken \/ \E e \in Ends : Receive(e) \/ EndOfStream(e)

Next ==
  \/ Ingress \/ Request \/ Dial
  \/ \E e \in Ends : Write(e) \/ ShutDown(e) \/ Read(e) \/ Vanish(e)
  \/ Pump

Spec == Init /\ [][Next]_vars

-----------------------------------------------------------------------------
\* Every variable keeps its shape.
TypeOK ==
  /\ phase \in {"accepted", "resolved", "select", "send", "closed"}
  /\ written \in [Ends -> 0..MaxPieces] /\ read \in [Ends -> 0..MaxPieces]
  /\ inbox \in [Ends -> 0..BUF] /\ outbox \in [Ends -> 0..BUF]
  /\ ready \subseteq watched /\ watched \subseteq Ends
  /\ phase = "send" => hand # None
  /\ dialled \in Addresses \cup {None}

\* An end that reads an end of stream has read all that the other wrote,
\* unless the relay was cut: a half-close, with the other direction still
\* flowing, costs no byte of either (relay.py:22-33).
SeesTheEnd(e) == outbox[e] = 0 /\ ~gone[e] /\ (eof[e] \/ phase = "closed")
WholeUnlessCut ==
  \A e \in Ends :
    SeesTheEnd(e) /\ why \notin {"idle", "error"} => read[e] = written[Other(e)]

\* Nothing is made up or passed on twice, whatever is cut.
NeverMore ==
  \A e \in Ends :
    read[e] + outbox[e] + inbox[Other(e)]
      + (IF hand # None /\ hand.from = Other(e) THEN hand.left ELSE 0) = written[Other(e)]

\* The machine that has a route out connects to an address it may dial, of a
\* name on the list, whatever the resolver answered (egress_proxy.py:156-201).
OnlyListed == dialled # None => asked \in Listed /\ dialled \in Routable

RelayHolds == WholeUnlessCut /\ NeverMore /\ OnlyListed
=============================================================================
