------------------------------- MODULE LiveProofs -------------------------------
(***************************************************************************)
(* Proofs about what reaches the pages while a net is on the air, for any  *)
(* users, nets, messages and limits.                                       *)
(***************************************************************************)
EXTENDS Live, TLAPS, FiniteSetTheorems, WellFoundedInduction, SequenceTheorems

-----------------------------------------------------------------------------
(* The pushes of a net's state, for any number of servers and pages, of changes and of failures. *)

Wires == [Browsers -> Seq(Version \cup {CLOSE})]
Pages == [Browsers -> Page]
Items == [Instances -> (SUBSET Browsers) \cup {None}]
Pushes == [Instances -> Push \cup {None}]

\* The change events and requests on their way are fewer than the changes made.
TypeInv ==
    /\ TypeOK
    /\ \A i \in Instances : events[i] < version /\ calls[i] < version

LEMMA Shapes ==
    TypeInv <=>
        /\ net \in {"open", "closing", "removed"} /\ version \in Version
        /\ cache \in [Instances -> Version \cup {None}]
        /\ items \in Items /\ pushes \in Pushes /\ page \in Pages /\ wire \in Wires
        /\ events \in [Instances -> 0 .. MaxVersion] /\ calls \in [Instances -> 0 .. MaxVersion]
        /\ stream \in [Instances -> {"first", "retrying", "second", "dead"}]
        /\ ended \in BOOLEAN /\ faults \in 0 .. MaxFaults
        /\ \A i \in Instances : events[i] < version /\ calls[i] < version
  BY DEF TypeInv, TypeOK, Items, Pushes, Pages, Wires

LEMMA ShapesNext ==
    TypeInv' <=>
        /\ net' \in {"open", "closing", "removed"} /\ version' \in Version
        /\ cache' \in [Instances -> Version \cup {None}]
        /\ items' \in Items /\ pushes' \in Pushes /\ page' \in Pages /\ wire' \in Wires
        /\ events' \in [Instances -> 0 .. MaxVersion] /\ calls' \in [Instances -> 0 .. MaxVersion]
        /\ stream' \in [Instances -> {"first", "retrying", "second", "dead"}]
        /\ ended' \in BOOLEAN /\ faults' \in 0 .. MaxFaults
        /\ \A i \in Instances : events'[i] < version' /\ calls'[i] < version'
  BY DEF TypeInv, TypeOK, Items, Pushes, Pages, Wires

LEMMA Connected == ASSUME TypeInv, NEW i \in Instances PROVE Members(i) \in SUBSET Browsers
<1>1. items \in [Instances -> (SUBSET Browsers) \cup {None}]
  BY DEF TypeInv, TypeOK
<1>2. items[i] \in (SUBSET Browsers) \cup {None}
  BY <1>1
<1>3. CASE items[i] = None
  BY <1>3 DEF Members
<1>4. CASE items[i] # None
  BY <1>2, <1>4 DEF Members
<1> QED
  BY <1>3, <1>4

\* What is sent comes after what was, and those who are sent to have it, or know it already.
LEMMA Sent ==
    ASSUME TypeInv, NEW to \in SUBSET Browsers, NEW message \in Version \cup {CLOSE}
    PROVE  /\ SendTo(to, message) \in Wires
           /\ \A b \in Browsers :
                 \/ SendTo(to, message)[b] = wire[b] /\ (b \in to => Newest(b) = message)
                 \/ SendTo(to, message)[b] = Append(wire[b], message)
<1>0. wire \in Wires
  BY Shapes
<1>1. \A b \in Browsers : wire[b] \in Seq(Version \cup {CLOSE})
  BY <1>0 DEF Wires
<1>2. \A b \in Browsers : Append(wire[b], message) \in Seq(Version \cup {CLOSE})
  BY <1>1
<1>3. \A b \in Browsers :
        SendTo(to, message)[b] = IF b \in to /\ Newest(b) # message THEN Append(wire[b], message) ELSE wire[b]
  BY DEF SendTo
<1>4. SendTo(to, message) \in Wires
  BY <1>1, <1>2 DEF SendTo, Wires
<1> QED
  BY <1>3, <1>4

-----------------------------------------------------------------------------
(* Types. *)

LEMMA TypeStart == Init => TypeInv
<1> SUFFICES ASSUME Init PROVE TypeInv
  OBVIOUS
<1>1. version \in Version /\ 0 \in 0 .. MaxVersion /\ faults \in 0 .. MaxFaults
  BY BoundsAssumption DEF BoundsAssumption, Init, Version
<1>2. page \in Pages
  <2>1. PICK place \in [Browsers -> Instances] : page = [b \in Browsers |-> NewPage(place[b])]
    BY DEF Init
  <2> QED
    BY <2>1 DEF Pages, Page, NewPage
<1>3. /\ cache \in [Instances -> Version \cup {None}] /\ items \in Items /\ pushes \in Pushes
      /\ stream \in [Instances -> {"first", "retrying", "second", "dead"}]
  BY DEF Init, Items, Pushes
<1>4. wire \in Wires
  BY DEF Init, Wires
<1>5. /\ events \in [Instances -> 0 .. MaxVersion] /\ calls \in [Instances -> 0 .. MaxVersion]
      /\ \A i \in Instances : events[i] < version /\ calls[i] < version
  BY <1>1 DEF Init
<1>6. net = "open" /\ ended = FALSE
  BY DEF Init
<1> QED
  BY <1>1, <1>2, <1>3, <1>4, <1>5, <1>6, Shapes

\* A push that is begun or joined.
LEMMA Started ==
    ASSUME TypeInv, NEW i \in Instances, NEW permit \in BOOLEAN, StartPush(i, permit)
    PROVE  pushes' \in Pushes
<1>1. pushes \in Pushes /\ version \in Version
  BY Shapes
<1>2. NewPush(permit) \in Push
  BY <1>1 DEF NewPush, Push
<1>3. pushes[i] # None => Joined(pushes[i], permit) \in Push
  BY <1>1 DEF Joined, Push, Pushes
<1> QED
  BY <1>1, <1>2, <1>3 DEF StartPush, Pushes

LEMMA Rounds ==
    ASSUME NEW p \in Push
    PROVE  NextRound(p) \in Push \cup {None}
  BY DEF NextRound, Push

LEMMA ReleasedTyped ==
    ASSUME TypeInv, NEW i \in Instances
    PROVE  /\ [pushes EXCEPT ![i] = Released(i)] \in Pushes
           /\ [items EXCEPT ![i] = None] \in Items
<1>1. pushes \in Pushes /\ items \in Items
  BY Shapes
<1>2. Released(i) \in Push \cup {None}
  BY <1>1 DEF Released, Push, Pushes
<1> QED
  BY <1>1, <1>2 DEF Pushes, Items

LEMMA CloseTyped ==
    ASSUME TypeInv, NEW i \in Instances, CloseItem(i)
    PROVE  wire' \in Wires /\ items' \in Items
  BY Connected, Sent, ReleasedTyped DEF CloseItem

\* Changes and calls of push.
LEMMA ChangeTyped ==
    ASSUME TypeInv,
           \/ InteractionChange \/ Remove \/ Reopen
           \/ \E i \in Instances :
                 \/ RoomChange(i) \/ Close(i) \/ Announced(i) \/ Tick(i)
                 \/ \E permit \in Permits : Requested(i, permit)
    PROVE  TypeInv'
<1> USE BoundsAssumption DEF BoundsAssumption, Version
<1>1. CASE InteractionChange
  BY <1>1, Shapes, ShapesNext DEF InteractionChange
<1>2. CASE Remove
  BY <1>2, Shapes, ShapesNext DEF Remove
<1>3. CASE Reopen
  BY <1>3, Shapes, ShapesNext DEF Reopen
<1>4. ASSUME NEW i \in Instances, RoomChange(i) PROVE TypeInv'
  BY <1>4, Shapes, ShapesNext DEF RoomChange
<1>5. ASSUME NEW i \in Instances, Close(i) PROVE TypeInv'
  BY <1>5, Shapes, ShapesNext, CloseTyped, ReleasedTyped DEF Close
<1>6. ASSUME NEW i \in Instances, Announced(i) PROVE TypeInv'
  <2>1. pushes' \in Pushes
    BY <1>6, Started DEF Announced
  <2> QED
    BY <1>6, <2>1, Shapes, ShapesNext DEF Announced
<1>7. ASSUME NEW i \in Instances, Tick(i) PROVE TypeInv'
  <2>1. pushes' \in Pushes
    BY <1>7, Started DEF Tick
  <2> QED
    BY <1>7, <2>1, Shapes, ShapesNext DEF Tick
<1>8. ASSUME NEW i \in Instances, NEW permit \in Permits, Requested(i, permit) PROVE TypeInv'
  <2>1. pushes' \in Pushes
    BY <1>8, Started, PermitsAssumption DEF Requested, PermitsAssumption
  <2> QED
    BY <1>8, <2>1, Shapes, ShapesNext DEF Requested
<1> QED
  BY <1>1, <1>2, <1>3, <1>4, <1>5, <1>6, <1>7, <1>8

\* The rounds of a push.
LEMMA RoundTyped ==
    ASSUME TypeInv, NEW i \in Instances,
           BeginRound(i) \/ Generate(i) \/ GenerateFails(i) \/ Send(i) \/ SendClose(i) \/ CacheExpires(i)
    PROVE  TypeInv'
<1>0. pushes \in Pushes /\ version \in Version /\ cache \in [Instances -> Version \cup {None}]
  BY Shapes
<1>p. pushes[i] # None => pushes[i] \in Push
  BY <1>0 DEF Pushes
<1>1. CASE BeginRound(i)
  <2> DEFINE begun == [pushes[i] EXCEPT !.permit = pushes[i].nextPermit,
                                        !.rerun = FALSE, !.nextPermit = TRUE,
                                        !.wanted = pushes[i].called, !.called = NONE]
             next == IF items[i] = None THEN NextRound(begun) ELSE [begun EXCEPT !.phase = "reading", !.captured = TRUE]
  <2>1. pushes[i] \in Push
    BY <1>1, <1>p DEF BeginRound, Pushing
  <2>2. begun \in Push
    BY <2>1 DEF Push
  <2>3. next \in Push \cup {None}
    <3>1. [begun EXCEPT !.phase = "reading", !.captured = TRUE] \in Push
      <4> HIDE DEF begun
      <4> QED
        BY <2>2 DEF Push
    <3> HIDE DEF begun
    <3> QED
      BY <2>2, <3>1, Rounds
  <2>4. pushes' = [pushes EXCEPT ![i] = next]
    BY <1>1 DEF BeginRound
  <2> HIDE DEF next
  <2>5. pushes' \in Pushes
    BY <1>0, <2>3, <2>4 DEF Pushes
  <2> QED
    BY <1>1, <2>5, Shapes, ShapesNext DEF BeginRound
<1>2. CASE Generate(i)
  <2>1. pushes[i] \in Push
    BY <1>2, <1>p DEF Generate, Pushing
  <2>2. PICK answer \in Version \cup {NOTFOUND} : pushes' = [pushes EXCEPT ![i].phase = "answered", ![i].answer = answer]
    BY <1>0, <1>2 DEF Generate
  <2>3. pushes' \in Pushes
    BY <1>0, <2>1, <2>2 DEF Pushes, Push
  <2>4. cache' \in [Instances -> Version \cup {None}]
    BY <1>0, <1>2 DEF Generate
  <2> QED
    BY <1>2, <2>3, <2>4, Shapes, ShapesNext DEF Generate
<1>a. ASSUME pushes' = [pushes EXCEPT ![i] = NextRound(@)], pushes[i] # None PROVE pushes' \in Pushes
  BY <1>0, <1>p, <1>a, Rounds DEF Pushes
<1>3. CASE GenerateFails(i)
  <2>1. pushes' \in Pushes /\ faults' \in 0 .. MaxFaults
    BY <1>3, <1>a, Shapes, BoundsAssumption DEF GenerateFails, Pushing, Fault, BoundsAssumption
  <2> QED
    BY <1>3, <2>1, Shapes, ShapesNext DEF GenerateFails
<1>4. CASE Send(i)
  <2>1. pushes' \in Pushes
    BY <1>4, <1>a DEF Send, Pushing
  <2>2. wire' \in Wires
    <3>1. pushes[i].answer \in Version \cup {CLOSE}
      BY <1>4, <1>p DEF Send, Pushing, Push, CLOSE, NOTFOUND
    <3>2. (IF pushes[i].captured THEN Members(i) ELSE {}) \in SUBSET Browsers
      BY Connected
    <3> QED
      BY <1>4, <3>1, <3>2, Sent DEF Send
  <2> QED
    BY <1>4, <2>1, <2>2, Shapes, ShapesNext DEF Send
<1>5. CASE SendClose(i)
  <2>1. pushes' \in Pushes
    BY <1>5, <1>a DEF SendClose, Pushing
  <2> QED
    BY <1>5, <2>1, CloseTyped, Shapes, ShapesNext DEF SendClose
<1>6. CASE CacheExpires(i)
  BY <1>6, Shapes, ShapesNext DEF CacheExpires
<1> QED
  BY <1>1, <1>2, <1>3, <1>4, <1>5, <1>6

\* Streams and processes that fail.
LEMMA FaultTyped ==
    ASSUME TypeInv, NEW i \in Instances, StreamFails(i) \/ StreamRetried(i) \/ Shutdown(i) \/ Crash(i)
    PROVE  TypeInv'
<1>0. ASSUME Fault PROVE faults' \in 0 .. MaxFaults
  BY <1>0, Shapes, BoundsAssumption DEF Fault, BoundsAssumption
<1>1. CASE StreamFails(i)
  <2>0. version \in Nat \ {0} /\ MaxVersion \in Nat
    BY Shapes, BoundsAssumption DEF BoundsAssumption, Version
  <2>1. events' \in [Instances -> 0 .. MaxVersion] /\ \A j \in Instances : events'[j] < version
    BY <1>1, <2>0, Shapes DEF StreamFails
  <2>2. stream' \in [Instances -> {"first", "retrying", "second", "dead"}]
    BY <1>1, Shapes DEF StreamFails
  <2>3. faults' \in 0 .. MaxFaults
    BY <1>0, <1>1 DEF StreamFails
  <2> QED
    BY <1>1, <2>1, <2>2, <2>3, Shapes, ShapesNext DEF StreamFails
<1>2. CASE StreamRetried(i)
  BY <1>2, Shapes, ShapesNext DEF StreamRetried
<1>r. ASSUME Restart(i), page' \in Pages, wire' \in Wires, ended' \in BOOLEAN PROVE TypeInv'
  <2>1. faults' \in 0 .. MaxFaults /\ version \in Version
    BY <1>0, <1>r, Shapes DEF Restart
  <2>2. /\ cache' \in [Instances -> Version \cup {None}] /\ items' \in Items /\ pushes' \in Pushes
        /\ stream' \in [Instances -> {"first", "retrying", "second", "dead"}]
    BY <1>r, Shapes DEF Restart, Items, Pushes
  <2>3. /\ events' \in [Instances -> 0 .. MaxVersion] /\ calls' \in [Instances -> 0 .. MaxVersion]
        /\ \A j \in Instances : events'[j] < version' /\ calls'[j] < version'
    BY <1>r, <2>1, Shapes, BoundsAssumption DEF Restart, BoundsAssumption, Version
  <2> QED
    BY <1>r, <2>1, <2>2, <2>3, Shapes, ShapesNext DEF Restart
<1>3. CASE Shutdown(i)
  BY <1>3, <1>r, Sent, Connected, Shapes DEF Shutdown
<1>4. CASE Crash(i)
  <2>1. page' \in Pages
    <3>1. \A b \in Browsers : page[b] \in Page /\ Lost(page[b]) \in Page
      BY Shapes DEF Pages, Page, Lost
    <3> QED
      BY <1>4, <3>1 DEF Crash, Pages
  <2>2. wire' \in Wires
    BY <1>4, Shapes DEF Crash, Wires
  <2> QED
    BY <1>4, <1>r, <2>1, <2>2, Shapes DEF Crash
<1> QED
  BY <1>1, <1>2, <1>3, <1>4

\* The pages.
LEMMA WithoutTyped ==
    ASSUME NEW its \in Items, NEW b \in Browsers
    PROVE  Without(b, its) \in Items
<1>1. \A i \in Instances : (IF its[i] = None THEN None ELSE its[i] \ {b}) \in (SUBSET Browsers) \cup {None}
  BY DEF Items
<1> QED
  BY <1>1 DEF Without, Items

LEMMA PollTyped ==
    ASSUME TypeInv, NEW b \in Browsers,
           PollAnswered(b) \/ PollFails(b) \/ Refused(b) \/ (\E i \in Instances : PollRead(b, i))
    PROVE  TypeInv'
<1>0. page \in Pages /\ page[b] \in Page /\ version \in Version /\ cache \in [Instances -> Version \cup {None}]
  BY Shapes DEF Pages
<1>f. ASSUME Fault PROVE faults' \in 0 .. MaxFaults
  BY <1>f, Shapes, BoundsAssumption DEF Fault, BoundsAssumption
<1>1. CASE PollAnswered(b)
  <2>1. page' \in Pages
    BY <1>0, <1>1 DEF PollAnswered, Pages, Page
  <2> QED
    BY <1>1, <2>1, Shapes, ShapesNext DEF PollAnswered
<1>2. CASE PollFails(b)
  <2>1. page' \in Pages
    BY <1>0, <1>2 DEF PollFails, Pages, Page
  <2> QED
    BY <1>2, <1>f, <2>1, Shapes, ShapesNext DEF PollFails
<1>3. CASE Refused(b)
  <2>1. page' \in Pages
    BY <1>0, <1>3 DEF Refused, Pages, Page
  <2> QED
    BY <1>3, <1>f, <2>1, Shapes, ShapesNext DEF Refused
<1>4. ASSUME NEW i \in Instances, PollRead(b, i) PROVE TypeInv'
  <2>1. page' \in Pages
    <3>1. page' = [page EXCEPT ![b].asked = version] \/ page' = [page EXCEPT ![b].online = FALSE]
      BY <1>4 DEF PollRead
    <3>2. [page EXCEPT ![b].asked = version] \in Pages
      BY <1>0 DEF Pages, Page
    <3>3. [page EXCEPT ![b].online = FALSE] \in Pages
      BY <1>0 DEF Pages, Page
    <3> QED
      BY <3>1, <3>2, <3>3
  <2>2. CASE net = "open"
    <3>1. cache' \in [Instances -> Version \cup {None}]
      BY <1>0, <1>4, <2>2 DEF PollRead
    <3> QED
      BY <1>4, <2>1, <2>2, <3>1, Shapes, ShapesNext DEF PollRead
  <2>3. CASE net # "open"
    BY <1>4, <2>1, <2>3, CloseTyped, ReleasedTyped, Shapes, ShapesNext DEF PollRead
  <2> QED
    BY <2>2, <2>3
<1> QED
  BY <1>1, <1>2, <1>3, <1>4

LEMMA ConnectionTyped ==
    ASSUME TypeInv, NEW b \in Browsers,
           Disconnect(b) \/ Receive(b) \/ (\E i \in Instances : Connect(b, i) \/ Presence(b, i))
    PROVE  TypeInv'
<1>0. page \in Pages /\ page[b] \in Page /\ items \in Items /\ wire \in Wires
  BY Shapes DEF Pages
<1>f. ASSUME Fault PROVE faults' \in 0 .. MaxFaults
  BY <1>f, Shapes, BoundsAssumption DEF Fault, BoundsAssumption
<1>h. ASSUME GoHome(b) PROVE page' \in Pages
  BY <1>0, <1>h DEF GoHome, Pages, Page
<1>e. \A w \in Wires : [w EXCEPT ![b] = <<>>] \in Wires
  BY DEF Wires
<1>1. CASE Disconnect(b)
  <2>1. page' \in Pages
    BY <1>0, <1>1 DEF Disconnect, Lost, Pages, Page
  <2> QED
    BY <1>0, <1>1, <1>e, <1>f, <2>1, WithoutTyped, Shapes, ShapesNext DEF Disconnect
<1>2. CASE Receive(b)
  <2>1. CASE Head(wire[b]) = CLOSE
    BY <1>0, <1>2, <1>e, <1>h, <2>1, WithoutTyped, Shapes, ShapesNext DEF Receive
  <2>2. CASE Head(wire[b]) # CLOSE
    <3>1. wire[b] \in Seq(Version \cup {CLOSE}) /\ wire[b] # <<>>
      BY <1>0, <1>2 DEF Receive, Wires
    <3>2. Head(wire[b]) \in Version /\ Tail(wire[b]) \in Seq(Version \cup {CLOSE})
      BY <2>2, <3>1
    <3>3. page' = [page EXCEPT ![b].shown = Head(wire[b])] /\ wire' = [wire EXCEPT ![b] = Tail(wire[b])]
      BY <1>2, <2>2 DEF Receive
    <3>4. page' \in Pages
      BY <1>0, <3>2, <3>3 DEF Pages, Page
    <3>5. wire' \in Wires
      BY <1>0, <3>2, <3>3 DEF Wires
    <3> QED
      BY <1>2, <2>2, <3>4, <3>5, Shapes, ShapesNext DEF Receive
  <2> QED
    BY <2>1, <2>2
<1>3. ASSUME NEW i \in Instances, Connect(b, i) PROVE TypeInv'
  <2>1. items' \in Items
    BY <1>0, <1>3, Connected DEF Connect, Items
  <2>2. page' \in Pages
    BY <1>0, <1>3 DEF Connect, Pages, Page
  <2> QED
    BY <1>3, <2>1, <2>2, Shapes, ShapesNext DEF Connect
<1>4. ASSUME NEW i \in Instances, Presence(b, i) PROVE TypeInv'
  <2>1. items' \in Items
    BY <1>4, ReleasedTyped, WithoutTyped DEF Presence
  <2>2. wire' \in Wires
    BY <1>4, <1>e, Sent, Connected DEF Presence
  <2> QED
    BY <1>4, <1>h, <2>1, <2>2, ReleasedTyped, Shapes, ShapesNext DEF Presence
<1> QED
  BY <1>1, <1>2, <1>3, <1>4

LEMMA TypeKept == TypeInv /\ [Next]_vars => TypeInv'
<1>1. TypeInv /\ UNCHANGED vars => TypeInv'
  BY Shapes, ShapesNext DEF vars
<1> QED
  BY <1>1, ChangeTyped, RoundTyped, FaultTyped, PollTyped, ConnectionTyped DEF Next

\* Every reachable state is well typed.
THEOREM TypeCorrect == Spec => []TypeOK
<1>1. TypeInv => TypeOK
  BY DEF TypeInv
<1> QED
  BY TypeStart, TypeKept, <1>1, PTL DEF Spec

-----------------------------------------------------------------------------
(* Open pages are served, or told. *)

Told(w) == \E k \in 1 .. Len(w) : w[k] = CLOSE
ServedOrTold(b) == page[b].mode = "open" => b \in Members(page[b].at) \/ Told(wire[b])

LEMMA Restated == OpenServedOrTold <=> \A b \in Browsers : ServedOrTold(b)
  BY DEF OpenServedOrTold, ServedOrTold, Told

LEMMA RestatedNext == OpenServedOrTold' <=> \A b \in Browsers : ServedOrTold(b)'
  BY DEF OpenServedOrTold, ServedOrTold, Told

LEMMA ToldLasts ==
    ASSUME NEW w \in Seq(Version \cup {CLOSE}), Told(w)
    PROVE  /\ \A message \in Version \cup {CLOSE} : Told(Append(w, message))
           /\ w # <<>> /\ Head(w) # CLOSE => Told(Tail(w))
<1>1. PICK k \in 1 .. Len(w) : w[k] = CLOSE
  BY DEF Told
<1>2. ASSUME NEW message \in Version \cup {CLOSE} PROVE Told(Append(w, message))
  <2>1. k \in 1 .. Len(Append(w, message)) /\ Append(w, message)[k] = CLOSE
    BY <1>1
  <2> QED
    BY <2>1 DEF Told
<1>3. ASSUME w # <<>>, Head(w) # CLOSE PROVE Told(Tail(w))
  <2>1. k # 1
    BY <1>1, <1>3
  <2>2. k - 1 \in 1 .. Len(Tail(w)) /\ Tail(w)[k - 1] = CLOSE
    BY <1>1, <1>3, <2>1
  <2> QED
    BY <2>2 DEF Told
<1> QED
  BY <1>2, <1>3

LEMMA WireShape == ASSUME TypeInv, NEW b \in Browsers PROVE wire[b] \in Seq(Version \cup {CLOSE}) /\ page[b] \in Page
  BY Shapes DEF Wires, Pages

\* Nobody is untold by what is sent; who is told, is told.
LEMMA SentStays ==
    ASSUME TypeInv, NEW to \in SUBSET Browsers, NEW message \in Version \cup {CLOSE}, NEW b \in Browsers
    PROVE  /\ Told(wire[b]) => Told(SendTo(to, message)[b])
           /\ b \in to /\ message = CLOSE => Told(SendTo(to, message)[b])
<1>1. wire[b] \in Seq(Version \cup {CLOSE})
  BY WireShape
<1>2. Told(wire[b]) => Told(SendTo(to, message)[b])
  BY <1>1, Sent, ToldLasts
<1>3. ASSUME b \in to, message = CLOSE PROVE Told(SendTo(to, message)[b])
  <2>1. CASE SendTo(to, message)[b] = Append(wire[b], CLOSE)
    <3>1. Len(wire[b]) + 1 \in 1 .. Len(Append(wire[b], CLOSE)) /\ Append(wire[b], CLOSE)[Len(wire[b]) + 1] = CLOSE
      BY <1>1
    <3> QED
      BY <2>1, <3>1 DEF Told
  <2>2. CASE SendTo(to, message)[b] = wire[b] /\ Newest(b) = CLOSE
    <3>1. wire[b] # <<>>
      <4>1. page[b].shown # CLOSE
        BY WireShape, NoneAssumption DEF Page, Version, CLOSE, NoneAssumption
      <4> QED
        BY <2>2, <4>1 DEF Newest
    <3>2. Len(wire[b]) \in 1 .. Len(wire[b]) /\ wire[b][Len(wire[b])] = CLOSE
      BY <1>1, <2>2, <3>1 DEF Newest
    <3> QED
      BY <2>2, <3>2 DEF Told
  <2> QED
    BY <1>3, <2>1, <2>2, Sent
<1> QED
  BY <1>2, <1>3

\* Of a net whose streams are closed, and of one that is sent to.
LEMMA ClosedIsTold ==
    ASSUME TypeInv, NEW i \in Instances, NEW b \in Browsers, ServedOrTold(b),
           items' = [items EXCEPT ![i] = None], wire'[b] = SendTo(Members(i), CLOSE)[b],
           page'[b].mode = "open" => page[b].mode = "open" /\ page'[b].at = page[b].at
    PROVE  ServedOrTold(b)'
<1> SUFFICES ASSUME page'[b].mode = "open" PROVE b \in Members(page[b].at)' \/ Told(wire'[b])
  BY DEF ServedOrTold
<1>1. CASE b \in Members(i) \/ Told(wire[b])
  BY <1>1, SentStays, Connected
<1>2. CASE page[b].at # i /\ b \in Members(page[b].at)
  BY <1>2, WireShape, Shapes DEF Page, Members, Items
<1> QED
  BY <1>1, <1>2 DEF ServedOrTold

\* A page that goes takes its place with it, nobody else's.
LEMMA OthersKeepTheirPlace ==
    ASSUME NEW its \in Items, NEW b \in Browsers, NEW c \in Browsers, b # c, NEW i \in Instances,
           its[i] # None, c \in its[i]
    PROVE  Without(b, its)[i] # None /\ c \in Without(b, its)[i]
<1>1. Without(b, its)[i] = its[i] \ {b}
  BY DEF Without
<1>2. its[i] \ {b} \in SUBSET Browsers
  BY DEF Items
<1> QED
  BY <1>1, <1>2, NoneAssumption DEF NoneAssumption

LEMMA ServedKept == TypeInv /\ OpenServedOrTold /\ [Next]_vars => OpenServedOrTold'
<1> SUFFICES ASSUME TypeInv, OpenServedOrTold, [Next]_vars, NEW b \in Browsers PROVE ServedOrTold(b)'
  BY RestatedNext
<1>0. ServedOrTold(b)
  BY Restated
<1>p. page \in Pages /\ items \in Items /\ page[b] \in Page /\ wire[b] \in Seq(Version \cup {CLOSE})
  BY Shapes, WireShape
<1>s. ASSUME UNCHANGED <<page, items, wire>> PROVE ServedOrTold(b)'
  BY <1>0, <1>s DEF ServedOrTold, Members
<1>1. CASE InteractionChange \/ Remove \/ Reopen \/ UNCHANGED vars
  BY <1>1, <1>s DEF InteractionChange, Remove, Reopen, vars
<1>2. ASSUME NEW i \in Instances,
             \/ RoomChange(i) \/ Announced(i) \/ Tick(i) \/ \E permit \in Permits : Requested(i, permit)
             \/ BeginRound(i) \/ Generate(i) \/ GenerateFails(i) \/ CacheExpires(i) \/ StreamFails(i) \/ StreamRetried(i)
      PROVE  ServedOrTold(b)'
  BY <1>2, <1>s DEF RoomChange, Announced, Tick, Requested, BeginRound, Generate, GenerateFails, CacheExpires,
     StreamFails, StreamRetried
<1>3. ASSUME NEW i \in Instances, Close(i) \/ SendClose(i) PROVE ServedOrTold(b)'
  BY <1>0, <1>3, ClosedIsTold DEF Close, SendClose, CloseItem
<1>4. ASSUME NEW i \in Instances, Send(i) PROVE ServedOrTold(b)'
  <2>1. Told(wire[b]) => Told(wire'[b])
    <3>1. pushes[i].answer \in Version \cup {CLOSE} /\ (IF pushes[i].captured THEN Members(i) ELSE {}) \in SUBSET Browsers
      BY <1>4, Shapes, Connected DEF Send, Pushing, Pushes, Push, CLOSE, NOTFOUND
    <3> QED
      BY <1>4, <3>1, SentStays DEF Send
  <2> QED
    BY <1>0, <1>4, <2>1 DEF Send, ServedOrTold, Members
<1>5. ASSUME NEW i \in Instances, Shutdown(i) PROVE ServedOrTold(b)'
  BY <1>0, <1>5, ClosedIsTold DEF Shutdown, Restart
<1>6. ASSUME NEW i \in Instances, Crash(i) PROVE ServedOrTold(b)'
  <2>1. CASE page[b].mode = "open" /\ page[b].at = i
    <3>1. page'[b] = Lost(page[b])
      BY <1>6, <2>1 DEF Crash
    <3>2. page'[b].mode = "connecting"
      BY <1>p, <3>1 DEF Lost, Page
    <3> QED
      BY <3>2 DEF ServedOrTold
  <2>2. CASE ~(page[b].mode = "open" /\ page[b].at = i)
    <3>1. page'[b] = page[b] /\ wire'[b] = wire[b] /\ items' = [items EXCEPT ![i] = None]
      BY <1>6, <2>2 DEF Crash, Restart
    <3> QED
      BY <1>0, <1>p, <2>2, <3>1 DEF ServedOrTold, Members, Items, Page
  <2> QED
    BY <2>1, <2>2
<1>7. ASSUME NEW c \in Browsers, NEW i \in Instances, PollRead(c, i) PROVE ServedOrTold(b)'
  <2>1. page'[b].mode = page[b].mode /\ page'[b].at = page[b].at
    <3>1. page' = [page EXCEPT ![c].asked = version] \/ page' = [page EXCEPT ![c].online = FALSE]
      BY <1>7 DEF PollRead
    <3> QED
      BY <1>p, <3>1 DEF Pages, Page
  <2>2. CASE net = "open"
    BY <1>0, <1>7, <2>1, <2>2 DEF PollRead, ServedOrTold, Members
  <2>3. CASE net # "open"
    BY <1>0, <1>7, <2>1, <2>3, ClosedIsTold DEF PollRead, CloseItem
  <2> QED
    BY <2>2, <2>3
<1>8. ASSUME NEW c \in Browsers, PollAnswered(c) \/ PollFails(c) \/ Refused(c) PROVE ServedOrTold(b)'
  <2>1. page'[b].mode = "open" => page'[b].mode = page[b].mode /\ page'[b].at = page[b].at
    <3>1. CASE PollAnswered(c)
      BY <1>p, <3>1 DEF PollAnswered, Pages, Page
    <3>2. CASE PollFails(c)
      BY <1>p, <3>2 DEF PollFails, Pages, Page
    <3>3. CASE Refused(c)
      BY <1>p, <3>3 DEF Refused, Pages, Page
    <3> QED
      BY <1>8, <3>1, <3>2, <3>3
  <2> QED
    BY <1>0, <1>8, <2>1 DEF PollAnswered, PollFails, Refused, ServedOrTold, Members
<1>g. ASSUME NEW c \in Browsers, page'[c].mode # "open", \A d \in Browsers \ {c} : page'[d] = page[d],
             items' = Without(c, items), wire' = [wire EXCEPT ![c] = <<>>]
      PROVE  ServedOrTold(b)'
  <2>1. CASE b = c
    BY <1>g, <2>1 DEF ServedOrTold
  <2>2. CASE b # c
    <3>1. page'[b] = page[b] /\ wire'[b] = wire[b]
      BY <1>g, <1>p, <2>2, Shapes DEF Wires
    <3>2. ASSUME page[b].mode = "open", b \in Members(page[b].at) PROVE b \in Members(page[b].at)'
      BY <1>g, <1>p, <2>2, <3>2, OthersKeepTheirPlace DEF Members, Page
    <3> QED
      BY <1>0, <3>1, <3>2 DEF ServedOrTold
  <2> QED
    BY <2>1, <2>2
<1>9. ASSUME NEW c \in Browsers, Disconnect(c) PROVE ServedOrTold(b)'
  BY <1>9, <1>g, <1>p DEF Disconnect, Lost, Pages, Page
<1>10. ASSUME NEW c \in Browsers, Receive(c) PROVE ServedOrTold(b)'
  <2>1. CASE Head(wire[c]) = CLOSE
    BY <1>10, <1>g, <1>p, <2>1 DEF Receive, GoHome, Pages, Page
  <2>2. CASE Head(wire[c]) # CLOSE
    <3>1. page'[b].mode = page[b].mode /\ page'[b].at = page[b].at
      BY <1>10, <1>p, <2>2 DEF Receive, Pages, Page
    <3>2. Told(wire[b]) => Told(wire'[b])
      <4>1. wire'[b] = IF b = c THEN Tail(wire[b]) ELSE wire[b]
        BY <1>10, <2>2, Shapes DEF Receive, Wires
      <4> QED
        BY <1>10, <1>p, <2>2, <4>1, ToldLasts DEF Receive
    <3> QED
      BY <1>0, <1>10, <2>2, <3>1, <3>2 DEF Receive, ServedOrTold, Members
  <2> QED
    BY <2>1, <2>2
<1>11. ASSUME NEW c \in Browsers, NEW i \in Instances, Connect(c, i) PROVE ServedOrTold(b)'
  <2>1. items'[i] = Members(i) \cup {c} /\ items'[i] # None
    BY <1>11, <1>p, Connected, NoneAssumption DEF Connect, Items, NoneAssumption
  <2>2. \A j \in Instances : Members(j) \subseteq Members(j)'
    BY <1>11, <1>p, <2>1 DEF Connect, Members, Items
  <2>3. CASE b = c
    BY <1>11, <1>p, <2>1, <2>3 DEF Connect, ServedOrTold, Members, Pages, Page
  <2>4. CASE b # c
    BY <1>0, <1>11, <1>p, <2>2, <2>4 DEF Connect, ServedOrTold, Pages, Page
  <2> QED
    BY <2>3, <2>4
<1>12. ASSUME NEW c \in Browsers, NEW i \in Instances, Presence(c, i) PROVE ServedOrTold(b)'
  <2> DEFINE its == [items EXCEPT ![i] = None]
  <2>1. its \in Items /\ items' = Without(c, its)
    BY <1>12, ReleasedTyped DEF Presence
  <2>2. CASE b = c
    BY <1>12, <1>p, <2>2 DEF Presence, GoHome, ServedOrTold, Pages, Page
  <2>3. CASE b # c
    <3>1. page'[b] = page[b] /\ wire'[b] = SendTo(Members(i), CLOSE)[b]
      BY <1>12, <1>p, <2>3, Sent, Connected DEF Presence, GoHome, Pages, Wires
    <3>2. SUFFICES ASSUME page[b].mode = "open" PROVE b \in Members(page[b].at)' \/ Told(wire'[b])
      BY <3>1 DEF ServedOrTold
    <3>3. CASE b \in Members(i) \/ Told(wire[b])
      BY <3>1, <3>3, SentStays, Connected
    <3>4. CASE page[b].at # i /\ b \in Members(page[b].at)
      <4>1. page[b].at \in Instances /\ its[page[b].at] = items[page[b].at]
        BY <1>p, <3>4 DEF Page, Items
      <4>2. its[page[b].at] # None /\ b \in its[page[b].at]
        BY <3>4, <4>1 DEF Members
      <4> HIDE DEF its
      <4>3. items'[page[b].at] # None /\ b \in items'[page[b].at]
        BY <2>1, <2>3, <4>1, <4>2, OthersKeepTheirPlace
      <4> QED
        BY <3>1, <4>3 DEF Members
    <3> QED
      BY <1>0, <3>2, <3>3, <3>4 DEF ServedOrTold
  <2> QED
    BY <2>2, <2>3
<1> QED
  BY <1>1, <1>2, <1>3, <1>4, <1>5, <1>6, <1>7, <1>8, <1>9, <1>10, <1>11, <1>12 DEF Next

\* A page with an open stream is one the server still sends to or one it has told that the net is closing, through
\* closing, reopening, lost connections and servers that end or die (RealtimeClients.close, shutdown).
THEOREM NobodyForgotten == Spec => []OpenServedOrTold
<1>1. Init => OpenServedOrTold
  BY DEF Init, OpenServedOrTold, NewPage
<1> QED
  BY TypeStart, TypeKept, ServedKept, <1>1, PTL DEF Spec

-----------------------------------------------------------------------------
(* A push covers the calls it is for. *)

\* What a push knows: the calls that wait for another round, and those its round is for.
Covers(p) ==
    /\ p.called <= version /\ p.wanted <= version
    /\ p.nextPermit => p.called = NONE
    /\ p.phase # "queued" /\ p.permit => p.wanted = NONE
    /\ p.phase # "queued" /\ ~p.rerun => p.called = NONE
    /\ p.phase = "answered" /\ p.answer # NOTFOUND => p.answer >= p.wanted

PushInv == \A i \in Instances : pushes[i] # None => Covers(pushes[i])

LEMMA PushShape ==
    ASSUME TypeInv, NEW i \in Instances, pushes[i] # None
    PROVE  pushes[i] \in Push /\ version \in Version
  BY Shapes DEF Pushes

\* Only one push is changed by a step, unless the net is; None is no push.
LEMMA OnePush ==
    ASSUME TypeInv, PushInv, NEW i \in Instances, version' = version, NEW p,
           pushes' = [pushes EXCEPT ![i] = p], p # None => Covers(p)
    PROVE  PushInv'
<1>1. \A j \in Instances : pushes'[j] = IF j = i THEN p ELSE pushes[j]
  BY Shapes DEF Pushes
<1> QED
  BY <1>1 DEF PushInv, Covers

LEMMA RoundCovers ==
    ASSUME NEW p \in Push, Covers(p)
    PROVE  NextRound(p) # None => Covers(NextRound(p))
  BY DEF NextRound, Covers, Push

LEMMA StartCovers ==
    ASSUME TypeInv, PushInv, NEW i \in Instances, NEW permit \in BOOLEAN, StartPush(i, permit), version' = version
    PROVE  PushInv'
<1>1. CASE pushes[i] = None
  <2>1. Covers(NewPush(permit))
    <3>1. version \in Nat
      BY Shapes DEF Version
    <3> QED
      BY <3>1 DEF Covers, NewPush, NONE
  <2> QED
    BY <1>1, <2>1, OnePush DEF StartPush
<1>2. CASE pushes[i] # None
  <2>1. pushes[i] \in Push /\ Covers(pushes[i]) /\ version \in Nat
    BY <1>2, PushShape DEF PushInv, Version
  <2>2. Covers(Joined(pushes[i], permit))
    BY <2>1 DEF Covers, Joined, Push
  <2> QED
    BY <1>2, <2>2, OnePush DEF StartPush
<1> QED
  BY <1>1, <1>2

LEMMA ReleaseCovers ==
    ASSUME TypeInv, PushInv, NEW i \in Instances, version' = version, pushes' = [pushes EXCEPT ![i] = Released(i)]
    PROVE  PushInv'
<1>1. ASSUME pushes[i] # None PROVE Covers(Released(i))
  <2>1. pushes[i] \in Push /\ Covers(pushes[i])
    BY <1>1, PushShape DEF PushInv
  <2> QED
    BY <1>1, <2>1 DEF Released, Covers, Push
<1>2. pushes[i] = None => Released(i) = None
  BY DEF Released
<1> QED
  BY <1>1, <1>2, OnePush

LEMMA BeginCovers ==
    ASSUME TypeInv, PushInv, NEW i \in Instances, BeginRound(i)
    PROVE  PushInv'
<1> DEFINE begun == [pushes[i] EXCEPT !.permit = pushes[i].nextPermit,
                                      !.rerun = FALSE, !.nextPermit = TRUE,
                                      !.wanted = pushes[i].called, !.called = NONE]
           next == IF items[i] = None THEN NextRound(begun) ELSE [begun EXCEPT !.phase = "reading", !.captured = TRUE]
<1>1. pushes[i] \in Push /\ Covers(pushes[i]) /\ version \in Nat
  BY PushShape DEF BeginRound, Pushing, PushInv, Version
<1>2. CASE items[i] = None
  <2>1. next = None
    BY <1>1, <1>2 DEF NextRound, Push
  <2> QED
    BY <2>1, OnePush DEF BeginRound
<1>3. CASE items[i] # None
  <2> DEFINE reading == [pushes[i] EXCEPT !.permit = pushes[i].nextPermit, !.rerun = FALSE, !.nextPermit = TRUE,
                                          !.wanted = pushes[i].called, !.called = NONE,
                                          !.phase = "reading", !.captured = TRUE]
  <2>1. Covers(reading)
    BY <1>1 DEF Covers, Push, NONE
  <2>2. next = reading
    BY <1>1, <1>3 DEF Push
  <2>3. pushes' = [pushes EXCEPT ![i] = next] /\ version' = version
    BY DEF BeginRound
  <2> HIDE DEF next, reading
  <2> QED
    BY <2>1, <2>2, <2>3, OnePush
<1> QED
  BY <1>2, <1>3

LEMMA GenerateCovers ==
    ASSUME TypeInv, PushInv, NEW i \in Instances, Generate(i)
    PROVE  PushInv'
<1>1. pushes[i] \in Push /\ Covers(pushes[i]) /\ pushes[i].phase = "reading" /\ version \in Nat
  BY PushShape DEF Generate, Pushing, PushInv, Version
<1>2. cache[i] # None => cache[i] \in Nat
  BY Shapes DEF Version
<1> DEFINE answer == IF pushes[i].permit /\ cache[i] # None THEN cache[i]
                     ELSE IF net # "removed" THEN version ELSE NOTFOUND
<1>3. answer # NOTFOUND => answer >= pushes[i].wanted
  BY <1>1, <1>2 DEF Covers, Push, NONE
<1> DEFINE next == [pushes[i] EXCEPT !.phase = "answered", !.answer = answer]
<1>4. pushes' = [pushes EXCEPT ![i] = next] /\ version' = version
  BY DEF Generate
<1> HIDE DEF answer
<1>5. Covers(next)
  BY <1>1, <1>3 DEF Covers, Push
<1> HIDE DEF next
<1> QED
  BY <1>4, <1>5, OnePush

LEMMA PushKept == TypeInv /\ PushInv /\ [Next]_vars => PushInv'
<1> SUFFICES ASSUME TypeInv, PushInv, [Next]_vars PROVE PushInv'
  OBVIOUS
<1>s. ASSUME pushes' = pushes, version' \in Nat, version' >= version PROVE PushInv'
  BY <1>s, PushShape DEF PushInv, Covers, Push, Version, NONE
<1>v. version \in Nat
  BY Shapes DEF Version
<1>1. CASE InteractionChange \/ Remove \/ Reopen \/ UNCHANGED vars
  BY <1>1, <1>s, <1>v DEF InteractionChange, Remove, Reopen, vars
<1>2. ASSUME NEW i \in Instances, RoomChange(i) \/ CacheExpires(i) \/ StreamFails(i) \/ StreamRetried(i) PROVE PushInv'
  BY <1>2, <1>s, <1>v DEF RoomChange, CacheExpires, StreamFails, StreamRetried
<1>3. ASSUME NEW i \in Instances, Announced(i) \/ Tick(i) \/ \E permit \in Permits : Requested(i, permit) PROVE PushInv'
  BY <1>3, StartCovers, PermitsAssumption DEF Announced, Tick, Requested, PermitsAssumption
<1>4. ASSUME NEW i \in Instances, Close(i) PROVE PushInv'
  BY <1>4, ReleaseCovers DEF Close
<1>5. ASSUME NEW i \in Instances, BeginRound(i) \/ Generate(i) PROVE PushInv'
  BY <1>5, BeginCovers, GenerateCovers
<1>6. ASSUME NEW i \in Instances, GenerateFails(i) \/ Send(i) \/ SendClose(i) PROVE PushInv'
  <2>1. pushes[i] \in Push /\ Covers(pushes[i])
    BY <1>6, PushShape DEF GenerateFails, Send, SendClose, Pushing, PushInv
  <2>2. pushes' = [pushes EXCEPT ![i] = NextRound(pushes[i])] /\ version' = version
    BY <1>6 DEF GenerateFails, Send, SendClose
  <2> QED
    BY <2>1, <2>2, RoundCovers, OnePush
<1>7. ASSUME NEW i \in Instances, Shutdown(i) \/ Crash(i) PROVE PushInv'
  <2>1. pushes' = [pushes EXCEPT ![i] = None] /\ version' = version
    BY <1>7 DEF Shutdown, Crash, Restart
  <2> QED
    BY <2>1, OnePush
<1>8. ASSUME NEW b \in Browsers, PollAnswered(b) \/ PollFails(b) \/ Refused(b) \/ Disconnect(b) \/ Receive(b) PROVE PushInv'
  BY <1>8, <1>s, <1>v DEF PollAnswered, PollFails, Refused, Disconnect, Receive
<1>9. ASSUME NEW b \in Browsers, NEW i \in Instances, PollRead(b, i) \/ Connect(b, i) \/ Presence(b, i) PROVE PushInv'
  BY <1>9, <1>s, <1>v, ReleaseCovers DEF PollRead, Connect, Presence
<1> QED
  BY <1>1, <1>2, <1>3, <1>4, <1>5, <1>6, <1>7, <1>8, <1>9 DEF Next

\* The step at which a push ends.
PushEnds(i) ==
    /\ Pushing(i, "answered") /\ pushes[i].answer # NOTFOUND
    /\ pushes'[i] = None /\ faults' = faults

LEMMA PushEndsWell ==
    ASSUME TypeInv, PushInv, [Next]_vars, NEW i \in Instances, PushEnds(i)
    PROVE  pushes[i].answer >= pushes[i].wanted /\ pushes[i].called = NONE
<1>1. pushes[i] # None /\ pushes[i] \in Push /\ Covers(pushes[i]) /\ pushes \in Pushes
  BY PushShape, Shapes DEF PushEnds, Pushing, PushInv
<1>2. pushes[i].answer >= pushes[i].wanted
  BY <1>1 DEF PushEnds, Pushing, Covers
<1>s. pushes' # pushes
  BY <1>1 DEF PushEnds
\* A step that only marks the push of i leaves it there.
<1>m. ASSUME NEW j \in Instances, NEW p \in Push, pushes' = [pushes EXCEPT ![j] = p] PROVE FALSE
  BY <1>1, <1>m, NoneAssumption DEF PushEnds, Pushes, NoneAssumption
<1>r. ASSUME NEW j \in Instances, pushes' = [pushes EXCEPT ![j] = Released(j)] PROVE FALSE
  <2>1. CASE pushes[j] = None
    BY <1>1, <1>r, <2>1 DEF PushEnds, Released, Pushes
  <2>2. CASE pushes[j] # None
    <3>1. Released(j) \in Push
      BY <2>2, PushShape DEF Released, Push
    <3> QED
      BY <1>m, <1>r, <3>1
  <2> QED
    BY <2>1, <2>2
<1>p. ASSUME NEW j \in Instances, NEW permit \in BOOLEAN, StartPush(j, permit) PROVE FALSE
  <2>1. CASE pushes[j] = None
    <3>1. NewPush(permit) \in Push
      BY Shapes DEF NewPush, Push, NOTFOUND, NONE
    <3> QED
      BY <1>m, <1>p, <2>1, <3>1 DEF StartPush
  <2>2. CASE pushes[j] # None
    <3>1. Joined(pushes[j], permit) \in Push
      BY <2>2, PushShape DEF Joined, Push, NONE
    <3> QED
      BY <1>m, <1>p, <2>2, <3>1 DEF StartPush
  <2> QED
    BY <2>1, <2>2
<1>3. CASE \E j \in Instances : Send(j) \/ SendClose(j) \/ GenerateFails(j)
  <2> PICK j \in Instances : Send(j) \/ SendClose(j) \/ GenerateFails(j)
    BY <1>3
  <2>1. pushes' = [pushes EXCEPT ![j] = NextRound(pushes[j])]
    BY DEF Send, SendClose, GenerateFails
  <2>2. i = j
    BY <1>1, <2>1 DEF PushEnds, Pushes
  <2>3. NextRound(pushes[i]) = None
    BY <1>1, <2>1, <2>2 DEF PushEnds, Pushes
  <2>4. ~pushes[i].rerun
    <3>1. SUFFICES ASSUME pushes[i].rerun PROVE FALSE
      BY <1>1 DEF Push
    <3>2. NextRound(pushes[i]) \in Push
      BY <1>1, <3>1 DEF NextRound, Push
    <3> QED
      BY <2>3, <3>2, NoneAssumption DEF NoneAssumption
  <2> QED
    BY <1>1, <1>2, <2>4 DEF PushEnds, Pushing, Covers
<1>4. ASSUME NEW j \in Instances, BeginRound(j) \/ Generate(j) PROVE FALSE
  <2>1. i # j
    BY <1>4 DEF PushEnds, Pushing, BeginRound, Generate
  <2> QED
    BY <1>1, <1>4, <2>1 DEF PushEnds, BeginRound, Generate, Pushes
<1>5. ASSUME NEW j \in Instances, Shutdown(j) \/ Crash(j) PROVE FALSE
  <2>1. faults' = faults + 1 /\ faults \in Nat
    BY <1>5, Shapes DEF Shutdown, Crash, Restart, Fault
  <2> QED
    BY <2>1 DEF PushEnds
<1>6. CASE InteractionChange \/ Remove \/ Reopen \/ UNCHANGED vars
  BY <1>6, <1>s DEF InteractionChange, Remove, Reopen, vars
<1>7. ASSUME NEW j \in Instances, RoomChange(j) \/ CacheExpires(j) \/ StreamFails(j) \/ StreamRetried(j) PROVE FALSE
  BY <1>7, <1>s DEF RoomChange, CacheExpires, StreamFails, StreamRetried
<1>8. ASSUME NEW j \in Instances, Announced(j) \/ Tick(j) \/ \E permit \in Permits : Requested(j, permit) PROVE FALSE
  BY <1>8, <1>p, PermitsAssumption DEF Announced, Tick, Requested, PermitsAssumption
<1>9. ASSUME NEW j \in Instances, Close(j) PROVE FALSE
  BY <1>9, <1>r DEF Close
<1>10. ASSUME NEW b \in Browsers, PollAnswered(b) \/ PollFails(b) \/ Refused(b) \/ Disconnect(b) \/ Receive(b) PROVE FALSE
  BY <1>10, <1>s DEF PollAnswered, PollFails, Refused, Disconnect, Receive
<1>11. ASSUME NEW b \in Browsers, NEW j \in Instances, PollRead(b, j) \/ Connect(b, j) \/ Presence(b, j) PROVE FALSE
  BY <1>11, <1>s, <1>r DEF PollRead, Connect, Presence
<1> QED
  BY <1>3, <1>4, <1>5, <1>6, <1>7, <1>8, <1>9, <1>10, <1>11 DEF Next

\* What the last round of a push sends is no older than the net was at every call for fresh data made of it so far,
\* however calls, rounds, closings and a cached answer of another round interleave (RealtimeClients.push, pushOnce).
THEOREM PushesCoverCalls == Spec => PushCoversCalls
<1>1. Init => PushInv
  BY DEF Init, PushInv
<1>2. TypeInv /\ PushInv /\ [Next]_vars =>
        [\A i \in Instances :
            /\ Pushing(i, "answered") /\ pushes[i].answer # NOTFOUND
            /\ pushes'[i] = None /\ faults' = faults
            => pushes[i].answer >= pushes[i].wanted /\ pushes[i].called = NONE]_vars
  BY PushEndsWell DEF PushEnds
<1> QED
  BY TypeStart, TypeKept, PushKept, <1>1, <1>2, PTL DEF Spec, PushCoversCalls

-----------------------------------------------------------------------------
(* Nobody is sent away from a net that is on the air. *)

\* Nothing that could send a page away is there before a net was claimed or a server stopped.
Undisturbed ==
    /\ net = "open"
    /\ \A i \in Instances : Pushing(i, "answered") => pushes[i].answer # NOTFOUND
    /\ \A b \in Browsers : ~Told(wire[b]) /\ page[b].mode # "home"

HomeInv == ~ended => Undisturbed

LEMMA HomeKept == TypeInv /\ HomeInv /\ [Next]_vars => HomeInv'
<1> SUFFICES ASSUME TypeInv, HomeInv, [Next]_vars, ~ended' PROVE Undisturbed'
  BY DEF HomeInv
<1>e. ended \in BOOLEAN /\ page \in Pages /\ wire \in Wires /\ pushes \in Pushes /\ version \in Version
      /\ cache \in [Instances -> Version \cup {None}]
  BY Shapes
<1>0. ~ended
  <2>1. ASSUME NEW i \in Instances, Close(i) \/ Shutdown(i) PROVE ended'
    BY <2>1 DEF Close, Shutdown
  <2>2. CASE \E i \in Instances : Close(i) \/ Shutdown(i)
    BY <2>1, <2>2
  <2>3. CASE ended' = ended
    BY <2>3
  <2>4. CASE ~\E i \in Instances : Close(i) \/ Shutdown(i)
    <3>1. ended' = ended
      BY <2>4 DEF Next, vars, InteractionChange, Remove, Reopen, RoomChange, Announced, Tick, Requested, BeginRound,
         Generate, GenerateFails, Send, SendClose, CacheExpires, StreamFails, StreamRetried, Crash, PollAnswered,
         PollFails, Refused, Disconnect, Receive, PollRead, Connect, Presence
    <3> QED
      BY <2>3, <3>1
  <2> QED
    BY <2>2, <2>4
<1>u. Undisturbed
  BY <1>0 DEF HomeInv
<1> DEFINE Quiet == \A i \in Instances : Pushing(i, "answered") => pushes[i].answer # NOTFOUND
           Here == \A b \in Browsers : ~Told(wire[b]) /\ page[b].mode # "home"
<1>q. Quiet /\ Here /\ net = "open"
  BY <1>u DEF Undisturbed
<1>s. ASSUME UNCHANGED <<net, pushes, wire, page>> PROVE Undisturbed'
  BY <1>u, <1>s DEF Undisturbed, Pushing
\* Of the steps that change one push only,
<1>p. ASSUME NEW i \in Instances, NEW p, pushes' = [pushes EXCEPT ![i] = p],
             p # None => p \in Push /\ (p.phase = "answered" => p.answer # NOTFOUND)
      PROVE  Quiet'
  <2>1. \A j \in Instances : pushes'[j] = IF j = i THEN p ELSE pushes[j]
    BY <1>e, <1>p DEF Pushes
  <2> QED
    BY <1>p, <1>q, <2>1 DEF Pushing
\* ... and of those that change one page only.
<1>b. ASSUME NEW b \in Browsers, \A c \in Browsers \ {b} : page'[c] = page[c] /\ wire'[c] = wire[c],
             page'[b].mode # "home", ~Told(wire'[b])
      PROVE  Here'
  BY <1>b, <1>q
<1>1. CASE InteractionChange \/ Remove \/ Reopen \/ UNCHANGED vars
  BY <1>1, <1>q, <1>s DEF InteractionChange, Remove, Reopen, vars
<1>2. ASSUME NEW i \in Instances, RoomChange(i) \/ CacheExpires(i) \/ StreamFails(i) \/ StreamRetried(i) PROVE Undisturbed'
  BY <1>2, <1>s DEF RoomChange, CacheExpires, StreamFails, StreamRetried
<1>3. ASSUME NEW i \in Instances, Announced(i) \/ Tick(i) \/ \E permit \in Permits : Requested(i, permit) PROVE Undisturbed'
  <2>1. PICK permit \in BOOLEAN : StartPush(i, permit) /\ UNCHANGED <<net, wire, page>>
    BY <1>3, PermitsAssumption DEF Announced, Tick, Requested, PermitsAssumption
  <2>2. CASE pushes[i] = None
    <3>1. NewPush(permit) \in Push /\ NewPush(permit).phase # "answered"
      BY <1>e DEF NewPush, Push, NOTFOUND, NONE
    <3> QED
      BY <1>p, <1>q, <2>1, <2>2, <3>1 DEF StartPush, Undisturbed
  <2>3. CASE pushes[i] # None
    <3>1. pushes[i] \in Push
      BY <1>e, <2>3 DEF Pushes
    <3>2. /\ Joined(pushes[i], permit) \in Push
          /\ Joined(pushes[i], permit).phase = pushes[i].phase /\ Joined(pushes[i], permit).answer = pushes[i].answer
      BY <1>e, <3>1 DEF Joined, Push, NONE
    <3> QED
      BY <1>p, <1>q, <2>1, <2>3, <3>2 DEF StartPush, Undisturbed, Pushing
  <2> QED
    BY <2>2, <2>3
<1>4. ASSUME NEW i \in Instances, Close(i) \/ Shutdown(i) PROVE FALSE
  BY <1>4 DEF Close, Shutdown
<1>r. ASSUME NEW p \in Push PROVE NextRound(p) # None => NextRound(p) \in Push /\ NextRound(p).phase = "queued"
  BY DEF NextRound, Push
<1>5. ASSUME NEW i \in Instances, BeginRound(i) PROVE Undisturbed'
  <2> DEFINE begun == [pushes[i] EXCEPT !.permit = pushes[i].nextPermit, !.rerun = FALSE, !.nextPermit = TRUE,
                                        !.wanted = pushes[i].called, !.called = NONE]
             reading == [begun EXCEPT !.phase = "reading", !.captured = TRUE]
  <2>1. pushes[i] \in Push
    BY <1>5, <1>e DEF BeginRound, Pushing, Pushes
  <2>2. begun \in Push /\ reading \in Push /\ reading.phase = "reading"
    BY <2>1 DEF Push, NONE
  <2>3. pushes' = [pushes EXCEPT ![i] = IF items[i] = None THEN NextRound(begun) ELSE reading]
        /\ UNCHANGED <<net, wire, page>>
    BY <1>5 DEF BeginRound
  <2> HIDE DEF begun, reading
  <2>4. CASE items[i] = None
    BY <1>p, <1>q, <1>r, <2>2, <2>3, <2>4 DEF Undisturbed
  <2>5. CASE items[i] # None
    BY <1>p, <1>q, <2>2, <2>3, <2>5 DEF Undisturbed
  <2> QED
    BY <2>4, <2>5
<1>6. ASSUME NEW i \in Instances, Generate(i) PROVE Undisturbed'
  <2>1. pushes[i] \in Push
    BY <1>6, <1>e DEF Generate, Pushing, Pushes
  <2> DEFINE answer == IF pushes[i].permit /\ cache[i] # None THEN cache[i] ELSE version
             answered == [pushes[i] EXCEPT !.phase = "answered", !.answer = answer]
  <2>2. answer \in Version
    BY <1>e
  <2>3. pushes' = [pushes EXCEPT ![i] = answered] /\ UNCHANGED <<net, wire, page>>
    BY <1>6, <1>q DEF Generate
  <2> HIDE DEF answer
  <2>4. answered \in Push /\ answered.answer = answer
    BY <2>1, <2>2 DEF Push
  <2>5. answer # NOTFOUND
    BY <2>2 DEF Version, NOTFOUND
  <2> HIDE DEF answered
  <2> QED
    BY <1>p, <1>q, <2>3, <2>4, <2>5 DEF Undisturbed
<1>7. ASSUME NEW i \in Instances, GenerateFails(i) PROVE Undisturbed'
  <2>1. pushes[i] \in Push
    BY <1>7, <1>e DEF GenerateFails, Pushing, Pushes
  <2>2. pushes' = [pushes EXCEPT ![i] = NextRound(pushes[i])] /\ UNCHANGED <<net, wire, page>>
    BY <1>7 DEF GenerateFails
  <2> QED
    BY <1>p, <1>q, <1>r, <2>1, <2>2 DEF Undisturbed
<1>8. ASSUME NEW i \in Instances, Send(i) PROVE Undisturbed'
  <2>1. pushes[i] \in Push /\ pushes[i].answer \in Version
    BY <1>8, <1>e DEF Send, Pushing, Pushes, Push, NOTFOUND
  <2>2. Quiet'
    BY <1>8, <1>p, <1>r, <2>1 DEF Send
  <2>3. ASSUME NEW b \in Browsers PROVE ~Told(wire'[b])
    <3>1. wire'[b] = wire[b] \/ wire'[b] = Append(wire[b], pushes[i].answer)
      BY <1>8, <2>1, Sent, Connected DEF Send
    <3>2. wire[b] \in Seq(Version \cup {CLOSE}) /\ pushes[i].answer # CLOSE
      BY <1>e, <2>1 DEF Wires, Version, CLOSE
    <3>3. ~Told(Append(wire[b], pushes[i].answer))
      BY <1>q, <3>2 DEF Told
    <3> QED
      BY <1>q, <3>1, <3>3
  <2> QED
    BY <1>8, <1>q, <2>2, <2>3 DEF Send, Undisturbed
<1>9. ASSUME NEW i \in Instances, SendClose(i) PROVE FALSE
  BY <1>9, <1>q DEF SendClose
<1>10. ASSUME NEW i \in Instances, Crash(i) PROVE Undisturbed'
  <2>1. Quiet' /\ net' = net
    BY <1>10, <1>p DEF Crash, Restart
  <2>2. ASSUME NEW b \in Browsers PROVE ~Told(wire'[b]) /\ page'[b].mode # "home"
    <3>1. wire'[b] = wire[b] \/ wire'[b] = <<>>
      BY <1>10 DEF Crash
    <3>2. page'[b] = page[b] \/ page'[b].mode = "connecting"
      BY <1>10, <1>e DEF Crash, Lost, Pages, Page
    <3> QED
      BY <1>q, <3>1, <3>2 DEF Told
  <2> QED
    BY <1>q, <2>1, <2>2 DEF Undisturbed
<1>11. ASSUME NEW b \in Browsers, PollAnswered(b) \/ PollFails(b) \/ Refused(b) PROVE Undisturbed'
  <2>1. \A c \in Browsers \ {b} : page'[c] = page[c]
    BY <1>11, <1>e DEF PollAnswered, PollFails, Refused, Pages
  <2>2. page'[b].mode # "home"
    <3>1. CASE PollAnswered(b)
      BY <1>e, <3>1 DEF PollAnswered, Pages, Page
    <3>2. CASE PollFails(b)
      BY <1>e, <1>q, <3>2 DEF PollFails, Pages, Page
    <3>3. CASE Refused(b)
      BY <1>e, <3>3 DEF Refused, Pages, Page
    <3> QED
      BY <1>11, <3>1, <3>2, <3>3
  <2>3. UNCHANGED <<net, pushes, wire>>
    BY <1>11 DEF PollAnswered, PollFails, Refused
  <2> QED
    BY <1>b, <1>q, <2>1, <2>2, <2>3 DEF Undisturbed, Pushing
<1>12. ASSUME NEW b \in Browsers, Disconnect(b) PROVE Undisturbed'
  <2>1. \A c \in Browsers \ {b} : page'[c] = page[c] /\ wire'[c] = wire[c]
    BY <1>12, <1>e DEF Disconnect, Pages, Wires
  <2>2. page'[b].mode # "home" /\ wire'[b] = <<>>
    BY <1>12, <1>e DEF Disconnect, Lost, Pages, Page, Wires
  <2> QED
    BY <1>12, <1>b, <1>q, <2>1, <2>2 DEF Disconnect, Undisturbed, Pushing, Told
<1>13. ASSUME NEW b \in Browsers, Receive(b) PROVE Undisturbed'
  <2>1. wire[b] \in Seq(Version \cup {CLOSE}) /\ wire[b] # <<>>
    BY <1>13, <1>e DEF Receive, Wires
  <2>2. Head(wire[b]) # CLOSE
    <3>1. 1 \in 1 .. Len(wire[b]) /\ Head(wire[b]) = wire[b][1]
      BY <2>1
    <3> QED
      BY <1>q, <3>1 DEF Told
  <2>3. ~Told(Tail(wire[b]))
    <3>1. \A k \in 1 .. Len(Tail(wire[b])) : k + 1 \in 1 .. Len(wire[b]) /\ Tail(wire[b])[k] = wire[b][k + 1]
      BY <2>1
    <3> QED
      BY <1>q, <3>1 DEF Told
  <2>4. \A c \in Browsers \ {b} : page'[c] = page[c] /\ wire'[c] = wire[c]
    BY <1>13, <1>e, <2>2 DEF Receive, Pages, Wires
  <2>5. page'[b].mode = page[b].mode /\ wire'[b] = Tail(wire[b])
    BY <1>13, <1>e, <2>2 DEF Receive, Pages, Page, Wires
  <2> QED
    BY <1>13, <1>b, <1>q, <2>3, <2>4, <2>5 DEF Receive, Undisturbed, Pushing
<1>14. ASSUME NEW b \in Browsers, NEW i \in Instances, PollRead(b, i) \/ Connect(b, i) PROVE Undisturbed'
  <2>1. \A c \in Browsers \ {b} : page'[c] = page[c]
    BY <1>14, <1>e, <1>q DEF PollRead, Connect, Pages
  <2>2. page'[b].mode # "home"
    <3>1. CASE PollRead(b, i)
      BY <1>e, <1>q, <3>1 DEF PollRead, Pages, Page
    <3>2. CASE Connect(b, i)
      BY <1>e, <3>2 DEF Connect, Pages, Page
    <3> QED
      BY <1>14, <3>1, <3>2
  <2>3. UNCHANGED <<net, pushes, wire>>
    BY <1>14, <1>q DEF PollRead, Connect
  <2> QED
    BY <1>b, <1>q, <2>1, <2>2, <2>3 DEF Undisturbed, Pushing
<1>15. ASSUME NEW b \in Browsers, NEW i \in Instances, Presence(b, i) PROVE FALSE
  BY <1>15, <1>q DEF Presence
<1> QED
  BY <1>1, <1>2, <1>3, <1>4, <1>5, <1>6, <1>7, <1>8, <1>9, <1>10, <1>11, <1>12, <1>13, <1>14, <1>15 DEF Next

\* No page is sent away, by a message, by an answer or by presence, as long as its net was never claimed for closing
\* and no server stopped: lost streams, crashed servers and failed reads do not look like a close (net-close).
THEOREM NobodySentAway == Spec => []HomeAfterEnd
<1>1. Init => HomeInv
  BY DEF Init, HomeInv, Undisturbed, NewPage, Pushing, Told
<1>2. HomeInv => HomeAfterEnd
  BY DEF HomeInv, Undisturbed, HomeAfterEnd
<1> QED
  BY TypeStart, TypeKept, HomeKept, <1>1, <1>2, PTL DEF Spec

-----------------------------------------------------------------------------
(* Sets of numbers. *)

\* A finite set of numbers has a greatest one, with the fewest above it.
LEMMA Greatest ==
    ASSUME NEW S, S \subseteq Nat, IsFiniteSet(S), S # {}
    PROVE  \E x \in S : \A y \in S : y <= x
<1> DEFINE Above(x) == {y \in S : y > x}
           C == {Above(x) : x \in S}
<1>1. C # {} /\ C \subseteq FiniteSubsetsOf(S)
  <2>1. ASSUME NEW x \in S PROVE Above(x) \in FiniteSubsetsOf(S)
    BY FS_Subset, Above(x) \in SUBSET S DEF FiniteSubsetsOf
  <2> QED
    BY <2>1
<1>2. PICK U \in C : \A T \in C : ~(<<T, U>> \in StrictSubsetOrdering(S))
  BY <1>1, FS_StrictSubsetOrderingWellFounded, WFMin
<1>3. PICK x \in S : U = Above(x)
  OBVIOUS
<1>4. ASSUME NEW y \in S, y > x PROVE FALSE
  <2> /\ x \in Nat /\ y \in Nat /\ y > x
    BY <1>4
  <2>0. y \in Above(x) \ Above(y) /\ Above(y) \in C
    OBVIOUS
  <2>3. ASSUME NEW z \in Above(y) PROVE z \in Above(x)
    <3> z \in S /\ z \in Nat /\ z > y
      BY <2>3
    <3> QED
      OBVIOUS
  <2>1. Above(y) \subseteq Above(x) /\ y \in Above(x) \ Above(y) /\ Above(y) \in C
    BY <2>0, <2>3
  <2>2. <<Above(y), U>> \in StrictSubsetOrdering(S)
    BY <2>1, <1>3 DEF StrictSubsetOrdering
  <2> QED
    BY <2>1, <2>2, <1>2
<1> QED
  BY <1>4

\* ... and a least one, with the fewest below it.
LEMMA Least ==
    ASSUME NEW S, S \subseteq Nat, IsFiniteSet(S), S # {}
    PROVE  \E x \in S : \A y \in S : x <= y
<1> DEFINE Below(x) == {y \in S : y < x}
           C == {Below(x) : x \in S}
<1>1. C # {} /\ C \subseteq FiniteSubsetsOf(S)
  <2>1. ASSUME NEW x \in S PROVE Below(x) \in FiniteSubsetsOf(S)
    BY FS_Subset, Below(x) \in SUBSET S DEF FiniteSubsetsOf
  <2> QED
    BY <2>1
<1>2. PICK U \in C : \A T \in C : ~(<<T, U>> \in StrictSubsetOrdering(S))
  BY <1>1, FS_StrictSubsetOrderingWellFounded, WFMin
<1>3. PICK x \in S : U = Below(x)
  OBVIOUS
<1>4. ASSUME NEW y \in S, y < x PROVE FALSE
  <2> /\ x \in Nat /\ y \in Nat /\ y < x
    BY <1>4
  <2>0. y \in Below(x) \ Below(y) /\ Below(y) \in C
    OBVIOUS
  <2>3. ASSUME NEW z \in Below(y) PROVE z \in Below(x)
    <3> z \in S /\ z \in Nat /\ z < y
      BY <2>3
    <3> QED
      OBVIOUS
  <2>1. Below(y) \subseteq Below(x) /\ y \in Below(x) \ Below(y) /\ Below(y) \in C
    BY <2>0, <2>3
  <2>2. <<Below(y), U>> \in StrictSubsetOrdering(S)
    BY <2>1, <1>3 DEF StrictSubsetOrdering
  <2> QED
    BY <2>1, <2>2, <1>2
<1> QED
  BY <1>4

-----------------------------------------------------------------------------
(* The newest messages. *)

Newer(S, i) == {j \in S : j > i}

LEMMA SameCount == \A S : Chat!Cardinality(S) = Cardinality(S)
  BY DEF Cardinality, Chat!Cardinality, IsFiniteSet, Chat!IsFiniteSet

LEMMA NewestIs == \A S : Chat!Newest(S) = {i \in S : Cardinality(Newer(S, i)) < Limit}
  BY SameCount DEF Chat!Newest, Newer

LEMMA ChatBounds ==
    /\ Limit \in Nat /\ Limit # 0 /\ MaxMessages \in Nat /\ MaxMessages # 0 /\ MaxChatEvents \in Nat
    /\ Viewer \notin Peers /\ Everyone \notin Peers /\ Everyone # Viewer
  BY PartsAssumption DEF Chat!ChatAssumption

\* There are no more of them than the limit: the least of them has all others above it.
LEMMA NewestFew ==
    ASSUME NEW S, S \subseteq Nat, IsFiniteSet(S)
    PROVE  Chat!Newest(S) \subseteq S /\ IsFiniteSet(Chat!Newest(S)) /\ Cardinality(Chat!Newest(S)) <= Limit
<1> DEFINE N == Chat!Newest(S)
<1>1. N \subseteq S /\ IsFiniteSet(N)
  BY NewestIs, FS_Subset
<1>2. CASE N = {}
  BY <1>1, <1>2, FS_EmptySet, ChatBounds
<1>3. CASE N # {}
  <2>1. PICK x \in N : \A y \in N : x <= y
    BY <1>1, <1>3, Least
  <2>2. Cardinality(Newer(S, x)) < Limit
    BY NewestIs
  <2>3. N \ {x} \subseteq Newer(S, x)
    <3>1. ASSUME NEW y \in N \ {x} PROVE y \in Newer(S, x)
      <4>1. y \in S /\ x <= y /\ x # y /\ x \in Nat /\ y \in Nat
        BY <1>1, <2>1
      <4> QED
        BY <4>1 DEF Newer
    <3> QED
      BY <3>1
  <2>4. IsFiniteSet(Newer(S, x)) /\ Cardinality(Newer(S, x)) \in Nat
    BY FS_Subset, FS_CardinalityType DEF Newer
  <2>5. Cardinality(N \ {x}) <= Cardinality(Newer(S, x))
    BY <2>3, <2>4, FS_Subset
  <2>6. Cardinality(N \ {x}) = Cardinality(N) - 1
    BY <1>1, FS_RemoveElement
  <2>7. Cardinality(N) \in Nat
    BY <1>1, FS_CardinalityType
  <2> QED
    BY <1>1, <2>2, <2>4, <2>5, <2>6, <2>7, ChatBounds
<1> QED
  BY <1>2, <1>3

\* Where there are as many as the limit above a message, there are as many of the newest above it.
LEMMA NewestMany ==
    ASSUME NEW S, S \subseteq Nat, IsFiniteSet(S), NEW i \in Nat, Cardinality(Newer(S, i)) >= Limit
    PROVE  Cardinality(Newer(Chat!Newest(S), i)) >= Limit
<1> DEFINE N == Newer(Chat!Newest(S), i)
           T == Newer(S, i)
<1>1. N \subseteq T /\ T \subseteq S /\ IsFiniteSet(T) /\ IsFiniteSet(N) /\ IsFiniteSet(T \ N)
  BY NewestIs, FS_Subset DEF Newer
<1>2. Cardinality(T) \in Nat /\ Cardinality(N) \in Nat
  BY <1>1, FS_CardinalityType
<1>3. SUFFICES ASSUME Cardinality(N) < Limit PROVE FALSE
  BY <1>2, ChatBounds
<1>4. T \ N # {}
  BY <1>1, <1>3, <1>2, ChatBounds
<1>5. PICK x \in T \ N : \A y \in T \ N : y <= x
  BY <1>1, <1>4, Greatest
<1>6. Newer(S, x) \subseteq N
  <2>1. ASSUME NEW y \in Newer(S, x) PROVE y \in N
    <3>1. y \in T /\ y \in Nat /\ x \in Nat /\ y > x
      BY DEF Newer
    <3> QED
      BY <3>1, <1>5
  <2> QED
    BY <2>1
<1>7. Cardinality(Newer(S, x)) <= Cardinality(N) /\ Cardinality(Newer(S, x)) \in Nat
  BY <1>1, <1>6, FS_Subset, FS_CardinalityType
<1>8. x \in Chat!Newest(S)
  BY <1>7, <1>3, <1>2, <1>5, <1>1, NewestIs, ChatBounds
<1> QED
  BY <1>8, <1>5 DEF Newer

\* More messages have more above each of them.
LEMMA NewerGrows ==
    ASSUME NEW S, NEW T, S \subseteq T, IsFiniteSet(T), NEW i
    PROVE  Cardinality(Newer(S, i)) <= Cardinality(Newer(T, i)) /\ Cardinality(Newer(S, i)) \in Nat
                                                             /\ Cardinality(Newer(T, i)) \in Nat
<1>1. Newer(S, i) \subseteq Newer(T, i) /\ IsFiniteSet(Newer(T, i))
  BY FS_Subset DEF Newer
<1> QED
  BY <1>1, FS_Subset, FS_CardinalityType

-----------------------------------------------------------------------------
(* The list of favorites. *)

Store == [newest : Favorites!Contents \cup {None}, shown : Favorites!Contents \cup {None},
          before : Favorites!Contents \cup {None}, check : Favorites!Contents \cup {None},
          window : BOOLEAN, extended : BOOLEAN, missed : BOOLEAN]
Loop == [interval : {"default", "server"}, timer : BOOLEAN, lost : Nat]
FollowCall == [net : Nets, follow : BOOLEAN]

\* Requests and calls are sequences, and the store is a record of its fields.
ListInv ==
    /\ followed \subseteq Nets /\ news \in 0 .. MaxNews
    /\ store \in Store
    /\ off \subseteq IF store.shown = None THEN {} ELSE store.shown.nets
    /\ loop \in Loop
    /\ polls \in Seq(Favorites!Poll) /\ follows \in Seq(FollowCall)
    /\ clicks \in 0 .. MaxClicks /\ failures \in 0 .. MaxFailures
    /\ Favorites!LoopLives

LEMMA ListBounds == MaxClicks \in Nat /\ MaxNews \in Nat /\ MaxFailures \in Nat
  BY PartsAssumption DEF Favorites!FavoritesAssumption

LEMMA PollsTyped == ListInv => \A k \in DOMAIN polls : polls[k] \in Favorites!Poll
<1> SUFFICES ASSUME ListInv, NEW k \in DOMAIN polls PROVE polls[k] \in Favorites!Poll
  OBVIOUS
<1>1. polls \in Seq(Favorites!Poll)
  BY DEF ListInv
<1> QED
  BY <1>1

LEMMA FollowsTyped == ListInv => \A k \in DOMAIN follows : follows[k] \in FollowCall
<1> SUFFICES ASSUME ListInv, NEW k \in DOMAIN follows PROVE follows[k] \in FollowCall
  OBVIOUS
<1>1. follows \in Seq(FollowCall)
  BY DEF ListInv
<1> QED
  BY <1>1

LEMMA ListTyped == ListInv => Favorites!TypeOK
<1> SUFFICES ASSUME ListInv PROVE Favorites!TypeOK
  OBVIOUS
<1>1. \A c \in {store.newest, store.shown, store.before, store.check} : c = None \/ c \in Favorites!Contents
  BY DEF ListInv, Store
<1>2. {store.window, store.extended, store.missed} \subseteq BOOLEAN
  BY DEF ListInv, Store
<1>3. \A k \in DOMAIN polls : polls[k] \in Favorites!Poll
  BY PollsTyped
<1>4. \A k \in DOMAIN follows : follows[k] \in [net : Nets, follow : BOOLEAN]
  BY FollowsTyped DEF FollowCall
<1> QED
  BY <1>1, <1>2, <1>3, <1>4 DEF ListInv, Favorites!TypeOK, Loop

\* What is left of a sequence without one of its places.
LEMMA Removed ==
    ASSUME NEW S, NEW s \in Seq(S), NEW k \in DOMAIN s
    PROVE  Favorites!RemoveAt(s, k) \in Seq(S) /\ Typing!Without(s, k) \in Seq(S)
<1>1. k \in 1 .. Len(s) /\ \A j \in 1 .. Len(s) : s[j] \in S
  OBVIOUS
<1>2. SubSeq(s, 1, k - 1) \in Seq(S) /\ SubSeq(s, k + 1, Len(s)) \in Seq(S)
  BY <1>1, SubSeqProperties
<1> QED
  BY <1>2 DEF Favorites!RemoveAt, Typing!Without

LEMMA ListStart == Favorites!Init => ListInv
  BY ListBounds DEF Favorites!Init, ListInv, Favorites!Run, Favorites!Poll, Favorites!LoopLives, Store, Loop

LEMMA RunTyped == ListInv => Favorites!Run(loop) \in Favorites!Poll /\ Favorites!Scheduled(loop) \in Loop
                             /\ Favorites!Paced(loop) \in Loop /\ Favorites!Scheduled(loop).timer /\ Favorites!Paced(loop).timer
<1> SUFFICES ASSUME loop \in Loop
             PROVE  /\ Favorites!Run(loop) \in Favorites!Poll
                    /\ Favorites!Scheduled(loop) \in Loop /\ Favorites!Scheduled(loop).timer
                    /\ Favorites!Paced(loop) \in Loop /\ Favorites!Paced(loop).timer
  BY DEF ListInv
<1>1. Favorites!Run(loop) \in Favorites!Poll
  BY DEF Favorites!Run, Favorites!Poll, Loop
<1>2. Favorites!Scheduled(loop) \in Loop /\ Favorites!Scheduled(loop).timer
  <2>1. CASE loop.timer
    <3>1. loop.lost + 1 \in Nat
      BY DEF Loop
    <3>2. Favorites!Scheduled(loop) = [loop EXCEPT !.timer = TRUE, !.lost = loop.lost + 1]
      BY <2>1 DEF Favorites!Scheduled, Loop
    <3> QED
      BY <3>1, <3>2 DEF Loop
  <2>2. CASE ~loop.timer
    BY <2>2 DEF Favorites!Scheduled, Loop
  <2> QED
    BY <2>1, <2>2
<1>3. Favorites!Paced(loop) \in Loop /\ Favorites!Paced(loop).timer
  BY DEF Favorites!Paced, Loop
<1> QED
  BY <1>1, <1>2, <1>3

LEMMA ListKept == ListInv /\ [Favorites!Next]_listVars => ListInv'
<1> SUFFICES ASSUME ListInv, [Favorites!Next]_listVars PROVE ListInv'
  OBVIOUS
<1> USE ListBounds
<1>1. CASE UNCHANGED listVars
  BY <1>1 DEF listVars, ListInv, Favorites!LoopLives
<1>2. CASE Favorites!TimerFires
  <2>0. loop \in Loop
    BY DEF ListInv
  <2>1. polls' = Append(polls, Favorites!Run(loop)) /\ loop' \in Loop
    <3>1. CASE loop' = [loop EXCEPT !.timer = FALSE]
      BY <1>2, <2>0, <3>1 DEF Favorites!TimerFires, Loop
    <3>2. CASE loop.lost > 0 /\ loop' = [loop EXCEPT !.lost = @ - 1]
      BY <1>2, <2>0, <3>2 DEF Favorites!TimerFires, Loop
    <3> QED
      BY <1>2, <3>1, <3>2 DEF Favorites!TimerFires
  <2>2. polls' \in Seq(Favorites!Poll) /\ polls' # <<>>
    BY <2>1, RunTyped DEF ListInv
  <2> QED
    BY <1>2, <2>1, <2>2 DEF Favorites!TimerFires, ListInv, Favorites!LoopLives
<1>3. CASE Favorites!PollServed
  <2>1. PICK k \in DOMAIN polls : polls' = [polls EXCEPT ![k].answer = Favorites!Content]
    BY <1>3 DEF Favorites!PollServed
  <2>2. Favorites!Content \in Favorites!Contents
    BY DEF ListInv, Favorites!Content, Favorites!Contents
  <2>3. [polls[k] EXCEPT !.answer = Favorites!Content] \in Favorites!Poll
    BY <2>2, PollsTyped DEF Favorites!Poll
  <2>4. polls' \in Seq(Favorites!Poll) /\ polls' # <<>>
    BY <2>1, <2>3 DEF ListInv
  <2> QED
    BY <1>3, <2>4 DEF Favorites!PollServed, ListInv, Favorites!LoopLives
<1>4. CASE Favorites!PollAnswered
  <2>1. PICK k \in DOMAIN polls :
            /\ polls[k].answer # None
            /\ store' = Favorites!WithNewData(store, polls[k].answer)
            /\ loop' = IF polls[k].interval # "server" THEN Favorites!Paced(loop) ELSE Favorites!Scheduled(loop)
            /\ off' = IF store.window \/ polls[k].answer = store.newest THEN off ELSE {}
            /\ polls' = Favorites!RemoveAt(polls, k)
    BY <1>4 DEF Favorites!PollAnswered
  <2>2. polls' \in Seq(Favorites!Poll) /\ loop' \in Loop /\ loop'.timer
    BY <2>1, Removed, RunTyped DEF ListInv
  <2>3. polls[k].answer \in Favorites!Contents
    BY <2>1, PollsTyped DEF Favorites!Poll
  <2>4. store' \in Store /\ off' \subseteq IF store'.shown = None THEN {} ELSE store'.shown.nets
    BY <2>1, <2>3 DEF ListInv, Favorites!WithNewData, Store
  <2> QED
    BY <1>4, <2>2, <2>4 DEF Favorites!PollAnswered, ListInv, Favorites!LoopLives
<1>5. CASE Favorites!PollFails
  <2>1. PICK k \in DOMAIN polls : polls' = Favorites!RemoveAt(polls, k)
    BY <1>5 DEF Favorites!PollFails
  <2>2. polls' \in Seq(Favorites!Poll) /\ loop' \in Loop /\ loop'.timer
    BY <1>5, <2>1, Removed, RunTyped DEF Favorites!PollFails, ListInv
  <2> QED
    BY <1>5, <2>2 DEF Favorites!PollFails, Favorites!Failure, ListInv, Favorites!LoopLives
<1>6. CASE Favorites!WindowEnds
  BY <1>6 DEF Favorites!WindowEnds, ListInv, Store, Favorites!LoopLives
<1>7. CASE Favorites!CheckFires
  <2>1. store' \in Store /\ store'.shown = store.shown
    BY <1>7 DEF Favorites!CheckFires, ListInv, Store
  <2>2. CASE UNCHANGED <<loop, polls>>
    BY <1>7, <2>1, <2>2 DEF Favorites!CheckFires, ListInv, Favorites!LoopLives
  <2>3. CASE polls' = Append(polls, Favorites!Run(loop)) /\ loop' = [loop EXCEPT !.timer = TRUE]
    <3>1. polls' \in Seq(Favorites!Poll) /\ loop' \in Loop /\ loop'.timer
      <4>1. loop \in Loop /\ polls \in Seq(Favorites!Poll)
        BY DEF ListInv
      <4>2. loop' \in Loop /\ loop'.timer
        BY <4>1, <2>3 DEF Loop
      <4> QED
        BY <4>1, <4>2, <2>3, RunTyped
    <3> QED
      BY <1>7, <2>1, <3>1 DEF Favorites!CheckFires, ListInv, Favorites!LoopLives
  <2> QED
    BY <1>7, <2>2, <2>3 DEF Favorites!CheckFires
<1>8. CASE Favorites!CallServed
  <2>1. PICK k \in DOMAIN follows :
            /\ followed' = IF follows[k].follow THEN followed \cup {follows[k].net} ELSE followed \ {follows[k].net}
            /\ follows' = Favorites!RemoveAt(follows, k)
    BY <1>8 DEF Favorites!CallServed
  <2>2. followed' \subseteq Nets /\ follows' \in Seq(FollowCall)
    BY <2>1, Removed, FollowsTyped DEF ListInv, FollowCall
  <2> QED
    BY <1>8, <2>2 DEF Favorites!CallServed, ListInv, Favorites!LoopLives
<1>9. CASE Favorites!CallFails
  <2>1. follows' \in Seq(FollowCall)
    BY <1>9, Removed DEF Favorites!CallFails, ListInv
  <2> QED
    BY <1>9, <2>1 DEF Favorites!CallFails, Favorites!Failure, ListInv, Favorites!LoopLives
<1>10. CASE Favorites!News
  BY <1>10 DEF Favorites!News, ListInv, Favorites!LoopLives
<1>11. ASSUME NEW n \in Nets, Favorites!Click(n) PROVE ListInv'
  <2>1. store' \in Store /\ store'.shown = store.shown
    BY <1>11 DEF Favorites!Click, Favorites!Opened, ListInv, Store
  <2>2. follows' \in Seq(FollowCall)
    <3>1. [net |-> n, follow |-> n \in off] \in FollowCall
      BY DEF FollowCall
    <3> QED
      BY <1>11, <3>1 DEF Favorites!Click, ListInv
  <2>3. off' \subseteq store.shown.nets
    BY <1>11 DEF Favorites!Click, ListInv
  <2> QED
    BY <1>11, <2>1, <2>2, <2>3 DEF Favorites!Click, ListInv, Favorites!LoopLives
<1> QED
  BY <1>1, <1>2, <1>3, <1>4, <1>5, <1>6, <1>7, <1>8, <1>9, <1>10, <1>11 DEF Favorites!Next

-----------------------------------------------------------------------------
(* Who is typing. *)

TypingCall == [to : Typing!Conversations, active : BOOLEAN]
TypingInput == [open : Typing!Conversations, to : Typing!Conversations, typing : BOOLEAN, calls : Seq(TypingCall)]
TypingEvent(u) == [to : SUBSET {u, Everyone}, active : BOOLEAN]
TypingPage(u) == [remote : SUBSET {u, Everyone}, queue : Seq(TypingEvent(u))]

\* The pages are records of their fields.
TypingInv ==
    /\ input \in TypingInput
    /\ states \subseteq Typing!Conversations /\ connected \subseteq Onlookers \cup {Typist}
    /\ DOMAIN typingPages = Onlookers /\ \A u \in Onlookers : typingPages[u] \in TypingPage(u)
    /\ Typing!TypistIsThere

LEMMA TypingTyped == TypingInv => Typing!TypeOK
  BY DEF TypingInv, Typing!TypeOK, TypingInput, TypingPage, TypingCall, TypingEvent, Typing!Key

LEMMA TypingStart == Typing!Init => TypingInv
<1> SUFFICES ASSUME Typing!Init PROVE TypingInv
  OBVIOUS
<1>1. input \in TypingInput
  <2>1. input \in [open : Typing!Conversations, typing : {FALSE}, to : {Everyone}, calls : {<<>>}]
    BY DEF Typing!Init
  <2>2. Everyone \in Typing!Conversations /\ <<>> \in Seq(TypingCall)
    BY EmptySeq DEF Typing!Conversations
  <2> QED
    BY <2>1, <2>2 DEF TypingInput
<1>2. \A u \in Onlookers : typingPages[u] \in TypingPage(u)
  BY DEF Typing!Init, TypingPage
<1> QED
  BY <1>1, <1>2 DEF Typing!Init, TypingInv, Typing!TypistIsThere

LEMMA StoppedTyped == TypingInv => Typing!Stopped(input) \in TypingInput
<1> SUFFICES ASSUME input \in TypingInput PROVE Typing!Stopped(input) \in TypingInput
  BY DEF TypingInv
<1>1. [to |-> input.to, active |-> FALSE] \in TypingCall /\ Everyone \in Typing!Conversations
  BY DEF TypingInput, TypingCall, Typing!Conversations
<1>2. Append(input.calls, [to |-> input.to, active |-> FALSE]) \in Seq(TypingCall)
  BY <1>1 DEF TypingInput
<1> QED
  BY <1>1, <1>2 DEF Typing!Stopped, Typing!Called, TypingInput

LEMMA BroadcastTyped ==
    ASSUME TypingInv, NEW S, NEW active \in BOOLEAN, Typing!Broadcast(S, active)
    PROVE  DOMAIN typingPages' = Onlookers /\ \A u \in Onlookers : typingPages'[u] \in TypingPage(u)
<1>1. ASSUME NEW u \in Onlookers PROVE typingPages'[u] \in TypingPage(u)
  <2>1. [to |-> S \cap {u, Everyone}, active |-> active] \in TypingEvent(u)
    BY DEF TypingEvent
  <2>2. [typingPages[u] EXCEPT !.queue = Append(@, [to |-> S \cap {u, Everyone}, active |-> active])] \in TypingPage(u)
    BY <2>1 DEF TypingInv, TypingPage
  <2> QED
    BY <2>2 DEF Typing!Broadcast, TypingInv
<1> QED
  BY <1>1 DEF Typing!Broadcast

LEMMA TypingKept == TypingInv /\ [Typing!Next]_typingVars => TypingInv'
<1> SUFFICES ASSUME TypingInv, [Typing!Next]_typingVars PROVE TypingInv'
  OBVIOUS
<1>1. CASE UNCHANGED typingVars
  BY <1>1 DEF typingVars, TypingInv, Typing!TypistIsThere
<1>2. CASE Typing!Types
  <2>1. input' \in TypingInput
    <3>1. input \in TypingInput
      BY DEF TypingInv
    <3>2. [to |-> input.open, active |-> TRUE] \in TypingCall
      BY <3>1 DEF TypingInput, TypingCall
    <3>3. Append(input.calls, [to |-> input.open, active |-> TRUE]) \in Seq(TypingCall)
      BY <3>1, <3>2 DEF TypingInput
    <3> QED
      BY <1>2, <3>1, <3>3 DEF Typing!Types, Typing!Called, TypingInput
  <2> QED
    BY <1>2, <2>1 DEF Typing!Types, TypingInv, Typing!TypistIsThere
<1>3. CASE Typing!Stops
  BY <1>3, StoppedTyped DEF Typing!Stops, TypingInv, Typing!TypistIsThere
<1>4. CASE Typing!Switches
  <2>1. input' \in TypingInput
    BY <1>4, StoppedTyped DEF Typing!Switches, TypingInput
  <2> QED
    BY <1>4, <2>1 DEF Typing!Switches, TypingInv, Typing!TypistIsThere
<1>5. ASSUME NEW n \in DOMAIN input.calls, input' = [input EXCEPT !.calls = Typing!Without(@, n)]
      PROVE  input' \in TypingInput
  BY <1>5, Removed DEF TypingInv, TypingInput
<1>6. CASE Typing!CallServed
  <2>1. input' \in TypingInput
    BY <1>6, <1>5 DEF Typing!CallServed
  <2>2. PICK n \in DOMAIN input.calls :
           \/ UNCHANGED <<states, typingPages>>
           \/ /\ Typist \in connected
              /\ states' = IF input.calls[n].active THEN states \cup {input.calls[n].to}
                           ELSE states \ {input.calls[n].to}
              /\ Typing!Broadcast({input.calls[n].to}, input.calls[n].active)
    BY <1>6 DEF Typing!CallServed
  <2>3. input.calls[n] \in TypingCall
    BY DEF TypingInv, TypingInput
  <2>4. input.calls[n].to \in Typing!Conversations /\ input.calls[n].active \in BOOLEAN
    BY <2>3 DEF TypingCall
  <2>5. connected' = connected
    BY <1>6 DEF Typing!CallServed
  <2>6. CASE UNCHANGED <<states, typingPages>>
    BY <2>1, <2>5, <2>6 DEF TypingInv, Typing!TypistIsThere
  <2>7. CASE ~UNCHANGED <<states, typingPages>>
    <3>1. DOMAIN typingPages' = Onlookers /\ \A u \in Onlookers : typingPages'[u] \in TypingPage(u)
      BY <2>2, <2>4, <2>7, BroadcastTyped
    <3> QED
      BY <2>1, <2>2, <2>4, <2>5, <2>7, <3>1 DEF TypingInv, Typing!TypistIsThere
  <2> QED
    BY <2>6, <2>7
<1>7. CASE Typing!CallFails
  BY <1>7, <1>5 DEF Typing!CallFails, TypingInv, Typing!TypistIsThere
<1>8. CASE Typing!Expires
  BY <1>8, BroadcastTyped DEF Typing!Expires, TypingInv, Typing!TypistIsThere
<1>9. CASE Typing!EventArrives
  <2>1. PICK u \in Onlookers :
           /\ typingPages[u].queue # <<>>
           /\ typingPages' = [typingPages EXCEPT ![u] =
                  [queue |-> Tail(@.queue),
                   remote |-> IF Head(typingPages[u].queue).active THEN @.remote \cup Head(typingPages[u].queue).to
                              ELSE @.remote \ Head(typingPages[u].queue).to]]
    BY <1>9 DEF Typing!EventArrives
  <2>2. typingPages[u] \in TypingPage(u)
    BY DEF TypingInv
  <2>3. Tail(typingPages[u].queue) \in Seq(TypingEvent(u)) /\ Head(typingPages[u].queue).to \in SUBSET {u, Everyone}
    <3>1. typingPages[u].queue \in Seq(TypingEvent(u)) /\ typingPages[u].queue # <<>>
      BY <2>1, <2>2 DEF TypingPage
    <3>2. Head(typingPages[u].queue) \in TypingEvent(u) /\ Tail(typingPages[u].queue) \in Seq(TypingEvent(u))
      BY <3>1, HeadTailProperties
    <3> QED
      BY <3>2 DEF TypingEvent
  <2>4. typingPages'[u] \in TypingPage(u)
    BY <2>1, <2>2, <2>3 DEF TypingPage, TypingInv
  <2>5. DOMAIN typingPages' = Onlookers /\ \A v \in Onlookers : typingPages'[v] \in TypingPage(v)
    BY <2>1, <2>4 DEF TypingInv
  <2> QED
    BY <1>9, <2>5 DEF Typing!EventArrives, TypingInv, Typing!TypistIsThere
<1>10. CASE Typing!RemoteExpires
  <2>1. DOMAIN typingPages' = Onlookers /\ \A v \in Onlookers : typingPages'[v] \in TypingPage(v)
    BY <1>10 DEF Typing!RemoteExpires, TypingInv, TypingPage
  <2> QED
    BY <1>10, <2>1 DEF Typing!RemoteExpires, TypingInv, Typing!TypistIsThere
<1>11. CASE Typing!TypistLost
  BY <1>11, BroadcastTyped DEF Typing!TypistLost, TypingInv, Typing!TypistIsThere
<1>12. CASE Typing!OtherLost
  <2>1. DOMAIN typingPages' = Onlookers /\ \A v \in Onlookers : typingPages'[v] \in TypingPage(v)
    <3>1. PICK u \in connected \ {Typist} : typingPages' = [typingPages EXCEPT ![u].queue = <<>>]
      BY <1>12 DEF Typing!OtherLost
    <3>2. u \in Onlookers /\ typingPages[u] \in TypingPage(u)
      BY DEF TypingInv
    <3>3. [typingPages[u] EXCEPT !.queue = <<>>] \in TypingPage(u)
      <4>1. <<>> \in Seq(TypingEvent(u))
        BY EmptySeq
      <4> QED
        BY <3>2, <4>1 DEF TypingPage
    <3> QED
      BY <3>1, <3>2, <3>3 DEF TypingInv
  <2> QED
    BY <1>12, <2>1 DEF Typing!OtherLost, TypingInv, Typing!TypistIsThere
<1>13. CASE Typing!Reconnects
  BY <1>13 DEF Typing!Reconnects, TypingInv, Typing!TypistIsThere
<1> QED
  BY <1>1, <1>2, <1>3, <1>4, <1>6, <1>7, <1>8, <1>9, <1>10, <1>11, <1>12, <1>13 DEF Typing!Next

-----------------------------------------------------------------------------
(* The messages and what a page has of them. *)

ChatMessage == [from : Chat!Users, to : {Everyone, Viewer} \cup Peers]
PublicsOf(m) == {i \in DOMAIN m : m[i].to = Everyone}
DirectsOf(m) == DOMAIN m \ PublicsOf(m)
FromPeer(m, p) == {i \in DirectsOf(m) : m[i].from # Viewer /\ m[i].from = p}

\* What is cleared is older than what is not.
StoredOf(m, c) ==
    /\ m \in Seq(ChatMessage) /\ Len(m) <= MaxMessages
    /\ c \subseteq PublicsOf(m)
    /\ \A i \in c, j \in PublicsOf(m) \ c : i < j

StoredInv == StoredOf(msgs, cleared) /\ ignored \subseteq Peers /\ banned \in BOOLEAN

\* Of the public messages of S, T lacks those that are cleared or have enough newer ones in T.
NothingLost(S, T, m, c) ==
    \A i \in S \cap PublicsOf(m) :
        i \in T \/ i \in c \/ Cardinality(Newer(T \cap PublicsOf(m), i)) >= Limit

\* The history that the server has
Top(m, c) == Chat!Newest(PublicsOf(m) \ c)

LEMMA Places ==
    ASSUME NEW m, NEW c, StoredOf(m, c)
    PROVE  /\ DOMAIN m \subseteq Nat /\ IsFiniteSet(DOMAIN m)
           /\ \A i \in DOMAIN m : m[i] \in ChatMessage
           /\ \A S \in SUBSET DOMAIN m : S \subseteq Nat /\ IsFiniteSet(S) /\ Cardinality(S) \in Nat
           /\ PublicsOf(m) \subseteq DOMAIN m /\ DirectsOf(m) \subseteq DOMAIN m
<1>1. m \in Seq(ChatMessage) /\ DOMAIN m = 1 .. Len(m) /\ Len(m) \in Nat
  BY DEF StoredOf
<1>2. IsFiniteSet(DOMAIN m)
  BY <1>1, FS_Interval
<1>3. DOMAIN m \subseteq Nat
  BY <1>1
<1>4. ASSUME NEW S \in SUBSET DOMAIN m PROVE S \subseteq Nat /\ IsFiniteSet(S) /\ Cardinality(S) \in Nat
  BY <1>2, <1>3, FS_Subset, FS_CardinalityType
<1> QED
  BY <1>1, <1>2, <1>3, <1>4 DEF PublicsOf, DirectsOf

LEMMA SamePublics == Chat!Publics = PublicsOf(msgs) /\ Chat!Directs = DirectsOf(msgs)
  BY DEF Chat!Publics, Chat!IsPublic, Chat!Directs, PublicsOf, DirectsOf

\* trimOldestChatMessages loses only what is older than the messages it keeps.
LEMMA Trim ==
    ASSUME StoredInv, NEW S, NEW A \in SUBSET DOMAIN msgs, NothingLost(S, A, msgs, cleared)
    PROVE  /\ Chat!Trimmed(A) \in SUBSET DOMAIN msgs
           /\ Cardinality(Chat!Trimmed(A) \cap PublicsOf(msgs)) <= Limit
           /\ Chat!Trimmed(A) \cap DirectsOf(msgs) = A \cap DirectsOf(msgs)
           /\ NothingLost(S, Chat!Trimmed(A), msgs, cleared)
<1> DEFINE P == PublicsOf(msgs)
           N == Chat!Newest(A \cap P)
<1>1. A \cap P \subseteq Nat /\ IsFiniteSet(A \cap P)
  BY Places DEF StoredInv
<1>2. N \subseteq A \cap P /\ IsFiniteSet(N) /\ Cardinality(N) <= Limit
  BY <1>1, NewestFew
<1>3. Chat!Trimmed(A) = N \cup (A \cap DirectsOf(msgs))
  BY SamePublics DEF Chat!Trimmed
<1>4. Chat!Trimmed(A) \cap P = N /\ Chat!Trimmed(A) \cap DirectsOf(msgs) = A \cap DirectsOf(msgs)
  BY <1>2, <1>3 DEF DirectsOf
<1>5. ASSUME NEW i \in S \cap P, i \notin Chat!Trimmed(A), i \notin cleared
      PROVE  Cardinality(Newer(N, i)) >= Limit
  <2>1. i \in Nat
    BY Places DEF StoredInv
  <2>2. Cardinality(Newer(A \cap P, i)) >= Limit
    <3>1. CASE i \in A
      <4>1. Cardinality(Newer(A \cap P, i)) \in Nat
        BY <1>1, NewerGrows
      <4>2. i \in A \cap P /\ i \notin N
        BY <1>3, <1>5, <3>1
      <4>3. ~(Cardinality(Newer(A \cap P, i)) < Limit)
        BY <4>2, NewestIs
      <4> QED
        BY <4>1, <4>3, ChatBounds
    <3>2. CASE i \notin A
      BY <1>5, <3>2 DEF NothingLost
    <3> QED
      BY <3>1, <3>2
  <2> QED
    BY <1>1, <2>1, <2>2, NewestMany
<1>6. NothingLost(S, Chat!Trimmed(A), msgs, cleared)
  BY <1>4, <1>5 DEF NothingLost
<1> QED
  BY <1>2, <1>3, <1>4, <1>6

\* Where nothing is lost, the history that the server has is not lost.
LEMMA TopStays ==
    ASSUME NEW m, NEW c, StoredOf(m, c), NEW S, NEW T \in SUBSET DOMAIN m, NothingLost(S, T, m, c)
    PROVE  Top(m, c) \cap S \subseteq T
<1> DEFINE P == PublicsOf(m)
<1> SUFFICES ASSUME NEW i \in Top(m, c), i \in S, i \notin T PROVE FALSE
  OBVIOUS
<1>1. i \in P /\ i \notin c /\ i \in Nat /\ Cardinality(Newer(P \ c, i)) < Limit
  BY NewestIs, Places DEF Top
<1>2. Cardinality(Newer(T \cap P, i)) >= Limit
  BY <1>1 DEF NothingLost
<1>3. Newer(T \cap P, i) \subseteq Newer(P \ c, i)
  <2>1. ASSUME NEW j \in Newer(T \cap P, i), j \in c PROVE FALSE
    <3>1. j < i /\ j > i /\ j \in Nat
      BY <1>1, <2>1, Places DEF StoredOf, Newer
    <3> QED
      BY <1>1, <3>1
  <2> QED
    BY <2>1 DEF Newer
<1>4. Newer(P \ c, i) \in SUBSET DOMAIN m /\ Newer(T \cap P, i) \in SUBSET DOMAIN m
  BY Places DEF Newer
<1>5. Cardinality(Newer(T \cap P, i)) <= Cardinality(Newer(P \ c, i))
  BY <1>3, <1>4, Places, FS_Subset
<1>6. Cardinality(Newer(T \cap P, i)) \in Nat /\ Cardinality(Newer(P \ c, i)) \in Nat
  BY <1>4, Places
<1> HIDE DEF P
<1> QED
  BY <1>1, <1>2, <1>5, <1>6, ChatBounds

\* A request is answered with all that matters of what the page knows.
LEMMA TopServes ==
    ASSUME NEW m, NEW c, StoredOf(m, c), NEW S
    PROVE  NothingLost(S, Top(m, c), m, c) /\ Top(m, c) \subseteq PublicsOf(m) \ c
<1> DEFINE P == PublicsOf(m)
<1>1. P \ c \in SUBSET DOMAIN m /\ P \ c \subseteq Nat /\ IsFiniteSet(P \ c)
  BY Places
<1>2. Top(m, c) \subseteq P \ c
  BY NewestIs DEF Top
<1>3. ASSUME NEW i \in S \cap P, i \notin Top(m, c), i \notin c
      PROVE  Cardinality(Newer(Top(m, c) \cap P, i)) >= Limit
  <2>1. i \in Nat /\ Cardinality(Newer(P \ c, i)) \in Nat
    BY <1>1, <1>3, NewerGrows, Places
  <2>2. Cardinality(Newer(P \ c, i)) >= Limit
    BY <1>3, <2>1, NewestIs, ChatBounds DEF Top
  <2>3. Top(m, c) \cap P = Top(m, c)
    BY <1>2
  <2> QED
    BY <1>1, <2>1, <2>2, <2>3, NewestMany DEF Top
<1> QED
  BY <1>2, <1>3 DEF NothingLost

\* Later, there are more messages and more of them are cleared.
Grown(m, c, n, d) ==
    /\ DOMAIN m \subseteq DOMAIN n /\ \A i \in DOMAIN m : n[i] = m[i]
    /\ c \subseteq d

LEMMA GrownSets ==
    ASSUME NEW m, NEW c, NEW n, NEW d, Grown(m, c, n, d)
    PROVE  /\ PublicsOf(m) = PublicsOf(n) \cap DOMAIN m /\ DirectsOf(m) = DirectsOf(n) \cap DOMAIN m
           /\ \A p : FromPeer(m, p) = FromPeer(n, p) \cap DOMAIN m
  BY DEF Grown, PublicsOf, DirectsOf, FromPeer

LEMMA LostLater ==
    ASSUME NEW m, NEW c, NEW n, NEW d, Grown(m, c, n, d), NEW S \in SUBSET DOMAIN m, NEW T \in SUBSET DOMAIN m,
           NothingLost(S, T, m, c)
    PROVE  NothingLost(S, T, n, d)
<1>1. S \cap PublicsOf(n) = S \cap PublicsOf(m) /\ T \cap PublicsOf(n) = T \cap PublicsOf(m)
  BY GrownSets
<1> QED
  BY <1>1 DEF NothingLost, Grown

-----------------------------------------------------------------------------
(* A page *)

Snapshot == [public : SUBSET Nat, ign : SUBSET Peers, direct : SUBSET Nat]
Asked == [known : SUBSET Nat, snap : Snapshot \cup {None}]
AskedAgain == [known : SUBSET Nat, snap : Snapshot \cup {None}, current : BOOLEAN]
DirectAnswer == [ids : SUBSET Nat, ign : BOOLEAN]
Load == [peer : Peers, snap : DirectAnswer \cup {None}, known : SUBSET Nat]
Post == [kind : {"send", "touch", "clear", "ignore", "restore"}, conv : Chat!Conversations, id : Nat, done : BOOLEAN]

ChatPage ==
    [shown : SUBSET Nat, flags : SUBSET Peers, known : BOOLEAN, selected : Chat!Conversations,
     unread : [Peers -> Nat], inbox : BOOLEAN, loaded : SUBSET Peers, ready : BOOLEAN,
     conn : Asked \cup {None}, reload : AskedAgain \cup {None}, again : BOOLEAN,
     loads : SUBSET Load, posts : SUBSET Post, composer : BOOLEAN, suspended : BOOLEAN,
     failed : BOOLEAN, live : BOOLEAN, fresh : BOOLEAN, twice : SUBSET Peers]

\* What messages, answers and preferences leave as it is.
SameWaiting(pg, n) ==
    /\ n.selected = pg.selected /\ n.loaded = pg.loaded /\ n.ready = pg.ready
    /\ n.conn = pg.conn /\ n.reload = pg.reload /\ n.again = pg.again
    /\ n.loads = pg.loads /\ n.posts = pg.posts /\ n.composer = pg.composer
    /\ n.suspended = pg.suspended /\ n.failed = pg.failed /\ n.live = pg.live /\ n.fresh = pg.fresh

\* Messages of p that are there, and that no load under way will take back
Kept(pg, m, p) == (pg.shown \cap FromPeer(m, p)) \ UNION {l.known : l \in pg.loads}

\* A badge counts no more than them.
BadgesOf(pg, m) ==
    \A p \in Peers :
        /\ p \notin pg.twice => pg.unread[p] <= Cardinality(Kept(pg, m, p))
        /\ pg.selected = p => pg.unread[p] = 0

ShownOf(pg, m) == pg.shown \subseteq DOMAIN m /\ Cardinality(pg.shown \cap PublicsOf(m)) <= Limit

\* n is what pg becomes by an answer or an event that brings the messages of G.
Takes(pg, n, G) ==
    /\ n \in ChatPage /\ SameWaiting(pg, n)
    /\ ShownOf(n, msgs) /\ NothingLost(pg.shown \cup G, n.shown, msgs, cleared)
    /\ BadgesOf(n, msgs)

LEMMA WithShown ==
    ASSUME NEW pg \in ChatPage, NEW S \in SUBSET Nat, NEW n, n = [pg EXCEPT !.shown = S]
    PROVE  /\ n \in ChatPage /\ SameWaiting(pg, n)
           /\ n.shown = S /\ n.flags = pg.flags /\ n.unread = pg.unread /\ n.twice = pg.twice
           /\ n.inbox = pg.inbox /\ n.known = pg.known
  BY DEF ChatPage, SameWaiting

LEMMA SameTransitive ==
    ASSUME NEW pg, NEW n, NEW q, SameWaiting(pg, n), SameWaiting(n, q)
    PROVE  SameWaiting(pg, q)
  BY DEF SameWaiting

LEMMA KeptFinite ==
    ASSUME StoredInv, NEW pg, NEW p
    PROVE  Kept(pg, msgs, p) \in SUBSET DOMAIN msgs /\ IsFiniteSet(Kept(pg, msgs, p)) /\ Cardinality(Kept(pg, msgs, p)) \in Nat
<1>1. Kept(pg, msgs, p) \in SUBSET DOMAIN msgs
  BY DEF Kept, FromPeer, DirectsOf
<1> QED
  BY <1>1, Places DEF StoredInv

LEMMA MoreKept ==
    ASSUME StoredInv, NEW pg, NEW n, NEW p, Kept(pg, msgs, p) \subseteq Kept(n, msgs, p)
    PROVE  Cardinality(Kept(pg, msgs, p)) <= Cardinality(Kept(n, msgs, p))
  BY KeptFinite, FS_Subset

\* The public collection takes what nothing is lost by.
LEMMA TakesPublic ==
    ASSUME StoredInv, NEW pg \in ChatPage, BadgesOf(pg, msgs), NEW G,
           NEW A \in SUBSET DOMAIN msgs, A \cap DirectsOf(msgs) = pg.shown \cap DirectsOf(msgs),
           NothingLost(pg.shown \cup G, A, msgs, cleared)
    PROVE  Takes(pg, [pg EXCEPT !.shown = Chat!Trimmed(A)], G)
<1> DEFINE T == Chat!Trimmed(A)
           n == [pg EXCEPT !.shown = T]
<1>1. /\ T \in SUBSET DOMAIN msgs /\ Cardinality(T \cap PublicsOf(msgs)) <= Limit
      /\ T \cap DirectsOf(msgs) = A \cap DirectsOf(msgs)
      /\ NothingLost(pg.shown \cup G, T, msgs, cleared)
  BY Trim
<1>2. T \in SUBSET Nat
  BY <1>1, Places DEF StoredInv
<1>3. n \in ChatPage /\ SameWaiting(pg, n) /\ n.shown = T /\ n.unread = pg.unread /\ n.twice = pg.twice
  BY <1>2, WithShown
<1>4. ASSUME NEW p \in Peers PROVE Kept(n, msgs, p) = Kept(pg, msgs, p)
  BY <1>1, <1>3 DEF Kept, FromPeer, SameWaiting
<1>5. BadgesOf(n, msgs)
  BY <1>3, <1>4 DEF BadgesOf, SameWaiting
<1> QED
  BY <1>1, <1>3, <1>5 DEF Takes, ShownOf

LEMMA TakesFlags ==
    ASSUME NEW pg, NEW n, NEW G, Takes(pg, n, G), NEW q \in ChatPage, SameWaiting(n, q),
           q.shown = n.shown, q.unread = n.unread, q.twice = n.twice
    PROVE  Takes(pg, q, G)
<1>1. \A p \in Peers : Kept(q, msgs, p) = Kept(n, msgs, p)
  BY DEF Kept, SameWaiting
<1>2. BadgesOf(q, msgs)
  BY <1>1 DEF BadgesOf, Takes, SameWaiting
<1>3. SameWaiting(pg, q)
  BY SameTransitive DEF Takes
<1> QED
  BY <1>2, <1>3 DEF Takes, ShownOf

LEMMA TakesSuppressed ==
    ASSUME StoredInv, NEW pg, NEW n, NEW G, Takes(pg, n, G), NEW P \in SUBSET Peers
    PROVE  Takes(pg, Chat!Suppressed(n, P), G)
<1> DEFINE S == {i \in n.shown : Chat!IsPublic(i) \/ Chat!Mine(i) \/ Chat!Peer(i) \notin P}
           u == [p \in Peers |-> IF p \in P THEN 0 ELSE n.unread[p]]
           q == [n EXCEPT !.shown = S, !.unread = u, !.twice = n.twice]
<1>0. n \in ChatPage
  BY DEF Takes
<1>1. S \in SUBSET Nat /\ S \subseteq n.shown /\ u \in [Peers -> Nat] /\ n.twice \in SUBSET Peers
  BY <1>0 DEF ChatPage
<1>2. Chat!Suppressed(n, P) = q
  BY <1>0 DEF Chat!Suppressed, ChatPage
<1>3. /\ q \in ChatPage /\ SameWaiting(n, q) /\ q.shown = S /\ q.unread = u /\ q.twice = n.twice
  <2>1. q = [n EXCEPT !.shown = S, !.unread = u, !.twice = n.twice]
    OBVIOUS
  <2> HIDE DEF S, u, q
  <2> QED
    BY <1>0, <1>1, <2>1 DEF ChatPage, SameWaiting
<1>4. S \cap PublicsOf(msgs) = n.shown \cap PublicsOf(msgs)
  BY DEF PublicsOf, Chat!IsPublic
<1>5. ASSUME NEW p \in Peers \ P PROVE Kept(q, msgs, p) = Kept(n, msgs, p)
  <2>1. S \cap FromPeer(msgs, p) = n.shown \cap FromPeer(msgs, p)
    BY DEF FromPeer, Chat!Mine, Chat!Peer
  <2> QED
    BY <1>3, <2>1 DEF Kept, SameWaiting
<1>6. BadgesOf(q, msgs)
  <2>1. ASSUME NEW p \in Peers, p \notin q.twice PROVE q.unread[p] <= Cardinality(Kept(q, msgs, p))
    <3>1. CASE p \in P
      BY <1>3, <3>1, KeptFinite
    <3>2. CASE p \notin P
      BY <1>3, <1>5, <2>1, <3>2 DEF Takes, BadgesOf
    <3> QED
      BY <3>1, <3>2
  <2>2. ASSUME NEW p \in Peers, q.selected = p PROVE q.unread[p] = 0
    BY <1>3, <2>2 DEF Takes, BadgesOf, SameWaiting
  <2> QED
    BY <2>1, <2>2 DEF BadgesOf
<1>7. NothingLost(pg.shown \cup G, S, msgs, cleared)
  BY <1>4 DEF Takes, NothingLost
<1>8. ShownOf(q, msgs)
  BY <1>1, <1>3, <1>4 DEF Takes, ShownOf
<1> HIDE DEF q
<1>9. SameWaiting(pg, q)
  BY <1>3, SameTransitive DEF Takes
<1> QED
  BY <1>2, <1>3, <1>6, <1>7, <1>8, <1>9 DEF Takes

\* reconcileDirectMessages counts a message once, where no load may take it back.
LEMMA TakesDirects ==
    ASSUME StoredInv, NEW pg, NEW n, NEW G, Takes(pg, n, G), NEW S \in SUBSET DirectsOf(msgs), NEW count \in BOOLEAN
    PROVE  Takes(pg, Chat!WithDirects(n, S, count), G)
<1> DEFINE got == {i \in S : Chat!Mine(i) \/ Chat!Peer(i) \notin n.flags}
           new(p) == {i \in got \ n.shown : ~Chat!Mine(i) /\ Chat!Peer(i) = p}
           counted == IF count THEN Peers \ {n.selected} ELSE {}
           u == [p \in Peers |-> IF p \in counted THEN n.unread[p] + Cardinality(new(p)) ELSE n.unread[p]]
           t == n.twice \cup {p \in counted : \E l \in n.loads : new(p) \cap l.known # {}}
           q == [n EXCEPT !.shown = n.shown \cup got, !.unread = u, !.twice = t]
<1>0. n \in ChatPage
  BY DEF Takes
<1>1. ASSUME NEW p \in Peers
      PROVE  new(p) \in SUBSET FromPeer(msgs, p) /\ IsFiniteSet(new(p)) /\ Cardinality(new(p)) \in Nat
  <2>1. new(p) \in SUBSET FromPeer(msgs, p)
    BY DEF FromPeer, Chat!Mine, Chat!Peer
  <2>2. new(p) \in SUBSET DOMAIN msgs
    BY <2>1 DEF FromPeer, DirectsOf
  <2> QED
    BY <2>1, <2>2, Places DEF StoredInv
<1>2. got \in SUBSET DOMAIN msgs /\ got \in SUBSET Nat /\ got \cap PublicsOf(msgs) = {}
  BY Places DEF StoredInv, DirectsOf
<1>3. u \in [Peers -> Nat] /\ t \in SUBSET Peers /\ n.shown \cup got \in SUBSET Nat
  <2>1. ASSUME NEW p \in Peers PROVE u[p] \in Nat
    <3>1. n.unread[p] \in Nat /\ Cardinality(new(p)) \in Nat
      BY <1>0, <1>1 DEF ChatPage
    <3> HIDE DEF counted, new
    <3> QED
      BY <3>1
  <2>2. u \in [Peers -> Nat]
    <3> HIDE DEF counted, new
    <3> QED
      BY <2>1
  <2>3. t \in SUBSET Peers
    BY <1>0 DEF ChatPage
  <2> QED
    BY <1>0, <1>2, <2>2, <2>3 DEF ChatPage
<1>4. Chat!WithDirects(n, S, count) = q
  <2>1. \A A : Chat!Cardinality(A) = Cardinality(A)
    BY SameCount
  <2> QED
    BY <1>0, <2>1 DEF Chat!WithDirects, ChatPage
<1>5. q \in ChatPage /\ SameWaiting(n, q) /\ q.shown = n.shown \cup got /\ q.unread = u /\ q.twice = t
  <2>1. q = [n EXCEPT !.shown = n.shown \cup got, !.unread = u, !.twice = t]
    OBVIOUS
  <2> HIDE DEF got, u, t, q
  <2> QED
    BY <1>0, <1>3, <2>1 DEF ChatPage, SameWaiting
<1>6. ASSUME NEW p \in Peers PROVE Kept(n, msgs, p) \subseteq Kept(q, msgs, p)
  BY <1>5 DEF Kept, SameWaiting
<1>7. BadgesOf(q, msgs)
  <2>1. ASSUME NEW p \in Peers, p \notin q.twice PROVE q.unread[p] <= Cardinality(Kept(q, msgs, p))
    <3>0. /\ n.unread[p] <= Cardinality(Kept(n, msgs, p)) /\ n.unread[p] \in Nat
      BY <1>0, <1>5, <2>1 DEF Takes, BadgesOf, ChatPage
    <3>1. CASE p \notin counted
      <4>1. q.unread[p] = n.unread[p]
        <5> HIDE DEF counted, new
        <5> QED
          BY <1>5, <3>1
      <4>2. Cardinality(Kept(n, msgs, p)) <= Cardinality(Kept(q, msgs, p))
        BY <1>6, MoreKept
      <4> HIDE DEF q
      <4> QED
        BY <3>0, <4>1, <4>2, KeptFinite
    <3>2. CASE p \in counted
      <4>1. \A l \in n.loads : new(p) \cap l.known = {}
        BY <1>5, <2>1, <3>2
      <4>2. new(p) \cup Kept(n, msgs, p) \subseteq Kept(q, msgs, p)
        <5>1. ASSUME NEW i \in new(p) PROVE i \in Kept(q, msgs, p)
          <6>1. i \in FromPeer(msgs, p) /\ i \in got
            BY <1>1
          <6>2. q.loads = n.loads /\ i \in q.shown
            BY <1>5, <6>1 DEF SameWaiting
          <6>3. ASSUME NEW l \in n.loads PROVE i \notin l.known
            BY <4>1
          <6> QED
            BY <6>1, <6>2, <6>3 DEF Kept
        <5> QED
          BY <1>6, <5>1
      <4>3. new(p) \cap Kept(n, msgs, p) = {}
        BY DEF Kept
      <4>4. Cardinality(new(p) \cup Kept(n, msgs, p)) = Cardinality(new(p)) + Cardinality(Kept(n, msgs, p))
        <5>1. Cardinality({}) = 0
          BY FS_EmptySet
        <5> HIDE DEF new
        <5> QED
          BY <1>1, <4>3, <5>1, KeptFinite, FS_Union
      <4>5. Cardinality(new(p) \cup Kept(n, msgs, p)) <= Cardinality(Kept(q, msgs, p))
        BY <4>2, KeptFinite, FS_Subset
      <4>6. q.unread[p] = n.unread[p] + Cardinality(new(p))
        BY <1>5, <3>2
      <4> QED
        BY <1>1, <3>0, <4>4, <4>5, <4>6, KeptFinite
    <3> QED
      BY <3>1, <3>2
  <2>2. ASSUME NEW p \in Peers, q.selected = p PROVE q.unread[p] = 0
    BY <1>5, <2>2 DEF Takes, BadgesOf, SameWaiting
  <2> QED
    BY <2>1, <2>2 DEF BadgesOf
<1>8. q.shown \cap PublicsOf(msgs) = n.shown \cap PublicsOf(msgs)
  BY <1>2, <1>5
<1>9. NothingLost(pg.shown \cup G, q.shown, msgs, cleared)
  BY <1>8 DEF Takes, NothingLost
<1>10. ShownOf(q, msgs)
  BY <1>2, <1>5, <1>8 DEF Takes, ShownOf
<1> HIDE DEF q
<1>11. SameWaiting(pg, q)
  BY <1>5, SameTransitive DEF Takes
<1> QED
  BY <1>4, <1>5, <1>7, <1>9, <1>10, <1>11 DEF Takes

-----------------------------------------------------------------------------
(* What a page waits for, and what comes to it. *)

\* The answer of a request misses of what was known only what is cleared or has enough newer ones.
SoundRequest(r, m, c) ==
    /\ r.known \subseteq PublicsOf(m)
    /\ r.snap # None => /\ r.snap.public \subseteq PublicsOf(m) /\ r.snap.direct \subseteq DirectsOf(m)
                        /\ NothingLost(r.known, r.snap.public, m, c)

SoundLoads(pg, m) ==
    \A l \in pg.loads : /\ l.known \subseteq DirectsOf(m)
                        /\ l.snap # None => l.snap.ids \subseteq DirectsOf(m)

\* One message at a time is sent, and what is touched exists.
SoundPosts(pg, m) ==
    /\ \A a \in pg.posts : /\ a.kind \in {"ignore", "restore"} => a.conv \in Peers
                           /\ (a.kind = "touch" \/ (a.kind = "send" /\ a.done)) => a.id \in DOMAIN m
                           /\ a.kind = "send" => pg.composer
    /\ \A a, b \in pg.posts : (a.kind = "send" /\ b.kind = "send") => a = b

Waits(pg, m, c) ==
    /\ pg.conn # None => SoundRequest(pg.conn, m, c)
    /\ pg.reload # None => SoundRequest(pg.reload, m, c)
    /\ SoundLoads(pg, m) /\ SoundPosts(pg, m)

PageOf(pg, m, c) == pg \in ChatPage /\ ShownOf(pg, m) /\ BadgesOf(pg, m) /\ Waits(pg, m, c)

Event == [kind : {"ready", "access"}] \cup [kind : {"message"}, id : Nat, cleared : BOOLEAN]
         \cup [kind : {"recipients", "preferences"}, ign : SUBSET Peers]
Coming(q) == {q[k].id : k \in {j \in DOMAIN q : q[j].kind = "message"}}
Stream == [st : {"none", "asked", "authorized", "open", "ended", "refused"}, ign : SUBSET Peers,
           lists : SUBSET SUBSET Peers, queue : Seq(Event)]

\* An event tells of a message that exists, and says it is cleared only when it is.
EventOf(e, m, c) == e.kind = "message" => e.id \in DOMAIN m /\ (e.cleared => e.id \in c)

StreamOf(s, m, c) ==
    /\ s \in Stream
    /\ \A k \in DOMAIN s.queue : EventOf(s.queue[k], m, c)
    /\ s.st \notin {"open", "ended"} => s.queue = <<>>
    /\ s.st # "open" => s.lists = {}

\* A history that counts as current has, with what is on its way, all that the server has.
FreshOf(pg, s, m, c) ==
    /\ (pg.fresh \/ pg.live \/ (pg.reload # None /\ pg.reload.current)) => s.st \in {"open", "ended"}
    /\ pg.conn # None => s.st = "none"
    /\ (pg.fresh /\ s.st = "open") => Top(m, c) \subseteq pg.shown \cup Coming(s.queue)
    /\ (pg.reload # None /\ pg.reload.current /\ pg.reload.snap # None /\ s.st = "open")
          => Top(m, c) \subseteq pg.shown \cup Coming(s.queue) \cup pg.reload.snap.public

ChatInv ==
    /\ StoredInv /\ StreamOf(chatStream, msgs, cleared)
    /\ PageOf(chatPage, msgs, cleared) /\ FreshOf(chatPage, chatStream, msgs, cleared)

LEMMA TakesItself ==
    ASSUME NEW pg, PageOf(pg, msgs, cleared)
    PROVE  Takes(pg, pg, {})
  BY DEF PageOf, Takes, SameWaiting, NothingLost

LEMMA TakesKeeps ==
    ASSUME NEW pg, PageOf(pg, msgs, cleared), NEW n, NEW G, Takes(pg, n, G)
    PROVE  PageOf(n, msgs, cleared)
<1>1. Waits(n, msgs, cleared)
  BY DEF PageOf, Takes, SameWaiting, Waits, SoundLoads, SoundPosts
<1> QED
  BY <1>1 DEF PageOf, Takes

LEMMA TakesFresh ==
    ASSUME StoredInv, NEW pg, NEW n, NEW G, Takes(pg, n, G), NEW s, NEW r,
           FreshOf(pg, s, msgs, cleared), r.st = s.st, Coming(s.queue) \subseteq Coming(r.queue) \cup G
    PROVE  FreshOf(n, r, msgs, cleared)
<1>1. Top(msgs, cleared) \cap (pg.shown \cup G) \subseteq n.shown
  <2>1. n.shown \in SUBSET DOMAIN msgs /\ NothingLost(pg.shown \cup G, n.shown, msgs, cleared)
    BY DEF Takes, ShownOf
  <2> QED
    BY <2>1, TopStays DEF StoredInv
<1>2. n.fresh = pg.fresh /\ n.live = pg.live /\ n.reload = pg.reload /\ n.conn = pg.conn
  BY DEF Takes, SameWaiting
<1> QED
  BY <1>1, <1>2 DEF FreshOf

LEMMA TakesHistory ==
    ASSUME StoredInv, NEW pg, PageOf(pg, msgs, cleared), NEW req, SoundRequest(req, msgs, cleared),
           req.snap # None, req.snap.ign \in SUBSET Peers, NEW count \in BOOLEAN
    PROVE  Takes(pg, Chat!WithHistory(pg, req, count), req.snap.public)
<1> DEFINE A == Chat!Reconciled(pg.shown, req.known, req.snap.public)
           n == [pg EXCEPT !.shown = Chat!Trimmed(A)]
           d == Chat!WithDirects(n, req.snap.direct, count)
           f == [d EXCEPT !.flags = req.snap.ign, !.known = TRUE]
           w == Chat!Suppressed(f, req.snap.ign)
<1>0. /\ pg \in ChatPage /\ ShownOf(pg, msgs) /\ BadgesOf(pg, msgs)
      /\ req.known \subseteq PublicsOf(msgs) /\ req.snap.public \subseteq PublicsOf(msgs)
      /\ req.snap.direct \subseteq DirectsOf(msgs)
      /\ NothingLost(req.known, req.snap.public, msgs, cleared)
  BY DEF PageOf, SoundRequest
<1>1. A \in SUBSET DOMAIN msgs /\ A \cap DirectsOf(msgs) = pg.shown \cap DirectsOf(msgs) /\ req.snap.public \subseteq A
  BY <1>0 DEF Chat!Reconciled, ShownOf, PublicsOf, DirectsOf
<1>2. ASSUME NEW i \in (pg.shown \cup req.snap.public) \cap PublicsOf(msgs), i \notin A, i \notin cleared
      PROVE  Cardinality(Newer(A \cap PublicsOf(msgs), i)) >= Limit
  <2>1. i \in req.known \cap PublicsOf(msgs) /\ i \notin req.snap.public
    BY <1>2 DEF Chat!Reconciled
  <2>2. Cardinality(Newer(req.snap.public \cap PublicsOf(msgs), i)) >= Limit
    BY <1>0, <1>2, <2>1 DEF NothingLost
  <2>3. req.snap.public \cap PublicsOf(msgs) \subseteq A \cap PublicsOf(msgs) /\ IsFiniteSet(A \cap PublicsOf(msgs))
    BY <1>1, Places DEF StoredInv
  <2> QED
    BY <2>2, <2>3, NewerGrows, ChatBounds
<1>3. NothingLost(pg.shown \cup req.snap.public, A, msgs, cleared)
  BY <1>2 DEF NothingLost
<1>4. Takes(pg, n, req.snap.public)
  <2> HIDE DEF A
  <2> QED
    BY <1>0, <1>1, <1>3, TakesPublic
<1>5. Takes(pg, d, req.snap.public)
  <2> HIDE DEF n
  <2> QED
    BY <1>0, <1>4, TakesDirects
<1>6. d \in ChatPage
  BY <1>5 DEF Takes
<1>7. Takes(pg, f, req.snap.public)
  <2> HIDE DEF d
  <2>1. f \in ChatPage /\ SameWaiting(d, f) /\ f.shown = d.shown /\ f.unread = d.unread /\ f.twice = d.twice
    BY <1>6 DEF ChatPage, SameWaiting
  <2> QED
    BY <1>5, <2>1, TakesFlags
<1>8. Takes(pg, w, req.snap.public)
  <2> HIDE DEF f
  <2> QED
    BY <1>7, TakesSuppressed
<1>9. w \in ChatPage
  BY <1>8 DEF Takes
<1>10. Takes(pg, [w EXCEPT !.inbox = TRUE], req.snap.public)
  <2> HIDE DEF w
  <2> DEFINE q == [w EXCEPT !.inbox = TRUE]
  <2>1. q \in ChatPage /\ SameWaiting(w, q) /\ q.shown = w.shown /\ q.unread = w.unread /\ q.twice = w.twice
    BY <1>9 DEF ChatPage, SameWaiting
  <2> HIDE DEF q
  <2>2. Takes(pg, q, req.snap.public)
    BY <1>8, <2>1, TakesFlags
  <2> QED
    BY <2>2 DEF q
<1>11. Chat!WithHistory(pg, req, count) = [w EXCEPT !.inbox = TRUE]
  BY DEF Chat!WithHistory, Chat!WithRecipients
<1> QED
  BY <1>10, <1>11

LEMMA TakesRecipients ==
    ASSUME StoredInv, NEW pg, PageOf(pg, msgs, cleared), NEW ign \in SUBSET Peers, NEW known \in BOOLEAN
    PROVE  Takes(pg, Chat!Suppressed([pg EXCEPT !.flags = ign, !.known = known], ign), {})
<1> DEFINE f == [pg EXCEPT !.flags = ign, !.known = known]
<1>1. pg \in ChatPage /\ Takes(pg, pg, {})
  BY TakesItself DEF PageOf
<1>2. f \in ChatPage /\ SameWaiting(pg, f) /\ f.shown = pg.shown /\ f.unread = pg.unread /\ f.twice = pg.twice
  BY <1>1 DEF ChatPage, SameWaiting
<1> HIDE DEF f
<1>3. Takes(pg, f, {})
  BY <1>1, <1>2, TakesFlags
<1> QED
  BY <1>3, TakesSuppressed DEF f

LEMMA TakesMessage ==
    ASSUME StoredInv, NEW pg, PageOf(pg, msgs, cleared), NEW i \in DOMAIN msgs, NEW count \in BOOLEAN
    PROVE  Takes(pg, Chat!WithMessage(pg, i, count), {i})
<1>0. pg \in ChatPage /\ ShownOf(pg, msgs) /\ BadgesOf(pg, msgs) /\ Takes(pg, pg, {})
  BY TakesItself DEF PageOf
<1>1. CASE i \in PublicsOf(msgs)
  <2>1. pg.shown \cup {i} \in SUBSET DOMAIN msgs /\ (pg.shown \cup {i}) \cap DirectsOf(msgs) = pg.shown \cap DirectsOf(msgs)
    BY <1>0, <1>1 DEF ShownOf, DirectsOf
  <2>2. NothingLost(pg.shown \cup {i}, pg.shown \cup {i}, msgs, cleared)
    BY DEF NothingLost
  <2>3. Chat!WithMessage(pg, i, count) = [pg EXCEPT !.shown = Chat!Trimmed(pg.shown \cup {i})]
    BY <1>1 DEF Chat!WithMessage, Chat!IsPublic, PublicsOf
  <2> QED
    BY <1>0, <2>1, <2>2, <2>3, TakesPublic
<1>2. CASE i \notin PublicsOf(msgs)
  <2>1. {i} \in SUBSET DirectsOf(msgs)
    BY <1>2 DEF DirectsOf
  <2>2. Takes(pg, Chat!WithDirects(pg, {i}, count), {})
    BY <1>0, <2>1, TakesDirects
  <2>3. Chat!WithMessage(pg, i, count) = Chat!WithDirects(pg, {i}, count)
    BY <1>2 DEF Chat!WithMessage, Chat!IsPublic, PublicsOf
  <2> QED
    BY <1>2, <2>2, <2>3 DEF Takes, NothingLost
<1> QED
  BY <1>1, <1>2

LEMMA TakesEvent ==
    ASSUME StoredInv, NEW pg, PageOf(pg, msgs, cleared), NEW e \in Event, EventOf(e, msgs, cleared), e.kind = "message"
    PROVE  Takes(pg, Chat!GotMessage(pg, e), {e.id})
<1>0. pg \in ChatPage /\ ShownOf(pg, msgs) /\ BadgesOf(pg, msgs) /\ e.id \in DOMAIN msgs /\ (e.cleared => e.id \in cleared)
  BY DEF PageOf, EventOf
<1>1. CASE e.cleared
  <2>0. e.id \in PublicsOf(msgs)
    BY <1>0, <1>1 DEF StoredInv, StoredOf
  <2>1. pg.shown \ {e.id} \in SUBSET DOMAIN msgs /\ (pg.shown \ {e.id}) \cap DirectsOf(msgs) = pg.shown \cap DirectsOf(msgs)
    BY <1>0, <2>0 DEF ShownOf, DirectsOf
  <2>2. NothingLost(pg.shown \cup {e.id}, pg.shown \ {e.id}, msgs, cleared)
    BY <1>0, <1>1 DEF NothingLost
  <2>3. Chat!GotMessage(pg, e) = [pg EXCEPT !.shown = Chat!Trimmed(pg.shown \ {e.id})]
    BY <1>1 DEF Chat!GotMessage
  <2> QED
    BY <1>0, <2>1, <2>2, <2>3, TakesPublic
<1>2. CASE ~e.cleared
  <2>1. Chat!GotMessage(pg, e) = Chat!WithMessage(pg, e.id, pg.inbox) /\ pg.inbox \in BOOLEAN
    BY <1>0, <1>2 DEF Chat!GotMessage, ChatPage
  <2> QED
    BY <1>0, <2>1, TakesMessage
<1> QED
  BY <1>1, <1>2

-----------------------------------------------------------------------------
(* What is on its way to a page. *)

LEMMA ComingMore ==
    ASSUME NEW q \in Seq(Event), NEW e \in Event
    PROVE  /\ Coming(q) \subseteq Coming(Append(q, e))
           /\ q # <<>> => /\ Head(q) \in Event /\ Tail(q) \in Seq(Event)
                          /\ Head(q).kind = "message" => Coming(q) \subseteq Coming(Tail(q)) \cup {Head(q).id}
                          /\ Head(q).kind # "message" => Coming(q) \subseteq Coming(Tail(q))
<1>1. Coming(q) \subseteq Coming(Append(q, e))
  <2>1. \A k \in DOMAIN q : k \in DOMAIN Append(q, e) /\ Append(q, e)[k] = q[k]
    OBVIOUS
  <2> QED
    BY <2>1 DEF Coming
<1>2. ASSUME q # <<>>
      PROVE  /\ Head(q) \in Event /\ Tail(q) \in Seq(Event)
             /\ Head(q).kind = "message" => Coming(q) \subseteq Coming(Tail(q)) \cup {Head(q).id}
             /\ Head(q).kind # "message" => Coming(q) \subseteq Coming(Tail(q))
  <2>1. /\ Head(q) \in Event /\ Tail(q) \in Seq(Event) /\ Len(Tail(q)) = Len(q) - 1
        /\ \A k \in 1 .. Len(Tail(q)) : Tail(q)[k] = q[k + 1]
    BY <1>2, HeadTailProperties
  <2>2. DOMAIN q = 1 .. Len(q) /\ Len(q) \in Nat /\ DOMAIN Tail(q) = 1 .. Len(Tail(q)) /\ Head(q) = q[1]
    BY <1>2, <2>1
  <2>3. ASSUME NEW k \in DOMAIN q, k # 1 PROVE k - 1 \in DOMAIN Tail(q) /\ Tail(q)[k - 1] = q[k]
    BY <2>1, <2>2, <2>3
  <2>4. ASSUME NEW k \in DOMAIN q, q[k].kind = "message", k # 1 PROVE q[k].id \in Coming(Tail(q))
    BY <2>3, <2>4 DEF Coming
  <2> QED
    BY <2>1, <2>2, <2>4 DEF Coming
<1> QED
  BY <1>1, <1>2

\* A page is as sound with more messages, and so is what is on its way to it.
LEMMA PageGrows ==
    ASSUME NEW m, NEW c, NEW n, NEW d, Grown(m, c, n, d), NEW pg, PageOf(pg, m, c)
    PROVE  PageOf(pg, n, d)
<1>1. ShownOf(pg, n) /\ pg.shown \cap PublicsOf(n) = pg.shown \cap PublicsOf(m)
  BY GrownSets DEF PageOf, ShownOf, Grown
<1>2. \A p \in Peers : Kept(pg, n, p) = Kept(pg, m, p)
  BY GrownSets DEF PageOf, ShownOf, Kept
<1>3. ASSUME NEW r, SoundRequest(r, m, c) PROVE SoundRequest(r, n, d)
  <2>1. PublicsOf(m) \subseteq PublicsOf(n) /\ DirectsOf(m) \subseteq DirectsOf(n) /\ PublicsOf(m) \in SUBSET DOMAIN m
    BY GrownSets DEF PublicsOf
  <2>2. r.snap # None => NothingLost(r.known, r.snap.public, n, d)
    BY <1>3, <2>1, LostLater DEF SoundRequest
  <2> QED
    BY <1>3, <2>1, <2>2 DEF SoundRequest
<1>4. SoundLoads(pg, n) /\ SoundPosts(pg, n)
  <2>1. DirectsOf(m) \subseteq DirectsOf(n) /\ DOMAIN m \subseteq DOMAIN n /\ SoundLoads(pg, m) /\ SoundPosts(pg, m)
    <3>1. DirectsOf(m) = DirectsOf(n) \cap DOMAIN m
      BY GrownSets
    <3> QED
      BY <3>1 DEF PageOf, Waits, Grown
  <2>2. SoundLoads(pg, n)
    BY <2>1 DEF SoundLoads
  <2>3. SoundPosts(pg, n)
    BY <2>1 DEF SoundPosts
  <2> QED
    BY <2>2, <2>3
<1> QED
  BY <1>1, <1>2, <1>3, <1>4 DEF PageOf, Waits, BadgesOf

LEMMA StreamGrows ==
    ASSUME NEW m, NEW c, NEW n, NEW d, Grown(m, c, n, d), NEW s, StreamOf(s, m, c)
    PROVE  StreamOf(s, n, d)
  BY DEF StreamOf, EventOf, Grown

\* What is new is told to an open stream.
LEMMA FreshGrows ==
    ASSUME NEW m, NEW c, NEW n, NEW d, NEW pg, NEW s, FreshOf(pg, s, m, c), NEW G, Top(n, d) \subseteq Top(m, c) \cup G,
           NEW r, r.st = s.st, Coming(s.queue) \subseteq Coming(r.queue), s.st = "open" => G \subseteq Coming(r.queue)
    PROVE  FreshOf(pg, r, n, d)
  BY DEF FreshOf

LEMMA StreamTold ==
    ASSUME NEW m, NEW c, NEW n, NEW d, StoredOf(n, d), Grown(m, c, n, d), StreamOf(chatStream, m, c), NEW q \in Seq(DOMAIN n)
    PROVE  LET r == Chat!Told(q, d) IN
           /\ StreamOf(r, n, d) /\ r.st = chatStream.st /\ Coming(chatStream.queue) \subseteq Coming(r.queue)
           /\ chatStream.st = "open" => \A k \in DOMAIN q : q[k] \in Coming(r.queue)
<1>0. StreamOf(chatStream, n, d) /\ chatStream.queue \in Seq(Event) /\ chatStream \in Stream
  BY StreamGrows DEF StreamOf, Stream
<1>1. CASE chatStream.st # "open"
  BY <1>0, <1>1 DEF Chat!Told
<1>2. CASE chatStream.st = "open"
  <2> DEFINE told == [k \in DOMAIN q |-> [kind |-> "message", id |-> q[k], cleared |-> q[k] \in d]]
             queue == chatStream.queue \o told
             r == [chatStream EXCEPT !.queue = queue]
  <2>1. Chat!Told(q, d) = r
    BY <1>0, <1>2 DEF Chat!Told, Stream
  <2>2. DOMAIN q = 1 .. Len(q) /\ Len(q) \in Nat /\ \A k \in DOMAIN q : q[k] \in DOMAIN n /\ q[k] \in Nat
    BY Places
  <2>3. \A k \in DOMAIN q : told[k] \in Event /\ EventOf(told[k], n, d) /\ told[k].kind = "message" /\ told[k].id = q[k]
    <3>1. ASSUME NEW k \in DOMAIN q
          PROVE  told[k] \in Event /\ EventOf(told[k], n, d) /\ told[k].kind = "message" /\ told[k].id = q[k]
      <4>1. told[k] = [kind |-> "message", id |-> q[k], cleared |-> q[k] \in d] /\ q[k] \in DOMAIN n /\ q[k] \in Nat
        BY <2>2
      <4>2. [kind |-> "message", id |-> q[k], cleared |-> q[k] \in d] \in [kind : {"message"}, id : Nat, cleared : BOOLEAN]
        BY <4>1
      <4> HIDE DEF told
      <4> QED
        <5>0. ASSUME q[k] \notin d PROVE told[k].cleared = FALSE
          <6>1. (q[k] \in d) = FALSE
            BY <5>0
          <6>2. told[k] = [kind |-> "message", id |-> q[k], cleared |-> FALSE]
            BY <4>1, <6>1, Zenon
          <6> QED
            BY <6>2
        <5>1. told[k].kind = "message" /\ told[k].id = q[k]
          BY <4>1
        <5>3. ASSUME told[k].cleared, q[k] \notin d PROVE FALSE
          BY <5>0, <5>3
        <5>2. told[k] \in Event
          BY <4>1, <4>2 DEF Event
        <5> QED
          BY <4>1, <5>1, <5>2, <5>3 DEF EventOf
    <3> QED
      BY <3>1
  <2>4. told \in Seq(Event) /\ Len(told) = Len(q) /\ DOMAIN told = 1 .. Len(q)
    BY <2>2, <2>3
  <2> HIDE DEF told
  <2>5. /\ queue \in Seq(Event) /\ Len(queue) = Len(chatStream.queue) + Len(told)
        /\ \A i \in 1 .. Len(chatStream.queue) + Len(told) :
              queue[i] = IF i <= Len(chatStream.queue) THEN chatStream.queue[i] ELSE told[i - Len(chatStream.queue)]
    BY <1>0, <2>4, ConcatProperties
  <2>6. /\ DOMAIN queue = 1 .. Len(queue) /\ DOMAIN chatStream.queue = 1 .. Len(chatStream.queue)
        /\ Len(queue) \in Nat /\ Len(chatStream.queue) \in Nat
    BY <1>0, <2>5
  <2> HIDE DEF queue
  <2>7. r \in Stream /\ r.queue = queue /\ r.st = chatStream.st /\ r.lists = chatStream.lists
    BY <1>0, <2>5 DEF Stream
  <2>8. ASSUME NEW k \in DOMAIN queue PROVE EventOf(queue[k], n, d)
    <3>1. CASE k <= Len(chatStream.queue)
      BY <1>0, <2>5, <2>6, <3>1 DEF StreamOf
    <3>2. CASE k > Len(chatStream.queue)
      <4>1. k - Len(chatStream.queue) \in DOMAIN told /\ queue[k] = told[k - Len(chatStream.queue)]
        BY <2>4, <2>5, <2>6, <3>2
      <4> QED
        BY <2>3, <2>4, <4>1, <2>2
    <3> QED
      BY <2>6, <3>1, <3>2
  <2>9. \A k \in DOMAIN chatStream.queue : k \in DOMAIN queue /\ queue[k] = chatStream.queue[k]
    BY <2>4, <2>5, <2>6
  <2>10. Coming(chatStream.queue) \subseteq Coming(queue)
    BY <2>9 DEF Coming
  <2>11. ASSUME NEW k \in DOMAIN q PROVE q[k] \in Coming(queue)
    <3>1. k + Len(chatStream.queue) \in DOMAIN queue /\ queue[k + Len(chatStream.queue)] = told[k]
      <4> DEFINE j == k + Len(chatStream.queue)
      <4>1. j \in 1 .. Len(queue) /\ ~(j <= Len(chatStream.queue)) /\ j - Len(chatStream.queue) = k
        BY <2>2, <2>4, <2>5, <2>6
      <4> QED
        BY <2>5, <2>6, <4>1
    <3> QED
      BY <2>3, <3>1 DEF Coming
  <2>12. StreamOf(r, n, d)
    BY <1>0, <1>2, <2>7, <2>8 DEF StreamOf
  <2> HIDE DEF r
  <2> QED
    BY <1>2, <2>1, <2>7, <2>10, <2>11, <2>12
<1> QED
  BY <1>1, <1>2

-----------------------------------------------------------------------------
(* The steps of the chat *)

\* What is promised of the public messages of the page
PublicsStay ==
    /\ UNCHANGED msgs \/ chatPage'.shown = chatPage.shown
    /\ \/ NothingLost(chatPage.shown, chatPage'.shown, msgs, cleared)
       \/ \E a \in chatPage.posts : a.kind = "clear" /\ a \notin chatPage'.posts

\* What is stored stands.
LEMMA ChatStands ==
    ASSUME ChatInv, UNCHANGED Chat!Server, StreamOf(chatStream', msgs, cleared), PageOf(chatPage', msgs, cleared),
           FreshOf(chatPage', chatStream', msgs, cleared),
           \/ NothingLost(chatPage.shown, chatPage'.shown, msgs, cleared)
           \/ \E a \in chatPage.posts : a.kind = "clear" /\ a \notin chatPage'.posts
    PROVE  ChatInv' /\ PublicsStay
  BY DEF ChatInv, StoredInv, Chat!Server, PublicsStay

\* Fields of a page that a step leaves as they are
SameView(pg, q) ==
    /\ q.shown = pg.shown /\ q.unread = pg.unread /\ q.twice = pg.twice
    /\ q.selected = pg.selected /\ q.loads = pg.loads
SameReload(pg, q) == q.reload = pg.reload /\ q.fresh = pg.fresh /\ q.live = pg.live
SamePosts(pg, q) == q.posts = pg.posts /\ q.composer = pg.composer

\* What the page shows stands, and no load is begun.
LEMMA PageStands ==
    ASSUME NEW m, NEW c, NEW pg, PageOf(pg, m, c), NEW q \in ChatPage, Waits(q, m, c), SameView(pg, q)
    PROVE  PageOf(q, m, c)
<1>1. \A p \in Peers : Kept(q, m, p) = Kept(pg, m, p)
  BY DEF Kept, SameView
<1> QED
  BY <1>1 DEF PageOf, ShownOf, BadgesOf, SameView

LEMMA NothingLostHere == \A S, m, c : NothingLost(S, S, m, c)
  BY DEF NothingLost

LEMMA HistoryServes ==
    ASSUME StoredInv, NEW r, r.known \subseteq PublicsOf(msgs), r.snap = Chat!History
    PROVE  /\ r.snap \in Snapshot /\ SoundRequest(r, msgs, cleared)
           /\ r.snap.public = Top(msgs, cleared)
<1>1. Chat!History.public = Top(msgs, cleared) /\ Chat!History.ign = ignored /\ Chat!History.direct \subseteq DirectsOf(msgs)
  BY SamePublics DEF Chat!History, Top
<1>2. Chat!History = [public |-> Chat!History.public, ign |-> Chat!History.ign, direct |-> Chat!History.direct]
  BY DEF Chat!History
<1>3. Top(msgs, cleared) \subseteq PublicsOf(msgs) /\ NothingLost(r.known, Top(msgs, cleared), msgs, cleared)
  BY TopServes DEF StoredInv
<1>4. Top(msgs, cleared) \subseteq Nat /\ Chat!History.direct \subseteq Nat /\ ignored \subseteq Peers
  BY <1>1, <1>3, Places DEF StoredInv
<1>5. r.snap \in Snapshot
  BY <1>1, <1>2, <1>4 DEF Snapshot
<1> QED
  BY <1>1, <1>3, <1>5 DEF SoundRequest

\* A step after which the page shows what it did, and waits soundly.
LEMMA WaitingStands ==
    ASSUME ChatInv, UNCHANGED Chat!Server, StreamOf(chatStream', msgs, cleared), chatPage' \in ChatPage,
           SameView(chatPage, chatPage'), Waits(chatPage', msgs, cleared), FreshOf(chatPage', chatStream', msgs, cleared)
    PROVE  ChatInv' /\ PublicsStay
<1>1. PageOf(chatPage', msgs, cleared)
  BY PageStands DEF ChatInv
<1>2. NothingLost(chatPage.shown, chatPage'.shown, msgs, cleared)
  BY NothingLostHere DEF SameView
<1> QED
  BY <1>1, <1>2, ChatStands

LEMMA ConnectKept == ChatInv /\ Chat!Connect => ChatInv' /\ PublicsStay
<1> SUFFICES ASSUME ChatInv, Chat!Connect PROVE ChatInv' /\ PublicsStay
  OBVIOUS
<1> DEFINE r == [known |-> chatPage.shown \cap Chat!Publics, snap |-> None]
<1>0. /\ PageOf(chatPage, msgs, cleared) /\ chatPage \in ChatPage /\ FreshOf(chatPage, chatStream, msgs, cleared)
      /\ Waits(chatPage, msgs, cleared) /\ StreamOf(chatStream, msgs, cleared)
  BY DEF ChatInv, PageOf
<1>1. chatPage' = [chatPage EXCEPT !.conn = r] /\ chatStream.st = "none" /\ UNCHANGED <<chatStream, Chat!Server>>
  BY DEF Chat!Connect
<1>2. r \in Asked /\ SoundRequest(r, msgs, cleared)
  BY <1>0, SamePublics DEF ChatPage, Asked, SoundRequest
<1> HIDE DEF r
<1>3. /\ chatPage' \in ChatPage /\ chatPage'.conn = r /\ SameView(chatPage, chatPage')
      /\ SameReload(chatPage, chatPage') /\ SamePosts(chatPage, chatPage')
  BY <1>0, <1>1, <1>2 DEF ChatPage, SameView, SameReload, SamePosts
<1>4. Waits(chatPage', msgs, cleared)
  BY <1>0, <1>2, <1>3 DEF Waits, SoundLoads, SoundPosts, SameView, SameReload, SamePosts
<1>5. FreshOf(chatPage', chatStream', msgs, cleared)
  BY <1>0, <1>1, <1>3 DEF FreshOf, SameView, SameReload
<1> QED
  BY <1>0, <1>1, <1>3, <1>4, <1>5, WaitingStands

LEMMA ConnectServedKept == ChatInv /\ Chat!ConnectServed => ChatInv' /\ PublicsStay
<1> SUFFICES ASSUME ChatInv, Chat!ConnectServed PROVE ChatInv' /\ PublicsStay
  OBVIOUS
<1> DEFINE r == [chatPage.conn EXCEPT !.snap = Chat!History]
<1>0. /\ PageOf(chatPage, msgs, cleared) /\ chatPage \in ChatPage /\ FreshOf(chatPage, chatStream, msgs, cleared)
      /\ Waits(chatPage, msgs, cleared) /\ StreamOf(chatStream, msgs, cleared) /\ StoredInv
  BY DEF ChatInv, PageOf
<1>1. chatPage' = [chatPage EXCEPT !.conn = r] /\ chatPage.conn # None /\ UNCHANGED <<chatStream, Chat!Server>>
  BY <1>0 DEF Chat!ConnectServed, ChatPage
<1>2. chatPage.conn \in Asked /\ SoundRequest(chatPage.conn, msgs, cleared)
  BY <1>0, <1>1 DEF ChatPage, Waits
<1>3. r.known = chatPage.conn.known /\ r.snap = Chat!History /\ r = [known |-> r.known, snap |-> r.snap]
  BY <1>2 DEF Asked
<1> HIDE DEF r
<1>4. r.snap \in Snapshot /\ SoundRequest(r, msgs, cleared)
  BY <1>0, <1>2, <1>3, HistoryServes DEF SoundRequest
<1>5. r \in Asked
  BY <1>2, <1>3, <1>4 DEF Asked
<1>6. /\ chatPage' \in ChatPage /\ chatPage'.conn = r /\ SameView(chatPage, chatPage')
      /\ SameReload(chatPage, chatPage') /\ SamePosts(chatPage, chatPage')
  BY <1>0, <1>1, <1>5 DEF ChatPage, SameView, SameReload, SamePosts
<1>7. Waits(chatPage', msgs, cleared)
  BY <1>0, <1>4, <1>6 DEF Waits, SoundLoads, SoundPosts, SameView, SameReload, SamePosts
<1>8. FreshOf(chatPage', chatStream', msgs, cleared)
  BY <1>0, <1>1, <1>6 DEF FreshOf, SameView, SameReload
<1> QED
  BY <1>0, <1>1, <1>6, <1>7, <1>8, WaitingStands

LEMMA ReloadServedKept == ChatInv /\ Chat!ReloadServed => ChatInv' /\ PublicsStay
<1> SUFFICES ASSUME ChatInv, Chat!ReloadServed PROVE ChatInv' /\ PublicsStay
  OBVIOUS
<1> DEFINE r == [chatPage.reload EXCEPT !.snap = Chat!History]
<1>0. /\ PageOf(chatPage, msgs, cleared) /\ chatPage \in ChatPage /\ FreshOf(chatPage, chatStream, msgs, cleared)
      /\ Waits(chatPage, msgs, cleared) /\ StreamOf(chatStream, msgs, cleared) /\ StoredInv
  BY DEF ChatInv, PageOf
<1>1. chatPage' = [chatPage EXCEPT !.reload = r] /\ chatPage.reload # None /\ UNCHANGED <<chatStream, Chat!Server>>
  BY <1>0 DEF Chat!ReloadServed, ChatPage
<1>2. chatPage.reload \in AskedAgain /\ SoundRequest(chatPage.reload, msgs, cleared)
  BY <1>0, <1>1 DEF ChatPage, Waits
<1>3. /\ r.known = chatPage.reload.known /\ r.snap = Chat!History /\ r.current = chatPage.reload.current
      /\ r = [known |-> r.known, snap |-> r.snap, current |-> r.current]
  BY <1>2 DEF AskedAgain
<1> HIDE DEF r
<1>4. r.snap \in Snapshot /\ SoundRequest(r, msgs, cleared) /\ r.snap.public = Top(msgs, cleared)
  BY <1>0, <1>2, <1>3, HistoryServes DEF SoundRequest
<1>5. r \in AskedAgain
  BY <1>2, <1>3, <1>4 DEF AskedAgain
<1>6. /\ chatPage' \in ChatPage /\ chatPage'.reload = r /\ SameView(chatPage, chatPage')
      /\ chatPage'.conn = chatPage.conn /\ chatPage'.fresh = chatPage.fresh /\ chatPage'.live = chatPage.live
      /\ SamePosts(chatPage, chatPage')
  BY <1>0, <1>1, <1>5 DEF ChatPage, SameView, SameReload, SamePosts
<1>7. Waits(chatPage', msgs, cleared)
  BY <1>0, <1>4, <1>6 DEF Waits, SoundLoads, SoundPosts, SameView, SameReload, SamePosts
<1>8. FreshOf(chatPage', chatStream', msgs, cleared)
  BY <1>0, <1>1, <1>3, <1>4, <1>6 DEF FreshOf, SameView, SameReload
<1> QED
  BY <1>0, <1>1, <1>6, <1>7, <1>8, WaitingStands

LEMMA ConnectFailsKept == ChatInv /\ Chat!ConnectFails => ChatInv' /\ PublicsStay
<1> SUFFICES ASSUME ChatInv, Chat!ConnectFails PROVE ChatInv' /\ PublicsStay
  OBVIOUS
<1>0. /\ PageOf(chatPage, msgs, cleared) /\ chatPage \in ChatPage /\ FreshOf(chatPage, chatStream, msgs, cleared)
      /\ Waits(chatPage, msgs, cleared) /\ StreamOf(chatStream, msgs, cleared)
  BY DEF ChatInv, PageOf
<1>1. chatPage' = [chatPage EXCEPT !.conn = None] /\ UNCHANGED <<chatStream, Chat!Server>>
  BY DEF Chat!ConnectFails
<1>3. /\ chatPage' \in ChatPage /\ chatPage'.conn = None /\ SameView(chatPage, chatPage')
      /\ SameReload(chatPage, chatPage') /\ SamePosts(chatPage, chatPage')
  BY <1>0, <1>1 DEF ChatPage, SameView, SameReload, SamePosts
<1>4. Waits(chatPage', msgs, cleared)
  BY <1>0, <1>3 DEF Waits, SoundLoads, SoundPosts, SameView, SameReload, SamePosts
<1>5. FreshOf(chatPage', chatStream', msgs, cleared)
  BY <1>0, <1>1, <1>3 DEF FreshOf, SameView, SameReload
<1> QED
  BY <1>0, <1>1, <1>3, <1>4, <1>5, WaitingStands

\* A step after which the page has no less of its private messages, and awaits no more of them.
LEMMA LoadsStand ==
    ASSUME ChatInv, UNCHANGED <<Chat!Server, chatStream>>, chatPage' \in ChatPage, ShownOf(chatPage', msgs),
           chatPage'.shown \cap PublicsOf(msgs) = chatPage.shown \cap PublicsOf(msgs),
           chatPage'.unread = chatPage.unread, chatPage'.twice = chatPage.twice, chatPage'.selected = chatPage.selected,
           \A p \in Peers : Kept(chatPage, msgs, p) \subseteq Kept(chatPage', msgs, p),
           chatPage'.conn = chatPage.conn, SameReload(chatPage, chatPage'), SamePosts(chatPage, chatPage'),
           SoundLoads(chatPage', msgs)
    PROVE  ChatInv' /\ PublicsStay
<1>0. /\ PageOf(chatPage, msgs, cleared) /\ chatPage \in ChatPage /\ FreshOf(chatPage, chatStream, msgs, cleared)
      /\ Waits(chatPage, msgs, cleared) /\ StreamOf(chatStream, msgs, cleared) /\ StoredInv /\ BadgesOf(chatPage, msgs)
  BY DEF ChatInv, PageOf
<1>1. ASSUME NEW p \in Peers, p \notin chatPage'.twice PROVE chatPage'.unread[p] <= Cardinality(Kept(chatPage', msgs, p))
  <2>1. chatPage.unread[p] <= Cardinality(Kept(chatPage, msgs, p)) /\ chatPage.unread[p] \in Nat
    BY <1>0, <1>1 DEF BadgesOf, ChatPage
  <2>2. /\ Cardinality(Kept(chatPage, msgs, p)) <= Cardinality(Kept(chatPage', msgs, p))
        /\ Cardinality(Kept(chatPage, msgs, p)) \in Nat /\ Cardinality(Kept(chatPage', msgs, p)) \in Nat
    BY <1>0, MoreKept, KeptFinite
  <2> QED
    BY <2>1, <2>2
<1>2. BadgesOf(chatPage', msgs)
  BY <1>0, <1>1 DEF BadgesOf
<1>3. Waits(chatPage', msgs, cleared)
  BY <1>0 DEF Waits, SoundPosts, SameReload, SamePosts
<1>4. PageOf(chatPage', msgs, cleared)
  BY <1>2, <1>3 DEF PageOf
<1>5. NothingLost(chatPage.shown, chatPage'.shown, msgs, cleared)
  BY DEF NothingLost
<1>6. FreshOf(chatPage', chatStream', msgs, cleared)
  <2>1. Top(msgs, cleared) \cap chatPage.shown \subseteq chatPage'.shown
    BY <1>0, <1>5, TopStays DEF StoredInv, ShownOf
  <2> QED
    BY <1>0, <2>1 DEF FreshOf, SameReload
<1> QED
  BY <1>0, <1>4, <1>5, <1>6, ChatStands

LEMMA LoadServedKept == ChatInv /\ Chat!LoadServed => ChatInv' /\ PublicsStay
<1> SUFFICES ASSUME ChatInv, Chat!LoadServed PROVE ChatInv' /\ PublicsStay
  OBVIOUS
<1>0. chatPage \in ChatPage /\ SoundLoads(chatPage, msgs) /\ ShownOf(chatPage, msgs) /\ StoredInv
  BY DEF ChatInv, PageOf, Waits
<1>1. PICK l \in chatPage.loads :
          chatPage' = [chatPage EXCEPT !.loads =
              IF banned THEN chatPage.loads \ {l}
              ELSE (chatPage.loads \ {l}) \cup
                   {[l EXCEPT !.snap = [ids |-> Chat!DirectHistory(l.peer), ign |-> l.peer \in ignored]]}]
  BY <1>0 DEF Chat!LoadServed, ChatPage
<1>2. UNCHANGED <<Chat!Server, chatStream>>
  BY DEF Chat!LoadServed
<1> DEFINE d == [ids |-> Chat!DirectHistory(l.peer), ign |-> l.peer \in ignored]
           s == [l EXCEPT !.snap = d]
           L == IF banned THEN chatPage.loads \ {l} ELSE (chatPage.loads \ {l}) \cup {s}
<1>3. l \in Load /\ l.known \subseteq DirectsOf(msgs)
  BY <1>0 DEF ChatPage, SoundLoads
<1>4. Chat!DirectHistory(l.peer) \subseteq DirectsOf(msgs)
  BY SamePublics DEF Chat!DirectHistory
<1>5. Chat!DirectHistory(l.peer) \in SUBSET Nat
  BY <1>0, <1>4, Places DEF StoredInv
<1>6. d \in DirectAnswer /\ d.ids \subseteq DirectsOf(msgs)
  BY <1>4, <1>5 DEF DirectAnswer
<1> HIDE DEF d
<1>7. s \in Load /\ s.known = l.known /\ s.snap = d
  BY <1>3, <1>6 DEF Load
<1> HIDE DEF s
<1>8. L \in SUBSET Load /\ \A k \in L : (\E j \in chatPage.loads : j.known = k.known)
  BY <1>0, <1>7 DEF ChatPage
<1>9. \A k \in L : k.known \subseteq DirectsOf(msgs) /\ (k.snap # None => k.snap.ids \subseteq DirectsOf(msgs))
  BY <1>0, <1>3, <1>6, <1>7 DEF SoundLoads
<1>10. chatPage' = [chatPage EXCEPT !.loads = L]
  BY <1>1 DEF s, d
<1> HIDE DEF L
<1>11. /\ chatPage' \in ChatPage /\ chatPage'.loads = L /\ chatPage'.shown = chatPage.shown
       /\ chatPage'.unread = chatPage.unread /\ chatPage'.twice = chatPage.twice /\ chatPage'.selected = chatPage.selected
       /\ chatPage'.conn = chatPage.conn /\ SameReload(chatPage, chatPage') /\ SamePosts(chatPage, chatPage')
  BY <1>0, <1>8, <1>10 DEF ChatPage, SameReload, SamePosts
<1>12. ASSUME NEW p \in Peers PROVE Kept(chatPage, msgs, p) \subseteq Kept(chatPage', msgs, p)
  BY <1>8, <1>11 DEF Kept
<1>13. SoundLoads(chatPage', msgs)
  BY <1>9, <1>11 DEF SoundLoads
<1> QED
  BY <1>0, <1>2, <1>11, <1>12, <1>13, LoadsStand DEF ShownOf

LEMMA LoadFailsKept == ChatInv /\ Chat!LoadFails => ChatInv' /\ PublicsStay
<1> SUFFICES ASSUME ChatInv, Chat!LoadFails PROVE ChatInv' /\ PublicsStay
  OBVIOUS
<1>0. chatPage \in ChatPage /\ SoundLoads(chatPage, msgs) /\ ShownOf(chatPage, msgs) /\ StoredInv
  BY DEF ChatInv, PageOf, Waits
<1>1. PICK l \in chatPage.loads : chatPage' = [chatPage EXCEPT !.loads = chatPage.loads \ {l}]
  BY <1>0 DEF Chat!LoadFails, ChatPage
<1>2. UNCHANGED <<Chat!Server, chatStream>>
  BY DEF Chat!LoadFails
<1>3. /\ chatPage' \in ChatPage /\ chatPage'.loads = chatPage.loads \ {l} /\ chatPage'.shown = chatPage.shown
      /\ chatPage'.unread = chatPage.unread /\ chatPage'.twice = chatPage.twice /\ chatPage'.selected = chatPage.selected
      /\ chatPage'.conn = chatPage.conn /\ SameReload(chatPage, chatPage') /\ SamePosts(chatPage, chatPage')
  BY <1>0, <1>1 DEF ChatPage, SameReload, SamePosts
<1>4. ASSUME NEW p \in Peers PROVE Kept(chatPage, msgs, p) \subseteq Kept(chatPage', msgs, p)
  BY <1>3 DEF Kept
<1>5. SoundLoads(chatPage', msgs)
  BY <1>0, <1>3 DEF SoundLoads
<1> QED
  BY <1>0, <1>2, <1>3, <1>4, <1>5, LoadsStand DEF ShownOf

LEMMA LoadedKept == ChatInv /\ Chat!Loaded => ChatInv' /\ PublicsStay
<1> SUFFICES ASSUME ChatInv, Chat!Loaded PROVE ChatInv' /\ PublicsStay
  OBVIOUS
<1>0. chatPage \in ChatPage /\ SoundLoads(chatPage, msgs) /\ ShownOf(chatPage, msgs) /\ StoredInv
  BY DEF ChatInv, PageOf, Waits
<1>1. PICK l \in chatPage.loads :
          /\ l.snap # None
          /\ chatPage' = [chatPage EXCEPT !.shown = Chat!Reconciled(chatPage.shown, l.known, l.snap.ids),
                                          !.loads = chatPage.loads \ {l}, !.loaded = chatPage.loaded \cup {l.peer},
                                          !.flags = IF l.snap.ign THEN chatPage.flags \cup {l.peer}
                                                    ELSE chatPage.flags \ {l.peer}]
  BY <1>0 DEF Chat!Loaded, ChatPage
<1>2. UNCHANGED <<Chat!Server, chatStream>>
  BY DEF Chat!Loaded
<1> DEFINE S == Chat!Reconciled(chatPage.shown, l.known, l.snap.ids)
           f == IF l.snap.ign THEN chatPage.flags \cup {l.peer} ELSE chatPage.flags \ {l.peer}
<1>3. l \in Load /\ l.known \subseteq DirectsOf(msgs) /\ l.snap.ids \subseteq DirectsOf(msgs)
  BY <1>0, <1>1 DEF ChatPage, SoundLoads
<1>4. S \subseteq DOMAIN msgs /\ S \cap PublicsOf(msgs) = chatPage.shown \cap PublicsOf(msgs)
  BY <1>0, <1>3 DEF Chat!Reconciled, ShownOf, DirectsOf
<1>5. S \in SUBSET Nat /\ f \in SUBSET Peers /\ chatPage.loaded \cup {l.peer} \in SUBSET Peers
  BY <1>0, <1>3, <1>4, Places DEF StoredInv, ChatPage, Load
<1>6. chatPage.shown \ l.known \subseteq S
  BY DEF Chat!Reconciled
<1>7. chatPage' = [chatPage EXCEPT !.shown = S, !.loads = chatPage.loads \ {l},
                                   !.loaded = chatPage.loaded \cup {l.peer}, !.flags = f]
  BY <1>1
<1> HIDE DEF S, f
<1>8. /\ chatPage' \in ChatPage /\ chatPage'.loads = chatPage.loads \ {l} /\ chatPage'.shown = S
      /\ chatPage'.unread = chatPage.unread /\ chatPage'.twice = chatPage.twice /\ chatPage'.selected = chatPage.selected
      /\ chatPage'.conn = chatPage.conn /\ SameReload(chatPage, chatPage') /\ SamePosts(chatPage, chatPage')
  BY <1>0, <1>5, <1>7 DEF ChatPage, SameReload, SamePosts
<1>9. ASSUME NEW p \in Peers PROVE Kept(chatPage, msgs, p) \subseteq Kept(chatPage', msgs, p)
  BY <1>6, <1>8 DEF Kept
<1>10. SoundLoads(chatPage', msgs)
  BY <1>0, <1>8 DEF SoundLoads
<1> QED
  BY <1>0, <1>2, <1>4, <1>8, <1>9, <1>10, LoadsStand DEF ShownOf

\* A reload that is asked for waits soundly, and has not been answered.
LEMMA ReloadingSound ==
    ASSUME NEW pg, PageOf(pg, msgs, cleared), NEW q, q = Chat!Reloading(pg)
    PROVE  /\ q \in ChatPage /\ SameView(pg, q) /\ SamePosts(pg, q) /\ PageOf(q, msgs, cleared)
           /\ q.conn = pg.conn /\ q.fresh = pg.fresh /\ q.live = pg.live
           /\ q.reload.snap = None /\ q.reload.current = pg.live
<1> DEFINE r == [known |-> pg.shown \cap Chat!Publics, snap |-> None, current |-> pg.live]
<1>0. pg \in ChatPage /\ Waits(pg, msgs, cleared)
  BY DEF PageOf
<1>1. r \in AskedAgain /\ SoundRequest(r, msgs, cleared) /\ r.snap = None /\ r.current = pg.live
  BY <1>0, SamePublics DEF ChatPage, AskedAgain, SoundRequest
<1>2. q = [pg EXCEPT !.reload = r, !.again = FALSE]
  BY <1>0 DEF Chat!Reloading, ChatPage
<1> HIDE DEF r
<1>3. /\ q \in ChatPage /\ SameView(pg, q) /\ SamePosts(pg, q)
      /\ q.conn = pg.conn /\ q.fresh = pg.fresh /\ q.live = pg.live /\ q.reload = r
  BY <1>0, <1>1, <1>2 DEF ChatPage, SameView, SamePosts
<1>4. Waits(q, msgs, cleared)
  BY <1>0, <1>1, <1>3 DEF Waits, SoundLoads, SoundPosts, SameView, SamePosts
<1> QED
  BY <1>1, <1>3, <1>4, PageStands

\* The finally of reloadHistory
LEMMA ReloadEndedSound ==
    ASSUME NEW pg, PageOf(pg, msgs, cleared), NEW q, q = Chat!ReloadEnded(pg)
    PROVE  /\ SameView(pg, q) /\ PageOf(q, msgs, cleared)
           /\ q.conn = pg.conn /\ q.fresh = pg.fresh /\ q.live = pg.live
           /\ q.reload # None => q.reload.snap = None /\ q.reload.current = pg.live
<1> DEFINE e == [pg EXCEPT !.reload = None]
<1>0. pg \in ChatPage /\ Waits(pg, msgs, cleared)
  BY DEF PageOf
<1>1. /\ e \in ChatPage /\ SameView(pg, e) /\ SamePosts(pg, e)
      /\ e.conn = pg.conn /\ e.fresh = pg.fresh /\ e.live = pg.live /\ e.reload = None
  BY <1>0 DEF ChatPage, SameView, SamePosts
<1>2. q = IF pg.again THEN Chat!Reloading(e) ELSE e
  BY DEF Chat!ReloadEnded
<1> HIDE DEF e
<1>3. PageOf(e, msgs, cleared)
  <2>1. Waits(e, msgs, cleared)
    BY <1>0, <1>1 DEF Waits, SoundLoads, SoundPosts, SameView, SamePosts
  <2> QED
    BY <1>1, <2>1, PageStands
<1>4. CASE pg.again
  <2>1. q = Chat!Reloading(e)
    BY <1>2, <1>4
  <2>2. /\ SameView(e, q) /\ PageOf(q, msgs, cleared) /\ q.conn = e.conn /\ q.fresh = e.fresh /\ q.live = e.live
        /\ q.reload.snap = None /\ q.reload.current = e.live
    BY <1>3, <2>1, ReloadingSound
  <2> QED
    BY <1>1, <2>2 DEF SameView
<1>5. CASE ~pg.again
  BY <1>1, <1>2, <1>3, <1>5
<1> QED
  BY <1>4, <1>5

LEMMA ConnectedKept == ChatInv /\ Chat!Connected => ChatInv' /\ PublicsStay
<1> SUFFICES ASSUME ChatInv, Chat!Connected PROVE ChatInv' /\ PublicsStay
  OBVIOUS
<1> DEFINE n == Chat!WithHistory(chatPage, chatPage.conn, FALSE)
           G == chatPage.conn.snap.public
<1>0. /\ PageOf(chatPage, msgs, cleared) /\ chatPage \in ChatPage /\ FreshOf(chatPage, chatStream, msgs, cleared)
      /\ Waits(chatPage, msgs, cleared) /\ StreamOf(chatStream, msgs, cleared) /\ StoredInv
  BY DEF ChatInv, PageOf
<1>1. /\ chatPage' = [n EXCEPT !.conn = None, !.ready = FALSE] /\ chatPage.conn # None /\ chatPage.conn.snap # None
      /\ chatStream' = [Chat!NoStream EXCEPT !.st = "asked"] /\ UNCHANGED Chat!Server
  BY DEF Chat!Connected
<1>2. SoundRequest(chatPage.conn, msgs, cleared) /\ chatPage.conn.snap.ign \in SUBSET Peers
  BY <1>0, <1>1 DEF Waits, ChatPage, Asked, Snapshot
<1>3. Takes(chatPage, n, G)
  BY <1>0, <1>1, <1>2, TakesHistory
<1> HIDE DEF n, G
<1>4. PageOf(n, msgs, cleared) /\ n \in ChatPage /\ Waits(n, msgs, cleared)
  BY <1>0, <1>3, TakesKeeps DEF PageOf
<1>5. /\ chatPage' \in ChatPage /\ chatPage'.conn = None /\ SameView(n, chatPage')
      /\ SameReload(n, chatPage') /\ SamePosts(n, chatPage')
  BY <1>1, <1>4 DEF ChatPage, SameView, SameReload, SamePosts
<1>6. Waits(chatPage', msgs, cleared)
  BY <1>4, <1>5 DEF Waits, SoundLoads, SoundPosts, SameView, SameReload, SamePosts
<1>7. PageOf(chatPage', msgs, cleared)
  BY <1>4, <1>5, <1>6, PageStands
<1>8. NothingLost(chatPage.shown, chatPage'.shown, msgs, cleared)
  BY <1>3, <1>5 DEF Takes, SameView, NothingLost
<1>9. chatStream' = [st |-> "asked", ign |-> {}, lists |-> {}, queue |-> <<>>]
  BY <1>1 DEF Chat!NoStream
<1>10. StreamOf(chatStream', msgs, cleared) /\ chatStream'.st = "asked"
  BY <1>9 DEF StreamOf, Stream
<1>11. ~chatPage'.fresh /\ ~chatPage'.live /\ ~(chatPage'.reload # None /\ chatPage'.reload.current)
  BY <1>0, <1>1, <1>3, <1>5 DEF FreshOf, Takes, SameWaiting, SameReload
<1>12. FreshOf(chatPage', chatStream', msgs, cleared)
  BY <1>5, <1>10, <1>11 DEF FreshOf
<1> QED
  BY <1>1, <1>7, <1>8, <1>10, <1>12, ChatStands

LEMMA ReloadedKept == ChatInv /\ Chat!Reloaded => ChatInv' /\ PublicsStay
<1> SUFFICES ASSUME ChatInv, Chat!Reloaded PROVE ChatInv' /\ PublicsStay
  OBVIOUS
<1> DEFINE n == Chat!WithHistory(chatPage, chatPage.reload, chatPage.inbox)
           G == chatPage.reload.snap.public
           w == [n EXCEPT !.failed = FALSE, !.fresh = chatPage.reload.current]
<1>0. /\ PageOf(chatPage, msgs, cleared) /\ chatPage \in ChatPage /\ FreshOf(chatPage, chatStream, msgs, cleared)
      /\ Waits(chatPage, msgs, cleared) /\ StreamOf(chatStream, msgs, cleared) /\ StoredInv
  BY DEF ChatInv, PageOf
<1>1. /\ chatPage' = Chat!ReloadEnded(w) /\ chatPage.reload # None /\ chatPage.reload.snap # None
      /\ UNCHANGED <<chatStream, Chat!Server>>
  BY DEF Chat!Reloaded
<1>2. /\ SoundRequest(chatPage.reload, msgs, cleared) /\ chatPage.reload.snap.ign \in SUBSET Peers
      /\ chatPage.inbox \in BOOLEAN /\ chatPage.reload.current \in BOOLEAN
  BY <1>0, <1>1 DEF Waits, ChatPage, AskedAgain, Snapshot
<1>3. Takes(chatPage, n, G)
  BY <1>0, <1>1, <1>2, TakesHistory
<1> HIDE DEF n
<1>4. PageOf(n, msgs, cleared) /\ n \in ChatPage /\ Waits(n, msgs, cleared)
  BY <1>0, <1>3, TakesKeeps DEF PageOf
<1>5. /\ w \in ChatPage /\ SameView(n, w) /\ SamePosts(n, w) /\ w.conn = n.conn /\ w.reload = n.reload
      /\ w.live = n.live /\ w.fresh = chatPage.reload.current
  BY <1>2, <1>4 DEF ChatPage, SameView, SamePosts
<1> HIDE DEF w
<1>6. Waits(w, msgs, cleared)
  BY <1>4, <1>5 DEF Waits, SoundLoads, SoundPosts, SameView, SamePosts
<1>7. PageOf(w, msgs, cleared)
  BY <1>4, <1>5, <1>6, PageStands
<1>8. /\ SameView(w, chatPage') /\ PageOf(chatPage', msgs, cleared)
      /\ chatPage'.conn = w.conn /\ chatPage'.fresh = w.fresh /\ chatPage'.live = w.live
      /\ chatPage'.reload # None => chatPage'.reload.snap = None /\ chatPage'.reload.current = w.live
  BY <1>1, <1>7, ReloadEndedSound
<1>9. chatPage'.shown = n.shown /\ chatPage'.conn = chatPage.conn /\ chatPage'.live = chatPage.live
  BY <1>3, <1>5, <1>8 DEF SameView, Takes, SameWaiting
<1>10. NothingLost(chatPage.shown, chatPage'.shown, msgs, cleared)
  BY <1>3, <1>9 DEF Takes, NothingLost
<1>11. Top(msgs, cleared) \cap (chatPage.shown \cup G) \subseteq chatPage'.shown
  <2> HIDE DEF G
  <2>1. n.shown \in SUBSET DOMAIN msgs /\ NothingLost(chatPage.shown \cup G, n.shown, msgs, cleared)
    BY <1>3 DEF Takes, ShownOf
  <2> QED
    BY <1>0, <1>9, <2>1, TopStays DEF StoredInv
<1>12. FreshOf(chatPage', chatStream', msgs, cleared)
  <2>1. (chatPage'.fresh \/ chatPage'.live \/ (chatPage'.reload # None /\ chatPage'.reload.current))
            => chatStream.st \in {"open", "ended"}
    BY <1>0, <1>1, <1>5, <1>8, <1>9 DEF FreshOf
  <2>2. (chatPage'.fresh /\ chatStream.st = "open") => Top(msgs, cleared) \subseteq chatPage'.shown \cup Coming(chatStream.queue)
    BY <1>0, <1>1, <1>5, <1>8, <1>11 DEF FreshOf
  <2> QED
    BY <1>0, <1>1, <1>8, <1>9, <2>1, <2>2 DEF FreshOf
<1> QED
  BY <1>0, <1>1, <1>8, <1>10, <1>12, ChatStands

LEMMA ReloadFailsKept == ChatInv /\ Chat!ReloadFails => ChatInv' /\ PublicsStay
<1> SUFFICES ASSUME ChatInv, Chat!ReloadFails PROVE ChatInv' /\ PublicsStay
  OBVIOUS
<1> DEFINE w == [chatPage EXCEPT !.failed = TRUE]
<1>0. /\ PageOf(chatPage, msgs, cleared) /\ chatPage \in ChatPage /\ FreshOf(chatPage, chatStream, msgs, cleared)
      /\ Waits(chatPage, msgs, cleared) /\ StreamOf(chatStream, msgs, cleared)
  BY DEF ChatInv, PageOf
<1>1. chatPage' = Chat!ReloadEnded(w) /\ UNCHANGED <<chatStream, Chat!Server>>
  BY DEF Chat!ReloadFails
<1>2. /\ w \in ChatPage /\ SameView(chatPage, w) /\ SamePosts(chatPage, w) /\ w.conn = chatPage.conn
      /\ SameReload(chatPage, w)
  BY <1>0 DEF ChatPage, SameView, SamePosts, SameReload
<1> HIDE DEF w
<1>3. Waits(w, msgs, cleared)
  BY <1>0, <1>2 DEF Waits, SoundLoads, SoundPosts, SameView, SamePosts, SameReload
<1>4. PageOf(w, msgs, cleared)
  BY <1>0, <1>2, <1>3, PageStands
<1>5. /\ SameView(w, chatPage') /\ PageOf(chatPage', msgs, cleared)
      /\ chatPage'.conn = w.conn /\ chatPage'.fresh = w.fresh /\ chatPage'.live = w.live
      /\ chatPage'.reload # None => chatPage'.reload.snap = None /\ chatPage'.reload.current = w.live
  BY <1>1, <1>4, ReloadEndedSound
<1>6. NothingLost(chatPage.shown, chatPage'.shown, msgs, cleared)
  BY <1>2, <1>5, NothingLostHere DEF SameView
<1>7. FreshOf(chatPage', chatStream', msgs, cleared)
  BY <1>0, <1>1, <1>2, <1>5 DEF FreshOf, SameView, SameReload
<1> QED
  BY <1>0, <1>1, <1>5, <1>6, <1>7, ChatStands

LEMMA OutdatedSound ==
    ASSUME NEW pg, PageOf(pg, msgs, cleared), NEW q, q = Chat!Outdated(pg)
    PROVE  /\ SameView(pg, q) /\ PageOf(q, msgs, cleared) /\ q.conn = pg.conn /\ q.live = pg.live
           /\ ~q.fresh /\ q.posts = pg.posts
           /\ q.reload # None => ~q.reload.current
<1> DEFINE r == [pg.reload EXCEPT !.current = FALSE]
           s == IF pg.reload = None THEN None ELSE r
<1>0. pg \in ChatPage /\ Waits(pg, msgs, cleared)
  BY DEF PageOf
<1>1. s # None => s \in AskedAgain /\ ~s.current /\ SoundRequest(s, msgs, cleared)
  <2>1. CASE pg.reload # None
    <3>1. pg.reload \in AskedAgain /\ SoundRequest(pg.reload, msgs, cleared)
      BY <1>0, <2>1 DEF ChatPage, Waits
    <3>2. r \in AskedAgain /\ ~r.current /\ r.known = pg.reload.known /\ r.snap = pg.reload.snap
      BY <3>1 DEF AskedAgain
    <3> HIDE DEF r
    <3> QED
      BY <2>1, <3>1, <3>2 DEF SoundRequest
  <2> QED
    BY <2>1
<1>2. q = [pg EXCEPT !.fresh = FALSE, !.reload = s]
  BY <1>0 DEF Chat!Outdated, ChatPage
<1> HIDE DEF s
<1>3. /\ q \in ChatPage /\ SameView(pg, q) /\ SamePosts(pg, q)
      /\ q.conn = pg.conn /\ ~q.fresh /\ q.live = pg.live /\ q.reload = s
  <2>1. s \in AskedAgain \cup {None}
    BY <1>1
  <2> QED
    BY <1>0, <1>2, <2>1 DEF ChatPage, SameView, SamePosts
<1>4. Waits(q, msgs, cleared)
  BY <1>0, <1>1, <1>3 DEF Waits, SoundLoads, SoundPosts, SameView, SamePosts
<1> QED
  BY <1>1, <1>3, <1>4, PageStands DEF SamePosts

\* The stream is authorized, refused, opened, or writes.
LEMMA StreamKept ==
    ASSUME ChatInv, Chat!StreamAuthorized \/ Chat!StreamRefused \/ Chat!StreamOpens \/ Chat!ListWritten \/ Chat!Presence
    PROVE  ChatInv' /\ PublicsStay
<1>0. /\ PageOf(chatPage, msgs, cleared) /\ FreshOf(chatPage, chatStream, msgs, cleared)
      /\ StreamOf(chatStream, msgs, cleared) /\ chatStream \in Stream /\ ignored \in SUBSET Peers
  BY DEF ChatInv, StreamOf, StoredInv
<1>1. UNCHANGED <<chatPage, Chat!Server>>
  BY DEF Chat!StreamAuthorized, Chat!StreamRefused, Chat!StreamOpens, Chat!ListWritten, Chat!Presence
<1>2. SUFFICES StreamOf(chatStream', msgs, cleared) /\ FreshOf(chatPage, chatStream', msgs, cleared)
  <2>1. NothingLost(chatPage.shown, chatPage'.shown, msgs, cleared)
    BY <1>1, NothingLostHere
  <2> QED
    BY <1>0, <1>1, <1>2, <2>1, ChatStands
<1>3. CASE Chat!StreamAuthorized
  <2>1. chatStream' = [chatStream EXCEPT !.st = "authorized", !.ign = ignored] /\ chatStream.st = "asked"
    BY <1>3 DEF Chat!StreamAuthorized
  <2>2. /\ chatStream' \in Stream /\ chatStream'.st = "authorized" /\ chatStream'.queue = chatStream.queue
        /\ chatStream'.lists = chatStream.lists
    BY <1>0, <2>1 DEF Stream
  <2> QED
    BY <1>0, <2>1, <2>2 DEF StreamOf, FreshOf
<1>4. CASE Chat!StreamRefused
  <2>1. chatStream' = [chatStream EXCEPT !.st = "refused"] /\ chatStream.st = "asked"
    BY <1>4 DEF Chat!StreamRefused
  <2>2. /\ chatStream' \in Stream /\ chatStream'.st = "refused" /\ chatStream'.queue = chatStream.queue
        /\ chatStream'.lists = chatStream.lists
    BY <1>0, <2>1 DEF Stream
  <2> QED
    BY <1>0, <2>1, <2>2 DEF StreamOf, FreshOf
<1>5. CASE Chat!StreamOpens
  <2>1. chatStream' = [chatStream EXCEPT !.st = "open", !.queue = <<[kind |-> "ready"]>>] /\ chatStream.st = "authorized"
    BY <1>5 DEF Chat!StreamOpens
  <2>2. [kind |-> "ready"] \in Event
    BY DEF Event
  <2>3. <<[kind |-> "ready"]>> \in Seq(Event)
    BY <2>2
  <2>4. /\ chatStream' \in Stream /\ chatStream'.st = "open" /\ chatStream'.queue = <<[kind |-> "ready"]>>
        /\ chatStream'.lists = chatStream.lists
    BY <1>0, <2>1, <2>3 DEF Stream
  <2>5. \A k \in DOMAIN chatStream'.queue : EventOf(chatStream'.queue[k], msgs, cleared)
    BY <2>4 DEF EventOf
  <2>6. StreamOf(chatStream', msgs, cleared)
    BY <1>0, <2>1, <2>4, <2>5 DEF StreamOf
  <2> QED
    BY <1>0, <2>1, <2>4, <2>6 DEF FreshOf
<1>6. CASE Chat!ListWritten
  <2>1. PICK l \in chatStream.lists :
            chatStream' = [chatStream EXCEPT !.lists = chatStream.lists \ {l},
                                             !.queue = Append(chatStream.queue, [kind |-> "recipients", ign |-> l])]
    BY <1>0, <1>6 DEF Chat!ListWritten, Stream
  <2> DEFINE e == [kind |-> "recipients", ign |-> l]
             queue == Append(chatStream.queue, e)
  <2>2. e \in Event /\ EventOf(e, msgs, cleared)
    BY <1>0 DEF Event, EventOf, Stream
  <2>3. chatStream.queue \in Seq(Event) /\ chatStream.st = "open"
    BY <1>0 DEF Stream, StreamOf
  <2> HIDE DEF e
  <2>4. queue \in Seq(Event) /\ \A k \in DOMAIN queue : (k \in DOMAIN chatStream.queue /\ queue[k] = chatStream.queue[k]) \/ queue[k] = e
    BY <2>2, <2>3
  <2>5. Coming(chatStream.queue) \subseteq Coming(queue)
    BY <2>2, <2>3, ComingMore
  <2>6. chatStream' = [chatStream EXCEPT !.lists = chatStream.lists \ {l}, !.queue = queue]
    BY <2>1 DEF e
  <2> HIDE DEF queue
  <2>7. chatStream' \in Stream /\ chatStream'.st = "open" /\ chatStream'.queue = queue
    BY <1>0, <2>3, <2>4, <2>6 DEF Stream
  <2>8. StreamOf(chatStream', msgs, cleared)
    BY <1>0, <2>2, <2>4, <2>7 DEF StreamOf
  <2> QED
    BY <1>0, <2>3, <2>5, <2>7, <2>8 DEF FreshOf
<1>7. CASE Chat!Presence
  <2>1. chatStream' = [chatStream EXCEPT !.lists = chatStream.lists \cup {chatStream.ign}] /\ chatStream.st = "open"
    BY <1>0, <1>7 DEF Chat!Presence, Stream
  <2>2. chatStream' \in Stream /\ chatStream'.st = "open" /\ chatStream'.queue = chatStream.queue
    BY <1>0, <2>1 DEF Stream
  <2> QED
    BY <1>0, <2>1, <2>2 DEF StreamOf, FreshOf
<1> QED
  BY <1>3, <1>4, <1>5, <1>6, <1>7

LEMMA AskedStream ==
    ASSUME NEW s, s = [Chat!NoStream EXCEPT !.st = "asked"] \/ s = Chat!NoStream
    PROVE  StreamOf(s, msgs, cleared) /\ s.st \in {"asked", "none"}
<1>1. CASE s = Chat!NoStream
  <2>1. s = [st |-> "none", ign |-> {}, lists |-> {}, queue |-> <<>>]
    BY <1>1 DEF Chat!NoStream
  <2> QED
    BY <2>1 DEF StreamOf, Stream
<1>2. CASE s = [Chat!NoStream EXCEPT !.st = "asked"]
  <2>1. s = [st |-> "asked", ign |-> {}, lists |-> {}, queue |-> <<>>]
    BY <1>2 DEF Chat!NoStream
  <2> QED
    BY <2>1 DEF StreamOf, Stream
<1> QED
  BY <1>1, <1>2

LEMMA StreamLostKept == ChatInv /\ Chat!StreamLost => ChatInv' /\ PublicsStay
<1> SUFFICES ASSUME ChatInv, Chat!StreamLost PROVE ChatInv' /\ PublicsStay
  OBVIOUS
<1> DEFINE w == [chatPage EXCEPT !.live = FALSE]
<1>0. /\ PageOf(chatPage, msgs, cleared) /\ chatPage \in ChatPage /\ FreshOf(chatPage, chatStream, msgs, cleared)
      /\ Waits(chatPage, msgs, cleared)
  BY DEF ChatInv, PageOf
<1>1. /\ chatStream' = [Chat!NoStream EXCEPT !.st = "asked"] /\ chatPage' = Chat!Outdated(w) /\ UNCHANGED Chat!Server
      /\ chatStream.st # "none"
  BY DEF Chat!StreamLost
<1>2. /\ w \in ChatPage /\ SameView(chatPage, w) /\ SamePosts(chatPage, w) /\ w.conn = chatPage.conn
      /\ w.reload = chatPage.reload /\ ~w.live
  BY <1>0 DEF ChatPage, SameView, SamePosts
<1> HIDE DEF w
<1>3. Waits(w, msgs, cleared)
  BY <1>0, <1>2 DEF Waits, SoundLoads, SoundPosts, SameView, SamePosts
<1>4. PageOf(w, msgs, cleared)
  BY <1>0, <1>2, <1>3, PageStands
<1>5. /\ SameView(w, chatPage') /\ PageOf(chatPage', msgs, cleared) /\ chatPage'.conn = w.conn /\ chatPage'.live = w.live
      /\ ~chatPage'.fresh /\ (chatPage'.reload # None => ~chatPage'.reload.current)
  BY <1>1, <1>4, OutdatedSound
<1>6. NothingLost(chatPage.shown, chatPage'.shown, msgs, cleared)
  BY <1>2, <1>5, NothingLostHere DEF SameView
<1>7. StreamOf(chatStream', msgs, cleared) /\ chatStream'.st \in {"asked", "none"}
  BY <1>1, AskedStream
<1>8. chatPage.conn = None
  BY <1>0, <1>1 DEF FreshOf
<1>9. FreshOf(chatPage', chatStream', msgs, cleared)
  BY <1>2, <1>5, <1>7, <1>8 DEF FreshOf
<1> QED
  BY <1>1, <1>5, <1>6, <1>7, <1>9, ChatStands

\* ready
LEMMA ReadySound ==
    ASSUME NEW pg, PageOf(pg, msgs, cleared), NEW q, q = Chat!GotReady(pg)
    PROVE  /\ SameView(pg, q) /\ PageOf(q, msgs, cleared) /\ q.conn = pg.conn /\ q.fresh = pg.fresh
           /\ q.reload = pg.reload \/ q.reload.snap = None
<1> DEFINE w == [pg EXCEPT !.live = TRUE, !.ready = TRUE]
           a == [w EXCEPT !.again = TRUE]
<1>0. pg \in ChatPage /\ Waits(pg, msgs, cleared)
  BY DEF PageOf
<1>1. /\ w \in ChatPage /\ SameView(pg, w) /\ SamePosts(pg, w) /\ w.conn = pg.conn
      /\ w.reload = pg.reload /\ w.fresh = pg.fresh
  BY <1>0 DEF ChatPage, SameView, SamePosts
<1>q. q = IF pg.ready THEN (IF w.reload = None THEN Chat!Reloading(w) ELSE a) ELSE w
  BY DEF Chat!GotReady, Chat!ReloadRequested
<1> HIDE DEF w
<1>2. Waits(w, msgs, cleared)
  BY <1>0, <1>1 DEF Waits, SoundLoads, SoundPosts, SameView, SamePosts
<1>3. PageOf(w, msgs, cleared)
  BY <1>1, <1>2, PageStands
<1>4. /\ a \in ChatPage /\ SameView(w, a) /\ SamePosts(w, a) /\ a.conn = w.conn
      /\ a.reload = w.reload /\ a.fresh = w.fresh
  BY <1>1 DEF ChatPage, SameView, SamePosts
<1> HIDE DEF a
<1>5. Waits(a, msgs, cleared)
  BY <1>2, <1>4 DEF Waits, SoundLoads, SoundPosts, SameView, SamePosts
<1>6. PageOf(a, msgs, cleared)
  BY <1>3, <1>4, <1>5, PageStands
<1>7. CASE q = w
  BY <1>1, <1>3, <1>7
<1>8. CASE q = a
  BY <1>1, <1>4, <1>6, <1>8 DEF SameView
<1>9. CASE q = Chat!Reloading(w)
  <2>1. SameView(w, q) /\ PageOf(q, msgs, cleared) /\ q.conn = w.conn /\ q.fresh = w.fresh /\ q.reload.snap = None
    BY <1>3, <1>9, ReloadingSound
  <2> QED
    BY <1>1, <2>1 DEF SameView
<1> QED
  BY <1>q, <1>7, <1>8, <1>9

LEMMA EventArrivesKept == ChatInv /\ Chat!EventArrives => ChatInv' /\ PublicsStay
<1> SUFFICES ASSUME ChatInv, Chat!EventArrives PROVE ChatInv' /\ PublicsStay
  OBVIOUS
<1> DEFINE e == Head(chatStream.queue)
<1>0. /\ PageOf(chatPage, msgs, cleared) /\ chatPage \in ChatPage /\ FreshOf(chatPage, chatStream, msgs, cleared)
      /\ Waits(chatPage, msgs, cleared) /\ StreamOf(chatStream, msgs, cleared) /\ StoredInv
      /\ chatStream \in Stream /\ chatStream.queue \in Seq(Event)
  BY DEF ChatInv, PageOf, StreamOf, Stream
<1>1. /\ chatStream.queue # <<>> /\ UNCHANGED Chat!Server
      /\ chatStream' = IF e.kind = "access" THEN Chat!NoStream ELSE [chatStream EXCEPT !.queue = Tail(chatStream.queue)]
  BY <1>0 DEF Chat!EventArrives, Stream
<1>2. chatStream.st \in {"open", "ended"} /\ chatPage.conn = None
  BY <1>0, <1>1 DEF StreamOf, FreshOf
<1>3. /\ e \in Event /\ Tail(chatStream.queue) \in Seq(Event)
      /\ Len(Tail(chatStream.queue)) = Len(chatStream.queue) - 1
      /\ \A k \in 1 .. Len(Tail(chatStream.queue)) : Tail(chatStream.queue)[k] = chatStream.queue[k + 1]
  BY <1>0, <1>1, HeadTailProperties
<1>4. EventOf(e, msgs, cleared)
  <2>1. 1 \in DOMAIN chatStream.queue /\ e = chatStream.queue[1]
    BY <1>0, <1>1
  <2> QED
    BY <1>0, <2>1 DEF StreamOf
<1>5. \A k \in DOMAIN Tail(chatStream.queue) : EventOf(Tail(chatStream.queue)[k], msgs, cleared)
  <2>1. ASSUME NEW k \in DOMAIN Tail(chatStream.queue)
        PROVE  k + 1 \in DOMAIN chatStream.queue /\ Tail(chatStream.queue)[k] = chatStream.queue[k + 1]
    <3>1. k \in 1 .. Len(Tail(chatStream.queue)) /\ Len(chatStream.queue) \in Nat
          /\ DOMAIN chatStream.queue = 1 .. Len(chatStream.queue)
      BY <1>0, <1>3
    <3> QED
      BY <1>3, <3>1
  <2> QED
    BY <1>0, <2>1 DEF StreamOf
<1>6. e.kind # "access" => /\ StreamOf(chatStream', msgs, cleared) /\ chatStream'.st = chatStream.st
                           /\ chatStream'.queue = Tail(chatStream.queue)
  <2>1. ASSUME e.kind # "access"
        PROVE  /\ chatStream' \in Stream /\ chatStream'.st = chatStream.st /\ chatStream'.lists = chatStream.lists
               /\ chatStream'.queue = Tail(chatStream.queue)
    <3> HIDE DEF e
    <3> QED
      BY <1>0, <1>1, <1>3, <2>1 DEF Stream
  <2> QED
    BY <1>0, <1>2, <1>5, <2>1 DEF StreamOf
<1>7. /\ e.kind = "message" => Coming(chatStream.queue) \subseteq Coming(Tail(chatStream.queue)) \cup {e.id}
      /\ e.kind # "message" => Coming(chatStream.queue) \subseteq Coming(Tail(chatStream.queue))
  BY <1>0, <1>1, <1>3, ComingMore
<1> SUFFICES /\ StreamOf(chatStream', msgs, cleared) /\ PageOf(chatPage', msgs, cleared)
             /\ FreshOf(chatPage', chatStream', msgs, cleared)
             /\ NothingLost(chatPage.shown, chatPage'.shown, msgs, cleared)
  BY <1>1, ChatStands
<1>8. CASE e.kind = "ready"
  <2>1. chatPage' = Chat!GotReady(chatPage)
    BY <1>8 DEF Chat!EventArrives
  <2>2. /\ SameView(chatPage, chatPage') /\ PageOf(chatPage', msgs, cleared) /\ chatPage'.conn = chatPage.conn
        /\ chatPage'.fresh = chatPage.fresh /\ (chatPage'.reload = chatPage.reload \/ chatPage'.reload.snap = None)
    BY <1>0, <2>1, ReadySound
  <2>3. NothingLost(chatPage.shown, chatPage'.shown, msgs, cleared)
    BY <2>2, NothingLostHere DEF SameView
  <2>4. FreshOf(chatPage', chatStream', msgs, cleared)
    <3>1. chatStream'.st = chatStream.st /\ Coming(chatStream.queue) \subseteq Coming(chatStream'.queue)
      BY <1>6, <1>7, <1>8
    <3>2. chatPage'.shown = chatPage.shown
      BY <2>2 DEF SameView
    <3> HIDE DEF e
    <3> QED
      BY <1>0, <1>2, <2>2, <3>1, <3>2 DEF FreshOf
  <2> QED
    BY <1>6, <1>8, <2>2, <2>3, <2>4
<1>9. ASSUME NEW G, Takes(chatPage, chatPage', G), e.kind # "access", Coming(chatStream.queue) \subseteq Coming(Tail(chatStream.queue)) \cup G
      PROVE  /\ StreamOf(chatStream', msgs, cleared) /\ PageOf(chatPage', msgs, cleared)
             /\ FreshOf(chatPage', chatStream', msgs, cleared)
             /\ NothingLost(chatPage.shown, chatPage'.shown, msgs, cleared)
  <2>1. StreamOf(chatStream', msgs, cleared) /\ chatStream'.st = chatStream.st
        /\ Coming(chatStream.queue) \subseteq Coming(chatStream'.queue) \cup G
    BY <1>6, <1>9
  <2>2. FreshOf(chatPage', chatStream', msgs, cleared)
    BY <1>0, <1>9, <2>1, TakesFresh
  <2>3. PageOf(chatPage', msgs, cleared)
    BY <1>0, <1>9, TakesKeeps
  <2>4. NothingLost(chatPage.shown, chatPage'.shown, msgs, cleared)
    BY <1>9 DEF Takes, NothingLost
  <2> QED
    BY <2>1, <2>2, <2>3, <2>4
<1>10. CASE e.kind = "message"
  <2>1. chatPage' = Chat!GotMessage(chatPage, e)
    BY <1>10 DEF Chat!EventArrives
  <2>2. Takes(chatPage, chatPage', {e.id})
    BY <1>0, <1>3, <1>4, <1>10, <2>1, TakesEvent
  <2> QED
    BY <1>7, <1>9, <1>10, <2>2
<1>11. CASE e.kind = "recipients"
  <2>1. chatPage' = Chat!WithRecipients(chatPage, e.ign) /\ e.ign \in SUBSET Peers
    BY <1>3, <1>11 DEF Chat!EventArrives, Event
  <2>2. Takes(chatPage, chatPage', {})
    BY <1>0, <2>1, TakesRecipients DEF Chat!WithRecipients
  <2> QED
    BY <1>7, <1>9, <1>11, <2>2
<1>12. CASE e.kind = "preferences"
  <2>1. chatPage' = Chat!GotPreferences(chatPage, e) /\ e.ign \in SUBSET Peers
    BY <1>3, <1>12 DEF Chat!EventArrives, Event
  <2>2. Takes(chatPage, chatPage', {})
    <3>1. CASE chatPage.known
      <4>1. chatPage' = Chat!Suppressed([chatPage EXCEPT !.flags = e.ign, !.known = chatPage.known], e.ign)
        <5>1. [chatPage EXCEPT !.flags = e.ign, !.known = chatPage.known] = [chatPage EXCEPT !.flags = e.ign]
          BY <1>0 DEF ChatPage
        <5> QED
          BY <2>1, <3>1, <5>1 DEF Chat!GotPreferences
      <4>2. chatPage.known \in BOOLEAN
        BY <1>0 DEF ChatPage
      <4> QED
        BY <1>0, <2>1, <4>1, <4>2, TakesRecipients
    <3>2. CASE ~chatPage.known
      BY <1>0, <2>1, <3>2, TakesItself DEF Chat!GotPreferences
    <3> QED
      BY <3>1, <3>2
  <2> QED
    BY <1>7, <1>9, <1>12, <2>2
<1>13. CASE e.kind = "access"
  <2> DEFINE w == [chatPage EXCEPT !.suspended = TRUE, !.live = FALSE]
  <2>1. chatPage' = Chat!Outdated(w) /\ chatStream' = Chat!NoStream
    BY <1>1, <1>13 DEF Chat!EventArrives
  <2>2. /\ w \in ChatPage /\ SameView(chatPage, w) /\ SamePosts(chatPage, w) /\ w.conn = chatPage.conn
        /\ w.reload = chatPage.reload /\ ~w.live
    BY <1>0 DEF ChatPage, SameView, SamePosts
  <2> HIDE DEF w
  <2>3. Waits(w, msgs, cleared)
    BY <1>0, <2>2 DEF Waits, SoundLoads, SoundPosts, SameView, SamePosts
  <2>4. PageOf(w, msgs, cleared)
    BY <1>0, <2>2, <2>3, PageStands
  <2>5. /\ SameView(w, chatPage') /\ PageOf(chatPage', msgs, cleared) /\ chatPage'.conn = w.conn
        /\ chatPage'.live = w.live /\ ~chatPage'.fresh /\ (chatPage'.reload # None => ~chatPage'.reload.current)
    BY <2>1, <2>4, OutdatedSound
  <2>6. NothingLost(chatPage.shown, chatPage'.shown, msgs, cleared)
    BY <2>2, <2>5, NothingLostHere DEF SameView
  <2>7. StreamOf(chatStream', msgs, cleared) /\ chatStream'.st \in {"asked", "none"}
    BY <2>1, AskedStream
  <2>8. FreshOf(chatPage', chatStream', msgs, cleared)
    BY <1>2, <2>2, <2>5, <2>7 DEF FreshOf
  <2> QED
    BY <2>5, <2>6, <2>7, <2>8
<1>14. e.kind \in {"ready", "message", "recipients", "preferences", "access"}
  BY <1>3 DEF Event
<1> QED
  BY <1>8, <1>10, <1>11, <1>12, <1>13, <1>14

-----------------------------------------------------------------------------
(* What is stored, and what a page learns of it. *)

\* What the page has and awaits stays sound when the stream tells of what is stored.
ServerSound ==
    /\ Grown(msgs, cleared, msgs', cleared') /\ StoredInv'
    /\ StreamOf(chatStream', msgs', cleared') /\ FreshOf(chatPage, chatStream', msgs', cleared')

\* The history of the server is the newest of what it was and what has come.
LEMMA TopGrows ==
    ASSUME NEW m, NEW c, StoredOf(m, c), NEW n, StoredOf(n, c), Grown(m, c, n, c), NEW G, PublicsOf(n) \subseteq PublicsOf(m) \cup G
    PROVE  Top(n, c) \subseteq Top(m, c) \cup G
<1> SUFFICES ASSUME NEW j \in Top(n, c), j \notin G PROVE j \in Top(m, c)
  OBVIOUS
<1> DEFINE S == PublicsOf(m) \ c
           T == PublicsOf(n) \ c
<1>1. j \in T /\ Cardinality(Newer(T, j)) < Limit /\ j \in S
  BY NewestIs DEF Top
<1>2. S \subseteq T /\ IsFiniteSet(T)
  BY GrownSets, Places
<1>3. Cardinality(Newer(S, j)) <= Cardinality(Newer(T, j)) /\ Cardinality(Newer(S, j)) \in Nat /\ Cardinality(Newer(T, j)) \in Nat
  BY <1>2, NewerGrows
<1>4. Cardinality(Newer(S, j)) < Limit
  BY <1>1, <1>3, ChatBounds
<1> QED
  BY <1>1, <1>4, NewestIs DEF Top

LEMMA PostedSound ==
    ASSUME ChatInv, NEW from \in Chat!Users, NEW to \in {Everyone, Viewer} \cup Peers, Chat!Posted(from, to)
    PROVE  ServerSound /\ Len(msgs) + 1 \in DOMAIN msgs'
<1> DEFINE i == Len(msgs) + 1
           message == [from |-> from, to |-> to]
           q == IF Chat!Streamed(i, msgs') THEN <<i>> ELSE <<>>
           G == IF to = Everyone THEN {i} ELSE {}
<1>0. /\ StoredInv /\ StoredOf(msgs, cleared) /\ msgs \in Seq(ChatMessage) /\ Len(msgs) \in Nat /\ DOMAIN msgs = 1 .. Len(msgs)
      /\ StreamOf(chatStream, msgs, cleared) /\ FreshOf(chatPage, chatStream, msgs, cleared)
  BY DEF ChatInv, StoredInv, StoredOf
<1>1. /\ Len(msgs) < MaxMessages /\ msgs' = Append(msgs, message) /\ chatStream' = Chat!Told(q, cleared)
      /\ UNCHANGED <<cleared, ignored, banned>>
  BY DEF Chat!Posted
<1>2. message \in ChatMessage /\ message.to = to
  BY DEF ChatMessage
<1> HIDE DEF message
<1>3. /\ msgs' \in Seq(ChatMessage) /\ Len(msgs') = i /\ DOMAIN msgs' = 1 .. i /\ i \in Nat /\ i \in DOMAIN msgs'
      /\ DOMAIN msgs' = DOMAIN msgs \cup {i} /\ i \notin DOMAIN msgs
      /\ msgs'[i] = message /\ \A k \in DOMAIN msgs : msgs'[k] = msgs[k] /\ k < i
  BY <1>0, <1>1, <1>2
<1>4. Grown(msgs, cleared, msgs', cleared)
  BY <1>3 DEF Grown
<1>5. PublicsOf(msgs') = PublicsOf(msgs) \cup G
  BY <1>2, <1>3 DEF PublicsOf
<1>6. StoredOf(msgs', cleared)
  <2>1. Len(msgs') <= MaxMessages
    BY <1>0, <1>1, <1>3, ChatBounds
  <2>2. \A k \in cleared, j \in PublicsOf(msgs') \ cleared : k < j
    BY <1>0, <1>3, <1>5 DEF StoredOf, PublicsOf
  <2> QED
    BY <1>0, <1>3, <1>5, <2>1, <2>2 DEF StoredOf
<1>7. q \in Seq(DOMAIN msgs')
  <2>1. <<i>> \in Seq(DOMAIN msgs') /\ <<>> \in Seq(DOMAIN msgs')
    BY <1>3, EmptySeq
  <2> QED
    BY <2>1
<1>8. to = Everyone => 1 \in DOMAIN q /\ q[1] = i
  BY <1>2, <1>3 DEF Chat!Streamed
<1> HIDE DEF q
<1>9. /\ StreamOf(chatStream', msgs', cleared) /\ chatStream'.st = chatStream.st
      /\ Coming(chatStream.queue) \subseteq Coming(chatStream'.queue)
      /\ chatStream.st = "open" => \A k \in DOMAIN q : q[k] \in Coming(chatStream'.queue)
  BY <1>0, <1>1, <1>4, <1>6, <1>7, StreamTold
<1>10. chatStream.st = "open" => G \subseteq Coming(chatStream'.queue)
  BY <1>8, <1>9
<1>11. Top(msgs', cleared) \subseteq Top(msgs, cleared) \cup G
  BY <1>0, <1>4, <1>5, <1>6, TopGrows
<1>12. FreshOf(chatPage, chatStream', msgs', cleared)
  <2> HIDE DEF G
  <2> QED
    BY <1>0, <1>4, <1>9, <1>10, <1>11, FreshGrows
<1> QED
  BY <1>0, <1>1, <1>3, <1>4, <1>6, <1>9, <1>12 DEF ServerSound, StoredInv

LEMMA TouchedSound ==
    ASSUME ChatInv, NEW i, Chat!Touched(i)
    PROVE  ServerSound
<1> DEFINE q == IF Chat!Streamed(i, msgs) THEN <<i>> ELSE <<>>
<1>0. /\ StoredInv /\ StoredOf(msgs, cleared)
      /\ StreamOf(chatStream, msgs, cleared) /\ FreshOf(chatPage, chatStream, msgs, cleared)
  BY DEF ChatInv, StoredInv
<1>1. i \in DOMAIN msgs /\ chatStream' = Chat!Told(q, cleared) /\ UNCHANGED <<msgs, cleared, ignored, banned>>
  BY DEF Chat!Touched, Chat!Server
<1>2. q \in Seq(DOMAIN msgs)
  <2>1. <<i>> \in Seq(DOMAIN msgs) /\ <<>> \in Seq(DOMAIN msgs)
    BY <1>1, EmptySeq
  <2> QED
    BY <2>1
<1> HIDE DEF q
<1>3. Grown(msgs, cleared, msgs, cleared)
  BY DEF Grown
<1>4. /\ StreamOf(chatStream', msgs, cleared) /\ chatStream'.st = chatStream.st
      /\ Coming(chatStream.queue) \subseteq Coming(chatStream'.queue)
  BY <1>0, <1>1, <1>2, <1>3, StreamTold
<1>5. FreshOf(chatPage, chatStream', msgs, cleared)
  BY <1>0, <1>4 DEF FreshOf
<1> QED
  BY <1>0, <1>1, <1>3, <1>4, <1>5 DEF ServerSound, StoredInv

LEMMA OrderIsSeq ==
    ASSUME NEW S, NEW T, S \subseteq T, IsFiniteSet(S), NEW q \in Chat!Orders(S)
    PROVE  q \in Seq(T)
<1>1. Chat!Cardinality(S) \in Nat
  BY SameCount, FS_CardinalityType
<1>2. q \in [1 .. Chat!Cardinality(S) -> S]
  BY DEF Chat!Orders
<1>3. q \in Seq(S)
  BY <1>1, <1>2
<1> QED
  BY <1>3, SeqMonotonic

LEMMA ClearedSound ==
    ASSUME ChatInv, Chat!AllCleared
    PROVE  ServerSound
<1>0. /\ StoredInv /\ StoredOf(msgs, cleared)
      /\ StreamOf(chatStream, msgs, cleared) /\ FreshOf(chatPage, chatStream, msgs, cleared)
  BY DEF ChatInv, StoredInv
<1>1. cleared' = cleared \cup PublicsOf(msgs) /\ UNCHANGED <<msgs, ignored, banned>>
  BY SamePublics DEF Chat!AllCleared
<1>2. PICK q \in Chat!Orders(PublicsOf(msgs) \ cleared) : chatStream' = Chat!Told(q, cleared')
  BY SamePublics DEF Chat!AllCleared
<1>3. Grown(msgs, cleared, msgs, cleared') /\ StoredOf(msgs, cleared')
  BY <1>0, <1>1 DEF Grown, StoredOf
<1>4. q \in Seq(DOMAIN msgs)
  <2>1. PublicsOf(msgs) \ cleared \in SUBSET DOMAIN msgs /\ IsFiniteSet(PublicsOf(msgs) \ cleared)
    BY <1>0, Places
  <2> QED
    BY <2>1, OrderIsSeq
<1>5. /\ StreamOf(chatStream', msgs, cleared') /\ chatStream'.st = chatStream.st
      /\ Coming(chatStream.queue) \subseteq Coming(chatStream'.queue)
  BY <1>0, <1>2, <1>3, <1>4, StreamTold
<1>6. Top(msgs, cleared') = {}
  BY <1>1, NewestIs DEF Top
<1>7. FreshOf(chatPage, chatStream', msgs, cleared')
  BY <1>0, <1>5, <1>6 DEF FreshOf
<1> QED
  BY <1>0, <1>1, <1>3, <1>5, <1>7 DEF ServerSound, StoredInv

LEMMA PreferenceSound ==
    ASSUME ChatInv, NEW ign \in SUBSET Peers, Chat!PreferenceSet(ign)
    PROVE  ServerSound
<1> DEFINE e == [kind |-> "preferences", ign |-> ign]
           queue == Append(chatStream.queue, e)
<1>0. /\ StoredInv /\ StoredOf(msgs, cleared) /\ chatStream \in Stream /\ chatStream.queue \in Seq(Event)
      /\ StreamOf(chatStream, msgs, cleared) /\ FreshOf(chatPage, chatStream, msgs, cleared)
  BY DEF ChatInv, StoredInv, StreamOf, Stream
<1>1. /\ ignored' = ign /\ UNCHANGED <<msgs, cleared, banned>>
      /\ chatStream' = IF chatStream.st # "open" THEN chatStream
                       ELSE [chatStream EXCEPT !.ign = ign, !.lists = chatStream.lists \cup {ign}, !.queue = queue]
  BY <1>0 DEF Chat!PreferenceSet, Stream
<1>2. Grown(msgs, cleared, msgs, cleared)
  BY DEF Grown
<1>3. CASE chatStream.st # "open"
  BY <1>0, <1>1, <1>2, <1>3 DEF ServerSound, StoredInv
<1>4. CASE chatStream.st = "open"
  <2>1. e \in Event /\ EventOf(e, msgs, cleared)
    BY DEF Event, EventOf
  <2> HIDE DEF e
  <2>2. queue \in Seq(Event) /\ \A k \in DOMAIN queue : (k \in DOMAIN chatStream.queue /\ queue[k] = chatStream.queue[k]) \/ queue[k] = e
    BY <1>0, <2>1
  <2>3. Coming(chatStream.queue) \subseteq Coming(queue)
    BY <1>0, <2>1, ComingMore
  <2> HIDE DEF queue
  <2>4. chatStream' \in Stream /\ chatStream'.st = "open" /\ chatStream'.queue = queue
    BY <1>0, <1>1, <1>4, <2>2 DEF Stream
  <2>5. StreamOf(chatStream', msgs, cleared)
    BY <1>0, <2>1, <2>2, <2>4 DEF StreamOf
  <2>6. FreshOf(chatPage, chatStream', msgs, cleared)
    BY <1>0, <1>4, <2>3, <2>4 DEF FreshOf
  <2> QED
    BY <1>0, <1>1, <1>2, <2>5, <2>6 DEF ServerSound, StoredInv
<1> QED
  BY <1>3, <1>4

\* A step of the server that the page does not take part in
LEMMA ServerKept ==
    ASSUME ChatInv, ServerSound, UNCHANGED chatPage
    PROVE  ChatInv' /\ PublicsStay
<1>1. PageOf(chatPage, msgs', cleared')
  BY PageGrows DEF ChatInv, ServerSound
<1>2. NothingLost(chatPage.shown, chatPage'.shown, msgs, cleared)
  BY NothingLostHere
<1> QED
  BY <1>1, <1>2 DEF ChatInv, ServerSound, PublicsStay

LEMMA OthersKept ==
    ASSUME ChatInv, Chat!PeerPosts \/ Chat!PeerTouches \/ Chat!OtherClears \/ Chat!OtherPage
    PROVE  ChatInv' /\ PublicsStay
<1>1. UNCHANGED chatPage
  BY DEF Chat!PeerPosts, Chat!PeerTouches, Chat!OtherClears, Chat!OtherPage
<1>2. CASE Chat!PeerPosts
  <2>1. PICK p \in Peers, to \in {Everyone, Viewer} : Chat!Posted(p, to)
    BY <1>2 DEF Chat!PeerPosts
  <2>2. p \in Chat!Users /\ to \in {Everyone, Viewer} \cup Peers
    BY DEF Chat!Users
  <2>3. ServerSound
    BY <2>1, <2>2, PostedSound
  <2> QED
    BY <1>1, <2>3, ServerKept
<1>3. CASE Chat!PeerTouches
  <2>1. PICK i \in DOMAIN msgs : Chat!Touched(i)
    BY <1>3 DEF Chat!PeerTouches
  <2> QED
    BY <1>1, <2>1, TouchedSound, ServerKept
<1>4. CASE Chat!OtherClears
  BY <1>1, <1>4, ClearedSound, ServerKept DEF Chat!OtherClears
<1>5. CASE Chat!OtherPage
  <2>1. PICK p \in Peers : Chat!PreferenceSet(IF p \in ignored THEN ignored \ {p} ELSE ignored \cup {p})
    BY <1>5 DEF Chat!OtherPage
  <2>2. (IF p \in ignored THEN ignored \ {p} ELSE ignored \cup {p}) \in SUBSET Peers
    BY DEF ChatInv, StoredInv
  <2>3. ServerSound
    BY <2>1, <2>2, PreferenceSound
  <2> QED
    BY <1>1, <2>3, ServerKept
<1> QED
  BY <1>2, <1>3, <1>4, <1>5

LEMMA BannedKept == ChatInv /\ Chat!Banned => ChatInv' /\ PublicsStay
<1> SUFFICES ASSUME ChatInv, Chat!Banned PROVE ChatInv' /\ PublicsStay
  OBVIOUS
<1> DEFINE e == [kind |-> "access"]
           queue == Append(chatStream.queue, e)
<1>0. /\ StoredInv /\ chatStream \in Stream /\ chatStream.queue \in Seq(Event)
      /\ StreamOf(chatStream, msgs, cleared) /\ FreshOf(chatPage, chatStream, msgs, cleared)
  BY DEF ChatInv, StreamOf, Stream
<1>1. /\ banned' = TRUE /\ UNCHANGED <<msgs, cleared, ignored, chatPage>>
      /\ chatStream' = IF chatStream.st # "open" THEN chatStream
                       ELSE [chatStream EXCEPT !.st = "ended", !.lists = {}, !.queue = queue]
  BY <1>0 DEF Chat!Banned, Stream
<1>2. StreamOf(chatStream', msgs, cleared) /\ FreshOf(chatPage, chatStream', msgs, cleared)
  <2>1. CASE chatStream.st # "open"
    BY <1>0, <1>1, <2>1
  <2>2. CASE chatStream.st = "open"
    <3>1. e \in Event /\ EventOf(e, msgs, cleared)
      BY DEF Event, EventOf
    <3> HIDE DEF e
    <3>2. queue \in Seq(Event) /\ \A k \in DOMAIN queue : (k \in DOMAIN chatStream.queue /\ queue[k] = chatStream.queue[k]) \/ queue[k] = e
      BY <1>0, <3>1
    <3> HIDE DEF queue
    <3>3. chatStream' \in Stream /\ chatStream'.st = "ended" /\ chatStream'.lists = {} /\ chatStream'.queue = queue
      BY <1>0, <1>1, <2>2, <3>2 DEF Stream
    <3>4. StreamOf(chatStream', msgs, cleared)
      BY <1>0, <3>1, <3>2, <3>3 DEF StreamOf
    <3> QED
      BY <1>0, <2>2, <3>3, <3>4 DEF FreshOf
  <2> QED
    BY <2>1, <2>2
<1>3. NothingLost(chatPage.shown, chatPage'.shown, msgs, cleared)
  BY <1>1, NothingLostHere
<1> QED
  BY <1>1, <1>2, <1>3 DEF ChatInv, StoredInv, PublicsStay

-----------------------------------------------------------------------------
(* The viewer *)

\* A step that changes the calls of the page alone
LEMMA PostsKept ==
    ASSUME ChatInv, UNCHANGED <<Chat!Server, chatStream>>, NEW S \in SUBSET Post, NEW b \in BOOLEAN,
           chatPage' = [chatPage EXCEPT !.posts = S, !.composer = b], SoundPosts(chatPage', msgs)
    PROVE  ChatInv' /\ PublicsStay
<1>0. PageOf(chatPage, msgs, cleared) /\ FreshOf(chatPage, chatStream, msgs, cleared) /\ StreamOf(chatStream, msgs, cleared)
  BY DEF ChatInv
<1>1. /\ chatPage' \in ChatPage /\ SameView(chatPage, chatPage') /\ SameReload(chatPage, chatPage')
      /\ chatPage'.conn = chatPage.conn /\ PageOf(chatPage', msgs, cleared)
  <2>1. chatPage \in ChatPage /\ Waits(chatPage, msgs, cleared)
    BY <1>0 DEF PageOf
  <2>2. /\ chatPage' \in ChatPage /\ SameView(chatPage, chatPage') /\ SameReload(chatPage, chatPage')
        /\ chatPage'.conn = chatPage.conn
    BY <2>1 DEF ChatPage, SameView, SameReload
  <2>3. Waits(chatPage', msgs, cleared)
    BY <2>1, <2>2 DEF Waits, SoundLoads, SameView, SameReload
  <2> QED
    BY <1>0, <2>2, <2>3, PageStands
<1>2. FreshOf(chatPage', chatStream', msgs, cleared)
  BY <1>0, <1>1 DEF FreshOf, SameView, SameReload
<1> QED
  BY <1>0, <1>1, <1>2, WaitingStands DEF PageOf

\* A call of another kind than a message
LEMMA CallKept ==
    ASSUME ChatInv, UNCHANGED <<Chat!Server, chatStream>>, NEW a \in Post, a.kind # "send", ~a.done,
           a.kind \in {"ignore", "restore"} => a.conv \in Peers, a.kind = "touch" => a.id \in DOMAIN msgs,
           chatPage' = [chatPage EXCEPT !.posts = chatPage.posts \cup {a}]
    PROVE  ChatInv' /\ PublicsStay
<1>0. chatPage \in ChatPage /\ SoundPosts(chatPage, msgs)
  BY DEF ChatInv, PageOf, Waits
<1>1. chatPage.posts \cup {a} \in SUBSET Post /\ chatPage.composer \in BOOLEAN
  BY <1>0 DEF ChatPage
<1>2. chatPage' = [chatPage EXCEPT !.posts = chatPage.posts \cup {a}, !.composer = chatPage.composer]
  BY <1>0 DEF ChatPage
<1>3. chatPage'.posts = chatPage.posts \cup {a} /\ chatPage'.composer = chatPage.composer
  BY <1>0 DEF ChatPage
<1>4. SoundPosts(chatPage', msgs)
  BY <1>0, <1>3 DEF SoundPosts
<1> QED
  BY <1>1, <1>2, <1>4, PostsKept

LEMMA CallsKept ==
    ASSUME ChatInv, Chat!Send \/ Chat!Touch \/ Chat!Clear \/ Chat!ToggleIgnore
    PROVE  ChatInv' /\ PublicsStay
<1>0. chatPage \in ChatPage /\ SoundPosts(chatPage, msgs) /\ ShownOf(chatPage, msgs) /\ StoredInv
  BY DEF ChatInv, PageOf, Waits
<1>1. UNCHANGED <<Chat!Server, chatStream>>
  BY DEF Chat!Send, Chat!Touch, Chat!Clear, Chat!ToggleIgnore
<1>2. CASE Chat!Send
  <2> DEFINE a == [kind |-> "send", conv |-> chatPage.selected, id |-> 0, done |-> FALSE]
  <2>1. ~chatPage.composer /\ chatPage' = [chatPage EXCEPT !.composer = TRUE, !.posts = chatPage.posts \cup {a}]
    BY <1>0, <1>2 DEF Chat!Send, Chat!Call, ChatPage
  <2>2. a \in Post /\ a.kind = "send" /\ a.done = FALSE
    BY <1>0 DEF Post, ChatPage
  <2> HIDE DEF a
  <2>3. chatPage.posts \cup {a} \in SUBSET Post
    BY <1>0, <2>2 DEF ChatPage
  <2>4. chatPage' = [chatPage EXCEPT !.posts = chatPage.posts \cup {a}, !.composer = TRUE]
    BY <1>0, <2>1 DEF ChatPage
  <2>5. chatPage'.posts = chatPage.posts \cup {a} /\ chatPage'.composer = TRUE
    BY <1>0, <2>1 DEF ChatPage
  <2>6. SoundPosts(chatPage', msgs)
    BY <1>0, <2>1, <2>2, <2>5 DEF SoundPosts
  <2> QED
    BY <1>1, <2>3, <2>4, <2>6, PostsKept
<1>3. CASE Chat!Touch
  <2>1. PICK i \in chatPage.shown : chatPage' = [chatPage EXCEPT !.posts = chatPage.posts \cup {Chat!Call("touch", Everyone, i)}]
    BY <1>0, <1>3 DEF Chat!Touch, ChatPage
  <2> DEFINE a == Chat!Call("touch", Everyone, i)
  <2>2. i \in DOMAIN msgs /\ i \in Nat
    BY <1>0 DEF ShownOf, ChatPage
  <2>3. a \in Post /\ a.kind = "touch" /\ a.done = FALSE /\ a.id = i
    BY <2>2 DEF Post, Chat!Call, Chat!Conversations
  <2> HIDE DEF a
  <2> QED
    BY <1>1, <2>1, <2>2, <2>3, CallKept DEF a
<1>4. CASE Chat!Clear
  <2> DEFINE a == Chat!Call("clear", Everyone, 0)
  <2>1. chatPage' = [chatPage EXCEPT !.posts = chatPage.posts \cup {a}]
    BY <1>0, <1>4 DEF Chat!Clear, ChatPage
  <2>2. a \in Post /\ a.kind = "clear" /\ a.done = FALSE
    BY DEF Post, Chat!Call, Chat!Conversations
  <2> HIDE DEF a
  <2> QED
    BY <1>1, <2>1, <2>2, CallKept
<1>5. CASE Chat!ToggleIgnore
  <2> DEFINE k == IF chatPage.selected \in chatPage.flags THEN "restore" ELSE "ignore"
             a == Chat!Call(k, chatPage.selected, 0)
  <2>1. chatPage' = [chatPage EXCEPT !.posts = chatPage.posts \cup {a}] /\ chatPage.selected \in Peers
    BY <1>0, <1>5 DEF Chat!ToggleIgnore, ChatPage
  <2>2. k \in {"restore", "ignore"}
    OBVIOUS
  <2> HIDE DEF k
  <2>3. a \in Post /\ a.kind = k /\ a.done = FALSE /\ a.conv = chatPage.selected
    BY <2>1, <2>2 DEF Post, Chat!Call, Chat!Conversations
  <2> HIDE DEF a
  <2> QED
    BY <1>1, <2>1, <2>2, <2>3, CallKept
<1> QED
  BY <1>2, <1>3, <1>4, <1>5

LEMMA PostFailsKept == ChatInv /\ Chat!PostFails => ChatInv' /\ PublicsStay
<1> SUFFICES ASSUME ChatInv, Chat!PostFails PROVE ChatInv' /\ PublicsStay
  OBVIOUS
<1>0. chatPage \in ChatPage /\ SoundPosts(chatPage, msgs)
  BY DEF ChatInv, PageOf, Waits
<1>1. PICK a \in chatPage.posts :
          chatPage' = [chatPage EXCEPT !.posts = chatPage.posts \ {a},
                                       !.composer = IF a.kind = "send" THEN FALSE ELSE chatPage.composer]
  BY <1>0 DEF Chat!PostFails, ChatPage
<1>2. UNCHANGED <<Chat!Server, chatStream>>
  BY DEF Chat!PostFails
<1> DEFINE b == IF a.kind = "send" THEN FALSE ELSE chatPage.composer
<1>3. chatPage.posts \ {a} \in SUBSET Post /\ b \in BOOLEAN
  BY <1>0 DEF ChatPage
<1>4. chatPage'.posts = chatPage.posts \ {a} /\ chatPage'.composer = b
  BY <1>0, <1>1 DEF ChatPage
<1>5. SoundPosts(chatPage', msgs)
  BY <1>0, <1>4 DEF SoundPosts
<1> HIDE DEF b
<1> QED
  BY <1>1, <1>2, <1>3, <1>5, PostsKept DEF b

\* A load of a conversation without unread messages
LEMMA LoadingSound ==
    ASSUME StoredInv, NEW pg, PageOf(pg, msgs, cleared), NEW p \in Peers, pg.unread[p] = 0, NEW q, q = Chat!Loading(pg, p)
    PROVE  /\ q \in ChatPage /\ PageOf(q, msgs, cleared) /\ q.shown = pg.shown /\ q.conn = pg.conn
           /\ SameReload(pg, q) /\ SamePosts(pg, q)
<1> DEFINE l == [peer |-> p, snap |-> None, known |-> {i \in pg.shown \cap Chat!Directs : Chat!Peer(i) = p}]
<1>0. pg \in ChatPage /\ Waits(pg, msgs, cleared) /\ ShownOf(pg, msgs) /\ BadgesOf(pg, msgs)
  BY DEF PageOf
<1>1. q = [pg EXCEPT !.loads = pg.loads \cup {l}]
  BY <1>0 DEF Chat!Loading, ChatPage
<1>2. l.known \in SUBSET DirectsOf(msgs) /\ \A r \in Peers \ {p} : l.known \cap FromPeer(msgs, r) = {}
  BY SamePublics DEF FromPeer, Chat!Peer, Chat!Mine
<1>3. l.known \in SUBSET Nat
  BY <1>0 DEF ChatPage
<1>4. l \in Load /\ l.snap = None
  BY <1>3 DEF Load
<1> HIDE DEF l
<1>5. pg.loads \cup {l} \in SUBSET Load
  BY <1>0, <1>4 DEF ChatPage
<1>6. /\ q \in ChatPage /\ q.shown = pg.shown /\ q.conn = pg.conn /\ q.loads = pg.loads \cup {l}
      /\ q.unread = pg.unread /\ q.twice = pg.twice /\ q.selected = pg.selected
      /\ SameReload(pg, q) /\ SamePosts(pg, q)
  BY <1>0, <1>1, <1>5 DEF ChatPage, SameReload, SamePosts
<1>7. Waits(q, msgs, cleared)
  BY <1>0, <1>2, <1>4, <1>6 DEF Waits, SoundLoads, SoundPosts, SameReload, SamePosts
<1>8. ASSUME NEW r \in Peers, r \notin q.twice PROVE q.unread[r] <= Cardinality(Kept(q, msgs, r))
  <2>0. Cardinality(Kept(q, msgs, r)) \in Nat
    BY KeptFinite
  <2>1. CASE r = p
    BY <1>6, <2>0, <2>1
  <2>2. CASE r # p
    <3>1. Kept(q, msgs, r) = Kept(pg, msgs, r)
      BY <1>2, <1>6, <2>2 DEF Kept
    <3> QED
      BY <1>0, <1>6, <1>8, <3>1 DEF BadgesOf
  <2> QED
    BY <2>1, <2>2
<1>9. BadgesOf(q, msgs)
  BY <1>0, <1>6, <1>8 DEF BadgesOf
<1>10. ShownOf(q, msgs)
  BY <1>0, <1>6 DEF ShownOf
<1> QED
  BY <1>6, <1>7, <1>9, <1>10 DEF PageOf

LEMMA SwitchKept == ASSUME NEW d \in Chat!Conversations, ChatInv, Chat!Switch(d) PROVE ChatInv' /\ PublicsStay
<1> DEFINE u == [p \in Peers |-> IF p = d THEN 0 ELSE chatPage.unread[p]]
           w == [chatPage EXCEPT !.selected = d, !.unread = u]
<1>0. /\ PageOf(chatPage, msgs, cleared) /\ chatPage \in ChatPage /\ FreshOf(chatPage, chatStream, msgs, cleared)
      /\ Waits(chatPage, msgs, cleared) /\ StreamOf(chatStream, msgs, cleared) /\ StoredInv
      /\ ShownOf(chatPage, msgs) /\ BadgesOf(chatPage, msgs)
  BY DEF ChatInv, PageOf
<1>1. /\ chatPage' = IF d \in Peers \ chatPage.loaded THEN Chat!Loading(w, d) ELSE w
      /\ UNCHANGED <<Chat!Server, chatStream>>
  BY <1>0 DEF Chat!Switch, ChatPage
<1>2. u \in [Peers -> Nat] /\ \A p \in Peers : u[p] = 0 \/ (p # d /\ u[p] = chatPage.unread[p])
  BY <1>0 DEF ChatPage
<1>2a. d \in Peers => u[d] = 0
  OBVIOUS
<1> HIDE DEF u
<1>3. /\ w \in ChatPage /\ w.shown = chatPage.shown /\ w.twice = chatPage.twice /\ w.loads = chatPage.loads
      /\ w.selected = d /\ w.unread = u /\ w.conn = chatPage.conn /\ SameReload(chatPage, w) /\ SamePosts(chatPage, w)
  BY <1>0, <1>2 DEF ChatPage, SameReload, SamePosts
<1> HIDE DEF w
<1>4. \A p \in Peers : Kept(w, msgs, p) = Kept(chatPage, msgs, p)
  BY <1>3 DEF Kept
<1>5. ASSUME NEW p \in Peers, p \notin w.twice PROVE w.unread[p] <= Cardinality(Kept(w, msgs, p))
  <2>1. CASE u[p] = 0
    BY <1>0, <1>3, <2>1, KeptFinite
  <2>2. CASE u[p] = chatPage.unread[p]
    BY <1>0, <1>3, <1>4, <1>5, <2>2 DEF BadgesOf
  <2> QED
    BY <1>2, <2>1, <2>2
<1>6. BadgesOf(w, msgs)
  BY <1>2a, <1>3, <1>5 DEF BadgesOf
<1>7. PageOf(w, msgs, cleared)
  BY <1>0, <1>3, <1>6 DEF PageOf, ShownOf, Waits, SoundLoads, SoundPosts, SameReload, SamePosts
<1>8. PageOf(chatPage', msgs, cleared) /\ chatPage'.shown = w.shown /\ chatPage'.conn = w.conn /\ SameReload(w, chatPage')
  <2>1. CASE d \in Peers \ chatPage.loaded
    <3>1. chatPage' = Chat!Loading(w, d) /\ w.unread[d] = 0 /\ d \in Peers
      BY <1>1, <1>2a, <1>3, <2>1
    <3> QED
      BY <1>0, <1>7, <3>1, LoadingSound
  <2>2. CASE ~(d \in Peers \ chatPage.loaded)
    BY <1>1, <1>7, <2>2 DEF SameReload
  <2> QED
    BY <2>1, <2>2
<1>9. FreshOf(chatPage', chatStream', msgs, cleared)
  BY <1>0, <1>1, <1>3, <1>8 DEF FreshOf, SameReload
<1>10. NothingLost(chatPage.shown, chatPage'.shown, msgs, cleared)
  BY <1>3, <1>8, NothingLostHere
<1> QED
  BY <1>0, <1>1, <1>8, <1>9, <1>10, ChatStands

LEMMA ReattachKept == ChatInv /\ Chat!Reattach => ChatInv' /\ PublicsStay
<1> SUFFICES ASSUME ChatInv, Chat!Reattach PROVE ChatInv' /\ PublicsStay
  OBVIOUS
<1> DEFINE S == {a \in chatPage.posts : a.kind # "send"}
<1>0. /\ PageOf(chatPage, msgs, cleared) /\ chatPage \in ChatPage /\ Waits(chatPage, msgs, cleared) /\ StoredInv
      /\ ShownOf(chatPage, msgs) /\ BadgesOf(chatPage, msgs)
  BY DEF ChatInv, PageOf
<1>1. /\ chatPage' = [chatPage EXCEPT !.conn = None, !.reload = None, !.again = FALSE, !.loads = {}, !.posts = S,
                                      !.composer = FALSE, !.live = FALSE, !.fresh = FALSE]
      /\ chatStream' = Chat!NoStream /\ UNCHANGED Chat!Server
  BY <1>0 DEF Chat!Reattach, ChatPage
<1>2. S \in SUBSET Post /\ S \subseteq chatPage.posts /\ \A a \in S : a.kind # "send"
  BY <1>0 DEF ChatPage
<1> HIDE DEF S
<1>3. /\ chatPage' \in ChatPage /\ chatPage'.shown = chatPage.shown /\ chatPage'.unread = chatPage.unread
      /\ chatPage'.twice = chatPage.twice /\ chatPage'.selected = chatPage.selected /\ chatPage'.conn = None
      /\ chatPage'.reload = None /\ chatPage'.loads = {} /\ chatPage'.posts = S /\ ~chatPage'.live /\ ~chatPage'.fresh
  BY <1>0, <1>1, <1>2 DEF ChatPage
<1>4. ASSUME NEW p \in Peers, p \notin chatPage'.twice PROVE chatPage'.unread[p] <= Cardinality(Kept(chatPage', msgs, p))
  <2>1. Kept(chatPage, msgs, p) \subseteq Kept(chatPage', msgs, p)
    BY <1>3 DEF Kept
  <2>2. chatPage.unread[p] <= Cardinality(Kept(chatPage, msgs, p)) /\ chatPage.unread[p] \in Nat
    BY <1>0, <1>3, <1>4 DEF BadgesOf, ChatPage
  <2>3. /\ Cardinality(Kept(chatPage, msgs, p)) <= Cardinality(Kept(chatPage', msgs, p))
        /\ Cardinality(Kept(chatPage, msgs, p)) \in Nat /\ Cardinality(Kept(chatPage', msgs, p)) \in Nat
    BY <1>0, <2>1, MoreKept, KeptFinite
  <2> QED
    BY <1>3, <2>2, <2>3
<1>5. BadgesOf(chatPage', msgs)
  BY <1>0, <1>3, <1>4 DEF BadgesOf
<1>6. Waits(chatPage', msgs, cleared)
  BY <1>0, <1>2, <1>3 DEF Waits, SoundLoads, SoundPosts
<1>7. PageOf(chatPage', msgs, cleared)
  BY <1>0, <1>3, <1>5, <1>6 DEF PageOf, ShownOf
<1>8. StreamOf(chatStream', msgs, cleared) /\ chatStream'.st \in {"asked", "none"}
  BY <1>1, AskedStream
<1>9. FreshOf(chatPage', chatStream', msgs, cleared)
  BY <1>3, <1>8 DEF FreshOf
<1>10. NothingLost(chatPage.shown, chatPage'.shown, msgs, cleared)
  BY <1>3, NothingLostHere
<1> QED
  BY <1>1, <1>7, <1>8, <1>9, <1>10, ChatStands

\* A call is served; the page hears of it later.
LEMMA PostServedKept == ChatInv /\ Chat!PostServed => ChatInv' /\ PublicsStay
<1> SUFFICES ASSUME ChatInv, Chat!PostServed PROVE ChatInv' /\ PublicsStay
  OBVIOUS
<1>0. PageOf(chatPage, msgs, cleared) /\ chatPage \in ChatPage /\ StoredInv /\ msgs \in Seq(ChatMessage)
  BY DEF ChatInv, PageOf, StoredInv, StoredOf
<1>1. PICK a \in chatPage.posts :
          /\ ~a.done
          /\ \/ a.kind = "send" /\ Chat!Posted(Viewer, a.conv)
             \/ a.kind = "touch" /\ Chat!Touched(a.id)
             \/ a.kind = "clear" /\ Chat!AllCleared
             \/ a.kind = "ignore" /\ Chat!PreferenceSet(ignored \cup {a.conv})
             \/ a.kind = "restore" /\ Chat!PreferenceSet(ignored \ {a.conv})
          /\ chatPage' = [chatPage EXCEPT !.posts = (chatPage.posts \ {a}) \cup
                {[a EXCEPT !.done = TRUE, !.id = IF a.kind = "send" THEN Len(msgs) + 1 ELSE a.id]}]
  BY <1>0 DEF Chat!PostServed, ChatPage
<1> DEFINE i == IF a.kind = "send" THEN Len(msgs) + 1 ELSE a.id
           b == [a EXCEPT !.done = TRUE, !.id = i]
           S == (chatPage.posts \ {a}) \cup {b}
<1>2. a \in Post /\ (a.kind \in {"ignore", "restore"} => a.conv \in Peers)
  BY <1>0 DEF ChatPage, PageOf, Waits, SoundPosts
<1>3. i \in Nat
  BY <1>0, <1>2 DEF Post
<1>4. ServerSound /\ (a.kind = "send" => i \in DOMAIN msgs')
  <2>1. CASE a.kind = "send" /\ Chat!Posted(Viewer, a.conv)
    <3>1. Viewer \in Chat!Users /\ a.conv \in {Everyone, Viewer} \cup Peers
      BY <1>2 DEF Chat!Users, Post, Chat!Conversations
    <3> QED
      BY <2>1, <3>1, PostedSound
  <2>2. CASE a.kind = "touch" /\ Chat!Touched(a.id)
    BY <2>2, TouchedSound
  <2>3. CASE a.kind = "clear" /\ Chat!AllCleared
    BY <2>3, ClearedSound
  <2>4. CASE a.kind \in {"ignore", "restore"} /\ (Chat!PreferenceSet(ignored \cup {a.conv}) \/ Chat!PreferenceSet(ignored \ {a.conv}))
    <3>1. ignored \cup {a.conv} \in SUBSET Peers /\ ignored \ {a.conv} \in SUBSET Peers
      BY <1>0, <1>2, <2>4 DEF StoredInv
    <3> QED
      BY <2>4, <3>1, PreferenceSound
  <2> QED
    BY <1>1, <2>1, <2>2, <2>3, <2>4
<1>5. PageOf(chatPage, msgs', cleared') /\ Grown(msgs, cleared, msgs', cleared')
  BY <1>0, <1>4, PageGrows DEF ServerSound
<1>6. chatPage' = [chatPage EXCEPT !.posts = S]
  BY <1>1
<1> HIDE DEF i
<1>7. b \in Post /\ b.kind = a.kind /\ b.conv = a.conv /\ b.id = i /\ b.done = TRUE
  BY <1>2, <1>3 DEF Post
<1> HIDE DEF b
<1>8. S \in SUBSET Post
  BY <1>0, <1>7 DEF ChatPage
<1>9. /\ chatPage' \in ChatPage /\ SameView(chatPage, chatPage') /\ SameReload(chatPage, chatPage')
      /\ chatPage'.conn = chatPage.conn /\ chatPage'.posts = S /\ chatPage'.composer = chatPage.composer
  BY <1>0, <1>6, <1>8 DEF ChatPage, SameView, SameReload
<1>10. SoundPosts(chatPage', msgs')
  <2>1. SoundPosts(chatPage, msgs')
    BY <1>5 DEF PageOf, Waits
  <2>2. (a.kind = "touch" \/ a.kind = "send") => b.id \in DOMAIN msgs'
    BY <1>4, <1>7, <2>1 DEF SoundPosts, i
  <2> QED
    BY <1>7, <1>9, <2>1, <2>2 DEF SoundPosts
<1>11. Waits(chatPage', msgs', cleared')
  BY <1>5, <1>9, <1>10 DEF PageOf, Waits, SoundLoads, SameView, SameReload
<1>12. PageOf(chatPage', msgs', cleared')
  BY <1>5, <1>9, <1>11, PageStands
<1>13. FreshOf(chatPage', chatStream', msgs', cleared')
  BY <1>4, <1>9 DEF ServerSound, FreshOf, SameView, SameReload
<1>14. chatPage'.shown = chatPage.shown
  BY <1>9 DEF SameView
<1>15. NothingLost(chatPage.shown, chatPage'.shown, msgs, cleared)
  BY <1>14, NothingLostHere
<1> QED
  BY <1>4, <1>12, <1>13, <1>14, <1>15 DEF ChatInv, ServerSound, PublicsStay

LEMMA PostAnsweredKept == ChatInv /\ Chat!PostAnswered => ChatInv' /\ PublicsStay
<1> SUFFICES ASSUME ChatInv, Chat!PostAnswered PROVE ChatInv' /\ PublicsStay
  OBVIOUS
<1>0. /\ PageOf(chatPage, msgs, cleared) /\ chatPage \in ChatPage /\ Waits(chatPage, msgs, cleared) /\ StoredInv
      /\ FreshOf(chatPage, chatStream, msgs, cleared) /\ StreamOf(chatStream, msgs, cleared)
      /\ SoundPosts(chatPage, msgs)
  BY DEF ChatInv, PageOf, Waits
<1>1. PICK a \in chatPage.posts : a.done /\ chatPage' = Chat!Answered([chatPage EXCEPT !.posts = chatPage.posts \ {a}], a)
  BY <1>0 DEF Chat!PostAnswered, ChatPage
<1>2. UNCHANGED <<Chat!Server, chatStream>>
  BY DEF Chat!PostAnswered
<1>3. /\ a \in Post /\ (a.kind \in {"ignore", "restore"} => a.conv \in Peers)
      /\ (a.kind \in {"send", "touch"} => a.id \in DOMAIN msgs)
  BY <1>0, <1>1 DEF ChatPage, SoundPosts
<1> DEFINE w == [chatPage EXCEPT !.posts = chatPage.posts \ {a}]
<1>4. /\ w \in ChatPage /\ SameView(chatPage, w) /\ SameReload(chatPage, w) /\ w.conn = chatPage.conn
      /\ w.posts = chatPage.posts \ {a} /\ w.composer = chatPage.composer /\ w.flags = chatPage.flags
  BY <1>0 DEF ChatPage, SameView, SameReload
<1>5. chatPage' = Chat!Answered(w, a)
  BY <1>1
<1> HIDE DEF w
<1>6. SoundPosts(w, msgs)
  BY <1>0, <1>4 DEF SoundPosts
<1>7. Waits(w, msgs, cleared)
  BY <1>0, <1>4, <1>6 DEF Waits, SoundLoads, SameView, SameReload
<1>8. PageOf(w, msgs, cleared) /\ FreshOf(w, chatStream, msgs, cleared)
  <2>1. PageOf(w, msgs, cleared)
    BY <1>0, <1>4, <1>7, PageStands
  <2> QED
    BY <1>0, <1>4, <2>1 DEF FreshOf, SameView, SameReload
<1>9. ASSUME NEW n, NEW G, Takes(w, n, G), chatPage' \in ChatPage, SameView(n, chatPage'), SameReload(n, chatPage'),
             chatPage'.conn = n.conn, SoundPosts(chatPage', msgs)
      PROVE  ChatInv' /\ PublicsStay
  <2>1. PageOf(n, msgs, cleared)
    BY <1>8, <1>9, TakesKeeps
  <2>2. FreshOf(n, chatStream, msgs, cleared)
    <3>1. Coming(chatStream.queue) \subseteq Coming(chatStream.queue) \cup G
      OBVIOUS
    <3> QED
      BY <1>0, <1>8, <1>9, <3>1, TakesFresh
  <2>3. Waits(chatPage', msgs, cleared)
    BY <1>9, <2>1 DEF PageOf, Waits, SoundLoads, SameView, SameReload
  <2>4. PageOf(chatPage', msgs, cleared)
    BY <1>9, <2>1, <2>3, PageStands
  <2>5. FreshOf(chatPage', chatStream', msgs, cleared)
    BY <1>2, <1>9, <2>2 DEF FreshOf, SameView, SameReload
  <2>6. NothingLost(chatPage.shown, chatPage'.shown, msgs, cleared)
    BY <1>4, <1>9 DEF Takes, NothingLost, SameView
  <2> QED
    BY <1>0, <1>2, <2>4, <2>5, <2>6, ChatStands
<1>10. CASE a.kind = "send"
  <2> DEFINE n == Chat!WithMessage(w, a.id, FALSE)
  <2>1. chatPage' = [n EXCEPT !.composer = FALSE]
    BY <1>5, <1>10 DEF Chat!Answered
  <2>2. Takes(w, n, {a.id}) /\ n \in ChatPage
    <3>1. Takes(w, n, {a.id})
      BY <1>0, <1>3, <1>8, <1>10, TakesMessage
    <3> QED
      BY <3>1 DEF Takes
  <2> HIDE DEF n
  <2>3. /\ chatPage' \in ChatPage /\ SameView(n, chatPage') /\ SameReload(n, chatPage') /\ chatPage'.conn = n.conn
        /\ chatPage'.posts = n.posts /\ chatPage'.composer = FALSE
    BY <2>1, <2>2 DEF ChatPage, SameView, SameReload
  <2>4. SoundPosts(chatPage', msgs)
    BY <1>0, <1>4, <1>6, <1>10, <2>2, <2>3 DEF SoundPosts, Takes, SameWaiting
  <2> QED
    BY <1>9, <2>2, <2>3, <2>4
<1>11. CASE a.kind = "touch"
  <2>1. chatPage' = Chat!WithMessage(w, a.id, FALSE)
    BY <1>5, <1>11 DEF Chat!Answered
  <2>2. Takes(w, chatPage', {a.id})
    BY <1>0, <1>3, <1>8, <1>11, <2>1, TakesMessage
  <2>3. SoundPosts(chatPage', msgs) /\ chatPage' \in ChatPage
    BY <1>6, <2>2 DEF SoundPosts, Takes, SameWaiting
  <2>4. SameView(chatPage', chatPage') /\ SameReload(chatPage', chatPage') /\ chatPage'.conn = chatPage'.conn
    BY DEF SameView, SameReload
  <2> QED
    BY <1>9, <2>2, <2>3, <2>4
<1>12. CASE a.kind = "ignore"
  <2> DEFINE f == [w EXCEPT !.flags = w.flags \cup {a.conv}]
  <2>1. chatPage' = Chat!Suppressed(f, {a.conv})
    BY <1>4, <1>5, <1>12 DEF Chat!Answered, ChatPage
  <2>2. /\ f \in ChatPage /\ SameWaiting(w, f) /\ f.shown = w.shown /\ f.unread = w.unread /\ f.twice = w.twice
    BY <1>3, <1>4, <1>12 DEF ChatPage, SameWaiting
  <2>3. Takes(w, w, {})
    BY <1>8, TakesItself
  <2> HIDE DEF f
  <2>4. Takes(w, f, {})
    BY <2>2, <2>3, TakesFlags
  <2>5. Takes(w, chatPage', {})
    BY <1>0, <1>3, <1>12, <2>1, <2>4, TakesSuppressed
  <2>6. SoundPosts(chatPage', msgs) /\ chatPage' \in ChatPage
    BY <1>6, <2>5 DEF SoundPosts, Takes, SameWaiting
  <2>7. SameView(chatPage', chatPage') /\ SameReload(chatPage', chatPage') /\ chatPage'.conn = chatPage'.conn
    BY DEF SameView, SameReload
  <2> QED
    BY <1>9, <2>5, <2>6, <2>7
<1>13. CASE a.kind = "clear"
  <2> DEFINE S == w.shown \cap Chat!Directs
             e == [w EXCEPT !.shown = S]
  <2>1. chatPage' = Chat!Outdated(e)
    BY <1>4, <1>5, <1>13 DEF Chat!Answered, ChatPage
  <2>2. S \in SUBSET Nat /\ S = w.shown \cap DirectsOf(msgs) /\ S \cap PublicsOf(msgs) = {}
    BY <1>4, SamePublics DEF ChatPage, DirectsOf
  <2>e. e = [w EXCEPT !.shown = S]
    OBVIOUS
  <2> HIDE DEF S, e
  <2>3. /\ e \in ChatPage /\ SameWaiting(w, e) /\ e.shown = S /\ e.unread = w.unread /\ e.twice = w.twice
    BY <1>4, <2>2, <2>e, WithShown
  <2>4. \A p \in Peers : Kept(e, msgs, p) = Kept(w, msgs, p)
    BY <2>2, <2>3 DEF Kept, FromPeer, SameWaiting
  <2>5. Cardinality(e.shown \cap PublicsOf(msgs)) <= Limit
    <3>1. e.shown \cap PublicsOf(msgs) = {}
      BY <2>2, <2>3
    <3> QED
      BY <3>1, FS_EmptySet, ChatBounds
  <2>6. PageOf(e, msgs, cleared)
    BY <1>8, <2>2, <2>3, <2>4, <2>5 DEF PageOf, ShownOf, BadgesOf, Waits, SoundLoads, SoundPosts, SameWaiting
  <2>7. /\ SameView(e, chatPage') /\ PageOf(chatPage', msgs, cleared) /\ chatPage'.conn = e.conn
        /\ chatPage'.live = e.live /\ ~chatPage'.fresh /\ chatPage'.posts = e.posts
        /\ chatPage'.reload # None => ~chatPage'.reload.current
    BY <2>1, <2>6, OutdatedSound
  <2>8. FreshOf(chatPage', chatStream', msgs, cleared)
    BY <1>2, <1>8, <2>3, <2>7 DEF FreshOf, SameWaiting
  <2>9. a \in chatPage.posts /\ a.kind = "clear" /\ a \notin chatPage'.posts
    BY <1>4, <1>13, <2>3, <2>7 DEF SameWaiting
  <2> QED
    BY <1>0, <1>2, <2>7, <2>8, <2>9, ChatStands
<1>14. CASE a.kind = "restore"
  <2> DEFINE u == [w.unread EXCEPT ![a.conv] = 0]
             e == [w EXCEPT !.flags = w.flags \ {a.conv}, !.unread = u]
  <2>1. chatPage' = Chat!Loading(e, a.conv) /\ a.conv \in Peers
    BY <1>3, <1>4, <1>5, <1>14 DEF Chat!Answered, ChatPage
  <2>2. u \in [Peers -> Nat] /\ u[a.conv] = 0 /\ \A p \in Peers : u[p] = 0 \/ u[p] = w.unread[p]
    BY <1>4, <2>1 DEF ChatPage
  <2> HIDE DEF u
  <2>3. /\ e \in ChatPage /\ SameWaiting(w, e) /\ e.shown = w.shown /\ e.unread = u /\ e.twice = w.twice
    BY <1>4, <2>2 DEF ChatPage, SameWaiting
  <2> HIDE DEF e
  <2>4. BadgesOf(w, msgs)
    BY <1>8 DEF PageOf
  <2>5. ASSUME NEW p \in Peers, p \notin e.twice PROVE e.unread[p] <= Cardinality(Kept(e, msgs, p))
    <3>1. CASE u[p] = 0
      BY <1>0, <2>3, <3>1, KeptFinite
    <3>2. CASE u[p] = w.unread[p]
      <4>1. Kept(e, msgs, p) = Kept(w, msgs, p)
        BY <2>3 DEF Kept, SameWaiting
      <4> QED
        BY <2>3, <2>4, <2>5, <3>2, <4>1 DEF BadgesOf
    <3> QED
      BY <2>2, <3>1, <3>2
  <2>6. BadgesOf(e, msgs)
    <3>1. ASSUME NEW p \in Peers, e.selected = p PROVE e.unread[p] = 0
      BY <2>2, <2>3, <2>4, <3>1 DEF BadgesOf, SameWaiting
    <3> QED
      BY <2>5, <3>1 DEF BadgesOf
  <2>7. PageOf(e, msgs, cleared)
    BY <1>8, <2>3, <2>6 DEF PageOf, ShownOf, Waits, SoundLoads, SoundPosts, SameWaiting
  <2>8. /\ chatPage' \in ChatPage /\ PageOf(chatPage', msgs, cleared) /\ chatPage'.shown = e.shown
        /\ chatPage'.conn = e.conn /\ SameReload(e, chatPage') /\ SamePosts(e, chatPage')
    BY <1>0, <2>1, <2>2, <2>3, <2>7, LoadingSound
  <2>9. FreshOf(chatPage', chatStream', msgs, cleared)
    BY <1>2, <1>8, <2>3, <2>8 DEF FreshOf, SameReload, SameWaiting
  <2>10. NothingLost(chatPage.shown, chatPage'.shown, msgs, cleared)
    BY <1>4, <2>3, <2>8, NothingLostHere DEF SameView
  <2> QED
    BY <1>0, <1>2, <2>8, <2>9, <2>10, ChatStands
<1> QED
  BY <1>3, <1>10, <1>11, <1>12, <1>13, <1>14 DEF Post

-----------------------------------------------------------------------------
(* The chat, from its start and at every step *)

LEMMA ChatStart == Chat!Init => ChatInv
<1> SUFFICES ASSUME Chat!Init PROVE ChatInv
  OBVIOUS
<1> DEFINE none == [p \in Peers |-> 0]
<1>1. /\ cleared = {} /\ ignored = {} /\ banned = FALSE /\ chatStream = Chat!NoStream /\ chatPage = Chat!NewPage
      /\ msgs \in {<<>>} \cup {<<[from |-> p, to |-> Everyone]>> : p \in Peers}
  BY DEF Chat!Init
<1>2. msgs \in Seq(ChatMessage) /\ Len(msgs) <= MaxMessages
  <2>1. CASE msgs = <<>>
    BY <2>1, EmptySeq, ChatBounds
  <2>2. CASE msgs # <<>>
    <3>1. PICK p \in Peers : msgs = <<[from |-> p, to |-> Everyone]>>
      BY <1>1, <2>2
    <3>2. [from |-> p, to |-> Everyone] \in ChatMessage
      BY DEF ChatMessage, Chat!Users
    <3> QED
      BY <3>1, <3>2, ChatBounds
  <2> QED
    BY <2>1, <2>2
<1>3. StoredInv
  BY <1>1, <1>2 DEF StoredInv, StoredOf
<1>4. StreamOf(chatStream, msgs, cleared) /\ chatStream.st = "none"
  BY <1>1, AskedStream DEF Chat!NoStream
<1>5. none \in [Peers -> Nat] /\ \A p \in Peers : none[p] = 0
  OBVIOUS
<1>6. chatPage = [shown |-> {}, flags |-> {}, known |-> FALSE, selected |-> Everyone,
                  unread |-> none, inbox |-> FALSE, loaded |-> {}, ready |-> FALSE, conn |-> None, reload |-> None,
                  again |-> FALSE, loads |-> {}, posts |-> {}, composer |-> FALSE, suspended |-> FALSE,
                  failed |-> FALSE, live |-> FALSE, fresh |-> FALSE, twice |-> {}]
  BY <1>1 DEF Chat!NewPage
<1> HIDE DEF none
<1>7. /\ chatPage \in ChatPage /\ chatPage.shown = {} /\ chatPage.unread = none /\ chatPage.conn = None
      /\ chatPage.reload = None /\ chatPage.loads = {} /\ chatPage.posts = {} /\ ~chatPage.live /\ ~chatPage.fresh
  BY <1>5, <1>6 DEF ChatPage, Chat!Conversations
<1>8. ShownOf(chatPage, msgs)
  <2>1. chatPage.shown \cap PublicsOf(msgs) = {}
    BY <1>7
  <2> QED
    BY <1>7, <2>1, FS_EmptySet, ChatBounds DEF ShownOf
<1>9. BadgesOf(chatPage, msgs)
  BY <1>3, <1>5, <1>7, KeptFinite DEF BadgesOf
<1>10. Waits(chatPage, msgs, cleared)
  BY <1>7 DEF Waits, SoundLoads, SoundPosts
<1>11. FreshOf(chatPage, chatStream, msgs, cleared)
  BY <1>4, <1>7 DEF FreshOf
<1> QED
  BY <1>3, <1>4, <1>7, <1>8, <1>9, <1>10, <1>11 DEF ChatInv, PageOf

LEMMA ChatKept == ChatInv /\ [Chat!Next]_chatVars => ChatInv' /\ PublicsStay
<1> SUFFICES ASSUME ChatInv, [Chat!Next]_chatVars PROVE ChatInv' /\ PublicsStay
  OBVIOUS
<1>1. CASE UNCHANGED chatVars
  <2>1. NothingLost(chatPage.shown, chatPage'.shown, msgs, cleared)
    BY <1>1, NothingLostHere DEF chatVars
  <2> QED
    BY <1>1, <2>1 DEF ChatInv, StoredInv, PublicsStay, chatVars
<1>2. CASE Chat!Answers
  BY <1>2, ConnectKept, ConnectServedKept, ConnectedKept, ReloadServedKept, ReloadedKept, LoadServedKept,
     LoadedKept, PostServedKept, PostAnsweredKept DEF Chat!Answers
<1>3. CASE Chat!Failures
  BY <1>3, ConnectFailsKept, ReloadFailsKept, LoadFailsKept, PostFailsKept, StreamLostKept, ReattachKept DEF Chat!Failures
<1>4. CASE Chat!Streaming
  BY <1>4, StreamKept, EventArrivesKept DEF Chat!Streaming
<1>5. CASE Chat!Viewing
  BY <1>5, SwitchKept, CallsKept DEF Chat!Viewing
<1>6. CASE Chat!Others
  BY <1>6, OthersKept, BannedKept, StreamKept DEF Chat!Others
<1> QED
  BY <1>1, <1>2, <1>3, <1>4, <1>5, <1>6 DEF Chat!Next

LEMMA ChatTyped == ChatInv => Chat!TypeOK
<1> SUFFICES ASSUME ChatInv PROVE Chat!TypeOK
  OBVIOUS
<1>0. /\ StoredInv /\ StoredOf(msgs, cleared) /\ chatStream \in Stream /\ chatPage \in ChatPage
      /\ ShownOf(chatPage, msgs) /\ SoundPosts(chatPage, msgs)
  BY DEF ChatInv, StoredInv, StreamOf, PageOf, Waits
<1> DEFINE S == {a \in chatPage.posts : a.kind = "send"}
<1>1. Cardinality(S) <= 1
  <2>1. CASE S = {}
    BY <2>1, FS_EmptySet
  <2>2. CASE S # {}
    <3>1. PICK a : a \in S
      BY <2>2
    <3>2. S = {a}
      BY <1>0, <3>1 DEF SoundPosts
    <3> QED
      BY <3>2, FS_Singleton
  <2> QED
    BY <2>1, <2>2
<1>2. msgs \in Seq([from : Chat!Users, to : {Everyone, Viewer} \cup Peers]) /\ Len(msgs) <= MaxMessages
  BY <1>0 DEF StoredOf, ChatMessage
<1>3. cleared \subseteq Chat!Publics /\ ignored \subseteq Peers /\ banned \in BOOLEAN
  BY <1>0, SamePublics DEF StoredInv, StoredOf
<1>4. /\ chatPage.shown \subseteq DOMAIN msgs /\ Chat!Cardinality(chatPage.shown \cap Chat!Publics) <= Limit
      /\ Chat!Cardinality(S) <= 1
  BY <1>0, <1>1, SamePublics, SameCount DEF ShownOf
<1> HIDE DEF S
<1>5. /\ chatStream.st \in {"none", "asked", "authorized", "open", "ended", "refused"}
      /\ chatPage.flags \subseteq Peers /\ chatPage.selected \in Chat!Conversations /\ chatPage.loaded \subseteq Peers
      /\ chatPage.unread \in [Peers -> Nat]
  BY <1>0 DEF Stream, ChatPage
<1> QED
  BY <1>2, <1>3, <1>4, <1>5 DEF Chat!TypeOK, S

\* chat.ts:999
LEMMA ChatMisses == ChatInv => Chat!NoneMissing
<1> SUFFICES ASSUME ChatInv, chatPage.fresh, chatStream.st = "open", chatStream.queue = <<>> PROVE Chat!HasHistory
  BY DEF Chat!NoneMissing
<1>1. Top(msgs, cleared) \subseteq chatPage.shown \cup Coming(chatStream.queue)
  BY DEF ChatInv, FreshOf
<1>2. Coming(chatStream.queue) = {}
  BY DEF Coming
<1> QED
  BY <1>1, <1>2, SamePublics DEF Chat!HasHistory, Top

\* chat.ts:1009
LEMMA ChatCounts == ChatInv => Chat!UnreadIsThere
<1> SUFFICES ASSUME ChatInv PROVE Chat!UnreadIsThere
  OBVIOUS
<1>0. StoredInv /\ BadgesOf(chatPage, msgs) /\ chatPage \in ChatPage /\ ShownOf(chatPage, msgs)
  BY DEF ChatInv, PageOf
<1>1. ASSUME NEW p \in Peers, p \notin chatPage.twice
      PROVE  chatPage.unread[p] <= Cardinality({i \in chatPage.shown \cap Chat!Directs : ~Chat!Mine(i) /\ Chat!Peer(i) = p})
  <2> DEFINE T == {i \in chatPage.shown \cap Chat!Directs : ~Chat!Mine(i) /\ Chat!Peer(i) = p}
  <2>1. Kept(chatPage, msgs, p) \subseteq T /\ T \in SUBSET DOMAIN msgs
    BY <1>0, SamePublics DEF Kept, FromPeer, Chat!Mine, Chat!Peer, ShownOf
  <2> HIDE DEF T
  <2>2. IsFiniteSet(T) /\ Cardinality(T) \in Nat
    BY <1>0, <2>1, Places DEF StoredInv
  <2>3. Cardinality(Kept(chatPage, msgs, p)) <= Cardinality(T) /\ Cardinality(Kept(chatPage, msgs, p)) \in Nat
    BY <1>0, <2>1, <2>2, FS_Subset, KeptFinite
  <2>4. chatPage.unread[p] <= Cardinality(Kept(chatPage, msgs, p)) /\ chatPage.unread[p] \in Nat
    BY <1>0, <1>1 DEF BadgesOf, ChatPage
  <2>5. chatPage.unread[p] <= Cardinality(T)
    BY <2>2, <2>3, <2>4
  <2> QED
    BY <2>5 DEF T
<1> QED
  BY <1>0, <1>1, SameCount DEF Chat!UnreadIsThere, BadgesOf

\* chatState.ts:90
LEMMA ChatStays ==
    ASSUME PublicsStay, NEW i \in chatPage.shown \cap Chat!Publics
    PROVE  \/ i \in chatPage'.shown \/ i \in cleared
           \/ Chat!Cardinality({j \in chatPage'.shown \cap Chat!Publics' : j > i}) >= Limit
           \/ \E a \in chatPage.posts : a.kind = "clear" /\ a \notin chatPage'.posts
<1>1. CASE chatPage'.shown = chatPage.shown
  BY <1>1
<1>2. CASE UNCHANGED msgs /\ NothingLost(chatPage.shown, chatPage'.shown, msgs, cleared)
  <2>1. Chat!Publics' = PublicsOf(msgs)
    BY <1>2 DEF Chat!Publics, Chat!IsPublic, PublicsOf
  <2>2. {j \in chatPage'.shown \cap Chat!Publics' : j > i} = Newer(chatPage'.shown \cap PublicsOf(msgs), i)
    BY <2>1 DEF Newer
  <2> QED
    BY <1>2, <2>2, SamePublics, SameCount DEF NothingLost
<1> QED
  BY <1>1, <1>2 DEF PublicsStay

-----------------------------------------------------------------------------
(* All parts together: a step of one leaves the others as they are. *)

LiveInv == TypeInv /\ HomeInv /\ ListInv /\ ChatInv /\ TypingInv

LEMMA LiveStart == LiveInit => LiveInv
<1> SUFFICES ASSUME LiveInit PROVE LiveInv
  OBVIOUS
<1>1. Init => HomeInv
  BY DEF Init, HomeInv, Undisturbed, NewPage, Pushing, Told
<1> QED
  BY <1>1, TypeStart, ListStart, ChatStart, TypingStart DEF LiveInit, LiveInv

LEMMA LiveKept == LiveInv /\ [LiveNext]_liveVars => LiveInv' /\ PublicsStay
<1> SUFFICES ASSUME LiveInv, [LiveNext]_liveVars PROVE LiveInv' /\ PublicsStay
  OBVIOUS
<1>1. [Next]_vars /\ [Favorites!Next]_listVars /\ [Chat!Next]_chatVars /\ [Typing!Next]_typingVars
  BY DEF LiveNext, FeedStep, ListStep, ChatStep, TypingStep, liveVars
<1>2. TypeInv' /\ HomeInv'
  BY <1>1, TypeKept, HomeKept DEF LiveInv
<1>3. ListInv' /\ TypingInv'
  BY <1>1, ListKept, TypingKept DEF LiveInv
<1>4. ChatInv' /\ PublicsStay
  BY <1>1, ChatKept DEF LiveInv
<1> QED
  BY <1>2, <1>3, <1>4 DEF LiveInv

\* While a net is on the air, for any pages, servers, users, nets, messages and limits: no page is
\* sent home; the list of favorites goes on to be polled, whatever fails; one who is shown as typing
\* has a stream; and in whatever order the answers and events of the chat come, a page that has
\* reloaded its history misses none of the newest public messages (chat.ts:999), and its badges
\* count no more than it has (chat.ts:1009).
THEOREM LiveSound == LiveSpec => []LiveHolds
<1>1. LiveInv => LiveHolds
  <2>1. TypeInv /\ HomeInv => TypeOK /\ HomeAfterEnd
    BY DEF TypeInv, HomeInv, Undisturbed, HomeAfterEnd
  <2>2. ListInv => Favorites!TypeOK /\ Favorites!LoopLives
    BY ListTyped DEF ListInv
  <2>3. TypingInv => Typing!TypeOK /\ Typing!TypistIsThere
    BY TypingTyped DEF TypingInv
  <2>4. ChatInv => Chat!TypeOK /\ Chat!NoneMissing /\ Chat!UnreadIsThere
    BY ChatTyped, ChatMisses, ChatCounts
  <2> QED
    BY <2>1, <2>2, <2>3, <2>4 DEF LiveInv, LiveHolds, LiveTypes
<1> QED
  BY <1>1, LiveStart, LiveKept, PTL DEF LiveSpec

\* A public message leaves the page only when net control has cleared it, when as many newer ones
\* are there as the page keeps, or when the operator clears the chat here (chatState.ts:90), however
\* many requests, calls and events are on their way at once.
THEOREM MessagesKept == LiveSpec => MessagesStay
<1>1. LiveInv /\ [LiveNext]_liveVars => [Chat!NoneDropped]_Chat!vars
  <2> SUFFICES ASSUME LiveInv, [LiveNext]_liveVars PROVE Chat!NoneDropped
    OBVIOUS
  <2>1. PublicsStay
    BY LiveKept
  <2> QED
    BY <2>1, ChatStays DEF Chat!NoneDropped
<1> QED
  BY <1>1, LiveStart, LiveKept, PTL DEF LiveSpec, MessagesStay, Chat!NoneVanish
=============================================================================
