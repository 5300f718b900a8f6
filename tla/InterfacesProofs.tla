-------------------------- MODULE InterfacesProofs ---------------------------
(***************************************************************************)
(* Proofs about what the router shares with its services: the tables       *)
(* beside the switch ports (SwitchTables), the IPv6 addresses of a link    *)
(* (Lease6), the copy of the switch ports (SwitchReplica), and the names   *)
(* and addresses of the interfaces (VifTable).                             *)
(***************************************************************************)
EXTENDS SwitchReplica, SwitchTables, Lease6, VifTable, LoopTheorems, SequenceTheorems

-----------------------------------------------------------------------------
(* The places of VLANs.                                                    *)

\* Every place that is taken knows its own number and has a VLAN of its own, and
\* what a VLAN was given is its place.
PlaceInv ==
  /\ places \in [1 .. MaxPlaces -> [vid : Ids \cup {0}, idx : 0 .. MaxPlaces]]
  /\ given \in [Ids -> -1 .. MaxPlaces]
  /\ \A i \in 1 .. MaxPlaces : places[i].vid # 0 => places[i].idx = i
  /\ \A i, j \in 1 .. MaxPlaces : places[i].vid # 0 /\ places[i].vid = places[j].vid => i = j
  /\ \A v \in Ids : given[v] > 0 => places[given[v]].vid = v

\* A VLAN is given a place, or loses it.
LEMMA PlaceStep ==
  ASSUME PlaceInv, PlaceNext
  PROVE  PlaceInv'
<1>0. Ids \subseteq 1 .. 4094 /\ MaxPlaces \in Nat \ {0}
  BY TablesConstantsOK
<1>1. DOMAIN places = 1 .. MaxPlaces /\ DOMAIN given = Ids /\ given = [v \in Ids |-> given[v]]
  BY DEF PlaceInv
<1>t. given \in [Ids -> -1 .. MaxPlaces]
  BY DEF PlaceInv
<1>2. ASSUME GetPlace PROVE PlaceInv'
  <2> DEFINE Taken(v) == {i \in DOMAIN places : places[i].vid = v}
             Free     == {i \in DOMAIN places : places[i].vid = 0}
  <2>1. PICK v \in Ids :
          \/ /\ Taken(v) # {} /\ given' = [given EXCEPT ![v] = places[Min(Taken(v))].idx]
             /\ UNCHANGED places
          \/ /\ Taken(v) = {} /\ Free = {} /\ given' = [given EXCEPT ![v] = -1]
             /\ UNCHANGED places
          \/ /\ Taken(v) = {} /\ Free # {}
             /\ places' = [places EXCEPT ![Min(Free)] = [vid |-> v, idx |-> FreePlace(places)]]
             /\ given' = [given EXCEPT ![v] = FreePlace(places)]
    BY <1>2 DEF GetPlace
  <2>2. CASE /\ Taken(v) # {} /\ given' = [given EXCEPT ![v] = places[Min(Taken(v))].idx]
             /\ UNCHANGED places
    <3>1. Min(Taken(v)) \in Taken(v)
      <4>1. Taken(v) \subseteq 1 .. MaxPlaces /\ Taken(v) # {} /\ MaxPlaces \in Nat
        BY <1>0, <1>1, <2>2
      <4> HIDE DEF Taken
      <4> QED
        BY <4>1, MinIsMember
    <3>2. PICK k \in 1 .. MaxPlaces : k = Min(Taken(v)) /\ places[k].vid = v
      BY <1>1, <3>1
    <3>3. v # 0
      BY <1>0
    <3>4. places[k].idx = k
      BY <3>2, <3>3 DEF PlaceInv
    <3>5. given' = [given EXCEPT ![v] = k]
      BY <2>2, <3>2, <3>4
    <3>6. \A w \in Ids : given'[w] = IF w = v THEN k ELSE given[w]
      BY <1>1, <3>5
    <3>7. given' \in [Ids -> -1 .. MaxPlaces]
      <4>1. k \in -1 .. MaxPlaces
        BY <1>0, <3>2
      <4> QED
        BY <1>t, <3>5, <4>1
    <3>8. \A w \in Ids : given'[w] > 0 => places[given'[w]].vid = w
      <4> SUFFICES ASSUME NEW w \in Ids, given'[w] > 0 PROVE places[given'[w]].vid = w
        OBVIOUS
      <4>1. CASE w = v
        BY <3>2, <3>6, <4>1
      <4>2. CASE w # v
        <5>1. given'[w] = given[w]
          BY <3>6, <4>2
        <5> QED
          BY <5>1 DEF PlaceInv
      <4> QED
        BY <4>1, <4>2
    <3> QED
      BY <2>2, <3>7, <3>8 DEF PlaceInv
  <2>3. CASE /\ Taken(v) = {} /\ Free = {} /\ given' = [given EXCEPT ![v] = -1]
             /\ UNCHANGED places
    <3>1. \A w \in Ids : given'[w] = IF w = v THEN -1 ELSE given[w]
      BY <1>1, <2>3
    <3>2. given' \in [Ids -> -1 .. MaxPlaces]
      <4>1. -1 \in -1 .. MaxPlaces
        BY <1>0
      <4> QED
        BY <1>t, <2>3, <4>1
    <3>3. \A w \in Ids : given'[w] > 0 => places[given'[w]].vid = w
      <4> SUFFICES ASSUME NEW w \in Ids, given'[w] > 0 PROVE places[given'[w]].vid = w
        OBVIOUS
      <4>1. w # v /\ given'[w] = given[w]
        BY <3>1
      <4> QED
        BY <4>1 DEF PlaceInv
    <3> QED
      BY <2>3, <3>2, <3>3 DEF PlaceInv
  <2>4. CASE /\ Taken(v) = {} /\ Free # {}
             /\ places' = [places EXCEPT ![Min(Free)] = [vid |-> v, idx |-> FreePlace(places)]]
             /\ given' = [given EXCEPT ![v] = FreePlace(places)]
    <3>1. Min(Free) \in Free /\ FreePlace(places) = Min(Free)
      <4>1. Free \subseteq 1 .. MaxPlaces /\ Free # {} /\ MaxPlaces \in Nat
        BY <1>0, <1>1, <2>4
      <4>2. FreePlace(places) = Min(Free)
        BY <4>1 DEF FreePlace
      <4> HIDE DEF Free
      <4> QED
        BY <4>1, <4>2, MinIsMember
    <3> DEFINE k == Min(Free)
    <3>2. k \in 1 .. MaxPlaces /\ places[k].vid = 0
      BY <1>1, <3>1
    <3> HIDE DEF k
    <3>3. /\ places' = [places EXCEPT ![k] = [vid |-> v, idx |-> k]]
          /\ given' = [given EXCEPT ![v] = k]
      BY <2>4, <3>1 DEF k
    <3>4. \A i \in 1 .. MaxPlaces : places[i].vid # v
      BY <1>1, <2>4
    <3>5. [vid |-> v, idx |-> k] \in [vid : Ids \cup {0}, idx : 0 .. MaxPlaces]
      BY <1>0, <3>2
    <3>6. \A i \in 1 .. MaxPlaces : places'[i] = IF i = k THEN [vid |-> v, idx |-> k] ELSE places[i]
      BY <3>2, <3>3 DEF PlaceInv
    <3>7. places' \in [1 .. MaxPlaces -> [vid : Ids \cup {0}, idx : 0 .. MaxPlaces]]
      BY <1>1, <3>2, <3>3, <3>5 DEF PlaceInv
    <3>8. given' \in [Ids -> -1 .. MaxPlaces]
      <4>1. k \in -1 .. MaxPlaces
        BY <1>0, <3>2
      <4> QED
        BY <1>t, <3>3, <4>1
    <3>9. \A w \in Ids : given'[w] = IF w = v THEN k ELSE given[w]
      BY <1>1, <3>3
    <3>10. \A w \in Ids : given'[w] > 0 => places'[given'[w]].vid = w
      <4> SUFFICES ASSUME NEW w \in Ids, given'[w] > 0 PROVE places'[given'[w]].vid = w
        OBVIOUS
      <4>1. CASE w = v
        BY <3>2, <3>6, <3>9, <4>1
      <4>2. CASE w # v
        <5>1. given[w] \in 1 .. MaxPlaces /\ places[given[w]].vid = w /\ w # 0
          <6>0. given'[w] = given[w] /\ given[w] \in -1 .. MaxPlaces
            BY <3>9, <4>2 DEF PlaceInv
          <6>1. given[w] > 0 /\ given[w] \in -1 .. MaxPlaces /\ w \in 1 .. 4094
            BY <1>0, <6>0
          <6>2. given[w] > 0 => places[given[w]].vid = w
            BY DEF PlaceInv
          <6> QED
            BY <1>0, <6>1, <6>2
        <5>2. given[w] # k
          BY <3>2, <5>1
        <5> QED
          BY <3>6, <3>9, <4>2, <5>1, <5>2
      <4> QED
        BY <4>1, <4>2
    <3>11. \A i \in 1 .. MaxPlaces : places'[i].vid # 0 => places'[i].idx = i
      BY <3>6 DEF PlaceInv
    <3>12. \A i, j \in 1 .. MaxPlaces : places'[i].vid # 0 /\ places'[i].vid = places'[j].vid => i = j
      BY <3>4, <3>6 DEF PlaceInv
    <3> QED
      BY <3>7, <3>8, <3>10, <3>11, <3>12 DEF PlaceInv
  <2> QED
    BY <2>1, <2>2, <2>3, <2>4
<1>3. ASSUME DelPlace PROVE PlaceInv'
  <2>1. PICK v \in Ids :
          /\ given' = [given EXCEPT ![v] = 0]
          /\ places' = [i \in DOMAIN places |->
                          IF places[i].vid = v THEN [vid |-> 0, idx |-> 0] ELSE places[i]]
    BY <1>3 DEF DelPlace
  <2>2. [vid |-> 0, idx |-> 0] \in [vid : Ids \cup {0}, idx : 0 .. MaxPlaces]
    BY <1>0
  <2>3. /\ places' \in [1 .. MaxPlaces -> [vid : Ids \cup {0}, idx : 0 .. MaxPlaces]]
        /\ \A i \in 1 .. MaxPlaces :
             places'[i] = IF places[i].vid = v THEN [vid |-> 0, idx |-> 0] ELSE places[i]
    BY <1>1, <2>1, <2>2 DEF PlaceInv
  <2>4. /\ given' \in [Ids -> -1 .. MaxPlaces]
        /\ \A w \in Ids : given'[w] = IF w = v THEN 0 ELSE given[w]
    <3>1. 0 \in -1 .. MaxPlaces
      BY <1>0
    <3> QED
      BY <1>t, <2>1, <3>1
  <2>5. \A w \in Ids : given'[w] > 0 => places'[given'[w]].vid = w
    <3> SUFFICES ASSUME NEW w \in Ids, given'[w] > 0 PROVE places'[given'[w]].vid = w
      OBVIOUS
    <3>1. w # v /\ given'[w] = given[w]
      BY <2>4
    <3>2. given[w] \in 1 .. MaxPlaces /\ places[given[w]].vid = w
      <4>1. given[w] \in -1 .. MaxPlaces /\ given[w] > 0
        BY <3>1 DEF PlaceInv
      <4>2. given[w] \in 1 .. MaxPlaces
        BY <1>0, <4>1
      <4> QED
        BY <4>1, <4>2 DEF PlaceInv
    <3>3. places'[given[w]] = places[given[w]]
      BY <2>3, <3>1, <3>2
    <3> QED
      BY <3>1, <3>2, <3>3
  <2>6. \A i \in 1 .. MaxPlaces : places'[i].vid # 0 => places'[i].idx = i
    BY <2>3 DEF PlaceInv
  <2>7. \A i, j \in 1 .. MaxPlaces : places'[i].vid # 0 /\ places'[i].vid = places'[j].vid => i = j
    BY <2>3 DEF PlaceInv
  <2> QED
    BY <2>3, <2>4, <2>5, <2>6, <2>7 DEF PlaceInv
<1> QED
  BY <1>2, <1>3 DEF PlaceNext

-----------------------------------------------------------------------------
(* What is known of a matter once all messages are read: what the last message  *)
(* about it says, or what was known before.                                     *)

\* says maps each message about the matter to what it says of it.
LatestIs(q, says, known, actual) ==
  \/ known = actual /\ \A k \in 1 .. Len(q) : q[k] \notin DOMAIN says
  \/ \E k \in 1 .. Len(q) :
       /\ q[k] \in DOMAIN says /\ says[q[k]] = actual
       /\ \A j \in 1 .. Len(q) : j > k => q[j] \notin DOMAIN says

\* A message that is sent is the last one of those on their way, ...
LEMMA SentIsLast ==
  ASSUME NEW S, NEW q \in Seq(S), NEW m \in S
  PROVE  /\ Len(Append(q, m)) = Len(q) + 1 /\ Len(q) \in Nat
         /\ \A k \in 1 .. Len(q) : Append(q, m)[k] = q[k]
         /\ Append(q, m)[Len(q) + 1] = m
BY AppendProperties, LenProperties

\* ... and reading one moves the others up.
LEMMA ReadIsFirst ==
  ASSUME NEW S, NEW q \in Seq(S), q # <<>>
  PROVE  /\ Len(Tail(q)) = Len(q) - 1 /\ Len(q) \in Nat /\ Len(q) > 0
         /\ \A k \in 1 .. Len(Tail(q)) : Tail(q)[k] = q[k + 1]
         /\ Head(q) = q[1]
BY HeadTailProperties, EmptySeq, LenProperties

LEMMA LatestIsSent ==
  ASSUME NEW S, NEW q \in Seq(S), NEW m \in S, NEW says, NEW known, NEW actual, NEW now,
         \/ m \in DOMAIN says /\ now = says[m]
         \/ m \notin DOMAIN says /\ now = actual /\ LatestIs(q, says, known, actual)
  PROVE  LatestIs(Append(q, m), says, known, now)
<1> DEFINE r == Append(q, m)
<1>1. /\ Len(r) = Len(q) + 1 /\ Len(q) \in Nat
      /\ \A k \in 1 .. Len(q) : r[k] = q[k]
      /\ r[Len(q) + 1] = m
  BY SentIsLast
<1> HIDE DEF r
<1>2. CASE m \in DOMAIN says /\ now = says[m]
  <2>1. Len(r) \in 1 .. Len(r) /\ r[Len(r)] = m /\ \A j \in 1 .. Len(r) : ~(j > Len(r))
    BY <1>1
  <2>2. LatestIs(r, says, known, now)
    BY <1>2, <2>1 DEF LatestIs
  <2> QED
    BY <2>2 DEF r
<1>3. CASE m \notin DOMAIN says /\ now = actual /\ LatestIs(q, says, known, actual)
  <2>1. CASE known = actual /\ \A k \in 1 .. Len(q) : q[k] \notin DOMAIN says
    <3>1. \A k \in 1 .. Len(r) : r[k] \notin DOMAIN says
      BY <1>1, <1>3, <2>1
    <3>2. LatestIs(r, says, known, now)
      BY <1>3, <2>1, <3>1 DEF LatestIs
    <3> QED
      BY <3>2 DEF r
  <2>2. CASE \E k \in 1 .. Len(q) :
               /\ q[k] \in DOMAIN says /\ says[q[k]] = actual
               /\ \A j \in 1 .. Len(q) : j > k => q[j] \notin DOMAIN says
    <3>1. PICK k \in 1 .. Len(q) :
               /\ q[k] \in DOMAIN says /\ says[q[k]] = actual
               /\ \A j \in 1 .. Len(q) : j > k => q[j] \notin DOMAIN says
      BY <2>2
    <3>2. k \in 1 .. Len(r) /\ r[k] = q[k]
      BY <1>1
    <3>3. \A j \in 1 .. Len(r) : j > k => r[j] \notin DOMAIN says
      BY <1>1, <1>3, <3>1
    <3>4. LatestIs(r, says, known, now)
      BY <1>3, <3>1, <3>2, <3>3 DEF LatestIs
    <3> QED
      BY <3>4 DEF r
  <2> QED
    BY <1>3, <2>1, <2>2 DEF LatestIs
<1> QED
  BY <1>2, <1>3

LEMMA LatestIsRead ==
  ASSUME NEW S, NEW q \in Seq(S), q # <<>>, NEW says, NEW known, NEW actual, NEW next,
         LatestIs(q, says, known, actual),
         next = IF Head(q) \in DOMAIN says THEN says[Head(q)] ELSE known
  PROVE  LatestIs(Tail(q), says, next, actual)
<1> DEFINE r == Tail(q)
<1>1. /\ Len(r) = Len(q) - 1 /\ Len(q) \in Nat /\ Len(q) > 0
      /\ \A k \in 1 .. Len(r) : r[k] = q[k + 1]
      /\ Head(q) = q[1]
  BY ReadIsFirst
<1> HIDE DEF r
<1>2. CASE known = actual /\ \A k \in 1 .. Len(q) : q[k] \notin DOMAIN says
  <2>1. next = actual
    <3>1. 1 \in 1 .. Len(q)
      BY <1>1
    <3> QED
      BY <1>1, <1>2, <3>1
  <2>2. \A k \in 1 .. Len(r) : r[k] \notin DOMAIN says
    BY <1>1, <1>2
  <2>3. LatestIs(r, says, next, actual)
    BY <2>1, <2>2 DEF LatestIs
  <2> QED
    BY <2>3 DEF r
<1>3. CASE \E k \in 1 .. Len(q) :
             /\ q[k] \in DOMAIN says /\ says[q[k]] = actual
             /\ \A j \in 1 .. Len(q) : j > k => q[j] \notin DOMAIN says
  <2>1. PICK k \in 1 .. Len(q) :
             /\ q[k] \in DOMAIN says /\ says[q[k]] = actual
             /\ \A j \in 1 .. Len(q) : j > k => q[j] \notin DOMAIN says
    BY <1>3
  <2>2. CASE k = 1
    <3>1. next = actual
      BY <1>1, <2>1, <2>2
    <3>2. \A j \in 1 .. Len(r) : r[j] \notin DOMAIN says
      BY <1>1, <2>1, <2>2
    <3>3. LatestIs(r, says, next, actual)
      BY <3>1, <3>2 DEF LatestIs
    <3> QED
      BY <3>3 DEF r
  <2>3. CASE k # 1
    <3>1. k - 1 \in 1 .. Len(r) /\ r[k - 1] = q[k]
      BY <1>1, <2>3
    <3>2. \A j \in 1 .. Len(r) : j > k - 1 => r[j] \notin DOMAIN says
      BY <1>1, <2>1
    <3>3. LatestIs(r, says, next, actual)
      BY <2>1, <3>1, <3>2 DEF LatestIs
    <3> QED
      BY <3>3 DEF r
  <2> QED
    BY <2>2, <2>3
<1> QED
  BY <1>2, <1>3 DEF LatestIs

LEMMA NothingIsLatest ==
  ASSUME NEW says, NEW actual
  PROVE  LatestIs(<<>>, says, actual, actual)
BY DEF LatestIs

\* With everything read, the latest is what is known.
LEMMA LatestIsKnown ==
  ASSUME NEW says, NEW known, NEW actual, LatestIs(<<>>, says, known, actual)
  PROVE  known = actual
<1>1. Len(<<>>) = 0
  BY EmptySeq
<1>2. \A k \in 1 .. Len(<<>>) : FALSE
  BY <1>1
<1> QED
  BY <1>2, Zenon DEF LatestIs

-----------------------------------------------------------------------------
(* A message that depends on an earlier one: at whatever place it is, one that  *)
(* brings what it needs is before it, and none that takes it away in between.   *)

Before(q, k, brings, takes, there) ==
  \/ there # 0 /\ \A j \in 1 .. Len(q) : j < k => q[j] \notin takes
  \/ \E j \in 1 .. Len(q) : /\ j < k /\ q[j] \in brings
                            /\ \A l \in 1 .. Len(q) : j < l /\ l < k => q[l] \notin takes

InPlace(q, needs, brings, takes, there) ==
  \A k \in 1 .. Len(q) : q[k] \in needs => Before(q, k, brings, takes, there)

LEMMA InPlaceSent ==
  ASSUME NEW S, NEW q \in Seq(S), NEW m \in S, NEW needs, NEW brings, NEW takes, NEW there,
         InPlace(q, needs, brings, takes, there),
         m \in needs => Before(q, Len(q) + 1, brings, takes, there)
  PROVE  InPlace(Append(q, m), needs, brings, takes, there)
<1> DEFINE r == Append(q, m)
<1>1. /\ Len(r) = Len(q) + 1 /\ Len(q) \in Nat
      /\ \A k \in 1 .. Len(q) : r[k] = q[k]
      /\ r[Len(q) + 1] = m
  BY SentIsLast
<1> HIDE DEF r
<1>2. ASSUME NEW k \in 1 .. Len(r), Before(q, k, brings, takes, there)
      PROVE  Before(r, k, brings, takes, there)
  <2>1. CASE there # 0 /\ \A j \in 1 .. Len(q) : j < k => q[j] \notin takes
    BY <1>1, <2>1 DEF Before
  <2>2. CASE \E j \in 1 .. Len(q) : /\ j < k /\ q[j] \in brings
                            /\ \A l \in 1 .. Len(q) : j < l /\ l < k => q[l] \notin takes
    <3>1. PICK j \in 1 .. Len(q) : /\ j < k /\ q[j] \in brings
                            /\ \A l \in 1 .. Len(q) : j < l /\ l < k => q[l] \notin takes
      BY <2>2
    <3>2. j \in 1 .. Len(r) /\ r[j] = q[j]
      BY <1>1
    <3>3. \A l \in 1 .. Len(r) : j < l /\ l < k => r[l] \notin takes
      BY <1>1, <3>1
    <3> QED
      BY <3>1, <3>2, <3>3 DEF Before
  <2> QED
    BY <1>2, <2>1, <2>2 DEF Before
<1>3. ASSUME NEW k \in 1 .. Len(r), r[k] \in needs PROVE Before(q, k, brings, takes, there)
  BY <1>1, <1>3 DEF InPlace
<1>4. InPlace(r, needs, brings, takes, there)
  BY <1>2, <1>3 DEF InPlace
<1> QED
  BY <1>4 DEF r

\* next: what is there after the first message.
LEMMA InPlaceRead ==
  ASSUME NEW S, NEW q \in Seq(S), q # <<>>, NEW needs, NEW brings, NEW takes, NEW there, NEW next,
         InPlace(q, needs, brings, takes, there),
         Head(q) \in brings => next # 0,
         Head(q) \notin takes /\ there # 0 => next # 0
  PROVE  InPlace(Tail(q), needs, brings, takes, next)
<1> DEFINE r == Tail(q)
<1>1. /\ Len(r) = Len(q) - 1 /\ Len(q) \in Nat /\ Len(q) > 0
      /\ \A k \in 1 .. Len(r) : r[k] = q[k + 1]
      /\ Head(q) = q[1]
  BY ReadIsFirst
<1> HIDE DEF r
<1>2. ASSUME NEW k \in 1 .. Len(r), r[k] \in needs PROVE Before(r, k, brings, takes, next)
  <2>1. k + 1 \in 1 .. Len(q) /\ q[k + 1] \in needs
    BY <1>1, <1>2
  <2>2. Before(q, k + 1, brings, takes, there)
    BY <2>1 DEF InPlace
  <2>3. CASE there # 0 /\ \A j \in 1 .. Len(q) : j < k + 1 => q[j] \notin takes
    <3>1. Head(q) \notin takes
      BY <1>1, <2>1, <2>3
    <3>2. \A j \in 1 .. Len(r) : j < k => r[j] \notin takes
      BY <1>1, <2>3
    <3> QED
      BY <2>3, <3>1, <3>2 DEF Before
  <2>4. CASE \E j \in 1 .. Len(q) :
               /\ j < k + 1 /\ q[j] \in brings
               /\ \A l \in 1 .. Len(q) : j < l /\ l < k + 1 => q[l] \notin takes
    <3>1. PICK j \in 1 .. Len(q) :
               /\ j < k + 1 /\ q[j] \in brings
               /\ \A l \in 1 .. Len(q) : j < l /\ l < k + 1 => q[l] \notin takes
      BY <2>4
    <3>2. CASE j = 1
      <4>1. next # 0
        BY <1>1, <3>1, <3>2
      <4>2. \A l \in 1 .. Len(r) : l < k => r[l] \notin takes
        BY <1>1, <3>1, <3>2
      <4> QED
        BY <4>1, <4>2 DEF Before
    <3>3. CASE j # 1
      <4>1. j - 1 \in 1 .. Len(r) /\ r[j - 1] = q[j] /\ j - 1 < k
        BY <1>1, <3>1, <3>3
      <4>2. \A l \in 1 .. Len(r) : j - 1 < l /\ l < k => r[l] \notin takes
        BY <1>1, <3>1
      <4> QED
        BY <3>1, <4>1, <4>2 DEF Before
    <3> QED
      BY <3>2, <3>3
  <2> QED
    BY <2>2, <2>3, <2>4 DEF Before
<1>3. InPlace(r, needs, brings, takes, next)
  BY <1>2 DEF InPlace
<1> QED
  BY <1>3 DEF r

-----------------------------------------------------------------------------
(* The agent's copy.                                                       *)

Who         == Neighbours \cup {NoMember}
RingConfigs == [vlan : {0, 10}, on : BOOLEAN, ports : {{1, 2}, {}}]
NoRing      == [vlan |-> 0, on |-> FALSE, ports |-> {}]

Messages ==
  [kind : {"remote", "addr"}, port : LldpPorts, who : Who]
  \cup [kind : {"gone", "portStats", "localPort", "delLocalPort"}, port : LldpPorts]
  \cup [kind : {"count", "clear", "time", "local", "localAddr", "delLocal"}]
  \cup [kind : {"set"}, cfg : Config]
  \cup [kind : {"ring"}, id : Instances, cfg : RingConfigs]

MibRecords ==
  [remIndex : Nat, remote : [LldpPorts -> [who : Who, index : Nat]],
   addr : [LldpPorts -> Who], inserts : Nat, changes : {0, 1},
   set : [{"txDelay", "msgTxHold"} -> {0, 1}],
   filled : SUBSET ({"portStats", "localPort"} \X LldpPorts),
   local : SUBSET {"local", "localAddr"},
   ring : [Instances -> [index : Nat, cfg : RingConfigs]]]

\* The messages about the system at a port, about its address, about a ring.
Came(p)       == {m \in Messages : m.kind = "remote" /\ m.port = p}
Gone(p)       == {m \in Messages : m.kind = "gone" /\ m.port = p}
Addresses(p)  == {m \in Messages : m.kind = "addr" /\ m.port = p}
SystemNews(p) == [m \in Came(p) \cup Gone(p) |-> IF m.kind = "remote" THEN m.who ELSE NoMember]
RingNews(i)   == [m \in {x \in Messages : x.kind = "ring" /\ x.id = i} |-> m.cfg]

MibTypeOK ==
  /\ follows \in BOOLEAN /\ early \in BOOLEAN
  /\ posts \in Nat /\ post \in Seq(Messages)
  /\ here \in [LldpPorts -> [who : Who, told : BOOLEAN]]
  /\ ringCfg \in [Instances -> RingConfigs]
  /\ mib \in MibRecords
  /\ shown \subseteq Nat \X Who

\* An index is given to one row, and what is in a row has been shown.
RowInv ==
  /\ \A p \in LldpPorts :
       LET row == mib.remote[p]
       IN IF row.index = 0 THEN row.who = NoMember
          ELSE row.index <= mib.remIndex /\ <<row.index, row.who>> \in shown
  /\ \A r, s \in shown : /\ r[1] <= mib.remIndex
                         /\ r[1] = s[1] => r[2] = s[2]
  /\ \A i \in Instances : mib.ring[i].index # i => mib.ring[i].cfg = NoRing

\* An agent that has followed from the start has, or will have, what there is.
Following ==
  /\ \A p \in LldpPorts :
       /\ LatestIs(post, SystemNews(p), mib.remote[p].who, here[p].who)
       /\ InPlace(post, Addresses(p), Came(p), Gone(p), mib.remote[p].index)
       /\ mib.addr[p] # NoMember => mib.remote[p].index # 0
  /\ \A i \in Instances : LatestIs(post, RingNews(i), mib.ring[i].cfg, ringCfg[i])

\* Before the first message.
NothingYet ==
  /\ post = <<>>
  /\ \A p \in LldpPorts : mib.remote[p].who = here[p].who /\ mib.addr[p] = NoMember
  /\ \A i \in Instances : mib.ring[i].cfg = ringCfg[i]

MibInv ==
  /\ MibTypeOK /\ RowInv
  /\ early => follows /\ Following
  /\ posts = 0 => NothingYet

\* The handlers: what a message does to the rows, addresses and rings.
LEMMA HandleFacts ==
  ASSUME MibTypeOK, NEW m \in Messages, Handle(m)
  PROVE  /\ mib' \in MibRecords
         /\ mib'.remIndex = IF m.kind = "remote" THEN mib.remIndex + 1 ELSE mib.remIndex
         /\ \A p \in LldpPorts :
              /\ mib'.remote[p] = CASE m \in Came(p) -> [who |-> m.who, index |-> mib.remIndex + 1]
                                    [] m \in Gone(p) -> NoShown
                                    [] OTHER         -> mib.remote[p]
              /\ mib'.addr[p] = CASE m \in Addresses(p) -> m.who
                                  [] m \in Gone(p)      -> NoMember
                                  [] OTHER              -> mib.addr[p]
         /\ \A i \in Instances :
              mib'.ring[i] = IF m \in DOMAIN RingNews(i) THEN [index |-> i, cfg |-> m.cfg]
                             ELSE mib.ring[i]
<1>0. mib \in MibRecords
  BY DEF MibTypeOK
<1>1. CASE m.kind = "remote"
  <2>1. m \in [kind : {"remote", "addr"}, port : LldpPorts, who : Who]
    BY <1>1 DEF Messages
  <2>2. mib' = [mib EXCEPT !.remIndex = @ + 1,
                           !.remote[m.port] = [who |-> m.who, index |-> mib.remIndex + 1]]
    BY <1>1 DEF Handle, SyncRemote
  <2>3. [who |-> m.who, index |-> mib.remIndex + 1] \in [who : Who, index : Nat]
    BY <1>0, <2>1 DEF MibRecords
  <2>4. mib' \in MibRecords
    BY <1>0, <2>1, <2>2, <2>3 DEF MibRecords
  <2> QED
    BY <1>0, <1>1, <2>1, <2>2, <2>4 DEF MibRecords, Came, Gone, Addresses, RingNews
<1>2. CASE m.kind = "addr"
  <2>1. m \in [kind : {"remote", "addr"}, port : LldpPorts, who : Who]
    BY <1>2 DEF Messages
  <2>2. mib' = [mib EXCEPT !.addr[m.port] = m.who]
    BY <1>2 DEF Handle, SyncAddress
  <2>3. mib' \in MibRecords
    BY <1>0, <2>1, <2>2 DEF MibRecords
  <2> QED
    BY <1>0, <1>2, <2>1, <2>2, <2>3 DEF MibRecords, Came, Gone, Addresses, RingNews
<1>3. CASE m.kind = "gone"
  <2>1. m.port \in LldpPorts
    BY <1>3 DEF Messages
  <2>2. mib' = [mib EXCEPT !.remote[m.port] = NoShown, !.addr[m.port] = NoMember]
    BY <1>3 DEF Handle, DelRemote
  <2>3. NoShown \in [who : Who, index : Nat] /\ NoMember \in Who
    BY DEF NoShown, Who
  <2>4. mib' \in MibRecords
    BY <1>0, <2>1, <2>2, <2>3 DEF MibRecords
  <2> QED
    BY <1>0, <1>3, <2>1, <2>2, <2>4 DEF MibRecords, Came, Gone, Addresses, RingNews
<1>4. CASE m.kind = "ring"
  <2>1. m.id \in Instances /\ m.cfg \in RingConfigs
    BY <1>4 DEF Messages
  <2>2. mib' = [mib EXCEPT !.ring[m.id] = [index |-> m.id, cfg |-> m.cfg]]
    BY <1>4 DEF Handle, SyncInstance
  <2>3. [index |-> m.id, cfg |-> m.cfg] \in [index : Nat, cfg : RingConfigs]
    <3>1. m.id \in Nat
      <4>1. Instances \subseteq Nat
        BY TablesConstantsOK
      <4> QED
        BY <2>1, <4>1
    <3> QED
      BY <2>1, <3>1
  <2>4. mib' \in MibRecords
    BY <1>0, <2>1, <2>2, <2>3 DEF MibRecords
  <2>5. \A i \in Instances : m \in DOMAIN RingNews(i) <=> i = m.id
    BY <1>4 DEF RingNews
  <2> QED
    BY <1>0, <1>4, <2>1, <2>2, <2>4, <2>5 DEF MibRecords, Came, Gone, Addresses
<1>5. CASE m.kind \notin {"remote", "addr", "gone", "ring"}
  <2>1. /\ mib' \in MibRecords
        /\ UNCHANGED <<mib.remIndex, mib.remote, mib.addr, mib.ring>>
    <3>1. CASE m.kind = "count" /\ mib' = [mib EXCEPT !.inserts = @ + 1]
      <4>1. mib.inserts + 1 \in Nat
        BY <1>0 DEF MibRecords
      <4> QED
        BY <1>0, <3>1, <4>1 DEF MibRecords
    <3>2. CASE m.kind = "clear" /\ mib' = [mib EXCEPT !.inserts = 0]
      BY <1>0, <3>2 DEF MibRecords
    <3>3. CASE m.kind = "time" /\ mib' = [mib EXCEPT !.changes = 1]
      BY <1>0, <3>3 DEF MibRecords
    <3>4. CASE m.kind = "set" /\ mib' = [mib EXCEPT !.set[m.cfg.flag] = m.cfg.value]
      <4>1. m.cfg \in Config
        BY <3>4 DEF Messages
      <4> QED
        BY <1>0, <3>4, <4>1 DEF MibRecords, Config
    <3>5. CASE m.kind \in {"portStats", "localPort"} /\ SyncPortRow(m)
      <4>1. <<m.kind, m.port>> \in {"portStats", "localPort"} \X LldpPorts
        BY <3>5 DEF Messages
      <4> QED
        BY <1>0, <3>5, <4>1 DEF MibRecords, SyncPortRow
    <3>6. CASE m.kind = "delLocalPort" /\ DelPortRow(m)
      BY <1>0, <3>6 DEF MibRecords, DelPortRow
    <3>7. CASE m.kind \in {"local", "localAddr"} /\ SyncLocal(m)
      BY <1>0, <3>7 DEF MibRecords, SyncLocal
    <3>8. CASE m.kind = "delLocal" /\ DelLocal(m)
      BY <1>0, <3>8 DEF MibRecords, DelLocal
    <3> QED
      BY <1>5, <3>1, <3>2, <3>3, <3>4, <3>5, <3>6, <3>7, <3>8 DEF Handle, SyncGlobal
  <2> QED
    BY <1>5, <2>1 DEF Came, Gone, Addresses, RingNews
<1> QED
  BY <1>1, <1>2, <1>3, <1>4, <1>5

\* A message that is published is on its way to an agent that follows.
LEMMA PublishStep ==
  ASSUME MibInv, NEW m \in Messages, Publish(m),
         here' \in [LldpPorts -> [who : Who, told : BOOLEAN]],
         ringCfg' \in [Instances -> RingConfigs],
         \A p \in LldpPorts :
           /\ here'[p].who = IF m \in DOMAIN SystemNews(p) THEN SystemNews(p)[m] ELSE here[p].who
           /\ m \in Addresses(p) => here[p].who # NoMember,
         \A i \in Instances :
           ringCfg'[i] = IF m \in DOMAIN RingNews(i) THEN RingNews(i)[m] ELSE ringCfg[i]
  PROVE  MibInv'
<1>1. /\ UNCHANGED <<follows, early, mib, shown>>
      /\ posts' = posts + 1 /\ posts' \in Nat /\ posts' # 0
      /\ post' = IF follows THEN Append(post, m) ELSE post
      /\ post \in Seq(Messages)
  BY DEF Publish, MibInv, MibTypeOK
<1>2. post' \in Seq(Messages)
  BY <1>1, AppendProperties
<1>3. MibTypeOK' /\ RowInv'
  BY <1>1, <1>2 DEF MibInv, MibTypeOK, RowInv
<1>4. ASSUME early PROVE follows /\ Following'
  <2>1. follows /\ Following /\ post' = Append(post, m)
    BY <1>1, <1>4 DEF MibInv
  <2>2. ASSUME NEW p \in LldpPorts
        PROVE  LatestIs(post', SystemNews(p), mib.remote[p].who, here'[p].who)
    <3>1. LatestIs(post, SystemNews(p), mib.remote[p].who, here[p].who)
      BY <2>1 DEF Following
    <3>2. \/ m \in DOMAIN SystemNews(p) /\ here'[p].who = SystemNews(p)[m]
          \/ m \notin DOMAIN SystemNews(p) /\ here'[p].who = here[p].who
      OBVIOUS
    <3> QED
      BY <1>1, <2>1, <3>1, <3>2, LatestIsSent
  <2>3. ASSUME NEW i \in Instances
        PROVE  LatestIs(post', RingNews(i), mib.ring[i].cfg, ringCfg'[i])
    <3>1. LatestIs(post, RingNews(i), mib.ring[i].cfg, ringCfg[i])
      BY <2>1 DEF Following
    <3>2. \/ m \in DOMAIN RingNews(i) /\ ringCfg'[i] = RingNews(i)[m]
          \/ m \notin DOMAIN RingNews(i) /\ ringCfg'[i] = ringCfg[i]
      OBVIOUS
    <3> QED
      BY <1>1, <2>1, <3>1, <3>2, LatestIsSent
  <2>4. ASSUME NEW p \in LldpPorts
        PROVE  InPlace(post', Addresses(p), Came(p), Gone(p), mib.remote[p].index)
    <3>1. InPlace(post, Addresses(p), Came(p), Gone(p), mib.remote[p].index)
      BY <2>1 DEF Following
    <3>2. ASSUME m \in Addresses(p)
          PROVE  Before(post, Len(post) + 1, Came(p), Gone(p), mib.remote[p].index)
      <4>1. here[p].who # NoMember
        BY <3>2
      <4>2. LatestIs(post, SystemNews(p), mib.remote[p].who, here[p].who)
        BY <2>1 DEF Following
      <4>3. Len(post) \in Nat
        BY <1>1, LenProperties
      <4>4. CASE /\ mib.remote[p].who = here[p].who
                 /\ \A k \in 1 .. Len(post) : post[k] \notin DOMAIN SystemNews(p)
        <5>1. mib.remote[p].index # 0
          BY <4>1, <4>4 DEF MibInv, RowInv
        <5>2. \A k \in 1 .. Len(post) : post[k] \notin Gone(p)
          BY <4>4 DEF SystemNews
        <5> QED
          BY <5>1, <5>2 DEF Before
      <4>5. CASE \E k \in 1 .. Len(post) :
                   /\ post[k] \in DOMAIN SystemNews(p) /\ SystemNews(p)[post[k]] = here[p].who
                   /\ \A j \in 1 .. Len(post) : j > k => post[j] \notin DOMAIN SystemNews(p)
        <5>1. PICK k \in 1 .. Len(post) :
                   /\ post[k] \in DOMAIN SystemNews(p) /\ SystemNews(p)[post[k]] = here[p].who
                   /\ \A j \in 1 .. Len(post) : j > k => post[j] \notin DOMAIN SystemNews(p)
          BY <4>5
        <5>2. post[k] \in Came(p)
          BY <4>1, <5>1 DEF SystemNews, Came, Gone
        <5>3. \A l \in 1 .. Len(post) : k < l => post[l] \notin Gone(p)
          BY <5>1 DEF SystemNews
        <5>4. k < Len(post) + 1
          BY <4>3
        <5> QED
          BY <5>2, <5>3, <5>4 DEF Before
      <4> QED
        BY <4>2, <4>4, <4>5 DEF LatestIs
    <3> QED
      BY <1>1, <2>1, <3>1, <3>2, InPlaceSent
  <2>5. \A p \in LldpPorts : mib.addr[p] # NoMember => mib.remote[p].index # 0
    BY <2>1 DEF Following
  <2> QED
    BY <1>1, <2>1, <2>2, <2>3, <2>4, <2>5 DEF Following
<1> QED
  BY <1>1, <1>3, <1>4 DEF MibInv

\* The agent reads a message.
LEMMA ReceiveStep ==
  ASSUME MibInv, Receive
  PROVE  MibInv'
<1> DEFINE m == Head(post)
           row(p) == <<mib'.remote[p].index, mib'.remote[p].who>>
<1>1. /\ post # <<>> /\ post' = Tail(post) /\ Handle(m)
      /\ shown' = shown \cup ({row(p) : p \in LldpPorts} \ {<<0, NoMember>>})
      /\ UNCHANGED <<follows, early, posts, here, ringCfg>>
  BY DEF Receive, RemoteRow
<1>2. MibTypeOK /\ post \in Seq(Messages) /\ m \in Messages /\ post' \in Seq(Messages)
  BY <1>1, HeadTailProperties DEF MibInv, MibTypeOK
<1> HIDE DEF m
<1>3. /\ mib' \in MibRecords
      /\ mib'.remIndex = IF m.kind = "remote" THEN mib.remIndex + 1 ELSE mib.remIndex
      /\ \A p \in LldpPorts :
           /\ mib'.remote[p] = CASE m \in Came(p) -> [who |-> m.who, index |-> mib.remIndex + 1]
                                 [] m \in Gone(p) -> NoShown
                                 [] OTHER         -> mib.remote[p]
           /\ mib'.addr[p] = CASE m \in Addresses(p) -> m.who
                               [] m \in Gone(p)      -> NoMember
                               [] OTHER              -> mib.addr[p]
      /\ \A i \in Instances :
           mib'.ring[i] = IF m \in DOMAIN RingNews(i) THEN [index |-> i, cfg |-> m.cfg]
                          ELSE mib.ring[i]
  BY <1>1, <1>2, HandleFacts
<1>4. mib \in MibRecords /\ mib.remIndex \in Nat /\ RowInv
  BY <1>2 DEF MibInv, MibTypeOK, MibRecords
<1>5. \A p \in LldpPorts : /\ (m \in Came(p)) = (m.kind = "remote" /\ m.port = p)
                           /\ (m \in Gone(p)) = (m.kind = "gone" /\ m.port = p)
                           /\ (m \in Addresses(p)) = (m.kind = "addr" /\ m.port = p)
  BY <1>2 DEF Came, Gone, Addresses
<1>6. \A p \in LldpPorts : mib'.remote[p].who \in Who /\ mib'.remote[p].index \in Nat
  BY <1>3 DEF MibRecords
<1>7. MibTypeOK'
  <2>1. shown' \subseteq Nat \X Who
    BY <1>1, <1>2, <1>6 DEF MibTypeOK
  <2> QED
    BY <1>1, <1>2, <1>3, <2>1 DEF MibTypeOK
<1>8. mib.remIndex <= mib'.remIndex /\ mib'.remIndex \in Nat
  BY <1>3, <1>4
<1>9. ASSUME NEW p \in LldpPorts
      PROVE  \/ m \in Came(p) /\ row(p) = <<mib'.remIndex, m.who>> /\ mib'.remIndex = mib.remIndex + 1
             \/ row(p) = <<0, NoMember>>
             \/ row(p) \in shown
  <2>1. CASE m \in Came(p)
    BY <1>3, <1>5, <2>1
  <2>2. CASE m \notin Came(p) /\ m \in Gone(p)
    BY <1>3, <2>2 DEF NoShown
  <2>3. CASE m \notin Came(p) /\ m \notin Gone(p)
    <3>1. mib'.remote[p] = mib.remote[p]
      BY <1>3, <2>3
    <3> QED
      BY <1>4, <3>1 DEF RowInv
  <2> QED
    BY <2>1, <2>2, <2>3
<1>10. ASSUME NEW r \in shown'
       PROVE  \/ r \in shown
              \/ /\ m.kind = "remote" /\ mib'.remIndex = mib.remIndex + 1
                 /\ r = <<mib'.remIndex, m.who>>
  <2>1. CASE r \in shown
    BY <2>1
  <2>2. CASE r \notin shown
    <3>1. PICK p \in LldpPorts : r = row(p) /\ r # <<0, NoMember>>
      BY <1>1, <2>2
    <3> QED
      BY <1>5, <1>9, <2>2, <3>1
  <2> QED
    BY <2>1, <2>2
<1>11. RowInv'
  <2>1. ASSUME NEW p \in LldpPorts
        PROVE  IF mib'.remote[p].index = 0 THEN mib'.remote[p].who = NoMember
               ELSE mib'.remote[p].index <= mib'.remIndex /\ row(p) \in shown'
    <3>1. mib'.remote[p].index # 0 => row(p) \in shown'
      BY <1>1
    <3>2. CASE m \in Came(p)
      BY <1>3, <1>4, <1>5, <3>1, <3>2
    <3>3. CASE m \notin Came(p) /\ m \in Gone(p)
      BY <1>3, <3>3 DEF NoShown
    <3>4. CASE m \notin Came(p) /\ m \notin Gone(p)
      <4>1. mib'.remote[p] = mib.remote[p]
        BY <1>3, <3>4
      <4> QED
        BY <1>4, <1>6, <1>8, <3>1, <4>1 DEF RowInv
    <3> QED
      BY <3>2, <3>3, <3>4
  <2>2. ASSUME NEW r \in shown'
        PROVE  r[1] <= mib'.remIndex
    <3>1. r \in Nat \X Who
      BY <1>7 DEF MibTypeOK
    <3>2. CASE r \in shown
      <4>1. r[1] <= mib.remIndex
        BY <1>4, <3>2 DEF RowInv
      <4> QED
        BY <1>4, <1>8, <3>1, <4>1
    <3>3. CASE r = <<mib'.remIndex, m.who>>
      BY <1>8, <3>3
    <3> QED
      BY <1>10, <3>2, <3>3
  <2>3. ASSUME NEW r \in shown', NEW s \in shown', r[1] = s[1]
        PROVE  r[2] = s[2]
    <3>1. \A t \in shown : t[1] # mib.remIndex + 1
      <4> SUFFICES ASSUME NEW t \in shown PROVE t[1] # mib.remIndex + 1
        OBVIOUS
      <4>1. t[1] \in Nat /\ t[1] <= mib.remIndex
        BY <1>2, <1>4 DEF MibTypeOK, RowInv
      <4> QED
        BY <1>4, <4>1
    <3>2. CASE r \in shown /\ s \in shown
      BY <1>4, <2>3, <3>2 DEF RowInv
    <3>3. CASE r \notin shown \/ s \notin shown
      <4>1. r[1] = mib.remIndex + 1 /\ s[1] = mib.remIndex + 1
        BY <1>10, <2>3, <3>3
      <4>2. r = <<mib'.remIndex, m.who>> /\ s = <<mib'.remIndex, m.who>>
        BY <1>10, <3>1, <4>1
      <4> QED
        BY <4>2
    <3> QED
      BY <3>2, <3>3
  <2>4. ASSUME NEW i \in Instances, mib'.ring[i].index # i
        PROVE  mib'.ring[i].cfg = NoRing
    <3>1. mib'.ring[i] = IF m \in DOMAIN RingNews(i) THEN [index |-> i, cfg |-> m.cfg]
                         ELSE mib.ring[i]
      BY <1>3
    <3>2. mib'.ring[i] = mib.ring[i]
      BY <2>4, <3>1
    <3>3. mib.ring[i].index # i => mib.ring[i].cfg = NoRing
      BY <1>4 DEF RowInv
    <3> QED
      BY <2>4, <3>2, <3>3
  <2> QED
    BY <2>1, <2>2, <2>3, <2>4 DEF RowInv
<1>12. ASSUME early PROVE follows /\ Following'
  <2>1. follows /\ Following
    BY <1>12 DEF MibInv
  <2>2. ASSUME NEW p \in LldpPorts
        PROVE  LatestIs(post', SystemNews(p), mib'.remote[p].who, here[p].who)
    <3>1. LatestIs(post, SystemNews(p), mib.remote[p].who, here[p].who)
      BY <2>1 DEF Following
    <3>2. mib'.remote[p].who = IF m \in DOMAIN SystemNews(p) THEN SystemNews(p)[m]
                               ELSE mib.remote[p].who
      <4>1. m \in Came(p) => m \notin Gone(p) /\ m.kind = "remote"
        BY <1>5
      <4>2. m \in Gone(p) => m.kind # "remote"
        BY <1>5
      <4> QED
        BY <1>3, <4>1, <4>2 DEF SystemNews, NoShown
    <3> QED
      BY <1>1, <1>2, <3>1, <3>2, LatestIsRead DEF m
  <2>3. ASSUME NEW i \in Instances
        PROVE  LatestIs(post', RingNews(i), mib'.ring[i].cfg, ringCfg[i])
    <3>1. LatestIs(post, RingNews(i), mib.ring[i].cfg, ringCfg[i])
      BY <2>1 DEF Following
    <3>2. mib'.ring[i].cfg = IF m \in DOMAIN RingNews(i) THEN RingNews(i)[m] ELSE mib.ring[i].cfg
      <4>1. mib'.ring[i] = IF m \in DOMAIN RingNews(i) THEN [index |-> i, cfg |-> m.cfg]
                           ELSE mib.ring[i]
        BY <1>3
      <4>2. m \in DOMAIN RingNews(i) => RingNews(i)[m] = m.cfg
        BY DEF RingNews
      <4>3. CASE m \in DOMAIN RingNews(i)
        <5>1. mib'.ring[i].cfg = m.cfg
          BY <4>1, <4>3
        <5> QED
          BY <4>2, <4>3, <5>1
      <4>4. CASE m \notin DOMAIN RingNews(i)
        BY <4>1, <4>4
      <4> QED
        BY <4>3, <4>4
    <3> QED
      BY <1>1, <1>2, <3>1, <3>2, LatestIsRead DEF m
  <2>4. ASSUME NEW p \in LldpPorts
        PROVE  InPlace(post', Addresses(p), Came(p), Gone(p), mib'.remote[p].index)
    <3>1. InPlace(post, Addresses(p), Came(p), Gone(p), mib.remote[p].index)
      BY <2>1 DEF Following
    <3>2. mib'.remote[p] = CASE m \in Came(p) -> [who |-> m.who, index |-> mib.remIndex + 1]
                             [] m \in Gone(p) -> NoShown
                             [] OTHER         -> mib.remote[p]
      BY <1>3
    <3>3. m \in Came(p) => mib'.remote[p].index # 0
      <4>1. m \in Came(p) => mib'.remote[p] = [who |-> m.who, index |-> mib.remIndex + 1]
        BY <1>5, <3>2
      <4>2. mib.remIndex + 1 # 0
        BY <1>4
      <4> QED
        BY <4>1, <4>2
    <3>4. m \notin Came(p) /\ m \notin Gone(p) => mib'.remote[p] = mib.remote[p]
      BY <3>2
    <3>5. m \notin Gone(p) /\ mib.remote[p].index # 0 => mib'.remote[p].index # 0
      BY <3>3, <3>4
    <3> QED
      BY <1>1, <1>2, <3>1, <3>3, <3>5, InPlaceRead DEF m
  <2>5. ASSUME NEW p \in LldpPorts, mib'.addr[p] # NoMember
        PROVE  mib'.remote[p].index # 0
    <3>1. CASE m \in Addresses(p)
      <4>1. 1 \in 1 .. Len(post) /\ post[1] = m
        BY <1>1, <1>2, ReadIsFirst DEF m
      <4>2. Before(post, 1, Came(p), Gone(p), mib.remote[p].index)
        BY <2>1, <3>1, <4>1 DEF Following, InPlace
      <4>3. mib.remote[p].index # 0
        BY <4>2 DEF Before
      <4>4. mib'.remote[p] = mib.remote[p]
        BY <1>3, <1>5, <3>1
      <4> QED
        BY <4>3, <4>4
    <3>2. CASE m \notin Addresses(p)
      <4>1. m \notin Gone(p) /\ mib.addr[p] # NoMember
        BY <1>3, <2>5, <3>2
      <4>2. mib.remote[p].index # 0
        BY <2>1, <4>1 DEF Following
      <4> QED
        BY <1>3, <1>4, <4>1, <4>2
    <3> QED
      BY <3>1, <3>2
  <2> QED
    BY <1>1, <2>1, <2>2, <2>3, <2>4, <2>5 DEF Following
<1>13. posts # 0
  BY <1>1 DEF MibInv, NothingYet
<1> QED
  BY <1>1, <1>7, <1>11, <1>12, <1>13 DEF MibInv

\* A neighbour or its address appears, a neighbour goes, a ring is configured, or
\* something else is published.
LEMMA NewsStep ==
  ASSUME MibInv, Attach \/ Address \/ Detach \/ Other \/ RingConfigured
  PROVE  MibInv'
<1>0. MibTypeOK /\ Neighbours \subseteq Who /\ NoMember \in Who
  BY DEF MibInv, Who
<1>1. ASSUME NEW p \in LldpPorts, NEW n \in Neighbours,
             here' = [here EXCEPT ![p] = [who |-> n, told |-> FALSE]],
             Publish([kind |-> "remote", port |-> p, who |-> n]), UNCHANGED ringCfg
      PROVE  MibInv'
  <2> DEFINE m == [kind |-> "remote", port |-> p, who |-> n]
  <2>1. m \in Messages /\ m.kind = "remote" /\ m.port = p /\ m.who = n
    BY <1>0 DEF Messages
  <2>2. Publish(m)
    BY <1>1
  <2> HIDE DEF m
  <2>3. here' \in [LldpPorts -> [who : Who, told : BOOLEAN]]
    BY <1>0, <1>1 DEF MibTypeOK
  <2>4. ringCfg' \in [Instances -> RingConfigs]
    BY <1>0, <1>1 DEF MibTypeOK
  <2>5. \A q \in LldpPorts :
          /\ here'[q].who = IF m \in DOMAIN SystemNews(q) THEN SystemNews(q)[m] ELSE here[q].who
          /\ m \in Addresses(q) => here[q].who # NoMember
    BY <1>0, <1>1, <2>1 DEF MibTypeOK, SystemNews, Came, Gone, Addresses
  <2>6. \A i \in Instances :
          ringCfg'[i] = IF m \in DOMAIN RingNews(i) THEN RingNews(i)[m] ELSE ringCfg[i]
    BY <1>1, <2>1 DEF RingNews
  <2> QED
    BY <2>1, <2>2, <2>3, <2>4, <2>5, <2>6, PublishStep
<1>2. ASSUME NEW p \in LldpPorts, here[p].who # NoMember,
             here' = [here EXCEPT ![p].told = TRUE],
             Publish([kind |-> "addr", port |-> p, who |-> here[p].who]), UNCHANGED ringCfg
      PROVE  MibInv'
  <2> DEFINE m == [kind |-> "addr", port |-> p, who |-> here[p].who]
  <2>1. m \in Messages /\ m.kind = "addr" /\ m.port = p
    BY <1>0 DEF Messages, MibTypeOK
  <2>2. Publish(m)
    BY <1>2
  <2> HIDE DEF m
  <2>3. here' \in [LldpPorts -> [who : Who, told : BOOLEAN]]
    BY <1>0, <1>2 DEF MibTypeOK
  <2>4. ringCfg' \in [Instances -> RingConfigs]
    BY <1>0, <1>2 DEF MibTypeOK
  <2>5. \A q \in LldpPorts : here'[q].who = here[q].who
    BY <1>0, <1>2 DEF MibTypeOK
  <2>6. \A q \in LldpPorts :
          /\ here'[q].who = IF m \in DOMAIN SystemNews(q) THEN SystemNews(q)[m] ELSE here[q].who
          /\ m \in Addresses(q) => here[q].who # NoMember
    BY <1>2, <2>1, <2>5 DEF SystemNews, Came, Gone, Addresses
  <2>7. \A i \in Instances :
          ringCfg'[i] = IF m \in DOMAIN RingNews(i) THEN RingNews(i)[m] ELSE ringCfg[i]
    BY <1>2, <2>1 DEF RingNews
  <2> QED
    BY <2>1, <2>2, <2>3, <2>4, <2>6, <2>7, PublishStep
<1>3. ASSUME NEW p \in LldpPorts,
             here' = [here EXCEPT ![p] = [who |-> NoMember, told |-> FALSE]],
             Publish([kind |-> "gone", port |-> p]), UNCHANGED ringCfg
      PROVE  MibInv'
  <2> DEFINE m == [kind |-> "gone", port |-> p]
  <2>1. m \in Messages /\ m.kind = "gone" /\ m.port = p
    BY DEF Messages
  <2>2. Publish(m)
    BY <1>3
  <2> HIDE DEF m
  <2>3. here' \in [LldpPorts -> [who : Who, told : BOOLEAN]]
    BY <1>0, <1>3 DEF MibTypeOK
  <2>4. ringCfg' \in [Instances -> RingConfigs]
    BY <1>0, <1>3 DEF MibTypeOK
  <2>5. \A q \in LldpPorts :
          /\ here'[q].who = IF m \in DOMAIN SystemNews(q) THEN SystemNews(q)[m] ELSE here[q].who
          /\ m \in Addresses(q) => here[q].who # NoMember
    BY <1>0, <1>3, <2>1 DEF MibTypeOK, SystemNews, Came, Gone, Addresses
  <2>6. \A i \in Instances :
          ringCfg'[i] = IF m \in DOMAIN RingNews(i) THEN RingNews(i)[m] ELSE ringCfg[i]
    BY <1>3, <2>1 DEF RingNews
  <2> QED
    BY <2>1, <2>2, <2>3, <2>4, <2>5, <2>6, PublishStep
<1>4. ASSUME Other PROVE MibInv'
  <2>1. PICK m \in {[kind |-> "count"], [kind |-> "clear"], [kind |-> "time"]}
                   \cup {[kind |-> "set", cfg |-> c] : c \in Config}
                   \cup {[kind |-> k, port |-> p] :
                           k \in {"portStats", "localPort", "delLocalPort"}, p \in LldpPorts}
                   \cup {[kind |-> k] : k \in {"local", "localAddr", "delLocal"}} : Publish(m)
    BY <1>4 DEF Other
  <2>2. m \in Messages
    BY <2>1 DEF Messages
  <2>3. m.kind \notin {"remote", "gone", "addr", "ring"}
    BY <2>1
  <2>4. UNCHANGED <<here, ringCfg>>
    BY <1>4 DEF Other
  <2>5. \A q \in LldpPorts :
          /\ here'[q].who = IF m \in DOMAIN SystemNews(q) THEN SystemNews(q)[m] ELSE here[q].who
          /\ m \in Addresses(q) => here[q].who # NoMember
    BY <2>3, <2>4 DEF SystemNews, Came, Gone, Addresses
  <2>6. \A i \in Instances :
          ringCfg'[i] = IF m \in DOMAIN RingNews(i) THEN RingNews(i)[m] ELSE ringCfg[i]
    BY <2>3, <2>4 DEF RingNews
  <2>7. /\ here' \in [LldpPorts -> [who : Who, told : BOOLEAN]]
        /\ ringCfg' \in [Instances -> RingConfigs]
    BY <1>0, <2>4 DEF MibTypeOK
  <2> QED
    BY <2>1, <2>2, <2>5, <2>6, <2>7, PublishStep
<1>5. ASSUME NEW i \in Instances, NEW c \in [vlan : {0, 10}, on : BOOLEAN, ports : {{1, 2}}],
             ringCfg' = [ringCfg EXCEPT ![i] = c],
             Publish([kind |-> "ring", id |-> i, cfg |-> c]), UNCHANGED here
      PROVE  MibInv'
  <2> DEFINE m == [kind |-> "ring", id |-> i, cfg |-> c]
  <2>1. c \in RingConfigs
    BY DEF RingConfigs
  <2>2. m \in Messages /\ m.kind = "ring" /\ m.id = i /\ m.cfg = c
    BY <2>1 DEF Messages
  <2>3. Publish(m)
    BY <1>5
  <2> HIDE DEF m
  <2>4. here' \in [LldpPorts -> [who : Who, told : BOOLEAN]]
    BY <1>0, <1>5 DEF MibTypeOK
  <2>5. ringCfg' \in [Instances -> RingConfigs]
    BY <1>0, <1>5, <2>1 DEF MibTypeOK
  <2>6. \A q \in LldpPorts :
          /\ here'[q].who = IF m \in DOMAIN SystemNews(q) THEN SystemNews(q)[m] ELSE here[q].who
          /\ m \in Addresses(q) => here[q].who # NoMember
    BY <1>5, <2>2 DEF SystemNews, Came, Gone, Addresses
  <2>7. \A j \in Instances :
          ringCfg'[j] = IF m \in DOMAIN RingNews(j) THEN RingNews(j)[m] ELSE ringCfg[j]
    BY <1>0, <1>5, <2>2 DEF MibTypeOK, RingNews
  <2> QED
    BY <2>2, <2>3, <2>4, <2>5, <2>6, <2>7, PublishStep
<1> QED
  BY <1>1, <1>2, <1>3, <1>4, <1>5 DEF Attach, Address, Detach, RingConfigured

\* The agent begins to follow, or gives up.
LEMMA FollowStep ==
  ASSUME MibInv, Register \/ Unregister
  PROVE  MibInv'
<1>0. UNCHANGED <<post, posts, here, ringCfg, mib, shown>>
  BY DEF Register, Unregister
<1>1. /\ follows' \in BOOLEAN
      /\ early' \in BOOLEAN
      /\ early' => follows'
  BY Zenon DEF Register, Unregister
<1>2. MibTypeOK' /\ RowInv' /\ (posts = 0 => NothingYet)'
  BY <1>0, <1>1 DEF MibInv, MibTypeOK, RowInv, NothingYet
<1>3. early' => Following'
  <2> SUFFICES ASSUME early' PROVE Following'
    OBVIOUS
  <2>1. posts = 0
    BY Zenon DEF Register, Unregister
  <2>2. NothingYet
    BY <2>1 DEF MibInv
  <2>3. post = <<>> /\ Len(<<>>) = 0
    BY <2>2, EmptySeq DEF NothingYet
  <2>4. \A p \in LldpPorts : LatestIs(post, SystemNews(p), mib.remote[p].who, here[p].who)
    BY <2>2, NothingIsLatest DEF NothingYet
  <2>5. \A i \in Instances : LatestIs(post, RingNews(i), mib.ring[i].cfg, ringCfg[i])
    BY <2>2, NothingIsLatest DEF NothingYet
  <2>6. \A p \in LldpPorts :
          InPlace(post, Addresses(p), Came(p), Gone(p), mib.remote[p].index)
    <3>1. \A k \in 1 .. Len(post) : FALSE
      BY <2>3
    <3> QED
      BY <3>1, Zenon DEF InPlace
  <2>7. \A p \in LldpPorts : mib.addr[p] = NoMember
    BY <2>2 DEF NothingYet
  <2> QED
    BY <1>0, <2>4, <2>5, <2>6, <2>7 DEF Following
<1> QED
  BY <1>1, <1>2, <1>3 DEF MibInv

TabInv == PlaceInv /\ MibInv

\* The tables start sound.
LEMMA TablesBegin ==
  ASSUME TabInit
  PROVE  TabInv
<1>1. PlaceInv
  BY TablesConstantsOK DEF TabInit, PlaceInv
<1>2. MibTypeOK
  <2>1. <<>> \in Seq(Messages)
    BY EmptySeq
  <2>2. ringCfg \in [Instances -> RingConfigs]
    BY DEF TabInit, RingConfigs
  <2>3. NoShown \in [who : Who, index : Nat] /\ NoMember \in Who
    BY DEF NoShown, Who
  <2>4. mib \in MibRecords
    <3>1. \A i \in Instances : [index |-> 0, cfg |-> ringCfg[i]] \in [index : Nat, cfg : RingConfigs]
      BY <2>2
    <3> QED
      BY <2>3, <3>1 DEF TabInit, MibRecords
  <2> QED
    BY <2>1, <2>2, <2>3, <2>4 DEF TabInit, MibTypeOK
<1>3. RowInv
  <2>1. \A p \in LldpPorts : mib.remote[p].index = 0 /\ mib.remote[p].who = NoMember
    BY DEF TabInit, NoShown
  <2>2. \A i \in Instances : mib.ring[i].cfg = NoRing
    BY DEF TabInit, NoRing
  <2>3. shown = {}
    BY DEF TabInit
  <2> QED
    BY <2>1, <2>2, <2>3 DEF RowInv
<1>4. NothingYet
  BY DEF TabInit, NothingYet, NoShown
<1>5. early = FALSE
  BY DEF TabInit
<1> QED
  BY <1>1, <1>2, <1>3, <1>4, <1>5 DEF TabInv, MibInv

\* A message that is published leaves the places alone.
LEMMA PublishKeeps ==
  ASSUME NEW m, Publish(m)
  PROVE  UNCHANGED <<places, given>>
BY DEF Publish

\* A step of the LLDP or ring service, or of the agent, leaves the places alone, and
\* the other way round.
LEMMA TablesStep ==
  ASSUME TabInv, [TabNext]_tabVars
  PROVE  TabInv'
<1>1. ASSUME MibNext PROVE TabInv'
  <2>1. UNCHANGED <<places, given>>
    <3>1. CASE Attach
      BY <3>1, PublishKeeps DEF Attach
    <3>2. CASE Address
      BY <3>2, PublishKeeps DEF Address
    <3>3. CASE Detach
      BY <3>3, PublishKeeps DEF Detach
    <3>4. CASE RingConfigured
      BY <3>4, PublishKeeps DEF RingConfigured
    <3>5. CASE Other
      BY <3>5, PublishKeeps DEF Other
    <3>6. CASE Receive \/ Register \/ Unregister
      BY <3>6, Zenon DEF Receive, Register, Unregister
    <3> QED
      BY <1>1, <3>1, <3>2, <3>3, <3>4, <3>5, <3>6 DEF MibNext
  <2>2. PlaceInv'
    BY <2>1 DEF TabInv, PlaceInv
  <2>3. MibInv'
    BY <1>1, NewsStep, ReceiveStep, FollowStep DEF TabInv, MibNext
  <2> QED
    BY <2>2, <2>3 DEF TabInv
<1>2. ASSUME UNCHANGED lldpVars PROVE MibInv'
  BY <1>2 DEF TabInv, MibInv, lldpVars, MibTypeOK, RowInv, Following, NothingYet
<1>3. ASSUME PlaceNext PROVE TabInv'
  <2>1. UNCHANGED lldpVars
    BY <1>3 DEF PlaceNext, GetPlace, DelPlace
  <2> QED
    BY <1>2, <1>3, <2>1, PlaceStep DEF TabInv
<1>4. ASSUME UNCHANGED tabVars PROVE TabInv'
  <2>1. UNCHANGED lldpVars /\ UNCHANGED <<places, given>>
    BY <1>4 DEF tabVars, lldpVars
  <2> QED
    BY <1>2, <2>1 DEF TabInv, PlaceInv
<1> QED
  BY <1>1, <1>3, <1>4 DEF TabNext

\* What the invariant says of the tables a manager reads.
LEMMA TablesSound ==
  ASSUME TabInv
  PROVE  TablesAreSound
<1>1. PlacesAreDistinct
  <2> SUFFICES ASSUME NEW v \in Ids, NEW w \in Ids, v # w, given[v] > 0, given[v] = given[w]
               PROVE  FALSE
    BY DEF PlacesAreDistinct
  <2>1. places[given[v]].vid = v /\ places[given[w]].vid = w
    BY DEF TabInv, PlaceInv
  <2> QED
    BY <2>1
<1>2. \A r, s \in shown : r[1] = s[1] => r[2] = s[2]
  BY DEF TabInv, MibInv, RowInv
<1>3. ASSUME early, follows
      PROVE  /\ \A p \in LldpPorts : RemoteAddress(p) # NoMember => mib.remote[p].index # 0
             /\ post = <<>> => /\ \A p \in LldpPorts : mib.remote[p].who = here[p].who
                               /\ \A i \in Instances : RingConfig(i) = ringCfg[i]
                               /\ \A i \in Instances : InstanceIsValid(i) => ringCfg[i].on
  <2>1. Following
    BY <1>3 DEF TabInv, MibInv
  <2>2. \A p \in LldpPorts : RemoteAddress(p) # NoMember => mib.remote[p].index # 0
    BY <2>1 DEF Following, RemoteAddress
  <2>3. ASSUME post = <<>> PROVE \A p \in LldpPorts : mib.remote[p].who = here[p].who
    BY <2>1, <2>3, LatestIsKnown DEF Following
  <2>4. ASSUME post = <<>> PROVE \A i \in Instances : mib.ring[i].cfg = ringCfg[i]
    BY <2>1, <2>4, LatestIsKnown DEF Following
  <2>5. ASSUME post = <<>>, NEW i \in Instances PROVE RingConfig(i) = ringCfg[i]
    <3>1. mib.ring[i].index # i => mib.ring[i].cfg = NoRing
      BY DEF TabInv, MibInv, RowInv
    <3> QED
      BY <2>4, <2>5, <3>1 DEF RingConfig, NoRing
  <2>6. ASSUME post = <<>>, NEW i \in Instances, InstanceIsValid(i) PROVE ringCfg[i].on
    <3>1. mib.ring[i].cfg = ringCfg[i] /\ mib.ring[i].cfg.on
      BY <2>4, <2>6 DEF InstanceIsValid
    <3> QED
      BY <3>1
  <2> QED
    BY <2>2, <2>3, <2>5, <2>6
<1> QED
  BY <1>1, <1>2, <1>3 DEF TablesAreSound, RowsAreWhole

\* The tables stay as the invariant says.
THEOREM TablesInductive == TabSpec => []TabInv
<1>1. TabInit => TabInv
  BY TablesBegin
<1>2. TabInv /\ [TabNext]_tabVars => TabInv'
  BY TablesStep
<1> QED
  BY <1>1, <1>2, PTL DEF TabSpec

\* Whatever is attached, detached, configured, lost or removed in whatever order: an
\* index stands for one neighbour, an agent that followed from the start has what
\* there is, and two VLANs never share a place.
THEOREM TablesStaySound == TabSpec => []TablesAreSound
<1>1. TabInv => TablesAreSound
  BY TablesSound
<1> QED
  BY <1>1, TablesInductive, PTL

-----------------------------------------------------------------------------
(* The IPv6 addresses of a link.                                           *)

\* The interface has the addresses that are stored, and in a connected link so has
\* the last broadcast.
Configured6 == Entries(dyn) # {} => dev = Entries(dyn)
AddressInv  == Configured6 /\ AddressIsTold

\* What is stored depends on nothing but the addresses and their lengths.
LEMMA SameEntries ==
  ASSUME NEW d, NEW e, \A i \in Index : e[i].ip = d[i].ip /\ e[i].len = d[i].len
  PROVE  Entries(e) = Entries(d) /\ Said(TRUE, e) = Said(TRUE, d)
<1>1. {i \in Index : e[i].ip # Unset} = {i \in Index : d[i].ip # Unset}
  OBVIOUS
<1>2. Entries(e) = Entries(d)
  BY <1>1 DEF Entries
<1> QED
  BY <1>2 DEF Said

\* Nothing is stored once the addresses are cleared.
LEMMA ForgottenIsEmpty ==
  ASSUME NEW d
  PROVE  Entries(Forgotten(d, AllFlags)) = {} /\ Entries([i \in Index |-> FreeSlot]) = {}
<1>1. \A i \in Index : Forgotten(d, AllFlags)[i].ip = Unset
  BY DEF Forgotten, AllFlags
<1>2. \A i \in Index : [j \in Index |-> FreeSlot][i].ip = Unset
  BY DEF FreeSlot
<1> QED
  BY <1>1, <1>2 DEF Entries

\* An event that changes no address changes nothing that is stored of one.
LEMMA MergedAddresses ==
  ASSUME NEW info, NEW flags, "addr" \notin flags
  PROVE  \A i \in Index : /\ Merged(info, flags)[i].ip = dyn[i].ip
                          /\ Merged(info, flags)[i].len = dyn[i].len
<1> DEFINE forgotten == Forgotten(dyn, flags)
<1>1. \A i \in Index :
        forgotten[i] = [ip |-> dyn[i].ip, len |-> dyn[i].len,
                        mtu |-> IF "mtu" \in flags THEN 0 ELSE dyn[i].mtu]
  BY DEF Forgotten
<1>2. Merged(info, flags) =
        [i \in Index |-> [forgotten[i] EXCEPT !.mtu = IF "mtu" \in flags THEN info.mtu ELSE @]]
  BY DEF Merged, Added
<1> HIDE DEF forgotten
<1> SUFFICES ASSUME NEW i \in Index
             PROVE  /\ Merged(info, flags)[i].ip = dyn[i].ip
                    /\ Merged(info, flags)[i].len = dyn[i].len
  OBVIOUS
<1>3. PICK t : Merged(info, flags)[i] = [forgotten[i] EXCEPT !.mtu = t]
  BY <1>2
<1>4. PICK t2 : forgotten[i] = [ip |-> dyn[i].ip, len |-> dyn[i].len, mtu |-> t2]
  BY <1>1
<1> QED
  BY <1>3, <1>4

\* An address is stored only together with its configuration and its broadcast.
LEMMA AddressStep ==
  ASSUME AddressInv, [Lease6Next]_lease6Vars
  PROVE  AddressInv'
<1>1. ASSUME NEW evt \in {"bound", "updated"}, NEW info \in Infos, Merge(evt, info)
      PROVE  AddressInv'
  <2> DEFINE flags == Flags(evt, info)
  <2>1. /\ dyn' = Merged(info, flags) /\ phase6' = phase6
        /\ IF "addr" \in flags THEN UpdateState(Merged(info, flags)) ELSE UNCHANGED <<dev, up, told>>
    BY <1>1 DEF Merge
  <2> HIDE DEF flags
  <2>2. CASE "addr" \in flags
    BY <2>1, <2>2 DEF UpdateState, AddressInv, Configured6, AddressIsTold
  <2>3. CASE "addr" \notin flags
    <3>1. \A i \in Index : dyn'[i].ip = dyn[i].ip /\ dyn'[i].len = dyn[i].len
      BY <2>1, <2>3, MergedAddresses
    <3>2. Entries(dyn') = Entries(dyn) /\ Said(TRUE, dyn') = Said(TRUE, dyn)
      BY <3>1, SameEntries
    <3> QED
      BY <2>1, <2>3, <3>2 DEF AddressInv, Configured6, AddressIsTold
  <2> QED
    BY <2>2, <2>3
<1>2. ASSUME \/ dyn' = Forgotten(dyn, AllFlags)
             \/ dyn' = [i \in Index |-> FreeSlot]
      PROVE  AddressInv'
  BY <1>2, ForgottenIsEmpty DEF AddressInv, Configured6, AddressIsTold
<1>3. ASSUME Forget6 \/ Startup6 \/ Stop PROVE AddressInv'
  BY <1>2, <1>3 DEF Forget6, Startup6, Stop, StopClients
<1>4. ASSUME StartClients \/ BreakOff6 PROVE AddressInv'
  <2>1. phase6' # "connected" /\ UNCHANGED <<dyn, dev>>
    BY <1>4 DEF StartClients, BreakOff6
  <2> QED
    BY <2>1 DEF AddressInv, Configured6, AddressIsTold
<1>5. ASSUME Bound4 \/ ClientExits PROVE AddressInv'
  <2>1. UNCHANGED <<phase6, dyn, dev, told>>
    BY <1>5 DEF Bound4, ClientExits
  <2> QED
    BY <2>1 DEF AddressInv, Configured6, AddressIsTold
<1>6. ASSUME Deconfig4 PROVE AddressInv'
  <2>1. CASE phase6 = "connected"
    BY <1>2, <1>6, <2>1 DEF Deconfig4, StopClients
  <2>2. CASE phase6 # "connected"
    BY <1>6, <2>2 DEF Deconfig4, AddressInv, Configured6, AddressIsTold
  <2> QED
    BY <2>1, <2>2
<1>7. ASSUME Connect6 PROVE AddressInv'
  BY <1>7 DEF Connect6, AddressInv, Configured6, AddressIsTold
<1>8. ASSUME UNCHANGED lease6Vars PROVE AddressInv'
  BY <1>8 DEF lease6Vars, AddressInv, Configured6, AddressIsTold
<1> QED
  BY <1>1, <1>3, <1>4, <1>5, <1>6, <1>7, <1>8 DEF Lease6Next, MergeAny

\* Whatever the dialer is doing when a script reports, and however late it does: in
\* a connected link the addresses that are stored are those of the interface and
\* those the others were told.
THEOREM AddressAlwaysTold == Lease6Spec => []AddressIsTold
<1>1. Lease6Init => AddressInv
  <2> SUFFICES ASSUME Lease6Init PROVE AddressInv
    OBVIOUS
  <2>1. dyn = [i \in Index |-> FreeSlot]
    BY DEF Lease6Init
  <2> QED
    BY <2>1, ForgottenIsEmpty DEF AddressInv, Configured6, AddressIsTold
<1>2. AddressInv /\ [Lease6Next]_lease6Vars => AddressInv'
  BY AddressStep
<1>3. AddressInv => AddressIsTold
  BY DEF AddressInv
<1> QED
  BY <1>1, <1>2, <1>3, PTL DEF Lease6Spec

\* The addresses a link can have, and the slots they are stored in.
Addresses6 == {Own(n) : n \in Nets} \cup {WithId(n) : n \in Nets}
Slot6 == {s \in [ip : Addresses6 \cup {Unset}, len : {0, 64, 128}, mtu : {0, 1}] :
            s.ip # Unset => s.len # 0}
Dyns == [Index -> Slot6]

LEMMA AddressSet ==
  /\ Unset \notin Addresses6
  /\ \A ip \in Addresses6 : ip[1] \in Nets
  /\ \A n \in Nets : Own(n) \in Addresses6 /\ WithId(n) \in Addresses6 /\ Own(n)[1] = n
<1>1. ASSUME NEW n \in Nets
      PROVE  Own(n) # Unset /\ WithId(n) # Unset /\ Own(n)[1] = n /\ WithId(n)[1] = n
  BY <1>1 DEF Own, WithId, Unset
<1> QED
  BY <1>1 DEF Addresses6

\* The slots in use, whose numbers are those up to m.
Filled(d, m) == \A i \in Index : d[i].ip # Unset <=> i <= m

\* An address takes the first free slot.
LEMMA PutFacts ==
  ASSUME NEW d \in Dyns, NEW ip \in Addresses6, NEW len \in {64, 128}
  PROVE  /\ Put(d, ip, len) \in Dyns
         /\ \A n \in 0 .. Slots6 - 1, m \in 0 .. Slots6 :
              m <= n /\ Filled(d, m) => /\ Entries(Put(d, ip, len)) = Entries(d) \cup {<<ip, len>>}
                                        /\ \E k \in 0 .. n + 1 : Filled(Put(d, ip, len), k)
<1> DEFINE free == {i \in Index : d[i].ip = Unset}
           f == Min(free)
           e == [d EXCEPT ![f] = [ip |-> ip, len |-> len, mtu |-> @.mtu]]
<1>1. Slots6 \in Nat \ {0}
  BY Lease6ConstantsOK
<1>2. free # {} => f \in free /\ \A j \in free : f <= j
  <2>1. free \in SUBSET (1 .. Slots6)
    BY DEF Index
  <2> HIDE DEF free
  <2> QED
    BY <1>1, <2>1, MinIsMember
<1>3. Put(d, ip, len) = IF <<ip, len>> \in Entries(d) \/ free = {} THEN d ELSE e
  BY DEF Put
<1>4. ASSUME free # {}
      PROVE  /\ e \in Dyns /\ e[f].ip = ip /\ e[f].len = len
             /\ \A i \in Index \ {f} : e[i] = d[i]
  <2>1. f \in Index /\ d[f] \in Slot6
    BY <1>2, <1>4 DEF Dyns
  <2> HIDE DEF free, f
  <2>2. e = [i \in Index |-> IF i = f THEN [ip |-> ip, len |-> len, mtu |-> d[f].mtu] ELSE d[i]]
    BY DEF Dyns
  <2>3. [ip |-> ip, len |-> len, mtu |-> d[f].mtu] \in Slot6
    BY <2>1 DEF Slot6
  <2> HIDE DEF e
  <2> QED
    BY <2>1, <2>2, <2>3 DEF Dyns
<1>5. Put(d, ip, len) \in Dyns
  BY <1>3, <1>4
<1>6. ASSUME NEW n \in 0 .. Slots6 - 1, NEW m \in 0 .. Slots6, m <= n, Filled(d, m)
      PROVE  /\ Entries(Put(d, ip, len)) = Entries(d) \cup {<<ip, len>>}
             /\ \E k \in 0 .. n + 1 : Filled(Put(d, ip, len), k)
  <2>1. CASE <<ip, len>> \in Entries(d)
    <3>1. Put(d, ip, len) = d
      BY <1>3, <2>1
    <3>2. m \in 0 .. n + 1
      BY <1>1, <1>6
    <3> QED
      BY <2>1, <3>1, <3>2, <1>6
  <2>2. CASE <<ip, len>> \notin Entries(d)
    <3>1. m + 1 \in Index /\ m + 1 \in 0 .. n + 1
      BY <1>1, <1>6 DEF Index
    <3>2. \A i \in Index : i \in free <=> ~(i <= m)
      BY <1>6 DEF Filled
    <3>3. m + 1 \in free
      BY <3>1, <3>2
    <3>4. f = m + 1
      
      <4>1. f \in free /\ f <= m + 1
        BY <1>2, <3>3
      <4>2. f \in Index /\ ~(f <= m)
        BY <4>1, <3>2
      <4> HIDE DEF f
      <4> QED
        BY <4>1, <4>2, <1>1 DEF Index
    <3>5. /\ Put(d, ip, len) = e /\ e[f].ip = ip /\ e[f].len = len
          /\ \A i \in Index \ {f} : e[i] = d[i]
      BY <1>3, <1>4, <2>2, <3>3
    <3>6. ip # Unset /\ f \in Index
      BY <3>1, <3>4, AddressSet
    <3> HIDE DEF e, f
    <3>7. Filled(e, m + 1)
      <4> SUFFICES ASSUME NEW i \in Index PROVE e[i].ip # Unset <=> i <= m + 1
        BY DEF Filled
      <4>1. CASE i = f
        BY <4>1, <3>4, <3>5, <3>6
      <4>2. CASE i # f
        <5>1. d[i].ip # Unset <=> i <= m
          BY <1>6 DEF Filled
        <5>2. i <= m <=> i <= m + 1
          BY <4>2, <3>4, <1>1 DEF Index
        <5> QED
          BY <5>1, <5>2, <4>2, <3>5
      <4> QED
        BY <4>1, <4>2
    <3>8. Entries(e) = Entries(d) \cup {<<ip, len>>}
      <4>1. d[f].ip = Unset
        BY <3>3, <3>4
      <4>2. \A i \in Index : e[i].ip # Unset <=> (i = f \/ d[i].ip # Unset)
        BY <3>5, <3>6
      <4> QED
        BY <4>1, <4>2, <3>5, <3>6 DEF Entries
    <3> QED
      BY <3>1, <3>5, <3>7, <3>8
  <2> QED
    BY <2>1, <2>2
<1> QED
  BY <1>5, <1>6

\* What the loop that stores an event has stored after n of its addresses.
HeardUpto(info, n) == {<<Heard(info, i), 64>> : i \in {j \in 1 .. n : Heard(info, j) # Unset}}

Info6 == [address : [Index -> {Unset} \cup {Own(n) : n \in Nets}],
          ra : [Index -> {Unset} \cup {Own(n) : n \in Nets}],
          extras : {NoExtras, [dns |-> <<"D">>, rdns |-> <<"D">>, route |-> <<"G">>]},
          mtu : {0, 1}]

LEMMA InfoTypes ==
  /\ \A info \in Infos : info \in Info6
  /\ \A info \in Info6, i \in Index :
       Heard(info, i) # Unset => \E n \in Nets : Heard(info, i) = Own(n)
BY DEF Infos, Info6, Lists, Heard

\* One round of the loop.
LEMMA PutAtFacts ==
  ASSUME NEW d \in Dyns, NEW info \in Info6, NEW i \in Index
  PROVE  /\ PutAt(d, info, i) \in Dyns
         /\ Heard(info, i) = Unset => PutAt(d, info, i) = d
         /\ ~config6.static /\ ~config6.share /\ Heard(info, i) # Unset
              => Heard(info, i) \in Addresses6 /\ PutAt(d, info, i) = Put(d, Heard(info, i), 64)
<1>1. CASE Heard(info, i) = Unset
  BY <1>1 DEF PutAt
<1>2. CASE Heard(info, i) # Unset
  <2> DEFINE ip    == Heard(info, i)
             len   == IF config6.share THEN 128 ELSE 64
             first == IF config6.static THEN Put(d, WithId(ip[1]), len) ELSE d
  <2>1. PICK n \in Nets : ip = Own(n)
    BY <1>2, InfoTypes
  <2>2. ip \in Addresses6 /\ WithId(ip[1]) \in Addresses6
    BY <2>1, AddressSet
  <2>3. len \in {64, 128} /\ (~config6.share => len = 64)
    OBVIOUS
  <2>4. PutAt(d, info, i) = Put(first, ip, len)
    BY <1>2 DEF PutAt
  <2> HIDE DEF ip, len
  <2>5. first \in Dyns /\ (~config6.static => first = d)
    BY <2>2, <2>3, PutFacts
  <2> HIDE DEF first
  <2>6. Put(first, ip, len) \in Dyns
    BY <2>2, <2>3, <2>5, PutFacts
  <2> QED
    BY <1>2, <2>2, <2>3, <2>4, <2>5, <2>6 DEF ip
<1> QED
  BY <1>1, <1>2

\* The loop has its results, and stores the addresses one by one.
Rounds6(h, d, info) == [n \in 0 .. Slots6 |-> IF n = 0 THEN d ELSE PutAt(h[n - 1], info, n)]

LEMMA RoundsExist ==
  ASSUME NEW d \in Dyns, NEW info \in Info6
  PROVE  \E h \in [0 .. Slots6 -> Dyns] : h = Rounds6(h, d, info)
<1> DEFINE F == [x \in Dyns \X Index |-> PutAt(x[1], info, x[2])]
<1>1. Slots6 \in Nat /\ Index = 1 .. Slots6
  BY Lease6ConstantsOK DEF Index
<1>2. F \in [Dyns \X (1 .. Slots6) -> Dyns]
  <2>1. \A x \in Dyns \X Index : PutAt(x[1], info, x[2]) \in Dyns
    BY PutAtFacts
  <2> QED
    BY <1>1, <2>1
<1>3. \A x \in Dyns, n \in 1 .. Slots6 : F[<<x, n>>] = PutAt(x, info, n)
  BY <1>1
<1> HIDE DEF F
<1>4. PICK g \in [0 .. Slots6 -> Dyns] : IsLoop(g, Slots6, d, F)
  BY <1>1, <1>2, LoopExists
<1>5. ASSUME NEW n \in 0 .. Slots6 PROVE g[n] = IF n = 0 THEN d ELSE PutAt(g[n - 1], info, n)
  <2>1. CASE n = 0
    BY <1>4, <2>1 DEF IsLoop
  <2>2. CASE n # 0
    <3>1. n \in 1 .. Slots6 /\ n - 1 \in 0 .. Slots6
      BY <1>1, <2>2
    <3>2. g[n] = F[<<g[n - 1], n>>]
      BY <1>4, <3>1 DEF IsLoop
    <3>3. g[n - 1] \in Dyns
      BY <3>1
    <3> QED
      BY <1>3, <2>2, <3>1, <3>2, <3>3
  <2> QED
    BY <2>1, <2>2
<1>6. g = Rounds6(g, d, info)
  BY <1>5 DEF Rounds6
<1> QED
  BY <1>6

LEMMA RoundsStore ==
  ASSUME NEW d \in Dyns, NEW info \in Info6, NEW h, h = Rounds6(h, d, info)
  PROVE  /\ h[Slots6] \in Dyns
         /\ ~config6.static /\ ~config6.share /\ (\A i \in Index : d[i].ip = Unset)
              => Entries(h[Slots6]) = HeardEntries(info)
<1> DEFINE plain == ~config6.static /\ ~config6.share /\ (\A i \in Index : d[i].ip = Unset)
           Stored(n) == /\ Entries(h[n]) = HeardUpto(info, n)
                        /\ \E m \in 0 .. n : Filled(h[n], m)
           G == {n \in 0 .. Slots6 : h[n] \in Dyns /\ (plain => Stored(n))}
<1>1. Slots6 \in Nat \ {0} /\ Index = 1 .. Slots6
  BY Lease6ConstantsOK DEF Index
<1>2. h[0] = d /\ \A n \in 1 .. Slots6 : h[n] = PutAt(h[n - 1], info, n)
  <2>1. \A n \in 0 .. Slots6 : h[n] = IF n = 0 THEN d ELSE PutAt(h[n - 1], info, n)
    BY DEF Rounds6
  <2> QED
    BY <1>1, <2>1
<1>3. 0 \in G
  <2>1. ASSUME plain PROVE Stored(0)
    <3>1. Entries(d) = {} /\ HeardUpto(info, 0) = {}
      BY <2>1 DEF Entries, HeardUpto
    <3>2. Filled(d, 0)
      BY <1>1, <2>1 DEF Filled
    <3> QED
      BY <1>2, <3>1, <3>2
  <2> QED
    BY <1>1, <1>2, <2>1
<1>4. ASSUME NEW n \in 1 .. Slots6, n - 1 \in G PROVE n \in G
  <2>1. h[n - 1] \in Dyns /\ n \in Index /\ n - 1 \in 0 .. Slots6 - 1 /\ h[n] = PutAt(h[n - 1], info, n)
    BY <1>1, <1>2, <1>4
  <2>2. h[n] \in Dyns
    BY <2>1, PutAtFacts
  <2>3. ASSUME plain PROVE Stored(n)
    <3>0. Stored(n - 1)
      BY <1>4, <2>3
    <3>1. PICK m \in 0 .. n - 1 : Filled(h[n - 1], m)
      BY <3>0
    <3>2. CASE Heard(info, n) = Unset
      <4>1. h[n] = h[n - 1]
        BY <2>1, <3>2, PutAtFacts
      <4>2. HeardUpto(info, n) = HeardUpto(info, n - 1)
        <5>1. {j \in 1 .. n : Heard(info, j) # Unset} = {j \in 1 .. n - 1 : Heard(info, j) # Unset}
          BY <3>2
        <5> QED
          BY <5>1 DEF HeardUpto
      <4>3. m \in 0 .. n
        OBVIOUS
      <4> QED
        BY <3>0, <3>1, <4>1, <4>2, <4>3
    <3>3. CASE Heard(info, n) # Unset
      <4>1. Heard(info, n) \in Addresses6 /\ h[n] = Put(h[n - 1], Heard(info, n), 64)
        BY <2>1, <2>3, <3>3, PutAtFacts
      <4>2. m \in 0 .. Slots6 /\ m <= n - 1 /\ n = (n - 1) + 1
        BY <1>1
      <4>3. /\ Entries(h[n]) = Entries(h[n - 1]) \cup {<<Heard(info, n), 64>>}
            /\ \E k \in 0 .. n : Filled(h[n], k)
        <5> DEFINE ip == Heard(info, n)
                   b  == h[n - 1]
                   q  == n - 1
        <5>1. b \in Dyns /\ ip \in Addresses6 /\ q \in 0 .. Slots6 - 1 /\ m <= q /\ Filled(b, m) /\ q + 1 = n
          BY <2>1, <3>1, <4>1, <4>2
        <5>2. h[n] = Put(b, ip, 64)
          BY <4>1
        <5> HIDE DEF ip, b, q
        <5>3. /\ Entries(Put(b, ip, 64)) = Entries(b) \cup {<<ip, 64>>}
              /\ \E k \in 0 .. q + 1 : Filled(Put(b, ip, 64), k)
          BY <4>2, <5>1, PutFacts
        <5>4. /\ Entries(h[n]) = Entries(b) \cup {<<ip, 64>>}
              /\ \E k \in 0 .. n : Filled(h[n], k)
          BY <5>1, <5>2, <5>3
        <5> QED
          BY <5>4 DEF ip, b
      <4>4. HeardUpto(info, n) = HeardUpto(info, n - 1) \cup {<<Heard(info, n), 64>>}
        <5>1. {j \in 1 .. n : Heard(info, j) # Unset} = {j \in 1 .. n - 1 : Heard(info, j) # Unset} \cup {n}
          BY <3>3
        <5> QED
          BY <5>1 DEF HeardUpto
      <4> QED
        BY <3>0, <4>3, <4>4
    <3> QED
      BY <3>2, <3>3
  <2> HIDE DEF Stored, plain
  <2> QED
    BY <2>2, <2>3
<1>5. G \in SUBSET (0 .. Slots6)
  OBVIOUS
<1> HIDE DEF G
<1>6. G = 0 .. Slots6
  BY <1>1, <1>3, <1>4, <1>5, Climb
<1>7. Slots6 \in G
  BY <1>1, <1>6
<1>8. HeardUpto(info, Slots6) = HeardEntries(info)
  BY <1>1 DEF HeardUpto, HeardEntries
<1> QED
  BY <1>7, <1>8 DEF G

\* What an event leaves is of the slots again.
LEMMA MergedTypes ==
  ASSUME dyn \in Dyns, NEW info \in Info6, NEW flags
  PROVE  Merged(info, flags) \in Dyns
<1> DEFINE d == Forgotten(dyn, flags)
<1>1. d \in Dyns
  <2>1. ASSUME NEW i \in Index
        PROVE  [ip  |-> IF "addr" \in flags THEN Unset ELSE dyn[i].ip,
                len |-> IF "addr" \in flags THEN 0 ELSE dyn[i].len,
                mtu |-> IF "mtu" \in flags THEN 0 ELSE dyn[i].mtu] \in Slot6
    <3>1. dyn[i] \in Slot6
      BY DEF Dyns
    <3> QED
      BY <3>1 DEF Slot6
  <2> QED
    BY <2>1 DEF Forgotten, Dyns
<1> HIDE DEF d
<1> DEFINE put       == CHOOSE h : h = Rounds6(h, d, info)
           addressed == IF "addr" \in flags THEN put[Slots6] ELSE d
<1>2. put = Rounds6(put, d, info)
  <2>1. \E h : h = Rounds6(h, d, info)
    BY <1>1, RoundsExist
  <2> QED
    BY <2>1
<1>3. Merged(info, flags) =
        [i \in Index |-> [addressed[i] EXCEPT !.mtu = IF "mtu" \in flags THEN info.mtu ELSE @]]
  BY DEF Merged, Added, d, Rounds6
<1> HIDE DEF put
<1>4. addressed \in Dyns
  BY <1>1, <1>2, RoundsStore
<1> HIDE DEF addressed
<1>5. ASSUME NEW i \in Index
      PROVE  [addressed[i] EXCEPT !.mtu = IF "mtu" \in flags THEN info.mtu ELSE @] \in Slot6
  <2>1. addressed[i] \in Slot6 /\ info.mtu \in {0, 1}
    BY <1>4 DEF Dyns, Info6
  <2> QED
    BY <2>1 DEF Slot6
<1> QED
  BY <1>3, <1>5 DEF Dyns

\* An event that tells of new addresses replaces those that are stored.
LEMMA MergedReplaces ==
  ASSUME dyn \in Dyns, NEW info \in Info6, NEW flags, "addr" \in flags,
         ~config6.static, ~config6.share
  PROVE  Entries(Merged(info, flags)) = HeardEntries(info)
<1> DEFINE d   == Forgotten(dyn, flags)
           put == CHOOSE h : h = Rounds6(h, d, info)
<1>1. d \in Dyns /\ \A i \in Index : d[i].ip = Unset
  <2>1. ASSUME NEW i \in Index
        PROVE  [ip |-> Unset, len |-> 0, mtu |-> IF "mtu" \in flags THEN 0 ELSE dyn[i].mtu] \in Slot6
    <3>1. dyn[i] \in Slot6
      BY DEF Dyns
    <3> QED
      BY <3>1 DEF Slot6
  <2>2. d = [i \in Index |-> [ip |-> Unset, len |-> 0,
                              mtu |-> IF "mtu" \in flags THEN 0 ELSE dyn[i].mtu]]
    BY DEF Forgotten
  <2> QED
    BY <2>1, <2>2 DEF Dyns
<1> HIDE DEF d
<1>2. put = Rounds6(put, d, info)
  <2>1. \E h : h = Rounds6(h, d, info)
    BY <1>1, RoundsExist
  <2> QED
    BY <2>1
<1>3. Merged(info, flags) =
        [i \in Index |-> [put[Slots6][i] EXCEPT !.mtu = IF "mtu" \in flags THEN info.mtu ELSE @]]
  BY DEF Merged, Added, d, Rounds6
<1> HIDE DEF put
<1> DEFINE last == put[Slots6]
<1>4. last \in Dyns /\ Entries(last) = HeardEntries(info)
  BY <1>1, <1>2, RoundsStore
<1>5. Merged(info, flags) = [i \in Index |-> [last[i] EXCEPT !.mtu = IF "mtu" \in flags THEN info.mtu ELSE @]]
  BY <1>3
<1> HIDE DEF last
<1>6. ASSUME NEW i \in Index
      PROVE  Merged(info, flags)[i].ip = last[i].ip /\ Merged(info, flags)[i].len = last[i].len
  <2>1. last[i] \in Slot6
    BY <1>4 DEF Dyns
  <2>2. PICK t : Merged(info, flags)[i] = [last[i] EXCEPT !.mtu = t]
    BY <1>5
  <2> QED
    BY <2>1, <2>2 DEF Slot6
<1>7. Entries(Merged(info, flags)) = Entries(last)
  BY <1>6, SameEntries
<1> QED
  BY <1>4, <1>7

\* An event that tells of no new address is what is stored: the address of the router
\* advertisement is then the first one of DHCPv6.
LEMMA NothingNew ==
  ASSUME NEW info \in Infos, SoughtEntries(info) \subseteq HeardEntries(info)
  PROVE  HeardEntries(info) = SoughtEntries(info)
<1>0. 1 \in Index
  BY Lease6ConstantsOK DEF Index
<1>1. ASSUME NEW i \in Index PROVE Heard(info, i) = Sought(info, i)
  <2>1. CASE info.ra[i] = Unset \/ info.address[i] = Unset
    BY <2>1 DEF Heard, Sought
  <2>2. CASE info.ra[i] # Unset /\ info.address[i] # Unset
    <3>1. i = 1 /\ Heard(info, i) = info.ra[1] /\ Sought(info, i) = info.address[1]
      BY <2>2 DEF Infos, Heard, Sought
    <3>2. <<info.address[1], 64>> \in SoughtEntries(info)
      BY <2>2, <3>1 DEF SoughtEntries
    <3>3. PICK j \in Index : Heard(info, j) = info.address[1]
      BY <3>2 DEF HeardEntries
    <3>4. j # 1 => Heard(info, j) = info.address[j]
      BY DEF Infos, Heard
    <3>5. j = 1
      <4> SUFFICES ASSUME j # 1 PROVE FALSE
        OBVIOUS
      <4>1. info.address[j] = info.address[1] /\ info.address[j] # Unset
        BY <2>2, <3>1, <3>3, <3>4
      <4> QED
        BY <1>0, <4>1 DEF Infos, Lists
    <3> QED
      BY <3>1, <3>3, <3>5
  <2> QED
    BY <2>1, <2>2
<1> QED
  BY <1>1 DEF HeardEntries, SoughtEntries

LEMMA EventsKept ==
  ASSUME dyn \in Dyns
  PROVE  EventIsKept /\ RepeatIsQuiet
<1>1. ASSUME ~config6.static, ~config6.share, NEW info \in Infos
      PROVE  Entries(Merged(info, NeedUpdate(info))) = HeardEntries(info)
  <2> DEFINE flags == NeedUpdate(info)
  <2>1. info \in Info6
    BY InfoTypes
  <2>2. CASE "addr" \in flags
    BY <1>1, <2>1, <2>2, MergedReplaces
  <2>3. CASE "addr" \notin flags
    <3>1. SoughtEntries(info) \subseteq Entries(dyn) /\ Entries(dyn) \subseteq HeardEntries(info)
      BY <2>3 DEF NeedUpdate
    <3>2. Entries(dyn) = HeardEntries(info)
      BY <3>1, NothingNew
    <3> DEFINE after == Merged(info, flags)
    <3>3. \A i \in Index : after[i].ip = dyn[i].ip /\ after[i].len = dyn[i].len
      BY <2>3, MergedAddresses
    <3> HIDE DEF after
    <3>4. Entries(after) = Entries(dyn)
      BY <3>3, SameEntries
    <3> QED
      BY <3>2, <3>4 DEF after
  <2> QED
    BY <2>2, <2>3
<1>2. ASSUME NEW info \in Infos, Entries(dyn) = HeardEntries(info), HeardEntries(info) = SoughtEntries(info)
      PROVE  "addr" \notin NeedUpdate(info)
  BY <1>2 DEF NeedUpdate, NoExtras
<1> QED
  BY <1>1, <1>2 DEF EventIsKept, RepeatIsQuiet

\* The addresses stored and configured are of the prefixes, with a length of their own.
Pairs6  == {<<ip, len>> : ip \in Addresses6, len \in {64, 128}}
LeaseInv ==
  /\ config6 \in [share : BOOLEAN, static : BOOLEAN, v4 : BOOLEAN]
  /\ phase6 \in {"startup", "dial", "connecting", "connected"}
  /\ run4 \in BOOLEAN /\ run6 \in BOOLEAN /\ late \in BOOLEAN /\ up \in BOOLEAN
  /\ dyn \in Dyns /\ dev \subseteq Pairs6 /\ told.up \in BOOLEAN

LEMMA StoredPairs ==
  ASSUME NEW d \in Dyns
  PROVE  Entries(d) \subseteq Pairs6
<1> SUFFICES ASSUME NEW i \in Index, d[i].ip # Unset PROVE <<d[i].ip, d[i].len>> \in Pairs6
  BY DEF Entries
<1>1. d[i] \in Slot6
  BY DEF Dyns
<1> QED
  BY <1>1 DEF Slot6, Pairs6

LEMMA EmptyTypes ==
  /\ [i \in Index |-> FreeSlot] \in Dyns
  /\ dyn \in Dyns => Forgotten(dyn, AllFlags) \in Dyns
<1>1. FreeSlot \in Slot6
  BY DEF FreeSlot, Slot6
<1>2. ASSUME dyn \in Dyns, NEW i \in Index
      PROVE  [ip |-> Unset, len |-> 0, mtu |-> 0] \in Slot6
  BY DEF Slot6
<1> QED
  BY <1>1, <1>2 DEF Dyns, Forgotten, AllFlags

LEMMA LeaseStep ==
  ASSUME LeaseInv, [Lease6Next]_lease6Vars
  PROVE  LeaseInv'
<1>1. ASSUME NEW evt \in {"bound", "updated"}, NEW info \in Infos, Merge(evt, info)
      PROVE  LeaseInv'
  <2> DEFINE flags == Flags(evt, info)
             after == Merged(info, flags)
  <2>1. after \in Dyns /\ Entries(after) \subseteq Pairs6
    <3>1. after \in Dyns
      BY MergedTypes, InfoTypes DEF LeaseInv
    <3> QED
      BY <3>1, StoredPairs
  <2>2. /\ Reports /\ dyn' = after /\ UNCHANGED <<config6, phase6, run4, run6>>
        /\ \/ UpdateState(after)
           \/ UNCHANGED <<dev, up, told>>
    BY <1>1 DEF Merge
  <2> HIDE DEF flags, after
  <2>3. late' \in BOOLEAN
    BY <2>2 DEF Reports, LeaseInv
  <2>4. dev' \subseteq Pairs6 /\ up' \in BOOLEAN /\ told'.up \in BOOLEAN
    <3>1. CASE UpdateState(after)
      BY <2>1, <3>1 DEF UpdateState, Said, LeaseInv
    <3>2. CASE UNCHANGED <<dev, up, told>>
      BY <3>2 DEF LeaseInv
    <3> QED
      BY <2>2, <3>1, <3>2
  <2> QED
    BY <2>1, <2>2, <2>3, <2>4 DEF LeaseInv
<1>2. ASSUME Forget6 PROVE LeaseInv'
  BY <1>2, EmptyTypes DEF Forget6, Reports, LeaseInv
<1>3. ASSUME Startup6 PROVE LeaseInv'
  BY <1>3, EmptyTypes DEF Startup6, LeaseInv
<1>4. ASSUME StartClients PROVE LeaseInv'
  BY <1>4 DEF StartClients, LeaseInv
<1>5. ASSUME Stop PROVE LeaseInv'
  BY <1>5, EmptyTypes DEF Stop, StopClients, LeaseInv
<1>6. ASSUME Bound4 \/ ClientExits PROVE LeaseInv'
  BY <1>6 DEF Bound4, ClientExits, LeaseInv
<1>7. ASSUME Deconfig4 PROVE LeaseInv'
  BY <1>7, EmptyTypes DEF Deconfig4, StopClients, LeaseInv
<1>8. ASSUME Connect6 \/ BreakOff6 PROVE LeaseInv'
  <2>1. told' = Said(TRUE, dyn) \/ told' = Said(FALSE, dyn) \/ told' = told
    <3>1. CASE Connect6
      BY <3>1 DEF Connect6
    <3>2. CASE BreakOff6
      BY <3>2 DEF BreakOff6
    <3> QED
      BY <1>8, <3>1, <3>2
  <2>2. told'.up \in BOOLEAN
    <3>1. Said(TRUE, dyn).up = TRUE /\ Said(FALSE, dyn).up = FALSE
      BY DEF Said
    <3> QED
      BY <2>1, <3>1 DEF LeaseInv
  <2>3. phase6' \in {"connected", "startup"} /\ up' \in BOOLEAN
    BY <1>8 DEF Connect6, BreakOff6, LeaseInv
  <2>4. UNCHANGED <<config6, run4, run6, late, dyn, dev>>
    BY <1>8 DEF Connect6, BreakOff6
  <2> QED
    BY <2>2, <2>3, <2>4 DEF LeaseInv
<1>9. ASSUME UNCHANGED lease6Vars PROVE LeaseInv'
  BY <1>9 DEF lease6Vars, LeaseInv
<1> QED
  BY <1>1, <1>2, <1>3, <1>4, <1>5, <1>6, <1>7, <1>8, <1>9 DEF Lease6Next, MergeAny

\* The IPv6 side of a link follows what odhcp6c reports: what a connected link uses
\* has been configured and told, an event leaves exactly the addresses it has
\* reported, and one that repeats them disturbs nothing.
THEOREM LeaseAlwaysFollowed == Lease6Spec => []LeaseIsFollowed
<1>1. Lease6Init => LeaseInv
  <2> SUFFICES ASSUME Lease6Init PROVE LeaseInv
    OBVIOUS
  <2>1. told.up \in BOOLEAN
    <3>1. told = [up |-> FALSE, addrs |-> {}]
      BY DEF Lease6Init
    <3> QED
      BY <3>1
  <2>2. dyn \in Dyns
    BY EmptyTypes DEF Lease6Init
  <2> QED
    BY <2>1, <2>2 DEF Lease6Init, LeaseInv
<1>2. LeaseInv /\ [Lease6Next]_lease6Vars => LeaseInv'
  BY LeaseStep
<1>3. LeaseInv /\ AddressIsTold => LeaseIsFollowed
  <2> SUFFICES ASSUME LeaseInv, AddressIsTold PROVE LeaseIsFollowed
    OBVIOUS
  <2>1. EventIsKept /\ RepeatIsQuiet
    BY EventsKept DEF LeaseInv
  <2>2. Entries(dyn) \subseteq Pairs6
    BY StoredPairs DEF LeaseInv
  <2>3. Lease6TypeOK
    BY <2>2 DEF LeaseInv, Lease6TypeOK, Pairs6, Addresses6
  <2> QED
    BY <2>1, <2>3 DEF LeaseIsFollowed
<1> QED
  BY <1>1, <1>2, <1>3, AddressAlwaysTold, PTL DEF Lease6Spec

-----------------------------------------------------------------------------
(* A service's copy of the switch ports.                                   *)

Sides == {"left", "right"}

\* A VLAN that does not exist has no ports.
VlanInfos(P) ==
  {i \in [valid : BOOLEAN, role : [P -> Roles], flag : BOOLEAN] :
     ~i.valid => i.role = [l \in P |-> "none"]}
HeardVlans(P) == [exists : BOOLEAN, tagged : SUBSET P, untagged : SUBSET P]

\* What a listener has heard of a VLAN is what there is.
RoleIs(P, info, r)  == {l \in P : info.role[l] = r}
Tells(P, h, info) ==
  /\ h.exists = info.valid
  /\ h.tagged = RoleIs(P, info, "tagged")
  /\ h.untagged = RoleIs(P, info, "untagged")

\* What a listener makes of each event of a VLAN it knows, ...
Aware(t, u) == [exists |-> TRUE, tagged |-> t, untagged |-> u]
Unaware     == [exists |-> FALSE, tagged |-> {}, untagged |-> {}]

LEMMA TaggedIsHeard ==
  ASSUME NEW t, NEW u, NEW a, NEW b
  PROVE  HearEvent(Aware(t, u), Moved("joinT", a, b)) = Aware(t \cup (a \ b), u)
<1> DEFINE h == Aware(t, u)
           e == Moved("joinT", a, b)
<1>1. h.exists /\ h.exists = TRUE /\ h.tagged = t /\ h.untagged = u
  BY DEF Aware
<1>2. e.what = (IF a \ b # {} THEN "joinT" ELSE "nothing") /\ e.ports = a \ b
  BY DEF Moved, Event
<1> HIDE DEF h, e
<1>3. (e.what = "create" \/ (h.exists /\ e.what # "destroy")) = TRUE
  BY <1>1, <1>2
<1>4. HearPorts(h, h.tagged, e, "joinT", "leaveT") = t \cup (a \ b)
  BY <1>1, <1>2 DEF HearPorts
<1>5. HearPorts(h, h.untagged, e, "joinU", "leaveU") = u
  BY <1>1, <1>2 DEF HearPorts
<1>6. HearEvent(h, e) = Aware(t \cup (a \ b), u)
  BY <1>3, <1>4, <1>5, Zenon DEF HearEvent, Aware
<1> QED
  BY <1>6 DEF h, e

LEMMA UntaggingIsHeard ==
  ASSUME NEW t, NEW u, NEW a, NEW b
  PROVE  HearEvent(Aware(t, u), Moved("leaveT", a, b)) = Aware(t \ (a \ b), u)
<1> DEFINE h == Aware(t, u)
           e == Moved("leaveT", a, b)
<1>1. h.exists /\ h.exists = TRUE /\ h.tagged = t /\ h.untagged = u
  BY DEF Aware
<1>2. e.what = (IF a \ b # {} THEN "leaveT" ELSE "nothing") /\ e.ports = a \ b
  BY DEF Moved, Event
<1> HIDE DEF h, e
<1>3. (e.what = "create" \/ (h.exists /\ e.what # "destroy")) = TRUE
  BY <1>1, <1>2
<1>4. HearPorts(h, h.tagged, e, "joinT", "leaveT") = t \ (a \ b)
  BY <1>1, <1>2 DEF HearPorts
<1>5. HearPorts(h, h.untagged, e, "joinU", "leaveU") = u
  BY <1>1, <1>2 DEF HearPorts
<1>6. HearEvent(h, e) = Aware(t \ (a \ b), u)
  BY <1>3, <1>4, <1>5, Zenon DEF HearEvent, Aware
<1> QED
  BY <1>6 DEF h, e

LEMMA UntaggedIsHeard ==
  ASSUME NEW t, NEW u, NEW a, NEW b
  PROVE  HearEvent(Aware(t, u), Moved("joinU", a, b)) = Aware(t, u \cup (a \ b))
<1> DEFINE h == Aware(t, u)
           e == Moved("joinU", a, b)
<1>1. h.exists /\ h.exists = TRUE /\ h.tagged = t /\ h.untagged = u
  BY DEF Aware
<1>2. e.what = (IF a \ b # {} THEN "joinU" ELSE "nothing") /\ e.ports = a \ b
  BY DEF Moved, Event
<1> HIDE DEF h, e
<1>3. (e.what = "create" \/ (h.exists /\ e.what # "destroy")) = TRUE
  BY <1>1, <1>2
<1>4. HearPorts(h, h.tagged, e, "joinT", "leaveT") = t
  BY <1>1, <1>2 DEF HearPorts
<1>5. HearPorts(h, h.untagged, e, "joinU", "leaveU") = u \cup (a \ b)
  BY <1>1, <1>2 DEF HearPorts
<1>6. HearEvent(h, e) = Aware(t, u \cup (a \ b))
  BY <1>3, <1>4, <1>5, Zenon DEF HearEvent, Aware
<1> QED
  BY <1>6 DEF h, e

LEMMA LeavingIsHeard ==
  ASSUME NEW t, NEW u, NEW a, NEW b
  PROVE  HearEvent(Aware(t, u), Moved("leaveU", a, b)) = Aware(t, u \ (a \ b))
<1> DEFINE h == Aware(t, u)
           e == Moved("leaveU", a, b)
<1>1. h.exists /\ h.exists = TRUE /\ h.tagged = t /\ h.untagged = u
  BY DEF Aware
<1>2. e.what = (IF a \ b # {} THEN "leaveU" ELSE "nothing") /\ e.ports = a \ b
  BY DEF Moved, Event
<1> HIDE DEF h, e
<1>3. (e.what = "create" \/ (h.exists /\ e.what # "destroy")) = TRUE
  BY <1>1, <1>2
<1>4. HearPorts(h, h.tagged, e, "joinT", "leaveT") = t
  BY <1>1, <1>2 DEF HearPorts
<1>5. HearPorts(h, h.untagged, e, "joinU", "leaveU") = u \ (a \ b)
  BY <1>1, <1>2 DEF HearPorts
<1>6. HearEvent(h, e) = Aware(t, u \ (a \ b))
  BY <1>3, <1>4, <1>5, Zenon DEF HearEvent, Aware
<1> QED
  BY <1>6 DEF h, e

LEMMA PortsAreHeard ==
  ASSUME NEW T1, NEW T2, NEW U1, NEW U2
  PROVE  HearEvent(HearEvent(HearEvent(HearEvent(Aware(T1, U1),
           Moved("joinT", T2, T1)), Moved("leaveT", T1, T2)), Moved("joinU", U2, U1)), Moved("leaveU", U1, U2))
         = Aware(T2, U2)
<1>1. HearEvent(Aware(T1, U1), Moved("joinT", T2, T1)) = Aware(T1 \cup T2, U1)
  <2>1. T1 \cup (T2 \ T1) = T1 \cup T2
    OBVIOUS
  <2> QED
    BY <2>1, TaggedIsHeard
<1>2. HearEvent(Aware(T1 \cup T2, U1), Moved("leaveT", T1, T2)) = Aware(T2, U1)
  <2>1. (T1 \cup T2) \ (T1 \ T2) = T2
    OBVIOUS
  <2> QED
    BY <2>1, UntaggingIsHeard
<1>3. HearEvent(Aware(T2, U1), Moved("joinU", U2, U1)) = Aware(T2, U1 \cup U2)
  <2>1. U1 \cup (U2 \ U1) = U1 \cup U2
    OBVIOUS
  <2> QED
    BY <2>1, UntaggedIsHeard
<1>4. HearEvent(Aware(T2, U1 \cup U2), Moved("leaveU", U1, U2)) = Aware(T2, U2)
  <2>1. (U1 \cup U2) \ (U1 \ U2) = U2
    OBVIOUS
  <2> QED
    BY <2>1, LeavingIsHeard
<1> QED
  BY <1>1, <1>2, <1>3, <1>4, Zenon

\* ... of its coming and going, ...
LEMMA ComingIsHeard ==
  /\ HearEvent(Unaware, When(TRUE, "create")) = Aware({}, {})
  /\ HearEvent(Aware({}, {}), When(TRUE, "destroy")) = Unaware
<1> DEFINE c == When(TRUE, "create")
           d == When(TRUE, "destroy")
           h == Unaware
           n == Aware({}, {})
<1>1. c.what = "create" /\ d.what = "destroy"
  BY DEF When, Event
<1>2. /\ h.exists = FALSE /\ h.tagged = {} /\ h.untagged = {}
      /\ n.exists = TRUE /\ n.tagged = {} /\ n.untagged = {}
  BY DEF Aware, Unaware
<1> HIDE DEF c, d, h, n
<1>3. (c.what = "create" \/ (h.exists /\ c.what # "destroy")) = TRUE
  BY <1>1
<1>4. (d.what = "create" \/ (n.exists /\ d.what # "destroy")) = FALSE
  BY <1>1
<1>5. /\ HearPorts(h, h.tagged, c, "joinT", "leaveT") = {}
      /\ HearPorts(h, h.untagged, c, "joinU", "leaveU") = {}
      /\ HearPorts(n, n.tagged, d, "joinT", "leaveT") = {}
      /\ HearPorts(n, n.untagged, d, "joinU", "leaveU") = {}
  BY <1>1, <1>2 DEF HearPorts
<1>6. HearEvent(h, c) = Aware({}, {})
  BY <1>3, <1>5, Zenon DEF HearEvent, Aware
<1>7. HearEvent(n, d) = Unaware
  BY <1>4, <1>5, Zenon DEF HearEvent, Unaware
<1> QED
  BY <1>6, <1>7 DEF c, d, h, n

\* ... and of what is no event, ...
LEMMA NothingIsHeard ==
  ASSUME NEW c \in {"create", "destroy"}
  PROVE  /\ HearEvent(Unaware, When(FALSE, c)) = Unaware
         /\ \A t, u : HearEvent(Aware(t, u), When(FALSE, c)) = Aware(t, u)
<1> DEFINE e == When(FALSE, c)
<1>1. e.what = "nothing"
  BY DEF When, Event
<1> HIDE DEF e
<1>2. ASSUME NEW t, NEW u
      PROVE  HearEvent(Aware(t, u), e) = Aware(t, u)
  <2> DEFINE n == Aware(t, u)
  <2>1. n.exists = TRUE /\ n.tagged = t /\ n.untagged = u
    BY DEF Aware
  <2> HIDE DEF n
  <2>2. (e.what = "create" \/ (n.exists /\ e.what # "destroy")) = TRUE
    BY <1>1, <2>1
  <2>3. /\ HearPorts(n, n.tagged, e, "joinT", "leaveT") = t
        /\ HearPorts(n, n.untagged, e, "joinU", "leaveU") = u
    BY <1>1, <2>1 DEF HearPorts
  <2>4. HearEvent(n, e) = Aware(t, u)
    BY <2>2, <2>3, Zenon DEF HearEvent, Aware
  <2> QED
    BY <2>4 DEF n
<1>3. HearEvent(Unaware, e) = Unaware
  <2> DEFINE n == Unaware
  <2>1. n.exists = FALSE /\ n.tagged = {} /\ n.untagged = {}
    BY DEF Unaware
  <2> HIDE DEF n
  <2>2. (e.what = "create" \/ (n.exists /\ e.what # "destroy")) = FALSE
    BY <1>1, <2>1
  <2>3. /\ HearPorts(n, n.tagged, e, "joinT", "leaveT") = {}
        /\ HearPorts(n, n.untagged, e, "joinU", "leaveU") = {}
    BY <1>1, <2>1 DEF HearPorts
  <2>4. HearEvent(n, e) = Unaware
    BY <2>2, <2>3, Zenon DEF HearEvent, Unaware
  <2> QED
    BY <2>4 DEF n
<1> QED
  BY <1>2, <1>3, Zenon DEF e

LEMMA UnawareStays ==
  ASSUME NEW w
  PROVE  HearEvent(Unaware, Moved(w, {}, {})) = Unaware
<1> DEFINE e == Moved(w, {}, {})
           n == Unaware
<1>1. e.what = "nothing"
  BY DEF Moved, Event
<1>2. n.exists = FALSE /\ n.tagged = {} /\ n.untagged = {}
  BY DEF Unaware
<1> HIDE DEF e, n
<1>3. (e.what = "create" \/ (n.exists /\ e.what # "destroy")) = FALSE
  BY <1>1, <1>2
<1>4. /\ HearPorts(n, n.tagged, e, "joinT", "leaveT") = {}
      /\ HearPorts(n, n.untagged, e, "joinU", "leaveU") = {}
  BY <1>1, <1>2 DEF HearPorts
<1>5. HearEvent(n, e) = Unaware
  BY <1>3, <1>4, Zenon DEF HearEvent, Unaware
<1> QED
  BY <1>5 DEF e, n

\* ... and of all the events of one message.
LEMMA EventsTell ==
  ASSUME NEW P, P = Ports, NEW h \in HeardVlans(P), NEW old \in VlanInfos(P), NEW new \in VlanInfos(P),
         Tells(P, h, old), NEW k, k = HearEvents(h, VlanEvents(old, new))
  PROVE  k \in HeardVlans(P) /\ Tells(P, k, new)
<1> DEFINE x  == old.valid
           y  == new.valid
           T1 == RoleIs(P, old, "tagged")
           T2 == RoleIs(P, new, "tagged")
           U1 == RoleIs(P, old, "untagged")
           U2 == RoleIs(P, new, "untagged")
           e1 == When(y /\ ~x, "create")
           e2 == Moved("joinT", T2, T1)
           e3 == Moved("leaveT", T1, T2)
           e4 == Moved("joinU", U2, U1)
           e5 == Moved("leaveU", U1, U2)
           e6 == When(x /\ ~y, "destroy")
<1>1. /\ T1 \in SUBSET P /\ T2 \in SUBSET P /\ U1 \in SUBSET P /\ U2 \in SUBSET P
      /\ x \in BOOLEAN /\ y \in BOOLEAN
      /\ ~x => T1 = {} /\ U1 = {}
      /\ ~y => T2 = {} /\ U2 = {}
  BY DEF RoleIs, VlanInfos
<1>2. (x => h = Aware(T1, U1)) /\ (~x => h = Unaware)
  BY <1>1 DEF Tells, Aware, Unaware, HeardVlans
<1>3. k = HearEvent(HearEvent(HearEvent(HearEvent(HearEvent(HearEvent(h, e1), e2), e3), e4), e5), e6)
  <2>1. With(new, "tagged") = T2 /\ With(old, "tagged") = T1
        /\ With(new, "untagged") = U2 /\ With(old, "untagged") = U1
    BY DEF With, RoleIs
  <2> HIDE DEF T1, T2, U1, U2
  <2>2. VlanEvents(old, new) = <<e1, e2, e3, e4, e5, e6>>
    BY <2>1, Zenon DEF VlanEvents
  <2> HIDE DEF e1, e2, e3, e4, e5, e6
  <2> QED
    BY <2>2 DEF HearEvents
<1> HIDE DEF T1, T2, U1, U2, x, y
<1>4. HearEvent(HearEvent(HearEvent(HearEvent(Aware(T1, U1), e2), e3), e4), e5) = Aware(T2, U2)
  BY PortsAreHeard
<1>5. (y => k = Aware(T2, U2)) /\ (~y => k = Unaware)
  <2>1. CASE x /\ y
    <3>1. e1 = When(FALSE, "create") /\ e6 = When(FALSE, "destroy")
      BY <2>1 DEF When
    <3> HIDE DEF e1, e2, e3, e4, e5, e6
    <3>2. HearEvent(h, e1) = Aware(T1, U1)
      BY <1>2, <2>1, <3>1, NothingIsHeard
    <3>3. HearEvent(Aware(T2, U2), e6) = Aware(T2, U2)
      BY <3>1, NothingIsHeard
    <3> QED
      BY <1>3, <1>4, <2>1, <3>2, <3>3
  <2>2. CASE ~x /\ y
    <3>1. e1 = When(TRUE, "create") /\ e6 = When(FALSE, "destroy")
      BY <2>2 DEF When
    <3> HIDE DEF e1, e2, e3, e4, e5, e6
    <3>2. HearEvent(h, e1) = Aware(T1, U1)
      BY <1>1, <1>2, <2>2, <3>1, ComingIsHeard
    <3>3. HearEvent(Aware(T2, U2), e6) = Aware(T2, U2)
      BY <3>1, NothingIsHeard
    <3> QED
      BY <1>3, <1>4, <2>2, <3>2, <3>3
  <2>3. CASE x /\ ~y
    <3>1. e1 = When(FALSE, "create") /\ e6 = When(TRUE, "destroy")
      BY <2>3 DEF When
    <3> HIDE DEF e1, e2, e3, e4, e5, e6
    <3>2. HearEvent(h, e1) = Aware(T1, U1)
      BY <1>2, <2>3, <3>1, NothingIsHeard
    <3>3. HearEvent(Aware(T2, U2), e6) = Unaware
      BY <1>1, <2>3, <3>1, ComingIsHeard
    <3> QED
      BY <1>3, <1>4, <2>3, <3>2, <3>3
  <2>4. CASE ~x /\ ~y
    <3>1. e1 = When(FALSE, "create") /\ e6 = When(FALSE, "destroy")
      BY <2>4 DEF When
    <3>2. /\ e2 = Moved("joinT", {}, {}) /\ e3 = Moved("leaveT", {}, {})
          /\ e4 = Moved("joinU", {}, {}) /\ e5 = Moved("leaveU", {}, {})
      BY <1>1, <2>4
    <3> HIDE DEF e1, e2, e3, e4, e5, e6
    <3> QED
      BY <1>2, <1>3, <2>4, <3>1, <3>2, NothingIsHeard, UnawareStays
  <2> QED
    BY <2>1, <2>2, <2>3, <2>4
<1>6. (y => k.exists = TRUE /\ k.tagged = T2 /\ k.untagged = U2)
      /\ (~y => k.exists = FALSE /\ k.tagged = {} /\ k.untagged = {})
  BY <1>5 DEF Aware, Unaware
<1>7. k.exists = y /\ k.tagged = T2 /\ k.untagged = U2
  BY <1>1, <1>6
<1>8. k \in HeardVlans(P)
  <2>1. Aware(T2, U2) \in HeardVlans(P) /\ Unaware \in HeardVlans(P)
    BY <1>1 DEF Aware, Unaware, HeardVlans
  <2> QED
    BY <1>1, <1>5, <2>1
<1> QED
  BY <1>7, <1>8 DEF Tells, T2, U2, y

\* A listing names everything once and nothing else.
LEMMA ListedFacts ==
  ASSUME NEW f, NEW D, NEW S, IsFiniteSet(D), f \in [D -> S]
  PROVE  /\ Listed(f) \in Seq(S)
         /\ \A i \in 1 .. Len(Listed(f)) : \E d \in D : Listed(f)[i] = f[d]
         /\ \A d \in D : \E i \in 1 .. Len(Listed(f)) : Listed(f)[i] = f[d]
<1> DEFINE n == Cardinality(D)
           o == SetToSeq(D)
<1>1. n \in Nat /\ \E g : g \in Bijection(1 .. n, D)
  BY FS_CardinalityType DEF ExistsBijection
<1>2. o \in [1 .. n -> D] /\ IsInjective(o)
  <2>1. PICK g : g \in Bijection(1 .. n, D)
    BY <1>1
  <2>2. g \in [1 .. n -> D] /\ IsInjective(g)
    BY <2>1 DEF Bijection, Injection
  <2> QED
    BY <2>2, Zenon DEF SetToSeq
<1>3. \A d \in D : \E i \in 1 .. n : o[i] = d
  <2>1. o \in Injection(1 .. n, D)
    BY <1>2, Zenon DEF Injection
  <2>2. Cardinality(1 .. n) = n
    BY <1>1, FS_Interval
  <2>3. o \in Surjection(1 .. n, D)
    BY <2>1, <2>2, FS_Injection
  <2> QED
    BY <2>3 DEF Surjection
<1> HIDE DEF o
<1>4. Listed(f) = [i \in 1 .. n |-> f[o[i]]] /\ DOMAIN f = D
  BY DEF Listed, o
<1> HIDE DEF n
<1>5. Listed(f) \in [1 .. n -> S]
  BY <1>2, <1>4
<1>6. Listed(f) \in Seq(S) /\ Len(Listed(f)) = n
  BY <1>1, <1>5, SeqDef, LenProperties
<1>7. \A i \in 1 .. n : Listed(f)[i] = f[o[i]] /\ o[i] \in D
  BY <1>2, <1>4
<1> QED
  BY <1>3, <1>6, <1>7

\* An answer that holds the truth about a matter, and nothing else about it, is the
\* latest of it.
LEMMA LatestIsAnswered ==
  ASSUME NEW S, NEW q, q \in Seq(S), NEW r, r \in Seq(S), NEW says, NEW known, NEW actual,
         \E k \in 1 .. Len(r) : r[k] \in DOMAIN says,
         \A k \in 1 .. Len(r) : r[k] \in DOMAIN says => says[r[k]] = actual
  PROVE  LatestIs(q \o r, says, known, actual)
<1> DEFINE a == q \o r
           n == Len(r)
           m == Len(q)
           K == {k \in 1 .. n : r[k] \in DOMAIN says}
<1>1. /\ m \in Nat /\ n \in Nat /\ Len(a) = m + n
      /\ \A i \in 1 .. m + n : a[i] = IF i <= m THEN q[i] ELSE r[i - m]
  BY ConcatProperties, LenProperties
<1>2. K \in SUBSET (1 .. n) /\ K # {}
  OBVIOUS
<1> HIDE DEF a, m
<1>3. PICK k \in K : \A j \in K : j <= k
  BY <1>1, <1>2, MaxIsMember
<1>4. k \in 1 .. n /\ r[k] \in DOMAIN says /\ says[r[k]] = actual
  BY <1>3
<1>5. \A j \in 1 .. n : j > k => r[j] \notin DOMAIN says
  BY <1>1, <1>3
<1> HIDE DEF n, K
<1>6. m + k \in 1 .. Len(a) /\ a[m + k] = r[k]
  BY <1>1, <1>4
<1>7. \A j \in 1 .. Len(a) : j > m + k => a[j] \notin DOMAIN says
  <2> SUFFICES ASSUME NEW j \in 1 .. Len(a), j > m + k PROVE a[j] \notin DOMAIN says
    OBVIOUS
  <2>1. j - m \in 1 .. n /\ j - m > k /\ a[j] = r[j - m]
    BY <1>1, <1>4
  <2> QED
    BY <1>5, <2>1
<1>8. LatestIs(a, says, known, actual)
  BY <1>4, <1>6, <1>7 DEF LatestIs
<1> QED
  BY <1>8 DEF a

-----------------------------------------------------------------------------
(* What is on its way to the copy, and what it will make of it.            *)

SwMsgs(P) ==
  [kind : {"vlan"}, id : Vids, info : VlanInfos(P)]
  \cup [kind : {"trunk"}, id : Tids, member : SUBSET P, from : {"IF", "LACP"}]
  \cup [kind : {"port"}, id : P, desc : BOOLEAN]
  \cup [kind : {"use"}, id : Vids, on : BOOLEAN]
  \cup [kind : {"ring"}, side : Sides, id : P, on : BOOLEAN]
  \cup [kind : {"lag"}, info : [Tids -> SUBSET P]]

TrunkMsgs(P) == [kind : {"trunk"}, id : Tids, member : SUBSET P, from : {"LACP"}]

Switches(P) == [vlan : [Vids -> VlanInfos(P)], trunk : [Tids -> SUBSET P], desc : [P -> BOOLEAN]]
Trunks(P)   == [member : SUBSET P, lacp : BOOLEAN]
Copies(P)   == [vlan : [Vids -> VlanInfos(P)], trunk : [Tids -> Trunks(P)], desc : [P -> BOOLEAN],
                ring : [Sides -> P \cup {0}], lag : [Tids -> SUBSET P]]
Listeners(P) == [vlan : [Vids -> HeardVlans(P)], trunk : [Tids -> SUBSET P]]

SwTypeOK ==
  /\ IsFiniteSet(Ports) /\ map.full \subseteq Ports
  /\ ifs \in Switches(Ports) /\ rep \in Copies(Ports) /\ heard \in Listeners(Ports)
  /\ lag \in [Tids -> SUBSET Ports]
  /\ claimed \in [vlan : [Vids -> BOOLEAN], port : [Sides -> Ports \cup {0}]]
  /\ inbox \in Seq(TrunkMsgs(Ports))
  /\ box \in Seq(SwMsgs(Ports)) /\ joined \in {"out", "subscribed", "synced"}
  /\ joined = "out" => box = <<>>

\* What a message says of a VLAN, of a trunk and of a port.
VlanOf(info)    == <<info.valid, info.role>>
VlanNews(P, v)  == [m \in {x \in SwMsgs(P) : x.kind = "vlan" /\ x.id = v} |-> VlanOf(m.info)]
TrunkNews(P, t) == [m \in {x \in SwMsgs(P) : x.kind = "trunk" /\ x.id = t} |-> m.member]
PortNews(P, l)  == [m \in {x \in SwMsgs(P) : x.kind = "port" /\ x.id = l} |-> m.desc]

\* What is on its way ends in what there is.
Follows(P, q, c, i) ==
  /\ \A v \in Vids : LatestIs(q, VlanNews(P, v), VlanOf(c.vlan[v]), VlanOf(i.vlan[v]))
  /\ \A l \in P : LatestIs(q, PortNews(P, l), c.desc[l], i.desc[l])

\* Of a trunk, what is on its way to the copy and to the interface service ends in
\* the same, but for those whose messages have crossed.
TrunkFollows(P, t, q, c, n, i) ==
  \E x : /\ LatestIs(q, TrunkNews(P, t), c.trunk[t].member, x)
         /\ LatestIs(n, TrunkNews(P, t), i.trunk[t], x)
TrunksFollow(P, q, c, n, i, X) == \A t \in Tids \ X : TrunkFollows(P, t, q, c, n, i)

\* A listener knows what the copy holds.
Listens(P, h, c) ==
  /\ \A v \in Vids : Tells(P, h.vlan[v], c.vlan[v])
  /\ \A t \in Tids : h.trunk[t] = c.trunk[t].member

SwInv ==
  /\ SwTypeOK
  /\ Listens(Ports, heard, rep)
  /\ joined = "synced" => /\ Follows(Ports, box, rep, ifs)
                          /\ TrunksFollow(Ports, box, rep, inbox, ifs, crossed)

LEMMA MsgFacts ==
  ASSUME NEW P, NEW m, m \in SwMsgs(P)
  PROVE  /\ m.kind \in {"vlan", "trunk", "port", "use", "ring", "lag"}
         /\ m.kind = "vlan" => m.id \in Vids /\ m.info \in VlanInfos(P)
         /\ m.kind = "trunk" => m.id \in Tids /\ m.member \in SUBSET P
         /\ m.kind = "port" => m.id \in P /\ m.desc \in BOOLEAN
         /\ m.kind = "use" => m.id \in Vids /\ m.on \in BOOLEAN
         /\ m.kind = "ring" => m.side \in Sides /\ m.id \in P /\ m.on \in BOOLEAN
         /\ m.kind = "lag" => m.info \in [Tids -> SUBSET P]
<1>1. CASE m \in [kind : {"vlan"}, id : Vids, info : VlanInfos(P)]
  BY <1>1
<1>2. CASE m \in [kind : {"trunk"}, id : Tids, member : SUBSET P, from : {"IF", "LACP"}]
  BY <1>2
<1>3. CASE m \in [kind : {"port"}, id : P, desc : BOOLEAN]
  BY <1>3
<1>4. CASE m \in [kind : {"use"}, id : Vids, on : BOOLEAN]
  BY <1>4
<1>5. CASE m \in [kind : {"ring"}, side : Sides, id : P, on : BOOLEAN]
  BY <1>5
<1>6. CASE m \in [kind : {"lag"}, info : [Tids -> SUBSET P]]
  BY <1>6
<1> QED
  BY <1>1, <1>2, <1>3, <1>4, <1>5, <1>6 DEF SwMsgs

LEMMA NewsFacts ==
  ASSUME NEW P, NEW m, m \in SwMsgs(P)
  PROVE  /\ \A v : /\ m \in DOMAIN VlanNews(P, v) <=> (m.kind = "vlan" /\ m.id = v)
                   /\ m \in DOMAIN VlanNews(P, v) => VlanNews(P, v)[m] = VlanOf(m.info)
         /\ \A t : /\ m \in DOMAIN TrunkNews(P, t) <=> (m.kind = "trunk" /\ m.id = t)
                   /\ m \in DOMAIN TrunkNews(P, t) => TrunkNews(P, t)[m] = m.member
         /\ \A l : /\ m \in DOMAIN PortNews(P, l) <=> (m.kind = "port" /\ m.id = l)
                   /\ m \in DOMAIN PortNews(P, l) => PortNews(P, l)[m] = m.desc
BY DEF VlanNews, TrunkNews, PortNews

\* What LACP says of a trunk.
LEMMA LacpFacts ==
  ASSUME NEW P, NEW m, m \in TrunkMsgs(P)
  PROVE  m \in SwMsgs(P) /\ m.kind = "trunk" /\ m.id \in Tids /\ m.member \in SUBSET P
BY DEF TrunkMsgs, SwMsgs

\* VLANs and ports: the interface service says what it has done, ...
LEMMA FollowsSent ==
  ASSUME NEW P, NEW q, q \in Seq(SwMsgs(P)), NEW m, m \in SwMsgs(P), NEW c, NEW i, NEW j,
         Follows(P, q, c, i),
         \A v \in Vids : IF m.kind = "vlan" /\ m.id = v THEN VlanOf(j.vlan[v]) = VlanOf(m.info)
                         ELSE VlanOf(j.vlan[v]) = VlanOf(i.vlan[v]),
         \A l \in P : IF m.kind = "port" /\ m.id = l THEN j.desc[l] = m.desc ELSE j.desc[l] = i.desc[l]
  PROVE  Follows(P, Append(q, m), c, j)
<1>1. ASSUME NEW v \in Vids
      PROVE  LatestIs(Append(q, m), VlanNews(P, v), VlanOf(c.vlan[v]), VlanOf(j.vlan[v]))
  <2> DEFINE s == VlanNews(P, v)
  <2>1. \/ m \in DOMAIN s /\ VlanOf(j.vlan[v]) = s[m]
        \/ m \notin DOMAIN s /\ VlanOf(j.vlan[v]) = VlanOf(i.vlan[v])
           /\ LatestIs(q, s, VlanOf(c.vlan[v]), VlanOf(i.vlan[v]))
    BY NewsFacts DEF Follows
  <2> HIDE DEF s
  <2>2. LatestIs(Append(q, m), s, VlanOf(c.vlan[v]), VlanOf(j.vlan[v]))
    BY <2>1, LatestIsSent
  <2> QED
    BY <2>2 DEF s
<1>2. ASSUME NEW l \in P
      PROVE  LatestIs(Append(q, m), PortNews(P, l), c.desc[l], j.desc[l])
  <2> DEFINE s == PortNews(P, l)
  <2>1. \/ m \in DOMAIN s /\ j.desc[l] = s[m]
        \/ m \notin DOMAIN s /\ j.desc[l] = i.desc[l] /\ LatestIs(q, s, c.desc[l], i.desc[l])
    BY NewsFacts DEF Follows
  <2> HIDE DEF s
  <2>2. LatestIs(Append(q, m), s, c.desc[l], j.desc[l])
    BY <2>1, LatestIsSent
  <2> QED
    BY <2>2 DEF s
<1> QED
  BY <1>1, <1>2, Zenon DEF Follows

\* ... the copy takes it in, ...
LEMMA FollowsRead ==
  ASSUME NEW P, NEW q, q \in Seq(SwMsgs(P)), q # <<>>, NEW m, m \in SwMsgs(P), m = Head(q), NEW c, NEW d, NEW i,
         Follows(P, q, c, i),
         \A v \in Vids : IF m.kind = "vlan" /\ m.id = v THEN VlanOf(d.vlan[v]) = VlanOf(m.info)
                         ELSE VlanOf(d.vlan[v]) = VlanOf(c.vlan[v]),
         \A l \in P : IF m.kind = "port" /\ m.id = l THEN d.desc[l] = m.desc ELSE d.desc[l] = c.desc[l]
  PROVE  Follows(P, Tail(q), d, i)
<1>1. ASSUME NEW v \in Vids
      PROVE  LatestIs(Tail(q), VlanNews(P, v), VlanOf(d.vlan[v]), VlanOf(i.vlan[v]))
  <2> DEFINE s == VlanNews(P, v)
  <2>1. VlanOf(d.vlan[v]) = (IF m \in DOMAIN s THEN s[m] ELSE VlanOf(c.vlan[v]))
    BY NewsFacts
  <2>2. LatestIs(q, s, VlanOf(c.vlan[v]), VlanOf(i.vlan[v]))
    BY DEF Follows
  <2> HIDE DEF s
  <2>3. LatestIs(Tail(q), s, VlanOf(d.vlan[v]), VlanOf(i.vlan[v]))
    BY <2>1, <2>2, LatestIsRead
  <2> QED
    BY <2>3 DEF s
<1>2. ASSUME NEW l \in P
      PROVE  LatestIs(Tail(q), PortNews(P, l), d.desc[l], i.desc[l])
  <2> DEFINE s == PortNews(P, l)
  <2>1. d.desc[l] = (IF m \in DOMAIN s THEN s[m] ELSE c.desc[l])
    BY NewsFacts
  <2>2. LatestIs(q, s, c.desc[l], i.desc[l])
    BY DEF Follows
  <2> HIDE DEF s
  <2>3. LatestIs(Tail(q), s, d.desc[l], i.desc[l])
    BY <2>1, <2>2, LatestIsRead
  <2> QED
    BY <2>3 DEF s
<1> QED
  BY <1>1, <1>2, Zenon DEF Follows

\* Trunks: a message about something else changes nothing, ...
LEMMA TrunksAside ==
  ASSUME NEW P, NEW q, q \in Seq(SwMsgs(P)), NEW m, m \in SwMsgs(P), m.kind # "trunk",
         NEW c, NEW n, NEW i, NEW j, NEW X, TrunksFollow(P, q, c, n, i, X),
         \A t \in Tids : j.trunk[t] = i.trunk[t]
  PROVE  TrunksFollow(P, Append(q, m), c, n, j, X)
<1> SUFFICES ASSUME NEW t \in Tids \ X PROVE TrunkFollows(P, t, Append(q, m), c, n, j)
  BY DEF TrunksFollow
<1> DEFINE s == TrunkNews(P, t)
<1>1. m \notin DOMAIN s
  BY NewsFacts
<1>2. PICK x : LatestIs(q, s, c.trunk[t].member, x) /\ LatestIs(n, s, i.trunk[t], x)
  BY DEF TrunksFollow, TrunkFollows
<1> HIDE DEF s
<1>3. LatestIs(Append(q, m), s, c.trunk[t].member, x)
  BY <1>1, <1>2, LatestIsSent
<1>4. LatestIs(n, s, j.trunk[t], x)
  BY <1>2
<1> QED
  BY <1>3, <1>4 DEF s, TrunkFollows

\* ... one the interface service sends is the last of all unless there is one for it to
\* read, ...
LEMMA TrunkIsSet ==
  ASSUME NEW P, NEW q, q \in Seq(SwMsgs(P)), NEW m, m \in SwMsgs(P), m.kind = "trunk",
         NEW c, NEW n, n \in Seq(TrunkMsgs(P)), NEW i, NEW j, NEW X, NEW Y, TrunksFollow(P, q, c, n, i, X),
         \A t \in Tids : j.trunk[t] = IF t = m.id THEN m.member ELSE i.trunk[t],
         X \ {m.id} \subseteq Y, (\E k \in DOMAIN n : n[k].id = m.id) => m.id \in Y
  PROVE  TrunksFollow(P, Append(q, m), c, n, j, Y)
<1> SUFFICES ASSUME NEW t \in Tids \ Y PROVE TrunkFollows(P, t, Append(q, m), c, n, j)
  BY DEF TrunksFollow
<1> DEFINE s == TrunkNews(P, t)
<1>1. CASE t = m.id
  <2>1. m \in DOMAIN s /\ m.member = s[m] /\ j.trunk[t] = m.member
    BY <1>1, NewsFacts
  <2>2. ASSUME NEW k \in 1 .. Len(n) PROVE n[k] \notin DOMAIN s
    <3>1. n[k] \in TrunkMsgs(P) /\ k \in DOMAIN n
      BY ElementOfSeq
    <3>2. n[k] \in SwMsgs(P) /\ n[k].id # t
      BY <1>1, <3>1, LacpFacts
    <3> QED
      BY <3>2, NewsFacts
  <2> HIDE DEF s
  <2>3. LatestIs(Append(q, m), s, c.trunk[t].member, m.member)
    BY <2>1, LatestIsSent
  <2>4. LatestIs(n, s, j.trunk[t], m.member)
    BY <2>1, <2>2 DEF LatestIs
  <2> QED
    BY <2>3, <2>4 DEF s, TrunkFollows
<1>2. CASE t # m.id
  <2>1. m \notin DOMAIN s /\ t \notin X /\ j.trunk[t] = i.trunk[t]
    BY <1>2, NewsFacts
  <2>2. PICK x : LatestIs(q, s, c.trunk[t].member, x) /\ LatestIs(n, s, i.trunk[t], x)
    BY <2>1 DEF TrunksFollow, TrunkFollows
  <2> HIDE DEF s
  <2>3. LatestIs(Append(q, m), s, c.trunk[t].member, x)
    BY <2>1, <2>2, LatestIsSent
  <2>4. LatestIs(n, s, j.trunk[t], x)
    BY <2>1, <2>2
  <2> QED
    BY <2>3, <2>4 DEF s, TrunkFollows
<1> QED
  BY <1>1, <1>2

\* ... one LACP sends is the last for both, ...
LEMMA TrunkIsAggregated ==
  ASSUME NEW P, NEW q, q \in Seq(SwMsgs(P)), NEW m, m \in TrunkMsgs(P),
         NEW c, NEW n, n \in Seq(TrunkMsgs(P)), NEW i, NEW X, TrunksFollow(P, q, c, n, i, X)
  PROVE  TrunksFollow(P, Append(q, m), c, Append(n, m), i, X \ {m.id})
<1> SUFFICES ASSUME NEW t \in Tids \ (X \ {m.id}) PROVE TrunkFollows(P, t, Append(q, m), c, Append(n, m), i)
  BY DEF TrunksFollow
<1> DEFINE s == TrunkNews(P, t)
<1>1. m \in SwMsgs(P) /\ m.kind = "trunk"
  BY LacpFacts
<1>2. CASE t = m.id
  <2>1. m \in DOMAIN s
    BY <1>1, <1>2, NewsFacts
  <2> HIDE DEF s
  <2>2. LatestIs(Append(q, m), s, c.trunk[t].member, s[m])
    BY <1>1, <2>1, LatestIsSent
  <2>3. LatestIs(Append(n, m), s, i.trunk[t], s[m])
    BY <2>1, LatestIsSent
  <2> QED
    BY <2>2, <2>3 DEF s, TrunkFollows
<1>3. CASE t # m.id
  <2>1. m \notin DOMAIN s /\ t \notin X
    BY <1>1, <1>3, NewsFacts
  <2>2. PICK x : LatestIs(q, s, c.trunk[t].member, x) /\ LatestIs(n, s, i.trunk[t], x)
    BY <2>1 DEF TrunksFollow, TrunkFollows
  <2> HIDE DEF s
  <2>3. LatestIs(Append(q, m), s, c.trunk[t].member, x)
    BY <1>1, <2>1, <2>2, LatestIsSent
  <2>4. LatestIs(Append(n, m), s, i.trunk[t], x)
    BY <2>1, <2>2, LatestIsSent
  <2> QED
    BY <2>3, <2>4 DEF s, TrunkFollows
<1> QED
  BY <1>2, <1>3

\* ... and either of them reads on.
LEMMA TrunkIsTaken ==
  ASSUME NEW P, NEW q, NEW c, NEW n, n \in Seq(TrunkMsgs(P)), n # <<>>, NEW m, m = Head(n), m \in TrunkMsgs(P),
         NEW i, NEW j, NEW X, TrunksFollow(P, q, c, n, i, X),
         \A t \in Tids : j.trunk[t] = IF t = m.id THEN m.member ELSE i.trunk[t]
  PROVE  TrunksFollow(P, q, c, Tail(n), j, X)
<1> SUFFICES ASSUME NEW t \in Tids \ X PROVE TrunkFollows(P, t, q, c, Tail(n), j)
  BY DEF TrunksFollow
<1> DEFINE s == TrunkNews(P, t)
<1>1. j.trunk[t] = IF m \in DOMAIN s THEN s[m] ELSE i.trunk[t]
  BY LacpFacts, NewsFacts
<1>2. PICK x : LatestIs(q, s, c.trunk[t].member, x) /\ LatestIs(n, s, i.trunk[t], x)
  BY DEF TrunksFollow, TrunkFollows
<1> HIDE DEF s
<1>3. LatestIs(Tail(n), s, j.trunk[t], x)
  BY <1>1, <1>2, LatestIsRead
<1> QED
  BY <1>2, <1>3 DEF s, TrunkFollows

LEMMA TrunksAreRead ==
  ASSUME NEW P, NEW q, q \in Seq(SwMsgs(P)), q # <<>>, NEW m, m \in SwMsgs(P), m = Head(q), NEW c, NEW d,
         NEW n, NEW i, NEW X, TrunksFollow(P, q, c, n, i, X),
         \A t \in Tids : IF m.kind = "trunk" /\ m.id = t THEN d.trunk[t].member = m.member
                         ELSE d.trunk[t].member = c.trunk[t].member
  PROVE  TrunksFollow(P, Tail(q), d, n, i, X)
<1> SUFFICES ASSUME NEW t \in Tids \ X PROVE TrunkFollows(P, t, Tail(q), d, n, i)
  BY DEF TrunksFollow
<1> DEFINE s == TrunkNews(P, t)
<1>1. d.trunk[t].member = IF m \in DOMAIN s THEN s[m] ELSE c.trunk[t].member
  BY NewsFacts
<1>2. PICK x : LatestIs(q, s, c.trunk[t].member, x) /\ LatestIs(n, s, i.trunk[t], x)
  BY DEF TrunksFollow, TrunkFollows
<1> HIDE DEF s
<1>3. LatestIs(Tail(q), s, d.trunk[t].member, x)
  BY <1>1, <1>2, LatestIsRead
<1> QED
  BY <1>2, <1>3 DEF s, TrunkFollows

-----------------------------------------------------------------------------
(* What a service makes of a message.                                      *)

\* A message is taken in: the copy has what it says and is otherwise as it was, and the
\* hooks have told it all.
TakenIn(P, m, c, d, h) ==
  /\ d \in Copies(P) /\ h \in Listeners(P) /\ Listens(P, h, d)
  /\ \A v \in Vids : IF m.kind = "vlan" /\ m.id = v THEN VlanOf(d.vlan[v]) = VlanOf(m.info)
                     ELSE VlanOf(d.vlan[v]) = VlanOf(c.vlan[v])
  /\ \A t \in Tids : IF m.kind = "trunk" /\ m.id = t THEN d.trunk[t].member = m.member
                     ELSE d.trunk[t].member = c.trunk[t].member
  /\ \A l \in P : IF m.kind = "port" /\ m.id = l THEN d.desc[l] = m.desc ELSE d.desc[l] = c.desc[l]

\* A copy whose VLANs, trunks and ports are as they were.
LEMMA NothingTakenIn ==
  ASSUME NEW P, NEW m, NEW c, NEW d, NEW h, m.kind \notin {"vlan", "trunk", "port"},
         d \in Copies(P), h \in Listeners(P), Listens(P, h, c),
         d.vlan = c.vlan, d.trunk = c.trunk, d.desc = c.desc
  PROVE  TakenIn(P, m, c, d, h)
BY DEF TakenIn, Listens

LEMMA VlanTakenIn ==
  ASSUME NEW P, P = Ports, rep \in Copies(P), heard \in Listeners(P), Listens(P, heard, rep),
         NEW m, m \in SwMsgs(P), m.kind = "vlan", SyncVlan(m)
  PROVE  TakenIn(P, m, rep, rep', heard')
<1> DEFINE w == m.id
           i == m.info
           k == HearEvents(heard.vlan[w], VlanEvents(rep.vlan[w], i))
<1>1. w \in Vids /\ i \in VlanInfos(P)
  BY MsgFacts
<1>2. rep.vlan \in [Vids -> VlanInfos(P)] /\ heard.vlan \in [Vids -> HeardVlans(P)]
      /\ rep.trunk \in [Tids -> Trunks(P)] /\ heard.trunk \in [Tids -> SUBSET P]
  BY DEF Copies, Listeners
<1>3. k \in HeardVlans(P) /\ Tells(P, k, i)
  <2>1. Tells(P, heard.vlan[w], rep.vlan[w])
    BY <1>1 DEF Listens
  <2> QED
    BY <1>1, <1>2, <2>1, EventsTell
<1>4. rep' = [rep EXCEPT !.vlan[w] = i] /\ heard' = [heard EXCEPT !.vlan[w] = k]
  BY Zenon DEF SyncVlan
<1> HIDE DEF w, i, k
<1>5. /\ rep' \in Copies(P) /\ rep'.vlan = [rep.vlan EXCEPT ![w] = i]
      /\ rep'.trunk = rep.trunk /\ rep'.desc = rep.desc
  BY <1>1, <1>4 DEF Copies
<1>6. heard' \in Listeners(P) /\ heard'.vlan = [heard.vlan EXCEPT ![w] = k] /\ heard'.trunk = heard.trunk
  BY <1>1, <1>3, <1>4 DEF Listeners
<1>7. Listens(P, heard', rep')
  <2>1. ASSUME NEW v \in Vids PROVE Tells(P, heard'.vlan[v], rep'.vlan[v])
    <3>1. CASE v = w
      <4>1. heard'.vlan[v] = k /\ rep'.vlan[v] = i
        BY <1>1, <1>2, <1>5, <1>6, <3>1
      <4> QED
        BY <1>3, <4>1
    <3>2. CASE v # w
      <4>1. heard'.vlan[v] = heard.vlan[v] /\ rep'.vlan[v] = rep.vlan[v]
        BY <1>1, <1>2, <1>5, <1>6, <3>2
      <4> QED
        BY <4>1 DEF Listens
    <3> QED
      BY <3>1, <3>2
  <2> QED
    BY <1>5, <1>6, <2>1 DEF Listens
<1>8. \A v \in Vids : IF m.kind = "vlan" /\ m.id = v THEN VlanOf(rep'.vlan[v]) = VlanOf(m.info)
                      ELSE VlanOf(rep'.vlan[v]) = VlanOf(rep.vlan[v])
  BY <1>1, <1>2, <1>5 DEF w, i
<1> QED
  BY <1>5, <1>6, <1>7, <1>8 DEF TakenIn

LEMMA TrunkTakenIn ==
  ASSUME NEW P, P = Ports, rep \in Copies(P), heard \in Listeners(P), Listens(P, heard, rep),
         NEW m, m \in SwMsgs(P), m.kind = "trunk", SyncTrunk(m)
  PROVE  TakenIn(P, m, rep, rep', heard')
<1> DEFINE w == m.id
           new == m.member
           old == rep.trunk[w].member
           lacp == IF m.from = "LACP" THEN m.member # {} ELSE rep.trunk[w].lacp
           e == [member |-> new, lacp |-> lacp]
           k == (heard.trunk[w] \cup (new \ old)) \ (old \ new)
<1>1. w \in Tids /\ new \in SUBSET P
  BY MsgFacts
<1>2. rep.vlan \in [Vids -> VlanInfos(P)] /\ heard.vlan \in [Vids -> HeardVlans(P)]
      /\ rep.trunk \in [Tids -> Trunks(P)] /\ heard.trunk \in [Tids -> SUBSET P]
  BY DEF Copies, Listeners
<1>3. old \in SUBSET P /\ lacp \in BOOLEAN
  BY <1>1, <1>2 DEF Trunks
<1>4. k = new
  <2>1. heard.trunk[w] = old
    BY <1>1 DEF Listens
  <2> QED
    BY <2>1
<1>5. rep' = [rep EXCEPT !.trunk[w] = e] /\ heard' = [heard EXCEPT !.trunk[w] = k]
  BY Zenon DEF SyncTrunk
<1>6. e \in Trunks(P) /\ e.member = new
  BY <1>1, <1>3 DEF Trunks
<1> HIDE DEF w, new, e, k, old, lacp
<1>7. /\ rep' \in Copies(P) /\ rep'.trunk = [rep.trunk EXCEPT ![w] = e]
      /\ rep'.vlan = rep.vlan /\ rep'.desc = rep.desc
  BY <1>1, <1>5, <1>6 DEF Copies
<1>8. heard' \in Listeners(P) /\ heard'.trunk = [heard.trunk EXCEPT ![w] = new] /\ heard'.vlan = heard.vlan
  BY <1>1, <1>4, <1>5 DEF Listeners
<1>9. \A t \in Tids : /\ rep'.trunk[t].member = (IF t = w THEN new ELSE rep.trunk[t].member)
                      /\ heard'.trunk[t] = (IF t = w THEN new ELSE heard.trunk[t])
  BY <1>1, <1>2, <1>6, <1>7, <1>8
<1>10. Listens(P, heard', rep')
  BY <1>7, <1>8, <1>9 DEF Listens
<1>11. \A t \in Tids : IF m.kind = "trunk" /\ m.id = t THEN rep'.trunk[t].member = m.member
                       ELSE rep'.trunk[t].member = rep.trunk[t].member
  BY <1>9 DEF w, new
<1> QED
  BY <1>7, <1>8, <1>10, <1>11 DEF TakenIn

LEMMA PortTakenIn ==
  ASSUME NEW P, P = Ports, rep \in Copies(P), heard \in Listeners(P), Listens(P, heard, rep),
         NEW m, m \in SwMsgs(P), m.kind = "port", SyncPort(m)
  PROVE  TakenIn(P, m, rep, rep', heard')
<1>1. m.id \in P /\ m.desc \in BOOLEAN /\ Valid(m.id)
  BY MsgFacts DEF Valid, Ports
<1>2. rep' = [rep EXCEPT !.desc[m.id] = m.desc] /\ heard' = heard
  BY <1>1 DEF SyncPort
<1>3. /\ rep' \in Copies(P) /\ rep'.desc = [rep.desc EXCEPT ![m.id] = m.desc]
      /\ rep'.vlan = rep.vlan /\ rep'.trunk = rep.trunk
  BY <1>1, <1>2 DEF Copies
<1>4. \A l \in P : IF m.kind = "port" /\ m.id = l THEN rep'.desc[l] = m.desc ELSE rep'.desc[l] = rep.desc[l]
  BY <1>1, <1>3 DEF Copies
<1> QED
  BY <1>2, <1>3, <1>4 DEF TakenIn, Listens

LEMMA UseTakenIn ==
  ASSUME NEW P, P = Ports, rep \in Copies(P), heard \in Listeners(P), Listens(P, heard, rep),
         NEW m, m \in SwMsgs(P), m.kind = "use", SyncUse(m)
  PROVE  TakenIn(P, m, rep, rep', heard')
<1> DEFINE w == m.id
           i == [rep.vlan[w] EXCEPT !.flag = m.on]
<1>1. w \in Vids /\ m.on \in BOOLEAN
  BY MsgFacts
<1>2. rep.vlan \in [Vids -> VlanInfos(P)]
  BY DEF Copies
<1>3. i \in VlanInfos(P) /\ i.valid = rep.vlan[w].valid /\ i.role = rep.vlan[w].role
  BY <1>1, <1>2 DEF VlanInfos
<1>4. rep' = [rep EXCEPT !.vlan = [rep.vlan EXCEPT ![w] = i]] /\ heard' = heard
  BY DEF SyncUse
<1> HIDE DEF w, i
<1>5. /\ rep' \in Copies(P) /\ rep'.vlan = [rep.vlan EXCEPT ![w] = i]
      /\ rep'.trunk = rep.trunk /\ rep'.desc = rep.desc
  BY <1>1, <1>3, <1>4 DEF Copies
<1>6. \A v \in Vids : rep'.vlan[v].valid = rep.vlan[v].valid /\ rep'.vlan[v].role = rep.vlan[v].role
  BY <1>1, <1>2, <1>3, <1>5
<1>7. Listens(P, heard', rep')
  BY <1>4, <1>5, <1>6 DEF Listens, Tells, RoleIs
<1> QED
  BY <1>4, <1>5, <1>6, <1>7 DEF TakenIn, VlanOf

LEMMA RingTakenIn ==
  ASSUME NEW P, P = Ports, rep \in Copies(P), heard \in Listeners(P), Listens(P, heard, rep),
         NEW m, m \in SwMsgs(P), m.kind = "ring", SyncRing(m)
  PROVE  TakenIn(P, m, rep, rep', heard')
<1>1. m.id \in P /\ m.side \in Sides /\ Valid(m.id)
  BY MsgFacts DEF Valid, Ports
<1>2. rep' = [rep EXCEPT !.ring[m.side] = IF m.on THEN m.id ELSE 0] /\ heard' = heard
  BY <1>1 DEF SyncRing
<1>3. rep' \in Copies(P) /\ rep'.desc = rep.desc /\ rep'.vlan = rep.vlan /\ rep'.trunk = rep.trunk
  BY <1>1, <1>2 DEF Copies
<1> QED
  BY <1>2, <1>3, NothingTakenIn

LEMMA LagTakenIn ==
  ASSUME NEW P, P = Ports, rep \in Copies(P), heard \in Listeners(P), Listens(P, heard, rep),
         NEW m, m \in SwMsgs(P), m.kind = "lag", SyncLag(m)
  PROVE  TakenIn(P, m, rep, rep', heard')
<1>1. m.info \in [Tids -> SUBSET P]
  BY MsgFacts
<1>2. rep' = [rep EXCEPT !.lag = m.info] /\ heard' = heard
  BY DEF SyncLag
<1>3. rep' \in Copies(P) /\ rep'.desc = rep.desc /\ rep'.vlan = rep.vlan /\ rep'.trunk = rep.trunk
  BY <1>1, <1>2 DEF Copies
<1> QED
  BY <1>2, <1>3, NothingTakenIn

LEMMA DeliverStep ==
  ASSUME SwInv, Deliver
  PROVE  SwInv'
<1> DEFINE P == Ports
           m == Head(box)
<1>1. /\ box # <<>> /\ box' = Tail(box) /\ map' = map /\ ifs' = ifs /\ lag' = lag
      /\ inbox' = inbox /\ crossed' = crossed
      /\ claimed' = claimed /\ joined' = joined
  BY DEF Deliver
<1>2. P' = P
  BY <1>1 DEF Ports
<1>3. box \in Seq(SwMsgs(P)) /\ m \in SwMsgs(P) /\ Tail(box) \in Seq(SwMsgs(P)) /\ joined # "out"
  BY <1>1, HeadTailProperties DEF SwInv, SwTypeOK
<1>4. rep \in Copies(P) /\ heard \in Listeners(P) /\ Listens(P, heard, rep)
  BY DEF SwInv, SwTypeOK
<1>5. TakenIn(P, m, rep, rep', heard')
  <2>1. \/ m.kind = "vlan"  /\ SyncVlan(m)
        \/ m.kind = "trunk" /\ SyncTrunk(m)
        \/ m.kind = "port"  /\ SyncPort(m)
        \/ m.kind = "use"   /\ SyncUse(m)
        \/ m.kind = "ring"  /\ SyncRing(m)
        \/ m.kind = "lag"   /\ SyncLag(m)
    BY DEF Deliver
  <2> HIDE DEF m, P
  <2>2. P = Ports
    BY DEF P
  <2>3. CASE m.kind = "vlan" /\ SyncVlan(m)
    BY <1>3, <1>4, <2>2, <2>3, VlanTakenIn
  <2>4. CASE m.kind = "trunk" /\ SyncTrunk(m)
    BY <1>3, <1>4, <2>2, <2>4, TrunkTakenIn
  <2>5. CASE m.kind = "port" /\ SyncPort(m)
    BY <1>3, <1>4, <2>2, <2>5, PortTakenIn
  <2>6. CASE m.kind = "use" /\ SyncUse(m)
    BY <1>3, <1>4, <2>2, <2>6, UseTakenIn
  <2>7. CASE m.kind = "ring" /\ SyncRing(m)
    BY <1>3, <1>4, <2>2, <2>7, RingTakenIn
  <2>8. CASE m.kind = "lag" /\ SyncLag(m)
    BY <1>3, <1>4, <2>2, <2>8, LagTakenIn
  <2> QED
    BY <2>1, <2>3, <2>4, <2>5, <2>6, <2>7, <2>8
<1>6. SwTypeOK'
  <2>1. rep' \in Copies(P) /\ heard' \in Listeners(P)
    BY <1>5 DEF TakenIn
  <2> QED
    BY <1>1, <1>2, <1>3, <2>1 DEF SwInv, SwTypeOK
<1>7. Listens(P, heard', rep')
  BY <1>5 DEF TakenIn
<1>8. ASSUME joined = "synced"
      PROVE  Follows(P, box', rep', ifs) /\ TrunksFollow(P, box', rep', inbox, ifs, crossed)
  <2>1. Follows(P, box, rep, ifs) /\ TrunksFollow(P, box, rep, inbox, ifs, crossed)
    BY <1>8 DEF SwInv
  <2> HIDE DEF m, P
  <2>2. m = Head(box)
    BY DEF m
  <2>3. Follows(P, Tail(box), rep', ifs)
    BY <1>1, <1>3, <1>5, <2>1, <2>2, FollowsRead DEF TakenIn
  <2>4. TrunksFollow(P, Tail(box), rep', inbox, ifs, crossed)
    BY <1>1, <1>3, <1>5, <2>1, <2>2, TrunksAreRead DEF TakenIn
  <2> QED
    BY <1>1, <2>3, <2>4
<1> QED
  BY <1>1, <1>2, <1>6, <1>7, <1>8 DEF SwInv

-----------------------------------------------------------------------------
(* What the services do that own the ports.                                *)

\* A change that is published, and says what has changed of the interface service's
\* VLANs, trunks and ports.
LEMMA PostStep ==
  ASSUME SwInv, NEW P, P = Ports, NEW m, m \in SwMsgs(P), Post(m), Rest, ifs' \in Switches(P),
         lag' \in [Tids -> SUBSET P], claimed' \in [vlan : [Vids -> BOOLEAN], port : [Sides -> P \cup {0}]],
         \A v \in Vids : IF m.kind = "vlan" /\ m.id = v THEN VlanOf(ifs'.vlan[v]) = VlanOf(m.info)
                         ELSE VlanOf(ifs'.vlan[v]) = VlanOf(ifs.vlan[v]),
         inbox' \in Seq(TrunkMsgs(P)),
         joined = "synced" => TrunksFollow(P, Append(box, m), rep, inbox', ifs', crossed'),
         \A l \in P : IF m.kind = "port" /\ m.id = l THEN ifs'.desc[l] = m.desc
                      ELSE ifs'.desc[l] = ifs.desc[l]
  PROVE  SwInv'
<1>1. Ports' = P /\ map' = map /\ rep' = rep /\ heard' = heard /\ joined' = joined
  BY DEF Rest, Ports
<1>2. box \in Seq(SwMsgs(P)) /\ (joined = "out" => box = <<>>)
  BY DEF SwInv, SwTypeOK
<1>3. box' \in Seq(SwMsgs(P)) /\ (joined = "out" => box' = <<>>)
  <2>1. Append(box, m) \in Seq(SwMsgs(P))
    BY <1>2, AppendProperties
  <2> QED
    BY <1>2, <2>1 DEF Post
<1>4. SwTypeOK'
  BY <1>1, <1>3 DEF SwInv, SwTypeOK
<1>5. Listens(Ports, heard, rep)
  BY DEF SwInv
<1>6. ASSUME joined = "synced"
      PROVE  Follows(P, box', rep, ifs') /\ TrunksFollow(P, box', rep, inbox', ifs', crossed')
  <2>1. box' = Append(box, m)
    BY <1>6 DEF Post
  <2>2. Follows(P, box, rep, ifs)
    BY <1>6 DEF SwInv
  <2>3. Follows(P, Append(box, m), rep, ifs')
    BY <1>2, <2>2, FollowsSent
  <2> QED
    BY <1>6, <2>1, <2>3
<1> QED
  BY <1>1, <1>4, <1>5, <1>6 DEF SwInv

\* One that says nothing of trunks.
LEMMA PostQuietly ==
  ASSUME SwInv, NEW P, P = Ports, NEW m, m \in SwMsgs(P), m.kind # "trunk", Post(m), Rest, Quiet,
         ifs' \in Switches(P), ifs'.trunk = ifs.trunk,
         lag' \in [Tids -> SUBSET P], claimed' \in [vlan : [Vids -> BOOLEAN], port : [Sides -> P \cup {0}]],
         \A v \in Vids : IF m.kind = "vlan" /\ m.id = v THEN VlanOf(ifs'.vlan[v]) = VlanOf(m.info)
                         ELSE VlanOf(ifs'.vlan[v]) = VlanOf(ifs.vlan[v]),
         \A l \in P : IF m.kind = "port" /\ m.id = l THEN ifs'.desc[l] = m.desc
                      ELSE ifs'.desc[l] = ifs.desc[l]
  PROVE  SwInv'
<1>1. box \in Seq(SwMsgs(P)) /\ inbox \in Seq(TrunkMsgs(P))
  BY DEF SwInv, SwTypeOK
<1>2. inbox' = inbox /\ crossed' = crossed
  BY DEF Quiet
<1>3. ASSUME joined = "synced"
      PROVE  TrunksFollow(P, Append(box, m), rep, inbox', ifs', crossed')
  <2>1. TrunksFollow(P, box, rep, inbox, ifs, crossed)
    BY <1>3 DEF SwInv
  <2> QED
    BY <1>1, <1>2, <2>1, TrunksAside
<1> QED
  BY <1>1, <1>2, <1>3, PostStep

LEMMA VlanStep ==
  ASSUME SwInv, VlanChanges
  PROVE  SwInv'
<1> DEFINE P == Ports
<1>1. PICK v \in Vids : \E info \in VlanEdits(ifs.vlan[v]) :
         /\ info = NoVlan \/ info.valid
         /\ ifs' = [ifs EXCEPT !.vlan[v] = info]
         /\ Post(VlanMsg(v, info)) /\ Rest /\ Quiet /\ UNCHANGED <<lag, claimed>>
  BY Zenon DEF VlanChanges
<1>2. PICK info \in VlanEdits(ifs.vlan[v]) :
         /\ info = NoVlan \/ info.valid
         /\ ifs' = [ifs EXCEPT !.vlan[v] = info]
         /\ Post(VlanMsg(v, info)) /\ Rest /\ Quiet /\ UNCHANGED <<lag, claimed>>
  BY <1>1
<1>3. /\ ifs \in Switches(P) /\ ifs.vlan \in [Vids -> VlanInfos(P)] /\ map.full \subseteq P
      /\ lag \in [Tids -> SUBSET P]
      /\ claimed \in [vlan : [Vids -> BOOLEAN], port : [Sides -> P \cup {0}]]
  BY DEF SwInv, SwTypeOK, Switches
<1>4. info \in VlanInfos(P)
  <2> DEFINE i == ifs.vlan[v]
  <2>1. i \in [valid : BOOLEAN, role : [P -> Roles], flag : BOOLEAN]
    BY <1>3 DEF VlanInfos
  <2> HIDE DEF i
  <2>2. CASE info = NoVlan
    BY <2>2 DEF NoVlan, VlanInfos, Roles
  <2>3. CASE info.valid /\ info = [i EXCEPT !.valid = TRUE]
    <3>1. info \in [valid : BOOLEAN, role : [P -> Roles], flag : BOOLEAN]
      BY <2>1, <2>3
    <3> QED
      BY <2>3, <3>1 DEF VlanInfos
  <2>4. CASE info.valid /\ \E l \in map.full, r \in Roles : info = [i EXCEPT !.role[l] = r]
    <3>1. info \in [valid : BOOLEAN, role : [P -> Roles], flag : BOOLEAN]
      BY <2>1, <2>4, <1>3
    <3> QED
      BY <2>4, <3>1 DEF VlanInfos
  <2>5. \/ info = NoVlan
        \/ info.valid /\ info = [i EXCEPT !.valid = TRUE]
        \/ info.valid /\ \E l \in map.full, r \in Roles : info = [i EXCEPT !.role[l] = r]
    <3>1. info \in VlanEdits(i)
      BY DEF i
    <3> QED
      BY <1>2, <3>1 DEF VlanEdits
  <2> QED
    BY <2>2, <2>3, <2>4, <2>5
<1> DEFINE m == VlanMsg(v, info)
<1>5. m \in SwMsgs(P) /\ m.kind = "vlan" /\ m.id = v /\ m.info = info
  BY <1>4 DEF VlanMsg, SwMsgs
<1> HIDE DEF m
<1>6. Post(m)
  BY <1>2 DEF m
<1>7. ifs' \in Switches(P) /\ ifs'.vlan = [ifs.vlan EXCEPT ![v] = info]
      /\ ifs'.trunk = ifs.trunk /\ ifs'.desc = ifs.desc
  BY <1>2, <1>3, <1>4 DEF Switches
<1>8. \A w \in Vids : IF m.kind = "vlan" /\ m.id = w THEN VlanOf(ifs'.vlan[w]) = VlanOf(m.info)
                      ELSE VlanOf(ifs'.vlan[w]) = VlanOf(ifs.vlan[w])
  BY <1>3, <1>5, <1>7
<1> HIDE DEF P
<1>9. P = Ports
  BY DEF P
<1> QED
  BY <1>2, <1>3, <1>5, <1>6, <1>7, <1>8, <1>9, PostQuietly

LEMMA TrunkStep ==
  ASSUME SwInv, TrunkChanges
  PROVE  SwInv'
<1> DEFINE P == Ports
<1>1. PICK w \in Tids, new \in SUBSET map.full :
         /\ ifs' = [ifs EXCEPT !.trunk[w] = new]
         /\ Post(TrunkMsg(w, new, "IF"))
         /\ crossed' = IF Unheard(w) THEN crossed \cup {w} ELSE crossed \ {w}
         /\ Rest /\ UNCHANGED <<inbox, lag, claimed>>
  BY Zenon DEF TrunkChanges
<1>2. /\ ifs \in Switches(P) /\ ifs.trunk \in [Tids -> SUBSET P] /\ new \in SUBSET P
      /\ lag \in [Tids -> SUBSET P] /\ inbox \in Seq(TrunkMsgs(P)) /\ box \in Seq(SwMsgs(P))
      /\ claimed \in [vlan : [Vids -> BOOLEAN], port : [Sides -> P \cup {0}]]
  BY DEF SwInv, SwTypeOK, Switches
<1> DEFINE m == TrunkMsg(w, new, "IF")
<1>3. m \in SwMsgs(P) /\ m.kind = "trunk" /\ m.id = w /\ m.member = new
  BY <1>2 DEF TrunkMsg, SwMsgs
<1> HIDE DEF m
<1>4. Post(m) /\ Rest
  BY <1>1 DEF m
<1>5. ifs' \in Switches(P) /\ ifs'.trunk = [ifs.trunk EXCEPT ![w] = new]
      /\ ifs'.vlan = ifs.vlan /\ ifs'.desc = ifs.desc
  BY <1>1, <1>2 DEF Switches
<1>6. \A t \in Tids : ifs'.trunk[t] = IF t = m.id THEN m.member ELSE ifs.trunk[t]
  BY <1>2, <1>3, <1>5
<1>7. /\ crossed \ {m.id} \subseteq crossed'
      /\ (\E k \in DOMAIN inbox : inbox[k].id = m.id) => m.id \in crossed'
  BY <1>1, <1>3 DEF Unheard
<1>8. inbox' = inbox /\ lag' = lag /\ claimed' = claimed
  BY <1>1
<1>9. joined = "synced" => TrunksFollow(Ports, box, rep, inbox, ifs, crossed)
  BY DEF SwInv
<1> HIDE DEF P
<1>10. P = Ports
  BY DEF P
<1>11. joined = "synced" => TrunksFollow(P, Append(box, m), rep, inbox', ifs', crossed')
  BY <1>2, <1>3, <1>6, <1>7, <1>8, <1>9, <1>10, TrunkIsSet
<1> QED
  BY <1>2, <1>3, <1>4, <1>5, <1>8, <1>10, <1>11, PostStep

LEMMA LacpStep ==
  ASSUME SwInv, LacpTrunks
  PROVE  SwInv'
<1> DEFINE P == Ports
<1>1. PICK w \in Tids, new \in SUBSET map.full :
         /\ Post(TrunkMsg(w, new, "LACP"))
         /\ inbox' = Append(inbox, TrunkMsg(w, new, "LACP"))
         /\ crossed' = crossed \ {w}
         /\ Rest /\ UNCHANGED <<ifs, lag, claimed>>
  BY Zenon DEF LacpTrunks
<1>2. /\ ifs \in Switches(P) /\ new \in SUBSET P
      /\ lag \in [Tids -> SUBSET P] /\ inbox \in Seq(TrunkMsgs(P)) /\ box \in Seq(SwMsgs(P))
      /\ claimed \in [vlan : [Vids -> BOOLEAN], port : [Sides -> P \cup {0}]]
  BY DEF SwInv, SwTypeOK
<1> DEFINE m == TrunkMsg(w, new, "LACP")
<1>3. m \in TrunkMsgs(P) /\ m.id = w
  BY <1>2 DEF TrunkMsg, TrunkMsgs
<1> HIDE DEF m
<1>4. m \in SwMsgs(P) /\ m.kind = "trunk"
  BY <1>3, LacpFacts
<1>5. /\ Post(m) /\ Rest /\ inbox' = Append(inbox, m) /\ crossed' = crossed \ {m.id}
      /\ ifs' = ifs /\ lag' = lag /\ claimed' = claimed
  BY <1>1, <1>3 DEF m
<1>6. joined = "synced" => TrunksFollow(Ports, box, rep, inbox, ifs, crossed)
  BY DEF SwInv
<1> HIDE DEF P
<1>7. P = Ports
  BY DEF P
<1>8. inbox' \in Seq(TrunkMsgs(P))
  BY <1>2, <1>3, <1>5, AppendProperties
<1>9. joined = "synced" => TrunksFollow(P, Append(box, m), rep, inbox', ifs', crossed')
  BY <1>2, <1>3, <1>5, <1>6, <1>7, TrunkIsAggregated
<1> QED
  BY <1>2, <1>4, <1>5, <1>7, <1>8, <1>9, PostStep

LEMMA TakeStep ==
  ASSUME SwInv, IfTakesTrunk
  PROVE  SwInv'
<1> DEFINE P == Ports
           m == Head(inbox)
<1>1. /\ inbox # <<>> /\ inbox' = Tail(inbox) /\ ifs' = [ifs EXCEPT !.trunk[m.id] = m.member]
      /\ map' = map /\ rep' = rep /\ heard' = heard /\ joined' = joined
      /\ crossed' = crossed /\ lag' = lag /\ claimed' = claimed /\ box' = box
  BY DEF IfTakesTrunk, Rest
<1>2. /\ ifs \in Switches(P) /\ ifs.trunk \in [Tids -> SUBSET P] /\ inbox \in Seq(TrunkMsgs(P))
  BY DEF SwInv, SwTypeOK, Switches
<1>3. Ports' = Ports
  BY <1>1 DEF Ports
<1>4. m \in TrunkMsgs(P) /\ Tail(inbox) \in Seq(TrunkMsgs(P))
  BY <1>1, <1>2, HeadTailProperties
<1>5. m.id \in Tids /\ m.member \in SUBSET P
  BY <1>4, LacpFacts
<1> HIDE DEF m, P
<1>6. /\ ifs' \in Switches(P) /\ ifs'.trunk = [ifs.trunk EXCEPT ![m.id] = m.member]
      /\ ifs'.vlan = ifs.vlan /\ ifs'.desc = ifs.desc
  BY <1>1, <1>2, <1>5 DEF Switches
<1>7. P = Ports /\ m = Head(inbox)
  BY DEF P, m
<1>8. SwTypeOK'
  <2>1. ifs' \in Switches(Ports) /\ inbox' \in Seq(TrunkMsgs(Ports))
    BY <1>1, <1>4, <1>6, <1>7
  <2>2. /\ map' = map /\ rep' = rep /\ heard' = heard /\ joined' = joined
        /\ lag' = lag /\ claimed' = claimed /\ box' = box
    BY <1>1
  <2> QED
    BY <1>3, <2>1, <2>2 DEF SwInv, SwTypeOK
<1>9. ASSUME joined = "synced"
      PROVE  Follows(P, box, rep, ifs') /\ TrunksFollow(P, box, rep, inbox', ifs', crossed)
  <2>1. Follows(P, box, rep, ifs) /\ TrunksFollow(P, box, rep, inbox, ifs, crossed)
    BY <1>7, <1>9 DEF SwInv
  <2>2. Follows(P, box, rep, ifs')
    BY <1>6, <2>1 DEF Follows
  <2>3. \A t \in Tids : ifs'.trunk[t] = IF t = m.id THEN m.member ELSE ifs.trunk[t]
    BY <1>2, <1>5, <1>6
  <2>4. inbox \in Seq(TrunkMsgs(P)) /\ inbox # <<>> /\ inbox' = Tail(inbox)
    BY <1>1, <1>2
  <2>5. TrunksFollow(P, box, rep, Tail(inbox), ifs', crossed)
    BY <1>4, <1>7, <2>1, <2>3, <2>4, TrunkIsTaken
  <2> QED
    BY <2>2, <2>4, <2>5
<1>10. Listens(Ports, heard, rep)
  BY DEF SwInv
<1>11. rep' = rep /\ heard' = heard /\ joined' = joined /\ crossed' = crossed /\ box' = box
  BY <1>1
<1> QED
  BY <1>3, <1>7, <1>8, <1>9, <1>10, <1>11 DEF SwInv

LEMMA PortStep ==
  ASSUME SwInv, PortChanges
  PROVE  SwInv'
<1> DEFINE P == Ports
<1>1. PICK w \in P :
         /\ ifs' = [ifs EXCEPT !.desc[w] = ~@]
         /\ Post(PortMsg(w, ~ifs.desc[w])) /\ Rest /\ Quiet /\ UNCHANGED <<lag, claimed>>
  BY Zenon DEF PortChanges
<1>2. /\ ifs \in Switches(P) /\ ifs.desc \in [P -> BOOLEAN]
      /\ lag \in [Tids -> SUBSET P]
      /\ claimed \in [vlan : [Vids -> BOOLEAN], port : [Sides -> P \cup {0}]]
  BY DEF SwInv, SwTypeOK, Switches
<1> DEFINE b == ~ifs.desc[w]
           m == PortMsg(w, b)
<1>3. b \in BOOLEAN /\ ifs' = [ifs EXCEPT !.desc[w] = b]
  BY <1>1, <1>2, Zenon
<1>4. Post(m)
  BY <1>1
<1> HIDE DEF b
<1>5. m \in SwMsgs(P) /\ m.kind = "port" /\ m.id = w /\ m.desc = b
  BY <1>3 DEF PortMsg, SwMsgs
<1> HIDE DEF m
<1>6. ifs' \in Switches(P) /\ ifs'.desc = [ifs.desc EXCEPT ![w] = b]
      /\ ifs'.vlan = ifs.vlan /\ ifs'.trunk = ifs.trunk
  BY <1>2, <1>3 DEF Switches
<1>7. \A l \in P : IF m.kind = "port" /\ m.id = l THEN ifs'.desc[l] = m.desc ELSE ifs'.desc[l] = ifs.desc[l]
  BY <1>2, <1>5, <1>6
<1> HIDE DEF P
<1>8. P = Ports
  BY DEF P
<1> QED
  BY <1>1, <1>2, <1>4, <1>5, <1>6, <1>7, <1>8, PostQuietly

LEMMA LagStep ==
  ASSUME SwInv, LagChanges
  PROVE  SwInv'
<1> DEFINE P == Ports
<1>1. PICK w \in Tids, l \in map.full : \E new \in {lag[w] \cup {l}, lag[w] \ {l}} :
         /\ lag' = [lag EXCEPT ![w] = new]
         /\ Post([kind |-> "lag", info |-> lag']) /\ Rest /\ Quiet /\ UNCHANGED <<ifs, claimed>>
  BY Zenon DEF LagChanges
<1>2. /\ ifs \in Switches(P) /\ lag \in [Tids -> SUBSET P] /\ map.full \subseteq P
      /\ claimed \in [vlan : [Vids -> BOOLEAN], port : [Sides -> P \cup {0}]]
  BY DEF SwInv, SwTypeOK
<1>3. lag' \in [Tids -> SUBSET P]
  BY <1>1, <1>2
<1> DEFINE m == [kind |-> "lag", info |-> lag']
<1>4. m \in SwMsgs(P) /\ m.kind = "lag"
  BY <1>3 DEF SwMsgs
<1> HIDE DEF m
<1>5. Post(m) /\ Rest /\ Quiet /\ ifs' = ifs /\ claimed' = claimed
  BY <1>1 DEF m
<1> HIDE DEF P
<1>6. P = Ports
  BY DEF P
<1> QED
  BY <1>2, <1>3, <1>4, <1>5, <1>6, PostQuietly

LEMMA RingStep ==
  ASSUME SwInv, RingChanges
  PROVE  SwInv'
<1> DEFINE P == Ports
<1>1. Rest /\ Quiet /\ ifs' = ifs /\ lag' = lag
  BY DEF RingChanges
<1>2. /\ ifs \in Switches(P) /\ lag \in [Tids -> SUBSET P] /\ map.full \subseteq P
      /\ claimed \in [vlan : [Vids -> BOOLEAN], port : [Sides -> P \cup {0}]]
  BY DEF SwInv, SwTypeOK
<1>3. \E m \in SwMsgs(P) : /\ m.kind \in {"use", "ring"} /\ Post(m)
                           /\ claimed' \in [vlan : [Vids -> BOOLEAN], port : [Sides -> P \cup {0}]]
  <2>1. CASE \E v \in Vids :
               /\ claimed' = [claimed EXCEPT !.vlan[v] = ~@]
               /\ Post([kind |-> "use", id |-> v, on |-> ~claimed.vlan[v]])
    <3>1. PICK v \in Vids :
               /\ claimed' = [claimed EXCEPT !.vlan[v] = ~@]
               /\ Post([kind |-> "use", id |-> v, on |-> ~claimed.vlan[v]])
      BY <2>1
    <3> DEFINE b == ~claimed.vlan[v]
               m == [kind |-> "use", id |-> v, on |-> b]
    <3>2. b \in BOOLEAN /\ claimed' = [claimed EXCEPT !.vlan[v] = b]
      BY <1>2, <3>1, Zenon
    <3>3. Post(m)
      BY <3>1
    <3> HIDE DEF b
    <3>4. m \in SwMsgs(P) /\ m.kind = "use"
      BY <3>2 DEF SwMsgs
    <3> HIDE DEF m
    <3>5. claimed' \in [vlan : [Vids -> BOOLEAN], port : [Sides -> P \cup {0}]]
      BY <1>2, <3>2
    <3> QED
      BY <3>3, <3>4, <3>5
  <2>2. CASE \E side \in {"left", "right"}, l \in map.full :
               /\ claimed' = [claimed EXCEPT !.port[side] = IF @ = 0 THEN l ELSE 0]
               /\ Post([kind |-> "ring", side |-> side, id |-> l, on |-> claimed.port[side] = 0])
    <3>1. PICK side \in {"left", "right"}, l \in map.full :
               /\ claimed' = [claimed EXCEPT !.port[side] = IF @ = 0 THEN l ELSE 0]
               /\ Post([kind |-> "ring", side |-> side, id |-> l, on |-> claimed.port[side] = 0])
      BY <2>2
    <3> DEFINE b == claimed.port[side] = 0
               n == IF claimed.port[side] = 0 THEN l ELSE 0
               m == [kind |-> "ring", side |-> side, id |-> l, on |-> b]
    <3>2. b \in BOOLEAN /\ n \in P \cup {0} /\ l \in P /\ side \in Sides
      BY <1>2 DEF Sides
    <3>3. Post(m) /\ claimed' = [claimed EXCEPT !.port[side] = n]
      BY <3>1, Zenon
    <3> HIDE DEF b, n
    <3>4. m \in SwMsgs(P) /\ m.kind = "ring"
      BY <3>2 DEF SwMsgs
    <3> HIDE DEF m
    <3>5. claimed' \in [vlan : [Vids -> BOOLEAN], port : [Sides -> P \cup {0}]]
      BY <1>2, <3>2, <3>3
    <3> QED
      BY <3>3, <3>4, <3>5
  <2> QED
    BY <2>1, <2>2 DEF RingChanges
<1>4. PICK m \in SwMsgs(P) : /\ m.kind \in {"use", "ring"} /\ Post(m)
                             /\ claimed' \in [vlan : [Vids -> BOOLEAN], port : [Sides -> P \cup {0}]]
  BY <1>3
<1> HIDE DEF P
<1>5. P = Ports
  BY DEF P
<1> QED
  BY <1>1, <1>2, <1>4, <1>5, PostQuietly

-----------------------------------------------------------------------------
(* A service joins, and the interface service tells it all.                *)

LEMMA SubscribeStep ==
  ASSUME SwInv, Subscribe
  PROVE  SwInv'
<1>1. /\ map' = map /\ ifs' = ifs /\ lag' = lag /\ claimed' = claimed /\ box' = box
      /\ inbox' = inbox /\ crossed' = crossed /\ rep' = rep /\ heard' = heard /\ joined' = "subscribed"
  BY DEF Subscribe
<1>2. Ports' = Ports
  BY <1>1 DEF Ports
<1> QED
  BY <1>1, <1>2 DEF SwInv, SwTypeOK

\* What the interface service lists is what it has.
LEMMA EverythingFacts ==
  ASSUME SwInv
  PROVE  /\ Everything \in Seq(SwMsgs(Ports))
         /\ \A k \in 1 .. Len(Everything) :
              \/ \E v \in Vids : Everything[k] = VlanMsg(v, ifs.vlan[v])
              \/ \E t \in Tids : Everything[k] = TrunkMsg(t, ifs.trunk[t], "IF")
              \/ \E l \in Ports : Everything[k] = PortMsg(l, ifs.desc[l])
         /\ \A v \in Vids : \E k \in 1 .. Len(Everything) : Everything[k] = VlanMsg(v, ifs.vlan[v])
         /\ \A t \in Tids : \E k \in 1 .. Len(Everything) : Everything[k] = TrunkMsg(t, ifs.trunk[t], "IF")
         /\ \A l \in Ports : \E k \in 1 .. Len(Everything) : Everything[k] = PortMsg(l, ifs.desc[l])
<1> DEFINE P == Ports
<1> DEFINE V == [v \in Vids |-> VlanMsg(v, ifs.vlan[v])]
           T == [t \in Tids |-> TrunkMsg(t, ifs.trunk[t], "IF")]
           L == [l \in P |-> PortMsg(l, ifs.desc[l])]
<1>1. /\ IsFiniteSet(P) /\ ifs.vlan \in [Vids -> VlanInfos(P)] /\ ifs.trunk \in [Tids -> SUBSET P]
      /\ ifs.desc \in [P -> BOOLEAN]
  BY DEF SwInv, SwTypeOK, Switches
<1>2. IsFiniteSet(Vids) /\ IsFiniteSet(Tids)
  <2>1. Vids \subseteq 1 .. 4094 /\ IsFiniteSet(Tids)
    <3>1. Tids \subseteq 1 .. MaxTrunk /\ MaxTrunk \in Nat /\ 1 \in Int
      BY SwitchConstantsOK
    <3>2. IsFiniteSet(1 .. MaxTrunk)
      BY <3>1, FS_Interval
    <3>3. IsFiniteSet(Tids)
      BY <3>1, <3>2, FS_Subset
    <3> QED
      BY <3>3, SwitchConstantsOK
  <2>2. PICK n \in Nat : n = 4094
    OBVIOUS
  <2>3. IsFiniteSet(1 .. n)
    BY FS_Interval
  <2>4. Vids \in SUBSET (1 .. n)
    BY <2>1, <2>2
  <2>5. IsFiniteSet(Vids)
    BY <2>3, <2>4, FS_Subset
  <2> QED
    BY <2>1, <2>5
<1>3. V \in [Vids -> SwMsgs(P)] /\ T \in [Tids -> SwMsgs(P)] /\ L \in [P -> SwMsgs(P)]
  <2>1. ASSUME NEW v \in Vids PROVE VlanMsg(v, ifs.vlan[v]) \in SwMsgs(P)
    BY <1>1 DEF VlanMsg, SwMsgs
  <2>2. ASSUME NEW t \in Tids PROVE TrunkMsg(t, ifs.trunk[t], "IF") \in SwMsgs(P)
    BY <1>1 DEF TrunkMsg, SwMsgs
  <2>3. ASSUME NEW l \in P PROVE PortMsg(l, ifs.desc[l]) \in SwMsgs(P)
    BY <1>1 DEF PortMsg, SwMsgs
  <2> QED
    BY <2>1, <2>2, <2>3
<1>4. /\ \A v \in Vids : V[v] = VlanMsg(v, ifs.vlan[v])
      /\ \A t \in Tids : T[t] = TrunkMsg(t, ifs.trunk[t], "IF")
      /\ \A l \in P : L[l] = PortMsg(l, ifs.desc[l])
  OBVIOUS
<1>5. Everything = Listed(V) \o Listed(T) \o Listed(L)
  BY DEF Everything
<1> HIDE DEF V, T, L, P
<1> DEFINE a == Listed(V)
           b == Listed(T)
           c == Listed(L)
           e == Everything
<1>6. /\ a \in Seq(SwMsgs(P)) /\ \A i \in 1 .. Len(a) : \E v \in Vids : a[i] = V[v]
      /\ \A v \in Vids : \E i \in 1 .. Len(a) : a[i] = V[v]
  <2>1. IsFiniteSet(Vids) /\ V \in [Vids -> SwMsgs(P)]
    BY <1>2, <1>3
  <2> QED
    BY <2>1, ListedFacts, Zenon
<1>7. /\ b \in Seq(SwMsgs(P)) /\ \A i \in 1 .. Len(b) : \E t \in Tids : b[i] = T[t]
      /\ \A t \in Tids : \E i \in 1 .. Len(b) : b[i] = T[t]
  <2>1. IsFiniteSet(Tids) /\ T \in [Tids -> SwMsgs(P)]
    BY <1>2, <1>3
  <2> QED
    BY <2>1, ListedFacts, Zenon
<1>8. /\ c \in Seq(SwMsgs(P)) /\ \A i \in 1 .. Len(c) : \E l \in P : c[i] = L[l]
      /\ \A l \in P : \E i \in 1 .. Len(c) : c[i] = L[l]
  <2>1. IsFiniteSet(P) /\ L \in [P -> SwMsgs(P)]
    BY <1>1, <1>3
  <2> QED
    BY <2>1, ListedFacts, Zenon
<1> HIDE DEF a, b, c
<1>9. /\ Len(a) \in Nat /\ Len(b) \in Nat /\ Len(c) \in Nat
      /\ a \o b \in Seq(SwMsgs(P)) /\ Len(a \o b) = Len(a) + Len(b)
      /\ \A i \in 1 .. Len(a) + Len(b) : (a \o b)[i] = IF i <= Len(a) THEN a[i] ELSE b[i - Len(a)]
  BY <1>6, <1>7, <1>8, ConcatProperties, LenProperties
<1>10. /\ (a \o b) \o c \in Seq(SwMsgs(P)) /\ Len((a \o b) \o c) = Len(a \o b) + Len(c)
       /\ \A i \in 1 .. Len(a \o b) + Len(c) :
            ((a \o b) \o c)[i] = IF i <= Len(a \o b) THEN (a \o b)[i] ELSE c[i - Len(a \o b)]
  BY <1>8, <1>9, ConcatProperties
<1>11. e = (a \o b) \o c
  BY <1>5 DEF a, b, c
<1> HIDE DEF e
<1>12. /\ e \in Seq(SwMsgs(P)) /\ Len(e) = Len(a) + Len(b) + Len(c)
       /\ \A i \in 1 .. Len(a) : e[i] = a[i]
       /\ \A i \in 1 .. Len(b) : e[Len(a) + i] = b[i]
       /\ \A i \in 1 .. Len(c) : e[Len(a) + Len(b) + i] = c[i]
  BY <1>9, <1>10, <1>11
<1>13. ASSUME NEW k \in 1 .. Len(e)
       PROVE  \/ \E v \in Vids : e[k] = V[v]
              \/ \E t \in Tids : e[k] = T[t]
              \/ \E l \in P : e[k] = L[l]
  <2>1. CASE k \in 1 .. Len(a)
    <3>1. e[k] = a[k]
      BY <1>12, <2>1
    <3> QED
      BY <1>6, <2>1, <3>1
  <2>2. CASE k - Len(a) \in 1 .. Len(b)
    <3>1. e[k] = b[k - Len(a)]
      <4>1. Len(a) + (k - Len(a)) = k
        BY <1>9
      <4> QED
        BY <1>12, <2>2, <4>1
    <3> QED
      BY <1>7, <2>2, <3>1
  <2>3. CASE k - (Len(a) + Len(b)) \in 1 .. Len(c)
    <3>1. e[k] = c[k - (Len(a) + Len(b))]
      <4>1. Len(a) + Len(b) + (k - (Len(a) + Len(b))) = k
        BY <1>9
      <4> QED
        BY <1>12, <2>3, <4>1
    <3> QED
      BY <1>8, <2>3, <3>1
  <2> QED
    BY <1>9, <1>12, <2>1, <2>2, <2>3
<1>14. ASSUME NEW v \in Vids PROVE \E k \in 1 .. Len(e) : e[k] = V[v]
  <2>1. PICK i \in 1 .. Len(a) : a[i] = V[v]
    BY <1>6
  <2>2. i \in 1 .. Len(e) /\ e[i] = V[v]
    BY <1>9, <1>12, <2>1
  <2> QED
    BY <2>2
<1>15. ASSUME NEW t \in Tids PROVE \E k \in 1 .. Len(e) : e[k] = T[t]
  <2>1. PICK i \in 1 .. Len(b) : b[i] = T[t]
    BY <1>7
  <2>2. Len(a) + i \in 1 .. Len(e) /\ e[Len(a) + i] = T[t]
    BY <1>9, <1>12, <2>1
  <2> QED
    BY <2>2
<1>16. ASSUME NEW l \in P PROVE \E k \in 1 .. Len(e) : e[k] = L[l]
  <2>1. PICK i \in 1 .. Len(c) : c[i] = L[l]
    BY <1>8
  <2>2. Len(a) + Len(b) + i \in 1 .. Len(e) /\ e[Len(a) + Len(b) + i] = L[l]
    BY <1>9, <1>12, <2>1
  <2> QED
    BY <2>2
<1>17. e = Everything
  BY DEF e
<1> QED
  BY <1>4, <1>12, <1>13, <1>14, <1>15, <1>16, <1>17 DEF P

LEMMA AnswerStep ==
  ASSUME SwInv, Answer
  PROVE  SwInv'
<1> DEFINE P == Ports
           e == Everything
<1>1. /\ map' = map /\ ifs' = ifs /\ lag' = lag /\ claimed' = claimed /\ box' = box \o e
      /\ inbox' = inbox /\ crossed' = {t \in Tids : Unheard(t)} /\ rep' = rep /\ heard' = heard /\ joined = "subscribed" /\ joined' = "synced"
  BY DEF Answer
<1>2. Ports' = P
  BY <1>1 DEF Ports
<1> HIDE DEF P, e
<1>3. P = Ports
  BY DEF P
<1>4. /\ e \in Seq(SwMsgs(P))
      /\ \A k \in 1 .. Len(e) :
           \/ \E v \in Vids : e[k] = VlanMsg(v, ifs.vlan[v])
           \/ \E t \in Tids : e[k] = TrunkMsg(t, ifs.trunk[t], "IF")
           \/ \E l \in P : e[k] = PortMsg(l, ifs.desc[l])
      /\ \A v \in Vids : \E k \in 1 .. Len(e) : e[k] = VlanMsg(v, ifs.vlan[v])
      /\ \A t \in Tids : \E k \in 1 .. Len(e) : e[k] = TrunkMsg(t, ifs.trunk[t], "IF")
      /\ \A l \in P : \E k \in 1 .. Len(e) : e[k] = PortMsg(l, ifs.desc[l])
  BY <1>3, EverythingFacts DEF e
<1>5. box \in Seq(SwMsgs(P)) /\ box \o e \in Seq(SwMsgs(P))
  <2>1. box \in Seq(SwMsgs(P))
    BY <1>3 DEF SwInv, SwTypeOK
  <2> QED
    BY <1>4, <2>1, ConcatProperties
<1>6. SwTypeOK'
  BY <1>1, <1>2, <1>3, <1>5 DEF SwInv, SwTypeOK
<1>7. \A k \in 1 .. Len(e) : e[k] \in SwMsgs(P)
  BY <1>4, ElementOfSeq
<1>8. \A k \in 1 .. Len(e) :
        /\ e[k].kind = "vlan" => e[k].info = ifs.vlan[e[k].id]
        /\ e[k].kind = "trunk" => e[k].member = ifs.trunk[e[k].id]
        /\ e[k].kind = "port" => e[k].desc = ifs.desc[e[k].id]
  <2> TAKE k \in 1 .. Len(e)
  <2>1. CASE \E v \in Vids : e[k] = VlanMsg(v, ifs.vlan[v])
    BY <2>1 DEF VlanMsg
  <2>2. CASE \E t \in Tids : e[k] = TrunkMsg(t, ifs.trunk[t], "IF")
    BY <2>2 DEF TrunkMsg
  <2>3. CASE \E l \in P : e[k] = PortMsg(l, ifs.desc[l])
    BY <2>3 DEF PortMsg
  <2> QED
    BY <1>4, <2>1, <2>2, <2>3
<1>9. ASSUME NEW v \in Vids
      PROVE  LatestIs(box \o e, VlanNews(P, v), VlanOf(rep.vlan[v]), VlanOf(ifs.vlan[v]))
  <2> DEFINE s == VlanNews(P, v)
  <2>1. \A k \in 1 .. Len(e) : e[k] \in DOMAIN s => s[e[k]] = VlanOf(ifs.vlan[v])
    BY <1>7, <1>8, NewsFacts
  <2>2. \E k \in 1 .. Len(e) : e[k] \in DOMAIN s
    <3>1. PICK k \in 1 .. Len(e) : e[k] = VlanMsg(v, ifs.vlan[v])
      BY <1>4
    <3>2. e[k].kind = "vlan" /\ e[k].id = v
      BY <3>1 DEF VlanMsg
    <3> QED
      BY <1>7, <3>2, NewsFacts
  <2> HIDE DEF s
  <2>3. LatestIs(box \o e, s, VlanOf(rep.vlan[v]), VlanOf(ifs.vlan[v]))
    BY <1>4, <1>5, <2>1, <2>2, LatestIsAnswered
  <2> QED
    BY <2>3 DEF s
<1>10. ASSUME NEW t \in Tids \ crossed'
       PROVE  TrunkFollows(P, t, box \o e, rep, inbox, ifs)
  <2> DEFINE s == TrunkNews(P, t)
  <2>1. \A k \in 1 .. Len(e) : e[k] \in DOMAIN s => s[e[k]] = ifs.trunk[t]
    BY <1>7, <1>8, NewsFacts
  <2>2. \E k \in 1 .. Len(e) : e[k] \in DOMAIN s
    <3>1. PICK k \in 1 .. Len(e) : e[k] = TrunkMsg(t, ifs.trunk[t], "IF")
      BY <1>4
    <3>2. e[k].kind = "trunk" /\ e[k].id = t
      BY <3>1 DEF TrunkMsg
    <3> QED
      BY <1>7, <3>2, NewsFacts
  <2> HIDE DEF s
  <2>3. LatestIs(box \o e, s, rep.trunk[t].member, ifs.trunk[t])
    BY <1>4, <1>5, <2>1, <2>2, LatestIsAnswered
  <2>4. ASSUME NEW k \in 1 .. Len(inbox) PROVE inbox[k] \notin DOMAIN s
    <3>1. inbox[k] \in TrunkMsgs(P) /\ k \in DOMAIN inbox
      BY <1>3, ElementOfSeq DEF SwInv, SwTypeOK
    <3>2. inbox[k] \in SwMsgs(P) /\ inbox[k].id # t
      BY <1>1, <3>1, LacpFacts DEF Unheard
    <3> QED
      BY <3>2, NewsFacts DEF s
  <2>5. LatestIs(inbox, s, ifs.trunk[t], ifs.trunk[t])
    BY <2>4 DEF LatestIs
  <2> QED
    BY <2>3, <2>5 DEF s, TrunkFollows
<1>11. ASSUME NEW l \in P
       PROVE  LatestIs(box \o e, PortNews(P, l), rep.desc[l], ifs.desc[l])
  <2> DEFINE s == PortNews(P, l)
  <2>1. \A k \in 1 .. Len(e) : e[k] \in DOMAIN s => s[e[k]] = ifs.desc[l]
    BY <1>7, <1>8, NewsFacts
  <2>2. \E k \in 1 .. Len(e) : e[k] \in DOMAIN s
    <3>1. PICK k \in 1 .. Len(e) : e[k] = PortMsg(l, ifs.desc[l])
      BY <1>4
    <3>2. e[k].kind = "port" /\ e[k].id = l
      BY <3>1 DEF PortMsg
    <3> QED
      BY <1>7, <3>2, NewsFacts
  <2> HIDE DEF s
  <2>3. LatestIs(box \o e, s, rep.desc[l], ifs.desc[l])
    BY <1>4, <1>5, <2>1, <2>2, LatestIsAnswered
  <2> QED
    BY <2>3 DEF s
<1>12. Follows(P, box \o e, rep, ifs) /\ TrunksFollow(P, box \o e, rep, inbox, ifs, crossed')
  BY <1>9, <1>10, <1>11 DEF Follows, TrunksFollow
<1>13. Listens(Ports, heard, rep)
  BY DEF SwInv
<1> QED
  BY <1>1, <1>2, <1>3, <1>6, <1>12, <1>13 DEF SwInv

-----------------------------------------------------------------------------
(* The numbering of the switch ports.                                      *)

Groups  == (1 .. MaxSlot) \X (1 .. MaxType)
Confs   == UNION {[A -> PortEntries] : A \in SUBSET Int}
Numbers == [conf : Confs, base : [Groups -> Int], count : Int, next : Int]

LEMMA SwitchBounds == MaxSlot \in Nat /\ MaxType \in Nat /\ MaxPort \in Nat /\ MaxTrunk \in Nat
BY SwitchConstantsOK

\* A port of a product's table, and one in use.
LEMMA EntryFacts ==
  ASSUME NEW t \in Tables
  PROVE  /\ Len(t) \in Nat /\ DOMAIN t = 1 .. Len(t)
         /\ \A i \in 1 .. Len(t) : /\ t[i] \in PortEntries
                                   /\ t[i].slot \in 1 .. MaxSlot /\ t[i].type \in 1 .. MaxType
                                   /\ t[i].port \in 1 .. MaxPort
<1>1. t \in Seq(PortEntries)
  BY TablesAreProper
<1>2. Len(t) \in Nat /\ DOMAIN t = 1 .. Len(t) /\ \A i \in 1 .. Len(t) : t[i] \in PortEntries
  BY <1>1, LenProperties, ElementOfSeq
<1> QED
  BY <1>2 DEF PortEntries

\* The ports of a group have a number each.
LEMMA GroupFacts ==
  ASSUME NEW t \in Tables, NEW s \in 1 .. MaxSlot, NEW k \in 1 .. MaxType
  PROVE  LET G == OfSlot(t, s, k)
         IN /\ IsFiniteSet(G) /\ Cardinality(G) \in Nat /\ G \subseteq 1 .. Len(t)
            /\ \A i, j \in G : t[i].port = t[j].port => i = j
            /\ {t[i].port : i \in G} = 1 .. Cardinality(G)
<1> DEFINE G == OfSlot(t, s, k)
           n == Cardinality(G)
           f == [i \in G |-> t[i].port]
<1>1. Len(t) \in Nat /\ G \subseteq 1 .. Len(t)
  BY EntryFacts DEF OfSlot
<1>2. IsFiniteSet(G) /\ n \in Nat
  <2>1. IsFiniteSet(1 .. Len(t))
    BY <1>1, FS_Interval
  <2> QED
    BY <1>1, <2>1, FS_Subset, FS_CardinalityType
<1>3. {t[i].port : i \in G} = 1 .. n
  BY TablesAreProper
<1>4. f \in Surjection(G, 1 .. n)
  BY <1>3 DEF Surjection
<1>5. Cardinality(1 .. n) = n
  <2> HIDE DEF n
  <2>1. n \in Nat /\ 1 \in Int
    BY <1>2
  <2>2. Cardinality(1 .. n) = IF 1 > n THEN 0 ELSE n - 1 + 1
    BY <2>1, FS_Interval
  <2> QED
    BY <2>1, <2>2
<1>6. f \in Injection(G, 1 .. n)
  BY <1>2, <1>4, <1>5, FS_SurjSameCardinalityImpliesInj
<1>7. \A i, j \in G : f[i] = f[j] => i = j
  BY <1>6 DEF Injection, IsInjective
<1> QED
  BY <1>1, <1>2, <1>3, <1>7

\* One entry of the table.
LEMMA AddPortFacts ==
  ASSUME NEW acc \in Numbers, NEW e \in PortEntries, NEW l, l = e.port + acc.next
  PROVE  /\ AddPort(acc, e) \in Numbers
         /\ AddPort(acc, e).base = acc.base /\ AddPort(acc, e).next = acc.next
         /\ l \in DOMAIN acc.conf => AddPort(acc, e) = acc
         /\ l \notin DOMAIN acc.conf =>
              /\ AddPort(acc, e).count = acc.count + 1
              /\ DOMAIN AddPort(acc, e).conf = DOMAIN acc.conf \cup {l}
              /\ AddPort(acc, e).conf[l] = e
              /\ \A x \in DOMAIN acc.conf : AddPort(acc, e).conf[x] = acc.conf[x]
<1> DEFINE g == AddPort(acc, e)
           c == [x \in DOMAIN acc.conf \cup {l} |-> IF x = l THEN e ELSE acc.conf[x]]
<1>1. l \in DOMAIN acc.conf => g = acc
  BY DEF AddPort
<1>2. /\ acc.conf \in Confs /\ acc.base \in [Groups -> Int] /\ acc.count \in Int /\ acc.next \in Int
      /\ e.port \in Int
  BY DEF Numbers, PortEntries
<1>3. PICK A \in SUBSET Int : acc.conf \in [A -> PortEntries]
  BY <1>2 DEF Confs
<1>4. c \in [A \cup {l} -> PortEntries] /\ A \cup {l} \in SUBSET Int
  <2>1. DOMAIN acc.conf = A /\ l \in Int
    BY <1>2, <1>3
  <2>2. ASSUME NEW x \in A \cup {l} PROVE (IF x = l THEN e ELSE acc.conf[x]) \in PortEntries
    BY <1>3
  <2> QED
    BY <2>1, <2>2
<1>5. c \in Confs
  BY <1>4 DEF Confs
<1>6. ASSUME l \notin DOMAIN acc.conf PROVE g = [acc EXCEPT !.conf = c, !.count = acc.count + 1]
  BY <1>6 DEF AddPort
<1>7. DOMAIN c = DOMAIN acc.conf \cup {l} /\ c[l] = e /\ \A x \in DOMAIN acc.conf : x # l => c[x] = acc.conf[x]
  OBVIOUS
<1> HIDE DEF c, g
<1>8. ASSUME l \notin DOMAIN acc.conf
      PROVE  g \in Numbers /\ g.conf = c /\ g.count = acc.count + 1 /\ g.base = acc.base /\ g.next = acc.next
  <2>1. acc = [conf |-> acc.conf, base |-> acc.base, count |-> acc.count, next |-> acc.next]
    BY DEF Numbers
  <2>2. g = [conf |-> c, base |-> acc.base, count |-> acc.count + 1, next |-> acc.next]
    BY <1>6, <1>8, <2>1
  <2>3. acc.count + 1 \in Int
    BY <1>2
  <2> QED
    BY <1>2, <1>5, <2>2, <2>3 DEF Numbers
<1>9. g = AddPort(acc, e)
  BY DEF g
<1> QED
  BY <1>1, <1>7, <1>8, <1>9

LEMMA AddEntryTypes ==
  ASSUME NEW t \in Tables, NEW acc \in Numbers, NEW s, NEW k, NEW i \in 1 .. Len(t)
  PROVE  AddEntry(t, acc, s, k, i) \in Numbers
BY EntryFacts, AddPortFacts DEF AddEntry

\* A group that starts at b.
Based(g, s, k, b) == [g EXCEPT !.base[<<s, k>>] = b, !.next = b + g.count]

LEMMA BasedIs ==
  ASSUME NEW g \in Numbers, NEW s, NEW k, NEW b \in Int
  PROVE  Based(g, s, k, b) = [conf |-> g.conf, base |-> [g.base EXCEPT ![<<s, k>>] = b],
                              count |-> g.count, next |-> b + g.count]
<1>1. /\ g = [conf |-> g.conf, base |-> g.base, count |-> g.count, next |-> g.next]
      /\ g.base \in [Groups -> Int] /\ g.count \in Int
  BY DEF Numbers
<1> DEFINE z    == <<s, k>>
           base == [g.base EXCEPT ![z] = b]
           next == b + g.count
<1>2. Based(g, s, k, b) = [g EXCEPT !.base = base, !.next = next]
  BY DEF Based
<1> HIDE DEF z
<1>3. base \in [Groups -> Int] /\ next \in Int
  <2>1. ASSUME NEW f \in [Groups -> Int] PROVE [f EXCEPT ![z] = b] \in [Groups -> Int]
    OBVIOUS
  <2>2. g.base \in [Groups -> Int] /\ g.count \in Int
    BY <1>1
  <2> QED
    BY <2>1, <2>2
<1> HIDE DEF base, next
<1>4. Based(g, s, k, b) = [conf |-> g.conf, base |-> base, count |-> g.count, next |-> next]
  BY <1>1, <1>2, <1>3
<1> QED
  BY <1>4 DEF base, next, z

\* The loop over the table for one group.
GroupRounds(t, acc, s, k, h) ==
  /\ h[0] = [acc EXCEPT !.count = 0]
  /\ \A i \in 1 .. Len(t) : h[i] = AddEntry(t, h[i - 1], s, k, i)
  /\ AddGroup(t, acc, s, k) = Based(h[Len(t)], s, k, acc.next)

LEMMA EntriesLoop ==
  ASSUME NEW t \in Tables, NEW acc \in Numbers, NEW s, NEW k, InRange(t, s, k)
  PROVE  \E h \in [0 .. Len(t) -> Numbers] : GroupRounds(t, acc, s, k, h)
<1> DEFINE N == Len(t)
           start == [acc EXCEPT !.count = 0]
           Round(x) == AddEntry(t, x[1], s, k, x[2])
           F == [x \in Numbers \X (1 .. N) |-> Round(x)]
           Rounds(g) == [i \in 0 .. N |-> IF i = 0 THEN start ELSE AddEntry(t, g[i - 1], s, k, i)]
           h == CHOOSE g : g = Rounds(g)
<1>1. N \in Nat
  BY EntryFacts
<1>2. start \in Numbers
  BY DEF Numbers
<1>3. /\ F \in [Numbers \X (1 .. N) -> Numbers]
      /\ \A d \in Numbers, i \in 1 .. N : F[<<d, i>>] = AddEntry(t, d, s, k, i)
  <2>1. \A x \in Numbers \X (1 .. N) : Round(x) \in Numbers
    BY AddEntryTypes
  <2> QED
    BY <2>1
<1>4. AddGroup(t, acc, s, k) = Based(h[N], s, k, acc.next)
  BY DEF AddGroup, Based
<1> HIDE DEF F, start, N
<1>5. PICK g \in [0 .. N -> Numbers] : IsLoop(g, N, start, F)
  <2>1. F \in [Numbers \X (1 .. N) -> Numbers]
    BY <1>3
  <2> QED
    BY <1>1, <1>2, <2>1, LoopExists
<1>6. g = Rounds(g)
  <2>1. ASSUME NEW i \in 0 .. N PROVE g[i] = IF i = 0 THEN start ELSE AddEntry(t, g[i - 1], s, k, i)
    <3>1. CASE i = 0
      BY <1>5, <3>1 DEF IsLoop
    <3>2. CASE i # 0
      <4>1. i \in 1 .. N /\ i - 1 \in 0 .. N
        BY <1>1, <3>2
      <4> QED
        BY <1>3, <1>5, <3>2, <4>1 DEF IsLoop
    <3> QED
      BY <3>1, <3>2
  <2> QED
    BY <2>1
<1>7. h = Rounds(h)
  BY <1>6
<1> HIDE DEF h
<1>8. h[0] = start /\ \A i \in 1 .. N : h[i] = AddEntry(t, h[i - 1], s, k, i)
  BY <1>1, <1>7
<1>9. h \in [0 .. N -> Numbers]
  <2> DEFINE X == {i \in 0 .. N : h[i] \in Numbers}
  <2>1. 0 \in X
    BY <1>1, <1>2, <1>8
  <2>2. ASSUME NEW i \in 1 .. N, i - 1 \in X PROVE i \in X
    BY <1>8, <2>2, AddEntryTypes DEF N
  <2> HIDE DEF X
  <2>3. X = 0 .. N
    <3>1. X \in SUBSET (0 .. N)
      BY DEF X
    <3> QED
      BY <1>1, <2>1, <2>2, <3>1, Climb
  <2> QED
    BY <1>7, <2>3 DEF X
<1> QED
  BY <1>4, <1>8, <1>9 DEF start, N, GroupRounds

\* The ports of the entries J of a group, above those that had a number before.
Above(t, acc, J, g) ==
  /\ g \in Numbers /\ g.next = acc.next /\ g.base = acc.base /\ g.count = Cardinality(J)
  /\ DOMAIN g.conf = 1 .. acc.next \cup {acc.next + t[j].port : j \in J}
  /\ \A x \in 1 .. acc.next : g.conf[x] = acc.conf[x]
  /\ \A j \in J : g.conf[acc.next + t[j].port] = t[j]

LEMMA EntryPlaced ==
  ASSUME NEW t \in Tables, NEW acc \in Numbers, acc.next \in Nat,
         NEW s \in 1 .. MaxSlot, NEW k \in 1 .. MaxType, NEW i \in OfSlot(t, s, k),
         NEW J \in SUBSET OfSlot(t, s, k), i \notin J, NEW g, Above(t, acc, J, g)
  PROVE  Above(t, acc, J \cup {i}, AddPort(g, t[i]))
<1> DEFINE l == acc.next + t[i].port
           n == AddPort(g, t[i])
           G == OfSlot(t, s, k)
<1>1. /\ IsFiniteSet(G) /\ \A j \in G : t[j].port = t[i].port => j = i
      /\ \A j \in G : t[j] \in PortEntries /\ t[j].port \in 1 .. MaxPort
  BY GroupFacts, EntryFacts
<1>2. t[i] \in PortEntries /\ t[i].port \in 1 .. MaxPort /\ g \in Numbers /\ l = t[i].port + g.next /\ MaxPort \in Nat
  BY <1>1, SwitchBounds DEF Above
<1>3. l \notin DOMAIN g.conf
  <2>1. l \notin 1 .. acc.next
    BY <1>2
  <2>2. ASSUME NEW j \in J, acc.next + t[j].port = l PROVE FALSE
    <3>1. t[j].port \in 1 .. MaxPort
      BY <1>1
    <3>2. t[j].port = t[i].port
      BY <1>2, <2>2, <3>1
    <3> QED
      BY <1>1, <3>2
  <2> QED
    BY <2>1, <2>2 DEF Above
<1> HIDE DEF l, G
<1>4. /\ n \in Numbers /\ n.base = g.base /\ n.next = g.next /\ n.count = g.count + 1
      /\ DOMAIN n.conf = DOMAIN g.conf \cup {l} /\ n.conf[l] = t[i]
      /\ \A x \in DOMAIN g.conf : n.conf[x] = g.conf[x]
  BY <1>2, <1>3, AddPortFacts
<1> HIDE DEF n
<1>5. Cardinality(J \cup {i}) = Cardinality(J) + 1
  <2>1. IsFiniteSet(J)
    BY <1>1, FS_Subset DEF G
  <2> QED
    BY <2>1, FS_AddElement
<1>6. DOMAIN n.conf = 1 .. acc.next \cup {acc.next + t[j].port : j \in J \cup {i}}
  BY <1>4 DEF Above, l
<1>7. \A x \in 1 .. acc.next : n.conf[x] = acc.conf[x]
  BY <1>4 DEF Above
<1>8. ASSUME NEW j \in J \cup {i} PROVE n.conf[acc.next + t[j].port] = t[j]
  <2>1. CASE j = i
    BY <1>4, <2>1 DEF l
  <2>2. CASE j \in J
    BY <1>4, <2>2 DEF Above
  <2> QED
    BY <2>1, <2>2
<1>9. n.next = acc.next /\ n.base = acc.base /\ n.count = Cardinality(J \cup {i})
  BY <1>4, <1>5 DEF Above
<1>10. Above(t, acc, J \cup {i}, n)
  BY <1>4, <1>6, <1>7, <1>8, <1>9 DEF Above
<1> QED
  BY <1>10 DEF n

\* A table of which the groups D have been numbered: every entry of them is found at
\* its panel number above the base of its group, and nothing else is.
Group(e) == <<e.slot, e.type>>
Placed(t, acc, D) ==
  /\ acc \in Numbers /\ acc.next \in Nat /\ DOMAIN acc.conf = 1 .. acc.next
  /\ \A i \in 1 .. Len(t) : Group(t[i]) \in D =>
       /\ acc.base[Group(t[i])] \in Nat /\ acc.base[Group(t[i])] + t[i].port \in 1 .. acc.next
       /\ acc.conf[acc.base[Group(t[i])] + t[i].port] = t[i]
  /\ \A l \in 1 .. acc.next : \E i \in 1 .. Len(t) :
       /\ Group(t[i]) \in D /\ acc.conf[l] = t[i] /\ l = acc.base[Group(t[i])] + t[i].port

LEMMA GroupAbove ==
  ASSUME NEW t \in Tables, NEW acc, NEW D, Placed(t, acc, D),
         NEW s \in 1 .. MaxSlot, NEW k \in 1 .. MaxType, InRange(t, s, k)
  PROVE  \E g : /\ Above(t, acc, OfSlot(t, s, k), g)
                /\ AddGroup(t, acc, s, k) = Based(g, s, k, acc.next)
<1>2. acc \in Numbers
  BY DEF Placed
<1>9. PICK h \in [0 .. Len(t) -> Numbers] : GroupRounds(t, acc, s, k, h)
  BY <1>2, EntriesLoop
<1> DEFINE N == Len(t)
           G == OfSlot(t, s, k)
           J(i) == {j \in G : j <= i}
<1>1. N \in Nat /\ G \subseteq 1 .. N /\ acc \in Numbers /\ acc.next \in Nat /\ DOMAIN acc.conf = 1 .. acc.next
  BY EntryFacts, GroupFacts DEF Placed
<1> DEFINE X == {i \in 0 .. N : Above(t, acc, J(i), h[i])}
<1> HIDE DEF N, G
<1>7. N \in Nat /\ \A j \in G : j \in Int /\ 1 <= j /\ j <= N
  BY <1>1
<1>8. \A i, j : j \in J(i) <=> j \in G /\ j <= i
  OBVIOUS
<1> HIDE DEF J
<1>3. 0 \in X
  <2>1. \A x : x \notin J(0)
    BY <1>7, <1>8
  <2>2. /\ h[0] \in Numbers /\ h[0].next = acc.next /\ h[0].base = acc.base /\ h[0].count = 0
        /\ h[0].conf = acc.conf
    <3>1. h[0] = [acc EXCEPT !.count = 0] /\ acc \in Numbers
      BY <1>1, <1>9 DEF GroupRounds
    <3>2. acc = [conf |-> acc.conf, base |-> acc.base, count |-> acc.count, next |-> acc.next]
      BY <3>1 DEF Numbers
    <3>3. h[0] = [conf |-> acc.conf, base |-> acc.base, count |-> 0, next |-> acc.next]
      BY <3>1, <3>2
    <3>4. acc.conf \in Confs /\ acc.base \in [Groups -> Int] /\ acc.next \in Int
      BY <3>1 DEF Numbers
    <3> QED
      BY <3>3, <3>4 DEF Numbers
  <2>3. Cardinality({}) = 0
    BY FS_EmptySet
  <2> DEFINE E == {}
  <2>4. J(0) = E /\ \A x : x \notin E
    BY <2>1
  <2>5. Cardinality(E) = 0
    BY <2>3
  <2> HIDE DEF E
  <2>6. Above(t, acc, E, h[0])
    BY <1>1, <2>2, <2>4, <2>5 DEF Above
  <2> QED
    BY <1>1, <2>4, <2>6
<1>4. ASSUME NEW i \in 1 .. N, i - 1 \in X PROVE i \in X
  <2>1. CASE i \in G
    <3>1. J(i) = J(i - 1) \cup {i} /\ i \notin J(i - 1)
      <4>1. ASSUME NEW j PROVE (j \in J(i) <=> j \in J(i - 1) \/ j = i) /\ i \notin J(i - 1)
        <5>1. \A x \in G : x <= i <=> x <= i - 1 \/ x = i
          BY <1>7
        <5>2. i \in G /\ ~(i <= i - 1) /\ i <= i
          BY <1>7, <2>1
        <5> QED
          BY <1>8, <5>1, <5>2, Zenon
      <4> QED
        BY <4>1
    <3>2. h[i] = AddPort(h[i - 1], t[i])
      BY <1>9, <2>1 DEF AddEntry, G, N, GroupRounds
    <3>3. J(i - 1) \in SUBSET G /\ Above(t, acc, J(i - 1), h[i - 1])
      BY <1>4, <1>8
    <3>4. Above(t, acc, J(i - 1) \cup {i}, AddPort(h[i - 1], t[i]))
      <4> DEFINE I == J(i - 1)
                 f == h[i - 1]
      <4>1. /\ i \in OfSlot(t, s, k) /\ I \in SUBSET OfSlot(t, s, k) /\ i \notin I /\ Above(t, acc, I, f)
            /\ acc \in Numbers /\ acc.next \in Nat
        BY <1>1, <2>1, <3>1, <3>3 DEF G
      <4> HIDE DEF I, f
      <4>2. Above(t, acc, I \cup {i}, AddPort(f, t[i]))
        BY <4>1, EntryPlaced
      <4> QED
        BY <4>2 DEF I, f
    <3> QED
      <4>1. i \in 0 .. N
        BY <1>7
      <4> QED
        BY <3>1, <3>2, <3>4, <4>1
  <2>2. CASE i \notin G
    <3>1. J(i) = J(i - 1)
      <4>1. ASSUME NEW j PROVE j \in J(i) <=> j \in J(i - 1)
        BY <1>7, <1>8, <2>2
      <4> QED
        BY <4>1
    <3>2. h[i] = h[i - 1]
      BY <1>9, <2>2 DEF AddEntry, G, N, GroupRounds
    <3> QED
      BY <1>4, <3>1, <3>2
  <2> QED
    BY <2>1, <2>2
<1>5. J(N) = G
  BY <1>7, <1>8
<1>6. Above(t, acc, G, h[N])
  <2>1. X \in SUBSET (0 .. N)
    OBVIOUS
  <2> HIDE DEF X
  <2>2. X = 0 .. N
    BY <1>1, <1>3, <1>4, <2>1, Climb
  <2>3. N \in X
    BY <1>1, <2>2
  <2> QED
    BY <1>5, <2>3 DEF X
<1> QED
  BY <1>9, <1>6 DEF G, N, GroupRounds

\* A group that is added is placed, and disturbs no other.
LEMMA GroupAdded ==
  ASSUME NEW t \in Tables, NEW acc, NEW D, Placed(t, acc, D),
         NEW s \in 1 .. MaxSlot, NEW k \in 1 .. MaxType, <<s, k>> \notin D
  PROVE  Placed(t, AddGroup(t, acc, s, k), D \cup {<<s, k>>})
<1> DEFINE G == OfSlot(t, s, k)
           n == AddGroup(t, acc, s, k)
           E == D \cup {<<s, k>>}
<1>1. /\ DOMAIN t = 1 .. Len(t) /\ G = {i \in 1 .. Len(t) : Group(t[i]) = <<s, k>>}
      /\ \A i \in 1 .. Len(t) : t[i].port \in 1 .. MaxPort /\ Group(t[i]) \in Groups
      /\ <<s, k>> \in Groups
  BY EntryFacts DEF OfSlot, Group, Groups
<1>2. CASE ~InRange(t, s, k)
  <2>1. n = acc
    BY <1>2 DEF AddGroup
  <2>2. ASSUME NEW i \in 1 .. Len(t) PROVE Group(t[i]) # <<s, k>>
    <3> SUFFICES ASSUME Group(t[i]) = <<s, k>> PROVE InRange(t, s, k)
      BY <1>2
    <3>1. t[i].slot = s /\ t[i].type = k /\ s <= s /\ k <= k
      BY DEF Group
    <3> QED
      BY <1>1, <3>1 DEF InRange
  <2>3. \A i \in 1 .. Len(t) : Group(t[i]) \in E <=> Group(t[i]) \in D
    BY <2>2
  <2> HIDE DEF E
  <2> QED
    BY <2>1, <2>3 DEF Placed, n, E
<1>3. CASE InRange(t, s, k)
  <2>1. PICK g : Above(t, acc, G, g) /\ n = Based(g, s, k, acc.next)
    BY <1>3, GroupAbove
  <2> DEFINE c == Cardinality(G)
             b == acc.next
  <2>2. c \in Nat /\ b \in Nat /\ DOMAIN acc.conf = 1 .. b /\ g \in Numbers /\ g.count = c /\ acc.base \in [Groups -> Int]
    BY <2>1, GroupFacts DEF Placed, Above, Numbers
  <2>3. n = [conf |-> g.conf, base |-> [acc.base EXCEPT ![<<s, k>>] = b], count |-> c, next |-> b + c]
    <3>1. g.base = acc.base /\ g.count = c /\ n = Based(g, s, k, b)
      BY <2>1, <2>2 DEF Above
    <3> HIDE DEF c, b, n, G
    <3>2. b \in Int
      BY <2>2
    <3>3. Based(g, s, k, b) = [conf |-> g.conf, base |-> [g.base EXCEPT ![<<s, k>>] = b],
                               count |-> g.count, next |-> b + g.count]
      BY <2>2, <3>2, BasedIs, Zenon
    <3> QED
      BY <3>1, <3>3, Zenon
  <2>4. /\ g.conf \in Confs /\ b + c \in Nat /\ [acc.base EXCEPT ![<<s, k>>] = b] \in [Groups -> Int]
        /\ [acc.base EXCEPT ![<<s, k>>] = b][<<s, k>>] = b
        /\ \A x \in Groups : x # <<s, k>> => [acc.base EXCEPT ![<<s, k>>] = b][x] = acc.base[x]
    BY <1>1, <2>2 DEF Numbers
  <2>5. {t[i].port : i \in G} = 1 .. c
    BY GroupFacts
  <2>6. DOMAIN g.conf = 1 .. b + c
    <3>1. DOMAIN g.conf = 1 .. b \cup {b + t[j].port : j \in G}
      BY <2>1 DEF Above
    <3>2. {b + t[j].port : j \in G} = {b + p : p \in 1 .. c}
      BY <2>5
    <3> HIDE DEF b, c, G
    <3>3. 1 .. b \cup {b + p : p \in 1 .. c} = 1 .. b + c
      <4>1. ASSUME NEW l \in 1 .. b + c, l \notin 1 .. b PROVE \E p \in 1 .. c : l = b + p
        <5>1. l - b \in 1 .. c /\ l = b + (l - b)
          BY <2>2, <4>1
        <5> QED
          BY <5>1
      <4>2. ASSUME NEW p \in 1 .. c PROVE b + p \in 1 .. b + c
        BY <2>2
      <4>3. 1 .. b \subseteq 1 .. b + c
        BY <2>2
      <4> QED
        BY <4>1, <4>2, <4>3
    <3> QED
      BY <3>1, <3>2, <3>3
  <2>7. /\ n \in Numbers /\ n.next = b + c /\ n.conf = g.conf /\ n.base[<<s, k>>] = b
        /\ \A x \in Groups : x # <<s, k>> => n.base[x] = acc.base[x]
    <3> HIDE DEF c, b, n
    <3> QED
      BY <2>2, <2>3, <2>4 DEF Numbers
  <2>8. /\ \A l \in 1 .. b : g.conf[l] = acc.conf[l]
        /\ \A j \in G : g.conf[b + t[j].port] = t[j]
    BY <2>1 DEF Above
  <2> HIDE DEF c, n
  <2>9. ASSUME NEW i \in 1 .. Len(t), Group(t[i]) \in E
        PROVE  /\ n.base[Group(t[i])] \in Nat /\ n.base[Group(t[i])] + t[i].port \in 1 .. n.next
               /\ n.conf[n.base[Group(t[i])] + t[i].port] = t[i]
    <3>1. CASE Group(t[i]) = <<s, k>>
      <4>1. i \in G /\ t[i].port \in 1 .. c
        BY <1>1, <2>5, <3>1
      <4> HIDE DEF G, b
      <4>2. n.conf[b + t[i].port] = t[i]
        BY <2>7, <2>8, <4>1
      <4>3. b + t[i].port \in 1 .. b + c
        BY <2>2, <4>1
      <4> QED
        BY <2>2, <2>7, <3>1, <4>2, <4>3
    <3>2. CASE Group(t[i]) # <<s, k>>
      <4>1. /\ acc.base[Group(t[i])] \in Nat /\ acc.base[Group(t[i])] + t[i].port \in 1 .. b
            /\ acc.conf[acc.base[Group(t[i])] + t[i].port] = t[i]
        BY <2>9, <3>2 DEF Placed
      <4>2. n.base[Group(t[i])] = acc.base[Group(t[i])]
        BY <1>1, <2>7, <3>2
      <4> HIDE DEF G, b
      <4> QED
        BY <2>2, <2>7, <2>8, <4>1, <4>2
    <3> QED
      BY <3>1, <3>2
  <2>10. ASSUME NEW l \in 1 .. n.next
         PROVE  \E i \in 1 .. Len(t) :
                  Group(t[i]) \in E /\ n.conf[l] = t[i] /\ l = n.base[Group(t[i])] + t[i].port
    <3>1. CASE l \in 1 .. b
      <4>1. PICK i \in 1 .. Len(t) :
              Group(t[i]) \in D /\ acc.conf[l] = t[i] /\ l = acc.base[Group(t[i])] + t[i].port
        BY <3>1 DEF Placed
      <4>2. Group(t[i]) # <<s, k>> /\ Group(t[i]) \in Groups
        BY <1>1, <4>1
      <4> HIDE DEF b
      <4> QED
        BY <2>7, <2>8, <3>1, <4>1, <4>2
    <3>2. CASE l \notin 1 .. b
      <4>1. l - b \in 1 .. c /\ b + (l - b) = l
        <5> HIDE DEF b
        <5> QED
          BY <2>2, <2>7, <3>2
      <4>2. PICK i \in G : t[i].port = l - b
        BY <2>5, <4>1
      <4>3. i \in 1 .. Len(t) /\ Group(t[i]) = <<s, k>> /\ g.conf[b + t[i].port] = t[i]
        BY <1>1, <2>8
      <4> HIDE DEF b
      <4> QED
        BY <2>7, <4>1, <4>2, <4>3
    <3> QED
      BY <3>1, <3>2
  <2> HIDE DEF E, b
  <2>11. Placed(t, n, E)
    BY <2>2, <2>4, <2>6, <2>7, <2>9, <2>10 DEF Placed
  <2> QED
    BY <2>11 DEF E, n
<1> QED
  BY <1>2, <1>3

LEMMA AddGroupTypes ==
  ASSUME NEW t \in Tables, NEW acc \in Numbers, NEW s, NEW k
  PROVE  AddGroup(t, acc, s, k) \in Numbers
<1>1. CASE ~InRange(t, s, k)
  BY <1>1 DEF AddGroup
<1>2. CASE InRange(t, s, k)
  <2>1. PICK h \in [0 .. Len(t) -> Numbers] : GroupRounds(t, acc, s, k, h)
    BY <1>2, EntriesLoop
  <2> DEFINE g == h[Len(t)]
             b == acc.next
  <2>2. g \in Numbers /\ b \in Int
    <3>1. Len(t) \in 0 .. Len(t)
      BY EntryFacts
    <3> QED
      BY <3>1 DEF Numbers
  <2>3. AddGroup(t, acc, s, k) = Based(g, s, k, b)
    BY <2>1 DEF GroupRounds
  <2> HIDE DEF g, b
  <2> DEFINE z    == <<s, k>>
             base == [g.base EXCEPT ![z] = b]
             next == b + g.count
  <2>4. Based(g, s, k, b) = [conf |-> g.conf, base |-> base, count |-> g.count, next |-> next]
    BY <2>2, BasedIs, Zenon
  <2>5. g.conf \in Confs /\ g.base \in [Groups -> Int] /\ g.count \in Int
    BY <2>2 DEF Numbers
  <2> HIDE DEF z
  <2>6. base \in [Groups -> Int] /\ next \in Int
    <3>1. ASSUME NEW f \in [Groups -> Int] PROVE [f EXCEPT ![z] = b] \in [Groups -> Int]
      BY <2>2
    <3> QED
      BY <2>2, <2>5, <3>1
  <2> HIDE DEF base, next
  <2> QED
    BY <2>3, <2>4, <2>5, <2>6 DEF Numbers
<1> QED
  BY <1>1, <1>2

\* The loop over the types of a slot.
LEMMA TypesLoop ==
  ASSUME NEW t \in Tables, NEW acc \in Numbers, NEW s
  PROVE  \E h \in [0 .. MaxType -> Numbers] :
           /\ h[0] = acc /\ AddSlot(t, acc, s) = h[MaxType]
           /\ \A k \in 1 .. MaxType : h[k] = AddGroup(t, h[k - 1], s, k)
<1> DEFINE N == MaxType
           Round(x) == AddGroup(t, x[1], s, x[2])
           F == [x \in Numbers \X (1 .. N) |-> Round(x)]
           Rounds(g) == [k \in 0 .. N |-> IF k = 0 THEN acc ELSE AddGroup(t, g[k - 1], s, k)]
           h == CHOOSE g : g = Rounds(g)
<1>1. N \in Nat
  BY SwitchBounds
<1>2. /\ F \in [Numbers \X (1 .. N) -> Numbers]
      /\ \A d \in Numbers, k \in 1 .. N : F[<<d, k>>] = AddGroup(t, d, s, k)
  <2>1. \A x \in Numbers \X (1 .. N) : Round(x) \in Numbers
    BY AddGroupTypes
  <2> QED
    BY <2>1
<1>3. AddSlot(t, acc, s) = h[N]
  BY DEF AddSlot
<1> HIDE DEF F, N
<1>4. PICK g \in [0 .. N -> Numbers] : IsLoop(g, N, acc, F)
  BY <1>1, <1>2, LoopExists
<1>5. g = Rounds(g)
  <2>1. ASSUME NEW k \in 0 .. N PROVE g[k] = IF k = 0 THEN acc ELSE AddGroup(t, g[k - 1], s, k)
    <3>1. CASE k = 0
      BY <1>4, <3>1 DEF IsLoop
    <3>2. CASE k # 0
      <4>1. k \in 1 .. N /\ k - 1 \in 0 .. N
        BY <1>1, <3>2
      <4> QED
        BY <1>2, <1>4, <3>2, <4>1 DEF IsLoop
    <3> QED
      BY <3>1, <3>2
  <2> QED
    BY <2>1
<1>6. h = Rounds(h)
  BY <1>5
<1> HIDE DEF h
<1>7. h[0] = acc /\ \A k \in 1 .. N : h[k] = AddGroup(t, h[k - 1], s, k)
  BY <1>1, <1>6
<1>8. h \in [0 .. N -> Numbers]
  <2> DEFINE X == {k \in 0 .. N : h[k] \in Numbers}
  <2>1. 0 \in X
    BY <1>1, <1>7
  <2>2. ASSUME NEW k \in 1 .. N, k - 1 \in X PROVE k \in X
    BY <1>7, <2>2, AddGroupTypes
  <2>3. X \in SUBSET (0 .. N)
    OBVIOUS
  <2> HIDE DEF X
  <2>4. X = 0 .. N
    BY <1>1, <2>1, <2>2, <2>3, Climb
  <2> QED
    BY <1>6, <2>4 DEF X
<1> QED
  BY <1>3, <1>7, <1>8 DEF N

\* The loop over the slots.
LEMMA SlotsLoop ==
  ASSUME NEW t \in Tables
  PROVE  \E h \in [0 .. MaxSlot -> Numbers] :
           /\ h[0] = NoPorts /\ Numbered(t) = h[MaxSlot]
           /\ \A s \in 1 .. MaxSlot : h[s] = AddSlot(t, h[s - 1], s)
<1> DEFINE N == MaxSlot
           Round(x) == AddSlot(t, x[1], x[2])
           F == [x \in Numbers \X (1 .. N) |-> Round(x)]
           Rounds(g) == [s \in 0 .. N |-> IF s = 0 THEN NoPorts ELSE AddSlot(t, g[s - 1], s)]
           h == CHOOSE g : g = Rounds(g)
<1>1. N \in Nat
  BY SwitchBounds
<1>9. NoPorts \in Numbers
  <2>1. <<>> \in [{} -> PortEntries] /\ {} \in SUBSET Int
    OBVIOUS
  <2>2. <<>> \in Confs
    BY <2>1 DEF Confs
  <2> QED
    BY <2>2 DEF NoPorts, Numbers, Groups, NoPort
<1>2. /\ F \in [Numbers \X (1 .. N) -> Numbers]
      /\ \A d \in Numbers, s \in 1 .. N : F[<<d, s>>] = AddSlot(t, d, s)
  <2>1. ASSUME NEW d \in Numbers, NEW s \in 1 .. N PROVE AddSlot(t, d, s) \in Numbers
    <3>1. \E h1 \in [0 .. MaxType -> Numbers] : AddSlot(t, d, s) = h1[MaxType]
      BY TypesLoop
    <3>2. MaxType \in 0 .. MaxType
      BY SwitchBounds
    <3> QED
      BY <3>1, <3>2
  <2>2. \A x \in Numbers \X (1 .. N) : Round(x) \in Numbers
    BY <2>1
  <2> QED
    BY <2>2
<1>3. Numbered(t) = h[N]
  BY DEF Numbered
<1> HIDE DEF F, N
<1>4. PICK g \in [0 .. N -> Numbers] : IsLoop(g, N, NoPorts, F)
  BY <1>1, <1>2, <1>9, LoopExists
<1>5. g = Rounds(g)
  <2>1. ASSUME NEW s \in 0 .. N PROVE g[s] = IF s = 0 THEN NoPorts ELSE AddSlot(t, g[s - 1], s)
    <3>1. CASE s = 0
      BY <1>4, <3>1 DEF IsLoop
    <3>2. CASE s # 0
      <4>1. s \in 1 .. N /\ s - 1 \in 0 .. N
        BY <1>1, <3>2
      <4> QED
        BY <1>2, <1>4, <3>2, <4>1 DEF IsLoop
    <3> QED
      BY <3>1, <3>2
  <2> QED
    BY <2>1
<1>6. h = Rounds(h)
  BY <1>5
<1> HIDE DEF h
<1>7. h[0] = NoPorts /\ \A s \in 1 .. N : h[s] = AddSlot(t, h[s - 1], s)
  BY <1>1, <1>6
<1>8. h \in [0 .. N -> Numbers]
  <2> DEFINE X == {s \in 0 .. N : h[s] \in Numbers}
  <2>1. 0 \in X
    BY <1>1, <1>7, <1>9
  <2>2. ASSUME NEW s \in 1 .. N, s - 1 \in X PROVE s \in X
    <3>1. h[s] = F[<<h[s - 1], s>>] /\ h[s - 1] \in Numbers
      BY <1>2, <1>7, <2>2
    <3> QED
      BY <1>2, <3>1
  <2>3. X \in SUBSET (0 .. N)
    OBVIOUS
  <2> HIDE DEF X
  <2>4. X = 0 .. N
    BY <1>1, <2>1, <2>2, <2>3, Climb
  <2> QED
    BY <1>6, <2>4 DEF X
<1> QED
  BY <1>3, <1>7, <1>8 DEF N

LEMMA SlotPlaced ==
  ASSUME NEW t \in Tables, NEW acc, NEW D, Placed(t, acc, D), NEW s \in 1 .. MaxSlot,
         \A k \in 1 .. MaxType : <<s, k>> \notin D
  PROVE  Placed(t, AddSlot(t, acc, s), D \cup {<<s, k>> : k \in 1 .. MaxType})
<1> DEFINE N == MaxType
           Done(k) == D \cup {<<s, j>> : j \in 1 .. k}
<1>1. N \in Nat
  BY SwitchBounds
<1>2. acc \in Numbers
  BY DEF Placed
<1>3. PICK h \in [0 .. N -> Numbers] : /\ h[0] = acc /\ AddSlot(t, acc, s) = h[N]
                                       /\ \A k \in 1 .. N : h[k] = AddGroup(t, h[k - 1], s, k)
  BY <1>2, TypesLoop
<1> DEFINE X == {k \in 0 .. N : Placed(t, h[k], Done(k))}
<1>4. 0 \in X
  <2>1. Done(0) = D
    <3>1. ASSUME NEW x PROVE x \in Done(0) <=> x \in D
      OBVIOUS
    <3> HIDE DEF Done
    <3> QED
      BY <3>1
  <2> HIDE DEF Done
  <2> QED
    BY <1>1, <1>3, <2>1
<1>5. ASSUME NEW k \in 1 .. N, k - 1 \in X PROVE k \in X
  <2>1. Done(k) = Done(k - 1) \cup {<<s, k>>}
    <3>1. ASSUME NEW j PROVE j \in 1 .. k <=> j \in 1 .. k - 1 \/ j = k
      BY <1>1
    <3>2. ASSUME NEW x PROVE x \in Done(k) <=> x \in Done(k - 1) \cup {<<s, k>>}
      BY <3>1, Zenon
    <3> HIDE DEF Done
    <3> QED
      BY <3>2
  <2>2. <<s, k>> \notin Done(k - 1)
    <3>1. \A j \in 1 .. k - 1 : j # k
      BY <1>1
    <3> QED
      BY <3>1
  <2>3. Placed(t, h[k - 1], Done(k - 1)) /\ h[k] = AddGroup(t, h[k - 1], s, k)
    BY <1>3, <1>5
  <2> DEFINE E == Done(k - 1)
             f == h[k - 1]
  <2>4. Placed(t, f, E) /\ <<s, k>> \notin E
    BY <2>2, <2>3
  <2> HIDE DEF E, f, Done
  <2>5. Placed(t, AddGroup(t, f, s, k), E \cup {<<s, k>>})
    BY <2>4, GroupAdded
  <2>6. k \in 0 .. N
    BY <1>1
  <2> QED
    BY <2>1, <2>3, <2>5, <2>6 DEF E, f
<1>6. X \in SUBSET (0 .. N)
  OBVIOUS
<1> HIDE DEF X, N
<1>7. X = 0 .. N
  BY <1>1, <1>4, <1>5, <1>6, Climb
<1>8. N \in X
  BY <1>1, <1>7
<1> QED
  BY <1>3, <1>8 DEF X, N

\* The whole table: every port of the product has a number, and every number a port.
LEMMA AllPlaced ==
  ASSUME NEW t \in Tables
  PROVE  Placed(t, Numbered(t), Groups)
<1> DEFINE N == MaxSlot
           Done(s) == (1 .. s) \X (1 .. MaxType)
<1>1. N \in Nat
  BY SwitchBounds
<1>2. PICK h \in [0 .. N -> Numbers] : /\ h[0] = NoPorts /\ Numbered(t) = h[N]
                                       /\ \A s \in 1 .. N : h[s] = AddSlot(t, h[s - 1], s)
  BY SlotsLoop
<1> DEFINE X == {s \in 0 .. N : Placed(t, h[s], Done(s))}
<1>3. 0 \in X
  <2>1. NoPorts \in Numbers /\ 0 \in 0 .. N
    BY <1>1, <1>2
  <2>2. NoPorts.next = 0 /\ NoPorts.conf = <<>>
    BY DEF NoPorts
  <2>3. DOMAIN NoPorts.conf = 1 .. 0 /\ \A l \in 1 .. 0 : FALSE
    BY <2>2
  <2>4. \A x : x \notin Done(0)
    OBVIOUS
  <2> HIDE DEF Done
  <2>5. Placed(t, NoPorts, Done(0))
    BY <2>1, <2>2, <2>3, <2>4 DEF Placed
  <2> QED
    BY <1>2, <2>1, <2>5
<1>4. ASSUME NEW s \in 1 .. N, s - 1 \in X PROVE s \in X
  <2>1. Done(s) = Done(s - 1) \cup {<<s, k>> : k \in 1 .. MaxType}
    <3>1. ASSUME NEW j PROVE j \in 1 .. s <=> j \in 1 .. s - 1 \/ j = s
      BY <1>1
    <3>2. ASSUME NEW x PROVE x \in Done(s) <=> x \in Done(s - 1) \cup {<<s, k>> : k \in 1 .. MaxType}
      BY <3>1
    <3> HIDE DEF Done
    <3> QED
      BY <3>2
  <2>2. \A k \in 1 .. MaxType : <<s, k>> \notin Done(s - 1)
    <3>1. \A j \in 1 .. s - 1 : j # s
      BY <1>1
    <3> QED
      BY <3>1
  <2>3. Placed(t, h[s - 1], Done(s - 1)) /\ h[s] = AddSlot(t, h[s - 1], s)
    BY <1>2, <1>4
  <2> DEFINE E == Done(s - 1)
             f == h[s - 1]
  <2>4. Placed(t, f, E) /\ \A k \in 1 .. MaxType : <<s, k>> \notin E
    BY <2>2, <2>3
  <2> HIDE DEF E, f, Done
  <2>5. Placed(t, AddSlot(t, f, s), E \cup {<<s, k>> : k \in 1 .. MaxType})
    BY <2>4, SlotPlaced
  <2>6. s \in 0 .. N
    BY <1>1
  <2> QED
    BY <2>1, <2>3, <2>5, <2>6 DEF E, f
<1>5. X \in SUBSET (0 .. N)
  OBVIOUS
<1> HIDE DEF X, N
<1>6. X = 0 .. N
  BY <1>1, <1>3, <1>4, <1>5, Climb
<1>7. N \in X
  BY <1>1, <1>6
<1> QED
  BY <1>2, <1>7 DEF X, N, Groups

\* The map the services share, built from the table of the product.
Mapped == table \in Tables /\ map = PortMap(table)

LEMMA PortsAreFinite ==
  ASSUME NEW t \in Tables
  PROVE  IsFiniteSet(DOMAIN PortMap(t).conf)
<1>1. DOMAIN PortMap(t).conf = 1 .. Numbered(t).next /\ Numbered(t).next \in Nat
  BY AllPlaced DEF Placed, PortMap
<1>2. IsFiniteSet(1 .. Numbered(t).next)
  BY <1>1, FS_Interval
<1> QED
  BY <1>1, <1>2

\* A port of the product stands where its place on the panel says, and nowhere else.
LEMMA MapFacts ==
  ASSUME Mapped
  PROVE  /\ Ports = DOMAIN map.conf
         /\ Ports \subseteq Nat \ {0}
         /\ map.base \in [Groups -> Int]
         /\ \A i \in 1 .. Len(table) :
              /\ Group(table[i]) \in Groups /\ map.base[Group(table[i])] \in Nat
              /\ map.base[Group(table[i])] + table[i].port \in Ports
              /\ map.conf[map.base[Group(table[i])] + table[i].port] = table[i]
         /\ \A l \in Ports : \E i \in 1 .. Len(table) :
              map.conf[l] = table[i] /\ l = map.base[Group(table[i])] + table[i].port
<1> DEFINE acc == Numbered(table)
<1>1. Placed(table, acc, Groups)
  BY AllPlaced DEF Mapped
<1>2. map.conf = acc.conf /\ map.base = acc.base
  BY DEF Mapped, PortMap
<1>3. \A i \in 1 .. Len(table) : Group(table[i]) \in Groups
  BY EntryFacts DEF Mapped, Group, Groups
<1> HIDE DEF acc
<1>4. Ports = 1 .. acc.next /\ acc.next \in Nat /\ acc.base \in [Groups -> Int]
  BY <1>1, <1>2 DEF Ports, Placed, Numbers
<1>5. Ports \subseteq Nat \ {0}
  BY <1>4
<1>6. ASSUME NEW i \in 1 .. Len(table)
      PROVE  /\ map.base[Group(table[i])] \in Nat
             /\ map.base[Group(table[i])] + table[i].port \in Ports
             /\ map.conf[map.base[Group(table[i])] + table[i].port] = table[i]
  BY <1>1, <1>2, <1>3, <1>4 DEF Placed
<1>7. ASSUME NEW l \in Ports
      PROVE  \E i \in 1 .. Len(table) :
               map.conf[l] = table[i] /\ l = map.base[Group(table[i])] + table[i].port
  BY <1>1, <1>2, <1>3, <1>4 DEF Placed
<1> QED
  BY <1>2, <1>3, <1>4, <1>5, <1>6, <1>7 DEF Ports

\* The least member of a set of one.
LEMMA MinOfOne ==
  ASSUME NEW l \in Int
  PROVE  Min({l}) = l
BY DEF Min

\* Its place on the panel and its place on the switch chip lead to the number of a port.
LEMMA PlacesLead ==
  ASSUME Mapped, NEW i \in DOMAIN table,
         NEW l, l = Logical(table[i].type, table[i].slot, table[i].port)
  PROVE  l # NoPort /\ Panel(l) = table[i] /\ OfDevice(table[i].dev, table[i].devPort) = l
<1> DEFINE e == table[i]
           b == map.base[Group(e)]
           S == {x \in DOMAIN map.conf : map.conf[x].dev = e.dev /\ map.conf[x].devPort = e.devPort}
<1>1. i \in 1 .. Len(table)
  BY EntryFacts DEF Mapped
<1>2. /\ b \in Nat /\ b + e.port \in Ports /\ map.conf[b + e.port] = e /\ Ports \subseteq Nat \ {0}
      /\ Ports = DOMAIN map.conf
  BY <1>1, MapFacts
<1>3. l = b + e.port
  <2>1. map.base[<<e.slot, e.type>>] = b /\ b # NoPort /\ Valid(b + e.port)
    BY <1>2 DEF Group, NoPort, Valid
  <2> HIDE DEF b
  <2> QED
    BY <2>1 DEF Logical
<1>4. l # NoPort /\ Panel(l) = e /\ l \in Int /\ l \in Ports
  BY <1>2, <1>3 DEF NoPort, Panel
<1>5. S = {l}
  <2>1. l \in S
    BY <1>2, <1>3
  <2>2. ASSUME NEW x \in S PROVE x = l
    <3>1. PICK j \in 1 .. Len(table) : map.conf[x] = table[j] /\ x = map.base[Group(table[j])] + table[j].port
      BY <1>2, MapFacts
    <3>2. table[j].dev = e.dev /\ table[j].devPort = e.devPort
      BY <3>1
    <3>3. j = i
      BY <1>1, <3>2, EntryFacts, TablesAreProper DEF Mapped
    <3> QED
      BY <1>3, <3>1, <3>3
  <2> HIDE DEF S
  <2> QED
    BY <2>1, <2>2
<1>6. OfDevice(e.dev, e.devPort) = l
  <2>1. OfDevice(e.dev, e.devPort) = Min(S)
    <3>1. S # {}
      BY <1>5
    <3> QED
      BY <3>1 DEF OfDevice
  <2> QED
    BY <1>4, <1>5, <2>1, MinOfOne
<1> QED
  BY <1>4, <1>6

-----------------------------------------------------------------------------
(* A set of ports as it is printed and read back.                          *)

RunsOf(slot) == {slot} \X (1 .. MaxPort) \X (1 .. MaxPort)

\* A port makes the last run longer or begins one of its own.
Longer(slot, text, p, new) ==
  \E f \in Seq(RunsOf(slot)), lo \in 1 .. MaxPort :
    /\ text = Append(f, <<slot, lo, p - 1>>) /\ <<slot, lo, p - 1>> \in RunsOf(slot)
    /\ new = Append(f, <<slot, lo, p>>)

LEMMA NextRunFacts ==
  ASSUME NEW slot, NEW ports, NEW text \in Seq(RunsOf(slot)), NEW p \in 1 .. MaxPort
  PROVE  /\ NextRun(slot, ports, text, p) \in Seq(RunsOf(slot))
         /\ p \notin ports => NextRun(slot, ports, text, p) = text
         /\ p \in ports =>
              \/ NextRun(slot, ports, text, p) = Append(text, <<slot, p, p>>)
              \/ Longer(slot, text, p, NextRun(slot, ports, text, p))
<1> DEFINE R == RunsOf(slot)
           n == Len(text)
           one == <<slot, p, p>>
<1>1. one \in R /\ n \in Nat
  BY LenProperties DEF RunsOf
<1>2. CASE p \notin ports
  BY <1>2 DEF NextRun
<1>3. CASE p \in ports /\ ~(n > 0 /\ text[n][3] = p - 1)
  <2>1. NextRun(slot, ports, text, p) = Append(text, one)
    BY <1>3 DEF NextRun
  <2> HIDE DEF one, R
  <2>2. Append(text, one) \in Seq(R)
    <3>1. text \in Seq(R)
      BY DEF R
    <3> QED
      BY <1>1, <3>1, AppendProperties
  <2> QED
    BY <1>3, <2>1, <2>2 DEF one, R
<1>4. CASE p \in ports /\ n > 0 /\ text[n][3] = p - 1
  <2>1. text \in Seq(R) /\ text # <<>>
    <3>1. Len(<<>>) = 0
      OBVIOUS
    <3> QED
      BY <1>1, <1>4, <3>1
  <2>2. PICK f \in Seq(R), r \in R : text = Append(f, r)
    <3> HIDE DEF R
    <3> QED
      BY <2>1, SequenceEmptyOrAppend
  <2>3. n = Len(f) + 1 /\ text[n] = r /\ Len(f) \in Nat
    <3> HIDE DEF R
    <3> QED
      BY <2>2, AppendProperties, LenProperties
  <2>4. PICK lo \in 1 .. MaxPort : r = <<slot, lo, p - 1>>
    <3>1. PICK lo \in 1 .. MaxPort, hi \in 1 .. MaxPort : r = <<slot, lo, hi>>
      BY DEF RunsOf
    <3>2. hi = p - 1
      BY <1>4, <2>3, <3>1
    <3> QED
      BY <3>1, <3>2
  <2> DEFINE q == <<slot, lo, p>>
  <2>5. q \in R
    BY DEF RunsOf
  <2>6. NextRun(slot, ports, text, p) = [text EXCEPT ![n] = q]
    <3>1. text[n][2] = lo
      BY <2>3, <2>4
    <3>2. NextRun(slot, ports, text, p) = [text EXCEPT ![n] = <<slot, text[n][2], p>>]
      BY <1>4 DEF NextRun
    <3> QED
      BY <3>1, <3>2
  <2> HIDE DEF q, R, n
  <2>7. [text EXCEPT ![n] = q] = Append(f, q)
    <3>1. [text EXCEPT ![n] = q] \in Seq(R) /\ Len([text EXCEPT ![n] = q]) = n
          /\ \A i \in 1 .. n : [text EXCEPT ![n] = q][i] = IF i = n THEN q ELSE text[i]
      <4>1. n \in 1 .. Len(text) /\ n = Len(text)
        BY <1>4, <1>1 DEF n
      <4> QED
        BY <2>1, <2>5, <4>1, ExceptSeq
    <3>2. Append(f, q) \in Seq(R) /\ Len(Append(f, q)) = n
          /\ \A i \in 1 .. n : Append(f, q)[i] = IF i = n THEN q ELSE f[i]
      BY <2>3, <2>5, AppendProperties
    <3>3. \A i \in 1 .. n : i # n => text[i] = f[i]
      BY <2>2, <2>3, AppendProperties
    <3> DEFINE x == [text EXCEPT ![n] = q]
               y == Append(f, q)
    <3>4. /\ x \in Seq(R) /\ y \in Seq(R) /\ Len(x) = n /\ Len(y) = n
          /\ \A i \in 1 .. n : x[i] = y[i]
      BY <3>1, <3>2, <3>3
    <3> HIDE DEF x, y
    <3>5. x = y
      BY <3>4, SeqEqual
    <3> QED
      BY <3>5 DEF x, y
  <2>8. Append(f, q) \in Seq(R)
    BY <2>5, AppendProperties
  <2> QED
    BY <1>4, <2>2, <2>4, <2>6, <2>7, <2>8 DEF q, R, Longer
<1> QED
  BY <1>2, <1>3, <1>4

\* The loop that prints.
LEMMA RunsLoop ==
  ASSUME NEW slot, NEW ports
  PROVE  \E h \in [0 .. MaxPort -> Seq(RunsOf(slot))] :
           /\ h[0] = <<>> /\ Runs(slot, ports) = h[MaxPort]
           /\ \A p \in 1 .. MaxPort : h[p] = NextRun(slot, ports, h[p - 1], p)
<1> DEFINE N == MaxPort
           T == Seq(RunsOf(slot))
           e == <<>>
           Round(x) == NextRun(slot, ports, x[1], x[2])
           F == [x \in T \X (1 .. N) |-> Round(x)]
           Rounds(g) == [p \in 0 .. N |-> IF p = 0 THEN e ELSE NextRun(slot, ports, g[p - 1], p)]
           h == CHOOSE g : g = Rounds(g)
<1>1. N \in Nat /\ e \in T
  BY SwitchBounds
<1>2. /\ F \in [T \X (1 .. N) -> T]
      /\ \A d \in T, p \in 1 .. N : F[<<d, p>>] = NextRun(slot, ports, d, p)
  <2>1. \A x \in T \X (1 .. N) : Round(x) \in T
    BY NextRunFacts
  <2> HIDE DEF T
  <2> QED
    BY <2>1
<1>3. Runs(slot, ports) = h[N]
  BY DEF Runs
<1>10. \A d \in T, p \in 1 .. N : NextRun(slot, ports, d, p) \in T
  BY NextRunFacts
<1> HIDE DEF F, N, e, T
<1>4. PICK g \in [0 .. N -> T] : IsLoop(g, N, e, F)
  BY <1>1, <1>2, LoopExists
<1>5. g = Rounds(g)
  <2>1. ASSUME NEW p \in 0 .. N PROVE g[p] = IF p = 0 THEN e ELSE NextRun(slot, ports, g[p - 1], p)
    <3>1. CASE p = 0
      BY <1>4, <3>1 DEF IsLoop
    <3>2. CASE p # 0
      <4>1. p \in 1 .. N /\ p - 1 \in 0 .. N
        BY <1>1, <3>2
      <4> QED
        BY <1>2, <1>4, <3>2, <4>1 DEF IsLoop
    <3> QED
      BY <3>1, <3>2
  <2> QED
    BY <2>1
<1>6. h = Rounds(h)
  BY <1>5
<1> HIDE DEF h
<1>7. h[0] = e /\ \A p \in 1 .. N : h[p] = NextRun(slot, ports, h[p - 1], p)
  BY <1>1, <1>6
<1>8. h \in [0 .. N -> T]
  <2> DEFINE X == {p \in 0 .. N : h[p] \in T}
  <2>1. 0 \in X
    BY <1>1, <1>7
  <2>2. ASSUME NEW p \in 1 .. N, p - 1 \in X PROVE p \in X
    BY <1>7, <1>10, <2>2
  <2>3. X \in SUBSET (0 .. N)
    OBVIOUS
  <2> HIDE DEF X
  <2>4. X = 0 .. N
    BY <1>1, <2>1, <2>2, <2>3, Climb
  <2> QED
    BY <1>6, <2>4 DEF X
<1> QED
  BY <1>3, <1>7, <1>8 DEF N, T, e

\* What has been read of a text.
Reads == [ok : BOOLEAN, last : Int, ports : SUBSET Int]

Fits(type, acc, r) ==
  /\ Logical(type, r[1], r[2]) # NoPort /\ Logical(type, r[1], r[3]) # NoPort
  /\ acc.last <= r[2] /\ r[2] <= r[3]

\* The ports of a group that starts at b.
Shift(b, Q)  == {b + q : q \in Q}
UpTo(Q, p)   == {q \in Q : q <= p}

\* One run: where it does not fit, nothing is read any more.
LEMMA ParseRunFacts ==
  ASSUME Mapped, NEW type \in 1 .. MaxType, NEW slot \in 1 .. MaxSlot,
         NEW lo \in 1 .. MaxPort, NEW hi \in 1 .. MaxPort, NEW r, r = <<slot, lo, hi>>,
         NEW acc \in Reads, NEW b, b = map.base[<<slot, type>>]
  PROVE  /\ b \in Int
         /\ ParseRun(type, acc, r) \in Reads
         /\ ~(acc.ok /\ Fits(type, acc, r)) => ~ParseRun(type, acc, r).ok
         /\ acc.ok /\ Fits(type, acc, r) =>
              /\ ParseRun(type, acc, r).ok /\ ParseRun(type, acc, r).last = hi
              /\ ParseRun(type, acc, r).ports = acc.ports \cup Shift(b, lo .. hi)
<1> DEFINE fits == Fits(type, acc, r)
           n    == ParseRun(type, acc, r)
           new  == acc.ports \cup Shift(b, lo .. hi)
<1>1. b \in Int
  <2>1. <<slot, type>> \in Groups
    BY DEF Groups
  <2> QED
    BY <2>1, MapFacts
<1>2. new \in SUBSET Int
  BY <1>1 DEF Reads, Shift
<1>3. acc.ok \in BOOLEAN /\ acc.last \in Int /\ acc.ports \in SUBSET Int
  BY DEF Reads
<1>4. CASE acc.ok /\ fits
  <2>1. n = [ok |-> TRUE, last |-> hi, ports |-> new]
    BY <1>4 DEF ParseRun, Fits, Shift
  <2> HIDE DEF n, new, fits
  <2>2. n \in Reads /\ n.ok /\ n.last = hi /\ n.ports = new
    BY <1>2, <2>1 DEF Reads
  <2> QED
    BY <1>1, <1>4, <2>2 DEF n, new, fits
<1>5. CASE ~(acc.ok /\ fits)
  <2>1. n = [acc EXCEPT !.ok = FALSE]
    BY <1>5 DEF ParseRun, Fits
  <2> HIDE DEF n, new, fits
  <2>2. n \in Reads /\ ~n.ok
    BY <1>3, <2>1 DEF Reads
  <2> QED
    BY <1>1, <1>5, <2>2 DEF n, fits
<1> QED
  BY <1>4, <1>5

\* The loop that reads.
ReadRounds(type, text, h) ==
  /\ h[0] = Unread /\ Parsed(type, text) = h[Len(text)]
  /\ \A i \in 1 .. Len(text) : h[i] = ParseRun(type, h[i - 1], text[i])

LEMMA ParsedLoop ==
  ASSUME Mapped, NEW type \in 1 .. MaxType, NEW slot \in 1 .. MaxSlot, NEW text \in Seq(RunsOf(slot))
  PROVE  \E h \in [0 .. Len(text) -> Reads] : ReadRounds(type, text, h)
<1> DEFINE N == Len(text)
           Round(x) == ParseRun(type, x[1], text[x[2]])
           F == [x \in Reads \X (1 .. N) |-> Round(x)]
           Rounds(g) == [i \in 0 .. N |-> IF i = 0 THEN Unread ELSE ParseRun(type, g[i - 1], text[i])]
           h == CHOOSE g : g = Rounds(g)
<1>1. N \in Nat /\ Unread \in Reads
  BY LenProperties DEF Unread, Reads
<1>2. ASSUME NEW d \in Reads, NEW i \in 1 .. N PROVE ParseRun(type, d, text[i]) \in Reads
  <2> DEFINE r == text[i]
  <2>1. r \in RunsOf(slot)
    BY ElementOfSeq
  <2> HIDE DEF r
  <2>2. \A x \in RunsOf(slot) : \E lo \in 1 .. MaxPort, hi \in 1 .. MaxPort : x = <<slot, lo, hi>>
    BY DEF RunsOf
  <2>3. PICK lo \in 1 .. MaxPort, hi \in 1 .. MaxPort : r = <<slot, lo, hi>>
    BY <2>1, <2>2
  <2>4. ParseRun(type, d, r) \in Reads
    BY <2>3, ParseRunFacts
  <2> QED
    BY <2>4 DEF r
<1>3. /\ F \in [Reads \X (1 .. N) -> Reads]
      /\ \A d \in Reads, i \in 1 .. N : F[<<d, i>>] = ParseRun(type, d, text[i])
  <2>1. \A x \in Reads \X (1 .. N) : Round(x) \in Reads
    BY <1>2
  <2> QED
    BY <2>1
<1>4. Parsed(type, text) = h[N]
  BY DEF Parsed
<1> HIDE DEF F, N
<1>5. PICK g \in [0 .. N -> Reads] : IsLoop(g, N, Unread, F)
  BY <1>1, <1>3, LoopExists
<1>6. g = Rounds(g)
  <2>1. ASSUME NEW i \in 0 .. N PROVE g[i] = IF i = 0 THEN Unread ELSE ParseRun(type, g[i - 1], text[i])
    <3>1. CASE i = 0
      BY <1>5, <3>1 DEF IsLoop
    <3>2. CASE i # 0
      <4>1. i \in 1 .. N /\ i - 1 \in 0 .. N
        BY <1>1, <3>2
      <4> QED
        BY <1>3, <1>5, <3>2, <4>1 DEF IsLoop
    <3> QED
      BY <3>1, <3>2
  <2> QED
    BY <2>1
<1>7. h = Rounds(h)
  BY <1>6
<1> HIDE DEF h
<1>8. h[0] = Unread /\ \A i \in 1 .. N : h[i] = ParseRun(type, h[i - 1], text[i])
  BY <1>1, <1>7
<1>9. h \in [0 .. N -> Reads]
  <2> DEFINE X == {i \in 0 .. N : h[i] \in Reads}
  <2>1. 0 \in X
    BY <1>1, <1>8
  <2>2. ASSUME NEW i \in 1 .. N, i - 1 \in X PROVE i \in X
    BY <1>2, <1>8, <2>2
  <2>3. X \in SUBSET (0 .. N)
    OBVIOUS
  <2> HIDE DEF X
  <2>4. X = 0 .. N
    BY <1>1, <2>1, <2>2, <2>3, Climb
  <2> QED
    BY <1>7, <2>4 DEF X
<1> QED
  BY <1>4, <1>8, <1>9 DEF N, ReadRounds

\* Nothing of an empty text; the last run of a text after all before it.
LEMMA ParsedFacts ==
  ASSUME Mapped, NEW type \in 1 .. MaxType, NEW slot \in 1 .. MaxSlot
  PROVE  /\ Parsed(type, <<>>) = Unread
         /\ \A text \in Seq(RunsOf(slot)) :
              /\ Parsed(type, text) \in Reads
              /\ \A r \in RunsOf(slot) :
                   Parsed(type, Append(text, r)) = ParseRun(type, Parsed(type, text), r)
<1>1. Parsed(type, <<>>) = Unread
  <2> DEFINE e == <<>>
  <2>1. e \in Seq(RunsOf(slot)) /\ Len(e) = 0
    OBVIOUS
  <2> HIDE DEF e
  <2>2. PICK h \in [0 .. Len(e) -> Reads] : ReadRounds(type, e, h)
    BY <2>1, ParsedLoop
  <2> QED
    BY <2>1, <2>2 DEF ReadRounds, e
<1>2. ASSUME NEW text \in Seq(RunsOf(slot)) PROVE Parsed(type, text) \in Reads
  <2>1. PICK h \in [0 .. Len(text) -> Reads] : ReadRounds(type, text, h)
    BY ParsedLoop
  <2>2. Len(text) \in 0 .. Len(text)
    BY LenProperties
  <2> QED
    BY <2>1, <2>2 DEF ReadRounds
<1>3. ASSUME NEW text \in Seq(RunsOf(slot)), NEW r \in RunsOf(slot)
      PROVE  Parsed(type, Append(text, r)) = ParseRun(type, Parsed(type, text), r)
  <2> DEFINE more == Append(text, r)
             n == Len(text)
  <2>1. /\ n \in Nat /\ more \in Seq(RunsOf(slot)) /\ Len(more) = n + 1 /\ more[n + 1] = r
        /\ \A i \in 1 .. n : more[i] = text[i]
    BY AppendProperties, LenProperties
  <2> HIDE DEF more
  <2>2. PICK h \in [0 .. n -> Reads] : ReadRounds(type, text, h)
    BY ParsedLoop
  <2>3. PICK g \in [0 .. Len(more) -> Reads] : ReadRounds(type, more, g)
    BY <2>1, ParsedLoop
  <2>4. /\ h[0] = Unread /\ Parsed(type, text) = h[n]
        /\ \A i \in 1 .. n : h[i] = ParseRun(type, h[i - 1], text[i])
    BY <2>2 DEF ReadRounds
  <2>5. /\ g[0] = Unread /\ Parsed(type, more) = g[n + 1]
        /\ \A i \in 1 .. n + 1 : g[i] = ParseRun(type, g[i - 1], more[i])
    BY <2>1, <2>3 DEF ReadRounds
  <2> HIDE DEF n
  <2> DEFINE X == {i \in 0 .. n : g[i] = h[i]}
  <2>6. 0 \in X
    BY <2>1, <2>4, <2>5
  <2>7. ASSUME NEW i \in 1 .. n, i - 1 \in X PROVE i \in X
    <3>1. i \in 1 .. n + 1 /\ i \in 0 .. n
      BY <2>1
    <3>2. g[i - 1] = h[i - 1] /\ more[i] = text[i]
      BY <2>1, <2>7
    <3> QED
      BY <2>4, <2>5, <3>1, <3>2
  <2>8. X \in SUBSET (0 .. n)
    OBVIOUS
  <2> HIDE DEF X
  <2>9. X = 0 .. n
    BY <2>1, <2>6, <2>7, <2>8, Climb
  <2>10. n \in 0 .. n /\ n + 1 \in 1 .. n + 1 /\ (n + 1) - 1 = n
    BY <2>1
  <2>11. g[n] = h[n] /\ h[n] \in Reads
    BY <2>2, <2>9, <2>10 DEF X
  <2>12. g[n + 1] = ParseRun(type, g[n], r)
    BY <2>1, <2>5, <2>10
  <2> QED
    BY <2>4, <2>5, <2>11, <2>12 DEF more
<1> QED
  BY <1>1, <1>2, <1>3

\* What has been printed of the ports up to p is read back as those.
ReadsBack(type, b, Q, text, p) ==
  /\ Parsed(type, text).ok /\ Parsed(type, text).last <= p
  /\ Parsed(type, text).ports = Shift(b, UpTo(Q, p))

LEMMA UpToFacts ==
  ASSUME NEW Q \in SUBSET (1 .. MaxPort), NEW p \in 1 .. MaxPort, NEW b
  PROVE  /\ p \notin Q => UpTo(Q, p) = UpTo(Q, p - 1)
         /\ p \in Q => Shift(b, UpTo(Q, p)) = Shift(b, UpTo(Q, p - 1)) \cup {b + p}
<1>1. MaxPort \in Nat
  BY SwitchBounds
<1>2. ASSUME NEW x \in Q PROVE x <= p <=> x <= p - 1 \/ x = p
  BY <1>1
<1>3. ASSUME p \notin Q PROVE UpTo(Q, p) = UpTo(Q, p - 1)
  BY <1>2, <1>3 DEF UpTo
<1>4. ASSUME p \in Q PROVE UpTo(Q, p) = UpTo(Q, p - 1) \cup {p}
  <2>1. ASSUME NEW x PROVE x \in UpTo(Q, p) <=> x \in UpTo(Q, p - 1) \/ x = p
    <3>1. p <= p
      BY <1>1
    <3> QED
      BY <1>2, <1>4, <3>1 DEF UpTo
  <2> QED
    BY <2>1
<1>5. ASSUME NEW A PROVE Shift(b, A \cup {p}) = Shift(b, A) \cup {b + p}
  BY DEF Shift
<1> QED
  BY <1>3, <1>4, <1>5

LEMMA SpanFacts ==
  ASSUME NEW lo \in 1 .. MaxPort, NEW p \in 1 .. MaxPort, lo <= p, NEW b
  PROVE  Shift(b, p .. p) = {b + p} /\ Shift(b, lo .. p) = Shift(b, lo .. p - 1) \cup {b + p}
<1>1. p .. p = {p} /\ lo .. p = (lo .. p - 1) \cup {p}
  BY SwitchBounds
<1>2. Shift(b, {p}) = {b + p} /\ \A A : Shift(b, A \cup {p}) = Shift(b, A) \cup {b + p}
  BY DEF Shift
<1> QED
  BY <1>1, <1>2

\* One more port.
LEMMA RunReadBack ==
  ASSUME Mapped, NEW type \in 1 .. MaxType, NEW slot \in 1 .. MaxSlot, NEW Q \in SUBSET (1 .. MaxPort),
         NEW b, b = map.base[<<slot, type>>], \A q \in Q : Logical(type, slot, q) # NoPort,
         NEW p \in 1 .. MaxPort, NEW text \in Seq(RunsOf(slot)), ReadsBack(type, b, Q, text, p - 1),
         NEW new, new = NextRun(slot, Q, text, p)
  PROVE  ReadsBack(type, b, Q, new, p)
<1>1. MaxPort \in Nat /\ p - 1 <= p /\ p <= p
  BY SwitchBounds
<1>2. PICK now : now = Parsed(type, text)
  OBVIOUS
<1>3. now \in Reads /\ now.last \in Int
  <2>1. now \in Reads
    BY <1>2, ParsedFacts
  <2> QED
    BY <2>1 DEF Reads
<1>4. now.ok /\ now.last <= p - 1 /\ now.ports = Shift(b, UpTo(Q, p - 1))
  BY <1>2 DEF ReadsBack
<1>5. /\ p \notin Q => new = text
      /\ p \in Q =>
           \/ new = Append(text, <<slot, p, p>>)
           \/ Longer(slot, text, p, new)
  BY NextRunFacts
<1>6. now.last <= p
  BY <1>1, <1>3, <1>4
<1>7. CASE p \notin Q
  <2>1. now.ports = Shift(b, UpTo(Q, p))
    BY <1>4, <1>7, UpToFacts
  <2> QED
    BY <1>2, <1>4, <1>5, <1>6, <1>7, <2>1 DEF ReadsBack
<1>8. CASE p \in Q /\ new = Append(text, <<slot, p, p>>)
  <2>1. PICK r : r = <<slot, p, p>>
    OBVIOUS
  <2>2. r \in RunsOf(slot) /\ r[1] = slot /\ r[2] = p /\ r[3] = p
    BY <2>1 DEF RunsOf
  <2>3. Parsed(type, new) = ParseRun(type, now, r)
    BY <1>2, <1>8, <2>1, <2>2, ParsedFacts
  <2>4. Fits(type, now, r)
    BY <1>1, <1>6, <1>8, <2>2 DEF Fits
  <2>5. /\ ParseRun(type, now, r).ok /\ ParseRun(type, now, r).last = p
        /\ ParseRun(type, now, r).ports = now.ports \cup Shift(b, p .. p)
    BY <1>3, <1>4, <2>1, <2>4, ParseRunFacts
  <2>6. now.ports \cup Shift(b, p .. p) = Shift(b, UpTo(Q, p))
    <3>1. Shift(b, p .. p) = {b + p}
      BY <1>1, SpanFacts
    <3>2. Shift(b, UpTo(Q, p)) = Shift(b, UpTo(Q, p - 1)) \cup {b + p}
      BY <1>8, UpToFacts
    <3> QED
      BY <1>4, <3>1, <3>2
  <2> QED
    BY <1>1, <2>3, <2>5, <2>6 DEF ReadsBack
<1>9. CASE p \in Q /\ Longer(slot, text, p, new)
  <2>1. PICK f \in Seq(RunsOf(slot)), lo \in 1 .. MaxPort :
               /\ text = Append(f, <<slot, lo, p - 1>>) /\ <<slot, lo, p - 1>> \in RunsOf(slot)
               /\ new = Append(f, <<slot, lo, p>>)
    BY <1>9 DEF Longer
  <2>2. PICK z : z = Parsed(type, f)
    OBVIOUS
  <2>3. PICK hi, old, r : hi = p - 1 /\ old = <<slot, lo, hi>> /\ r = <<slot, lo, p>>
    OBVIOUS
  <2>4. old \in RunsOf(slot) /\ hi \in 1 .. MaxPort /\ old[1] = slot /\ old[2] = lo /\ old[3] = hi
    BY <2>1, <2>3 DEF RunsOf
  <2>5. r \in RunsOf(slot) /\ r[1] = slot /\ r[2] = lo /\ r[3] = p
    BY <2>3 DEF RunsOf
  <2>6. z \in Reads /\ now = ParseRun(type, z, old) /\ Parsed(type, new) = ParseRun(type, z, r)
    BY <1>2, <2>1, <2>2, <2>3, <2>4, <2>5, ParsedFacts
  <2>7. z.ok /\ Fits(type, z, old) /\ now.ports = z.ports \cup Shift(b, lo .. hi)
    BY <1>4, <2>3, <2>4, <2>6, ParseRunFacts
  <2>8. lo <= p /\ Fits(type, z, r)
    <3>1. lo <= hi
      BY <2>4, <2>7 DEF Fits
    <3>2. lo <= p
      BY <1>1, <2>3, <3>1
    <3> QED
      BY <1>9, <2>4, <2>5, <2>7, <3>2 DEF Fits
  <2>9. /\ ParseRun(type, z, r).ok /\ ParseRun(type, z, r).last = p
        /\ ParseRun(type, z, r).ports = z.ports \cup Shift(b, lo .. p)
    <3>1. r = <<slot, lo, p>> /\ z \in Reads /\ z.ok /\ Fits(type, z, r)
      BY <2>3, <2>6, <2>7, <2>8
    <3> QED
      BY <3>1, ParseRunFacts
  <2>10. /\ Shift(b, lo .. p) = Shift(b, lo .. hi) \cup {b + p}
         /\ Shift(b, UpTo(Q, p)) = Shift(b, UpTo(Q, p - 1)) \cup {b + p}
    <3>1. Shift(b, lo .. p) = Shift(b, lo .. hi) \cup {b + p}
      BY <2>3, <2>8, SpanFacts
    <3>2. Shift(b, UpTo(Q, p)) = Shift(b, UpTo(Q, p - 1)) \cup {b + p}
      BY <1>9, UpToFacts
    <3> QED
      BY <3>1, <3>2
  <2>11. z.ports \cup Shift(b, lo .. p) = Shift(b, UpTo(Q, p))
    <3>1. ASSUME NEW U, NEW A, NEW B, NEW C, NEW D, NEW e, U \cup A = C, B = A \cup e, D = C \cup e
          PROVE  U \cup B = D
      BY <3>1
    <3>2. z.ports \cup Shift(b, lo .. hi) = Shift(b, UpTo(Q, p - 1))
      BY <1>4, <2>7
    <3> QED
      BY <2>10, <3>1, <3>2, Zenon
  <2>12. Parsed(type, new).ok /\ Parsed(type, new).last <= p
    BY <1>1, <2>6, <2>9
  <2>13. Parsed(type, new).ports = Shift(b, UpTo(Q, p))
    BY <2>6, <2>9, <2>11
  <2> QED
    BY <2>12, <2>13 DEF ReadsBack
<1> QED
  BY <1>5, <1>7, <1>8, <1>9

LEMMA RunsReadBack ==
  ASSUME Mapped, NEW type \in 1 .. MaxType, NEW slot \in 1 .. MaxSlot, NEW Q \in SUBSET (1 .. MaxPort),
         NEW b, b = map.base[<<slot, type>>], \A q \in Q : Logical(type, slot, q) # NoPort
  PROVE  /\ Runs(slot, Q) \in Seq(RunsOf(slot))
         /\ Parsed(type, Runs(slot, Q)).ok
         /\ Parsed(type, Runs(slot, Q)).ports = Shift(b, Q)
<1> DEFINE N == MaxPort
<1>1. N \in Nat
  BY SwitchBounds
<1>2. PICK h \in [0 .. N -> Seq(RunsOf(slot))] :
        /\ h[0] = <<>> /\ Runs(slot, Q) = h[N]
        /\ \A p \in 1 .. N : h[p] = NextRun(slot, Q, h[p - 1], p)
  BY RunsLoop
<1> DEFINE X == {p \in 0 .. N : ReadsBack(type, b, Q, h[p], p)}
<1>3. 0 \in X
  <2>1. Parsed(type, h[0]) = Unread
    BY <1>2, ParsedFacts
  <2>2. Unread.ok /\ Unread.last = 0
    BY DEF Unread
  <2>3. \A x : x \notin Unread.ports
    BY DEF Unread
  <2>4. \A x : x \notin Shift(b, UpTo(Q, 0))
    <3>1. ASSUME NEW q, q \in UpTo(Q, 0) PROVE FALSE
      <4>1. q \in Q /\ q <= 0
        BY <3>1 DEF UpTo
      <4> QED
        BY <1>1, <4>1
    <3> QED
      BY <3>1 DEF Shift
  <2>5. Unread.ports = Shift(b, UpTo(Q, 0))
    BY <2>3, <2>4
  <2> QED
    BY <1>1, <2>1, <2>2, <2>5 DEF ReadsBack
<1>4. ASSUME NEW p \in 1 .. N, p - 1 \in X PROVE p \in X
  <2>1. h[p - 1] \in Seq(RunsOf(slot)) /\ ReadsBack(type, b, Q, h[p - 1], p - 1) /\ p \in 0 .. N
    BY <1>1, <1>4
  <2>2. ReadsBack(type, b, Q, h[p], p)
    BY <1>2, <2>1, RunReadBack
  <2> QED
    BY <2>1, <2>2
<1>5. X \in SUBSET (0 .. N)
  OBVIOUS
<1> HIDE DEF X
<1>6. X = 0 .. N
  BY <1>1, <1>3, <1>4, <1>5, Climb
<1>7. N \in 0 .. N /\ UpTo(Q, N) = Q
  <2>1. \A x \in Q : x <= N
    BY <1>1
  <2>2. ASSUME NEW x PROVE x \in UpTo(Q, N) <=> x \in Q
    BY <2>1 DEF UpTo
  <2> HIDE DEF N
  <2>3. UpTo(Q, N) = Q
    BY <2>2
  <2> QED
    BY <1>1, <2>3
<1>8. ReadsBack(type, b, Q, h[N], N) /\ h[N] \in Seq(RunsOf(slot))
  BY <1>2, <1>6, <1>7 DEF X
<1> QED
  BY <1>2, <1>7, <1>8 DEF ReadsBack

Some(S)       == \E l : l \in S
OnSlot(type, slot, S) == S \subseteq OfGroup(type, slot)
PanelPorts(S) == {Panel(l).port : l \in S}

\* Of the ports of one slot, only that slot is printed.
LEMMA PrintSlotFacts ==
  ASSUME NEW type, NEW slot, NEW S, OnSlot(type, slot, S), NEW text \in Seq(RunsOf(slot)), NEW s
  PROVE  /\ PrintSlot(type, S, text, s) \in Seq(RunsOf(slot))
         /\ s # slot => PrintSlot(type, S, text, s) = text
         /\ ~Some(S) => PrintSlot(type, S, text, s) = text
         /\ s = slot /\ Some(S) =>
              PrintSlot(type, S, text, s) = text \o Runs(slot, PanelPorts(S))
<1> DEFINE Q == PanelPorts(S)
<1>1. Runs(slot, Q) \in Seq(RunsOf(slot))
  <2>1. MaxPort \in 0 .. MaxPort
    BY SwitchBounds
  <2> HIDE DEF Q
  <2>2. PICK h \in [0 .. MaxPort -> Seq(RunsOf(slot))] : Runs(slot, Q) = h[MaxPort]
    BY RunsLoop
  <2> QED
    BY <2>1, <2>2
<1>2. CASE s # slot \/ ~Some(S)
  <2>1. \A l : l \notin S \cap OfGroup(type, s)
    BY <1>2 DEF OfGroup, OnSlot, Some
  <2>2. S \cap OfGroup(type, s) = {}
    BY <2>1
  <2>3. PrintSlot(type, S, text, s) = text
    BY <2>2 DEF PrintSlot
  <2> QED
    BY <1>2, <2>3
<1>3. CASE s = slot /\ Some(S)
  <2>1. S \cap OfGroup(type, s) = S /\ S # {}
    BY <1>3 DEF Some, OnSlot
  <2>2. PrintSlot(type, S, text, s) = text \o Runs(slot, Q)
    BY <1>3, <2>1 DEF PrintSlot, PanelPorts
  <2> HIDE DEF Q
  <2>3. text \o Runs(slot, Q) \in Seq(RunsOf(slot))
    BY <1>1, ConcatProperties
  <2> QED
    BY <1>3, <2>2, <2>3 DEF Q
<1> QED
  BY <1>2, <1>3

LEMMA PrintedIs ==
  ASSUME NEW type, NEW slot \in 1 .. MaxSlot, NEW S, OnSlot(type, slot, S)
  PROVE  /\ ~Some(S) => Printed(type, S) = <<>>
         /\ Some(S) => Printed(type, S) = Runs(slot, PanelPorts(S))
<1> DEFINE N == MaxSlot
           T == Seq(RunsOf(slot))
           e == <<>>
           want == IF Some(S) THEN Runs(slot, PanelPorts(S)) ELSE e
           Round(x) == PrintSlot(type, S, x[1], x[2])
           F == [x \in T \X (1 .. N) |-> Round(x)]
           Rounds(g) == [s \in 0 .. N |-> IF s = 0 THEN e ELSE PrintSlot(type, S, g[s - 1], s)]
           h == CHOOSE g : g = Rounds(g)
<1>1. N \in Nat /\ e \in T
  BY SwitchBounds
<1>2. ASSUME NEW d \in T, NEW s \in 1 .. N
      PROVE  /\ PrintSlot(type, S, d, s) \in T
             /\ s # slot => PrintSlot(type, S, d, s) = d
  BY PrintSlotFacts
<1>3. PrintSlot(type, S, e, slot) = want
  <2>1. CASE Some(S)
    <3> DEFINE R == Runs(slot, PanelPorts(S))
    <3>1. PrintSlot(type, S, e, slot) = e \o R
      <4> HIDE DEF e
      <4> QED
        BY <1>1, <2>1, PrintSlotFacts
    <3>2. R \in Seq(RunsOf(slot))
      <4> DEFINE Q == PanelPorts(S)
      <4>1. MaxPort \in 0 .. MaxPort
        BY SwitchBounds
      <4> HIDE DEF Q
      <4>2. PICK k \in [0 .. MaxPort -> Seq(RunsOf(slot))] : Runs(slot, Q) = k[MaxPort]
        BY RunsLoop
      <4>3. Runs(slot, Q) \in Seq(RunsOf(slot))
        BY <4>1, <4>2
      <4> QED
        BY <4>3 DEF Q
    <3>3. e \o R = R
      <4> HIDE DEF R
      <4> QED
        BY <3>2, ConcatEmptySeq
    <3> QED
      BY <2>1, <3>1, <3>3
  <2>2. CASE ~Some(S)
    <3>1. PrintSlot(type, S, e, slot) = e
      <4> HIDE DEF e
      <4> QED
        BY <1>1, <2>2, PrintSlotFacts
    <3> QED
      BY <2>2, <3>1
  <2> QED
    BY <2>1, <2>2
<1>4. /\ F \in [T \X (1 .. N) -> T]
      /\ \A d \in T, s \in 1 .. N : F[<<d, s>>] = PrintSlot(type, S, d, s)
  <2>1. \A x \in T \X (1 .. N) : Round(x) \in T
    BY <1>2
  <2> HIDE DEF T
  <2> QED
    BY <2>1
<1>5. Printed(type, S) = h[N]
  BY DEF Printed
<1>6. ~Some(S) => want = <<>>
  OBVIOUS
<1>7. Some(S) => want = Runs(slot, PanelPorts(S))
  OBVIOUS
<1>8. slot \in 1 .. N
  OBVIOUS
<1> HIDE DEF F, N, e, T, want
<1>9. PICK g \in [0 .. N -> T] : IsLoop(g, N, e, F)
  BY <1>1, <1>4, LoopExists
<1>10. g = Rounds(g)
  <2>1. ASSUME NEW s \in 0 .. N PROVE g[s] = IF s = 0 THEN e ELSE PrintSlot(type, S, g[s - 1], s)
    <3>1. CASE s = 0
      BY <1>9, <3>1 DEF IsLoop
    <3>2. CASE s # 0
      <4>1. s \in 1 .. N /\ s - 1 \in 0 .. N
        BY <1>1, <3>2
      <4> QED
        BY <1>4, <1>9, <3>2, <4>1 DEF IsLoop
    <3> QED
      BY <3>1, <3>2
  <2> QED
    BY <2>1
<1>11. h = Rounds(h)
  BY <1>10
<1> HIDE DEF h
<1>12. h[0] = e /\ \A s \in 1 .. N : h[s] = PrintSlot(type, S, h[s - 1], s)
  BY <1>1, <1>11
<1>13. e \in T /\ want \in T
  BY <1>1, <1>2, <1>3, <1>8
<1> DEFINE At(s) == IF s < slot THEN e ELSE want
           X == {s \in 0 .. N : h[s] = At(s)}
<1>14. 0 \in X
  <2>1. 0 < slot /\ 0 \in 0 .. N
    BY <1>1, <1>8
  <2> QED
    BY <1>12, <2>1
<1>15. ASSUME NEW s \in 1 .. N, s - 1 \in X PROVE s \in X
  <2>1. s \in 0 .. N /\ h[s - 1] = At(s - 1) /\ At(s - 1) \in T
    BY <1>1, <1>13, <1>15
  <2>2. CASE s = slot
    <3>1. At(s - 1) = e /\ At(s) = want
      BY <1>1, <2>2
    <3> QED
      BY <1>3, <1>12, <2>1, <2>2, <3>1
  <2>3. CASE s # slot
    <3>1. At(s - 1) = At(s)
      <4>1. s - 1 < slot <=> s < slot
        BY <1>1, <1>8, <2>3
      <4> QED
        BY <4>1
    <3> QED
      BY <1>2, <1>12, <2>1, <2>3, <3>1
  <2> QED
    BY <2>2, <2>3
<1>16. X \in SUBSET (0 .. N)
  OBVIOUS
<1> HIDE DEF X
<1>17. X = 0 .. N
  BY <1>1, <1>14, <1>15, <1>16, Climb
<1>18. N \in 0 .. N /\ ~(N < slot)
  BY <1>1, <1>8
<1>19. h[N] = want
  BY <1>17, <1>18 DEF X
<1> QED
  BY <1>5, <1>6, <1>7, <1>19

\* The trunks that are shown cover the ports they take away.
Covers(A, acc) ==
  /\ acc.left \in SUBSET A /\ acc.shown \in SUBSET Tids
  /\ A \subseteq acc.left \cup UNION {rep.trunk[t].member : t \in acc.shown}

LEMMA ShowTrunkFacts ==
  ASSUME NEW A, NEW acc \in [left : SUBSET A, shown : SUBSET Tids], NEW t
  PROVE  /\ ShowTrunk(acc, t) \in [left : SUBSET A, shown : SUBSET Tids]
         /\ Covers(A, acc) => Covers(A, ShowTrunk(acc, t))
<1> DEFINE m    == rep.trunk[t].member
           new  == ShowTrunk(acc, t)
           L    == acc.left \ m
           W    == acc.shown \cup {t}
<1>1. acc.left \in SUBSET A /\ acc.shown \in SUBSET Tids
  OBVIOUS
<1>2. CASE t \in Tids /\ m \cap acc.left # {}
  <2>1. new = [left |-> L, shown |-> W]
    BY <1>2 DEF ShowTrunk
  <2>2. L \in SUBSET A /\ W \in SUBSET Tids
    BY <1>1, <1>2
  <2>3. ASSUME Covers(A, acc), NEW l \in A, l \notin L
        PROVE  \E x \in W : l \in rep.trunk[x].member
    BY <2>3 DEF Covers
  <2> HIDE DEF new, L, W
  <2>4. new \in [left : SUBSET A, shown : SUBSET Tids] /\ new.left = L /\ new.shown = W
    BY <2>1, <2>2
  <2> QED
    BY <2>2, <2>3, <2>4 DEF Covers, new
<1>3. CASE ~(t \in Tids /\ m \cap acc.left # {})
  BY <1>3 DEF ShowTrunk
<1> QED
  BY <1>2, <1>3

LEMMA TrunksCover ==
  ASSUME NEW S
  PROVE  Covers(S \ Hidden, ShownTrunks(S))
<1> DEFINE N == MaxTrunk
           A == S \ Hidden
           D == [left : SUBSET A, shown : SUBSET Tids]
           c == [left |-> A, shown |-> {}]
           Round(x) == ShowTrunk(x[1], x[2])
           F == [x \in D \X (1 .. N) |-> Round(x)]
           Rounds(g) == [t \in 0 .. N |-> IF t = 0 THEN c ELSE ShowTrunk(g[t - 1], t)]
           h == CHOOSE g : g = Rounds(g)
<1>1. N \in Nat /\ c \in D
  BY SwitchBounds
<1>2. Covers(A, c)
  BY DEF Covers
<1>3. /\ F \in [D \X (1 .. N) -> D]
      /\ \A d \in D, t \in 1 .. N : F[<<d, t>>] = ShowTrunk(d, t)
  <2>1. \A d \in D, t \in 1 .. N : ShowTrunk(d, t) \in D
    BY ShowTrunkFacts
  <2> HIDE DEF D
  <2> QED
    BY <2>1
<1>4. ShownTrunks(S) = h[N]
  BY DEF ShownTrunks
<1>5. ASSUME NEW d \in D, NEW t PROVE ShowTrunk(d, t) \in D /\ (Covers(A, d) => Covers(A, ShowTrunk(d, t)))
  BY ShowTrunkFacts
<1> HIDE DEF F, N, c, D
<1>6. PICK g \in [0 .. N -> D] : IsLoop(g, N, c, F)
  BY <1>1, <1>3, LoopExists
<1>7. g = Rounds(g)
  <2>1. ASSUME NEW t \in 0 .. N PROVE g[t] = IF t = 0 THEN c ELSE ShowTrunk(g[t - 1], t)
    <3>1. CASE t = 0
      BY <1>6, <3>1 DEF IsLoop
    <3>2. CASE t # 0
      <4>1. t \in 1 .. N /\ t - 1 \in 0 .. N
        BY <1>1, <3>2
      <4> QED
        BY <1>3, <1>6, <3>2, <4>1 DEF IsLoop
    <3> QED
      BY <3>1, <3>2
  <2> QED
    BY <2>1
<1>8. h = Rounds(h)
  BY <1>7
<1> HIDE DEF h
<1>9. h[0] = c /\ \A t \in 1 .. N : h[t] = ShowTrunk(h[t - 1], t)
  BY <1>1, <1>8
<1> DEFINE X == {t \in 0 .. N : h[t] \in D /\ Covers(A, h[t])}
<1>10. 0 \in X
  BY <1>1, <1>2, <1>9
<1>11. ASSUME NEW t \in 1 .. N, t - 1 \in X PROVE t \in X
  <2>1. t \in 0 .. N
    BY <1>1
  <2> QED
    BY <1>5, <1>9, <1>11, <2>1
<1>12. X \in SUBSET (0 .. N)
  OBVIOUS
<1> HIDE DEF X
<1>13. X = 0 .. N
  BY <1>1, <1>10, <1>11, <1>12, Climb
<1>14. N \in 0 .. N
  BY <1>1
<1> QED
  BY <1>4, <1>13, <1>14 DEF X

\* A trunk that has a role in a VLAN has all its ports in it.
LEMMA RoleIsMembers ==
  ASSUME NEW t, NEW v, TrunkRole(t, v) # "none"
  PROVE  rep.trunk[t].member \subseteq Members(rep.vlan[v])
<1> DEFINE m == rep.trunk[t].member
           R == {r \in Roles \ {"none"} : m \subseteq With(rep.vlan[v], r)}
<1>1. R # {}
  BY DEF TrunkRole
<1>2. PICK r \in Roles \ {"none"} : m \subseteq With(rep.vlan[v], r)
  BY <1>1
<1>3. With(rep.vlan[v], r) \subseteq Members(rep.vlan[v])
  BY <1>2 DEF With, Members
<1> QED
  BY <1>2, <1>3

\* The ports of one slot, printed and read back.
LEMMA GroupReadBack ==
  ASSUME Mapped, NEW type \in Types, NEW slot \in Slots, NEW S, OnSlot(type, slot, S)
  PROVE  Parsed(type, Printed(type, S)).ok /\ Parsed(type, Printed(type, S)).ports = S
<1> DEFINE b == map.base[<<slot, type>>]
           Q == PanelPorts(S)
<1>1. /\ Ports = DOMAIN map.conf /\ Ports \subseteq Nat \ {0}
      /\ \A l \in Ports : \E i \in 1 .. Len(table) : map.conf[l] = table[i]
  BY MapFacts
<1>2. type \in 1 .. MaxType /\ slot \in 1 .. MaxSlot
  <2>1. PICK l \in Ports, k \in Ports : type = map.conf[l].type /\ slot = map.conf[k].slot
    BY <1>1 DEF Types, Slots
  <2>2. PICK i \in 1 .. Len(table), j \in 1 .. Len(table) : type = table[i].type /\ slot = table[j].slot
    BY <1>1, <2>1
  <2> QED
    BY <2>2, EntryFacts DEF Mapped
<1>3. ASSUME NEW l \in S
      PROVE  /\ Panel(l).port \in 1 .. MaxPort /\ l = b + Panel(l).port
             /\ Logical(type, slot, Panel(l).port) # NoPort
  <2>1. l \in Ports /\ map.conf[l].type = type /\ map.conf[l].slot = slot
    BY <1>1 DEF OnSlot, OfGroup
  <2>2. PICK i \in 1 .. Len(table) :
          map.conf[l] = table[i] /\ l = map.base[Group(table[i])] + table[i].port
    BY <2>1, MapFacts
  <2>3. Group(table[i]) = <<slot, type>>
    BY <2>1, <2>2 DEF Group
  <2>4. b \in Nat
    BY <2>2, <2>3, MapFacts
  <2>5. table[i].port \in 1 .. MaxPort /\ Panel(l).port = table[i].port
    BY <2>2, EntryFacts DEF Mapped, Panel
  <2>6. l = b + Panel(l).port
    BY <2>2, <2>3, <2>5
  <2> HIDE DEF b
  <2>7. b # NoPort /\ l # NoPort /\ Valid(l)
    BY <1>1, <2>1, <2>4 DEF NoPort, Valid
  <2>8. Logical(type, slot, Panel(l).port) = l
    BY <2>6, <2>7 DEF Logical, b
  <2> QED
    BY <2>5, <2>6, <2>7, <2>8 DEF b
<1>4. Q \in SUBSET (1 .. MaxPort) /\ \A q \in Q : Logical(type, slot, q) # NoPort
  BY <1>3 DEF PanelPorts
<1>5. Shift(b, Q) = S
  <2>1. \A l \in S : Panel(l).port \in Q /\ l = b + Panel(l).port
    BY <1>3 DEF PanelPorts
  <2>2. ASSUME NEW q \in Q PROVE b + q \in S
    BY <1>3 DEF PanelPorts
  <2> HIDE DEF b, Q
  <2> QED
    BY <2>1, <2>2 DEF Shift
<1>6. CASE Some(S)
  <2>1. Printed(type, S) = Runs(slot, Q)
    BY <1>2, <1>6, PrintedIs
  <2> HIDE DEF Q
  <2>2. Parsed(type, Runs(slot, Q)).ok /\ Parsed(type, Runs(slot, Q)).ports = Shift(b, Q)
    BY <1>2, <1>4, RunsReadBack
  <2> QED
    BY <1>5, <2>1, <2>2
<1>7. CASE ~Some(S)
  <2>1. Printed(type, S) = <<>>
    BY <1>2, <1>7, PrintedIs
  <2>2. Parsed(type, Printed(type, S)) = Unread
    BY <1>2, <2>1, ParsedFacts
  <2>3. Unread.ok /\ \A x : x \notin Unread.ports /\ x \notin S
    BY <1>7 DEF Unread, Some
  <2>4. Unread.ports = S
    BY <2>3
  <2> QED
    BY <2>2, <2>3, <2>4
<1> QED
  BY <1>6, <1>7

LEMMA MappedReadsBack == Mapped => PrintedIsReadBack
<1> SUFFICES ASSUME Mapped PROVE PrintedIsReadBack
  OBVIOUS
<1>1. ASSUME NEW i \in DOMAIN table
      PROVE  LET l == Logical(table[i].type, table[i].slot, table[i].port)
             IN l # NoPort /\ Panel(l) = table[i] /\ OfDevice(table[i].dev, table[i].devPort) = l
  BY PlacesLead
<1>2. ASSUME NEW v \in Vids, NEW m, m = Members(rep.vlan[v]), NEW s, s = ShownTrunks(m)
      PROVE  /\ \A ty \in Types, sl \in Slots :
                  LET own  == s.left \cap OfGroup(ty, sl)
                      read == Parsed(ty, Printed(ty, own))
                  IN read.ok /\ read.ports = own
             /\ m \ Hidden \subseteq s.left \cup UNION {rep.trunk[t].member : t \in s.shown}
             /\ \A t \in s.shown : TrunkRole(t, v) # "none" => rep.trunk[t].member \subseteq m
  <2>1. ASSUME NEW ty \in Types, NEW sl \in Slots, NEW own, own = s.left \cap OfGroup(ty, sl)
        PROVE  Parsed(ty, Printed(ty, own)).ok /\ Parsed(ty, Printed(ty, own)).ports = own
    <3>1. OnSlot(ty, sl, own)
      BY <2>1 DEF OnSlot
    <3> QED
      BY <3>1, GroupReadBack
  <2>2. m \ Hidden \subseteq s.left \cup UNION {rep.trunk[t].member : t \in s.shown}
    BY <1>2, TrunksCover DEF Covers
  <2>3. \A t \in s.shown : TrunkRole(t, v) # "none" => rep.trunk[t].member \subseteq m
    BY <1>2, RoleIsMembers
  <2> QED
    BY <2>1, <2>2, <2>3
<1> QED
  BY <1>1, <1>2 DEF PrintedIsReadBack

\* What is printed of the ports is read back, and every port has a number of its own, for
\* any tables of ports, any number of slots, types, trunks and VLANs.
THEOREM PrintedAlwaysReadBack == SwSpec => []PrintedIsReadBack
<1>1. SwInit => Mapped
  BY DEF SwInit, Mapped
<1>2. Mapped /\ [SwNext]_swVars => Mapped'
  <2> SUFFICES ASSUME Mapped, [SwNext]_swVars PROVE table' = table /\ map' = map
    BY DEF Mapped
  <2> QED
    BY DEF SwNext, swVars, Deliver, VlanChanges, TrunkChanges, LacpTrunks, IfTakesTrunk, PortChanges,
           LagChanges, RingChanges, Rest, Subscribe, Answer
<1>3. Mapped => PrintedIsReadBack
  BY MappedReadsBack
<1> QED
  BY <1>1, <1>2, <1>3, PTL DEF SwSpec

-----------------------------------------------------------------------------
(* The copy agrees.                                                        *)

LEMMA FullArePorts ==
  ASSUME NEW t
  PROVE  PortMap(t).full \subseteq DOMAIN PortMap(t).conf
BY DEF PortMap

LEMMA SwBegins == SwInit => SwInv
<1> SUFFICES ASSUME SwInit PROVE SwInv
  OBVIOUS
<1> DEFINE P == Ports
<1>1. IsFiniteSet(P) /\ map.full \subseteq P
  <2>1. table \in Tables /\ map = PortMap(table)
    BY DEF SwInit
  <2> QED
    BY <2>1, PortsAreFinite, FullArePorts DEF Ports
<1>2. NoVlan \in VlanInfos(P) /\ DefaultVlan \in VlanInfos(P)
  BY DEF NoVlan, DefaultVlan, VlanInfos, Roles
<1>3. /\ ifs = [vlan |-> [v \in Vids |-> IF v = 1 THEN DefaultVlan ELSE NoVlan],
                trunk |-> [t \in Tids |-> {}], desc |-> [l \in P |-> FALSE]]
      /\ lag = [t \in Tids |-> {}]
      /\ claimed = [vlan |-> [v \in Vids |-> FALSE], port |-> [s \in Sides |-> 0]]
      /\ box = <<>> /\ inbox = <<>> /\ joined = "out"
      /\ rep = [vlan |-> [v \in Vids |-> NoVlan], trunk |-> [t \in Tids |-> [member |-> {}, lacp |-> FALSE]],
                desc |-> ifs.desc, ring |-> claimed.port, lag |-> lag]
      /\ heard = [vlan |-> [v \in Vids |-> NoNews], trunk |-> [t \in Tids |-> {}]]
  BY DEF SwInit, Sides
<1>4. ifs \in Switches(P) /\ ifs.desc \in [P -> BOOLEAN]
  <2> HIDE DEF P
  <2> QED
    BY <1>2, <1>3 DEF Switches
<1>5. /\ lag \in [Tids -> SUBSET P]
      /\ claimed \in [vlan : [Vids -> BOOLEAN], port : [Sides -> P \cup {0}]]
      /\ claimed.port \in [Sides -> P \cup {0}]
  BY <1>3
<1>6. rep \in Copies(P)
  <2> HIDE DEF P
  <2>1. [member |-> {}, lacp |-> FALSE] \in Trunks(P)
    BY DEF Trunks
  <2> QED
    BY <1>2, <1>3, <1>4, <1>5, <2>1 DEF Copies
<1>7. NoNews \in HeardVlans(P) /\ Tells(P, NoNews, NoVlan)
  BY DEF NoNews, HeardVlans, Tells, RoleIs, NoVlan
<1>8. heard \in Listeners(P) /\ Listens(P, heard, rep)
  BY <1>3, <1>7 DEF Listeners, Listens
<1>9. box \in Seq(SwMsgs(P)) /\ inbox \in Seq(TrunkMsgs(P))
  BY <1>3, EmptySeq
<1> QED
  BY <1>1, <1>3, <1>4, <1>5, <1>6, <1>8, <1>9 DEF SwInv, SwTypeOK

LEMMA SwStep == SwInv /\ [SwNext]_swVars => SwInv'
<1> SUFFICES ASSUME SwInv, [SwNext]_swVars PROVE SwInv'
  OBVIOUS
<1>1. CASE UNCHANGED swVars
  <2>1. Ports' = Ports /\ map' = map /\ ifs' = ifs /\ lag' = lag /\ claimed' = claimed
        /\ box' = box /\ inbox' = inbox /\ crossed' = crossed /\ rep' = rep /\ heard' = heard /\ joined' = joined
    BY <1>1 DEF swVars, Ports
  <2> QED
    BY <2>1 DEF SwInv, SwTypeOK
<1>2. CASE Deliver
  BY <1>2, DeliverStep
<1>3. CASE VlanChanges
  BY <1>3, VlanStep
<1>4. CASE TrunkChanges
  BY <1>4, TrunkStep
<1>5. CASE LacpTrunks
  BY <1>5, LacpStep
<1>6. CASE IfTakesTrunk
  BY <1>6, TakeStep
<1>7. CASE PortChanges
  BY <1>7, PortStep
<1>8. CASE LagChanges
  BY <1>8, LagStep
<1>9. CASE RingChanges
  BY <1>9, RingStep
<1>10. CASE Subscribe
  BY <1>10, SubscribeStep
<1>11. CASE Answer
  BY <1>11, AnswerStep
<1> QED
  BY <1>1, <1>2, <1>3, <1>4, <1>5, <1>6, <1>7, <1>8, <1>9, <1>10, <1>11 DEF SwNext

LEMMA SwAgrees == SwInv => CopyAgrees
<1> SUFFICES ASSUME SwInv PROVE CopyAgrees
  OBVIOUS
<1>1. ListenerAgrees
  BY DEF SwInv, Listens, Tells, RoleIs, With, ListenerAgrees
<1>2. ASSUME joined = "synced", box = <<>>
      PROVE  /\ \A v \in Vids : rep.vlan[v].valid = ifs.vlan[v].valid /\ rep.vlan[v].role = ifs.vlan[v].role
             /\ \A t \in Tids : ~Unheard(t) /\ t \notin crossed => rep.trunk[t].member = ifs.trunk[t]
             /\ rep.desc = ifs.desc
  <2>1. Follows(Ports, <<>>, rep, ifs) /\ TrunksFollow(Ports, <<>>, rep, inbox, ifs, crossed)
    BY <1>2 DEF SwInv
  <2>2. ASSUME NEW v \in Vids
        PROVE  rep.vlan[v].valid = ifs.vlan[v].valid /\ rep.vlan[v].role = ifs.vlan[v].role
    <3>1. LatestIs(<<>>, VlanNews(Ports, v), VlanOf(rep.vlan[v]), VlanOf(ifs.vlan[v]))
      BY <2>1 DEF Follows
    <3>2. VlanOf(rep.vlan[v]) = VlanOf(ifs.vlan[v])
      BY <3>1, LatestIsKnown
    <3> QED
      BY <3>2 DEF VlanOf
  <2>3. ASSUME NEW t \in Tids, ~Unheard(t), t \notin crossed
        PROVE  rep.trunk[t].member = ifs.trunk[t]
    <3> DEFINE s == TrunkNews(Ports, t)
    <3>1. PICK x : LatestIs(<<>>, s, rep.trunk[t].member, x) /\ LatestIs(inbox, s, ifs.trunk[t], x)
      BY <2>1, <2>3 DEF TrunksFollow, TrunkFollows
    <3>2. ASSUME NEW k \in 1 .. Len(inbox) PROVE inbox[k] \notin DOMAIN s
      <4>1. inbox[k] \in TrunkMsgs(Ports) /\ k \in DOMAIN inbox
        BY ElementOfSeq DEF SwInv, SwTypeOK
      <4>2. inbox[k] \in SwMsgs(Ports) /\ inbox[k].id # t
        BY <2>3, <4>1, LacpFacts DEF Unheard
      <4> QED
        BY <4>2, NewsFacts
    <3> HIDE DEF s
    <3>3. ifs.trunk[t] = x
      BY <3>1, <3>2 DEF LatestIs
    <3>4. rep.trunk[t].member = x
      BY <3>1, LatestIsKnown
    <3> QED
      BY <3>3, <3>4
  <2>4. rep.desc = ifs.desc
    <3>1. ASSUME NEW l \in Ports PROVE rep.desc[l] = ifs.desc[l]
      <4>1. LatestIs(<<>>, PortNews(Ports, l), rep.desc[l], ifs.desc[l])
        BY <2>1 DEF Follows
      <4> QED
        BY <4>1, LatestIsKnown
    <3>2. rep.desc \in [Ports -> BOOLEAN] /\ ifs.desc \in [Ports -> BOOLEAN]
      BY DEF SwInv, SwTypeOK, Copies, Switches
    <3> QED
      BY <3>1, <3>2
  <2> QED
    BY <2>2, <2>3, <2>4
<1> QED
  BY <1>1, <1>2, Zenon DEF CopyAgrees, LateCopyIsComplete

THEOREM CopyInductive == SwSpec => []SwInv
<1>1. SwInit => SwInv
  BY SwBegins
<1>2. SwInv /\ [SwNext]_swVars => SwInv'
  BY SwStep
<1> QED
  BY <1>1, <1>2, PTL DEF SwSpec

\* A service that follows the switch ports has the state they are in (sw_ipc.c).
THEOREM CopyAlwaysAgrees == SwSpec => []CopyAgrees
<1>1. SwInv => CopyAgrees
  BY SwAgrees
<1> QED
  BY <1>1, CopyInductive, PTL

-----------------------------------------------------------------------------
(* The table of interfaces.                                                *)

RealAddrs == [ip : Ips, len : 1 .. Bits]

\* The names of an interface, with the device usb0 and without.
NamesOf(p, i) == {VifGetSysName([p EXCEPT !.usb0 = u], i) : u \in BOOLEAN}
AllRows(p) ==
  [info : Ifs(p) \cup {None}, iface : (UNION {NamesOf(p, i) : i \in Ifs(p)}) \cup {NoName},
   main : RealAddrs \cup {NoAddr}, second : RealAddrs \cup {NoAddr}]

\* What holds of a row of region t: it is empty or an interface of that region, under
\* a name the product gives it, with no second address unless it has a first.
RowOK(r, t, p) ==
  /\ r.info = None => r = NoRow
  /\ r.info # None => Region(r.info.type) = t /\ r.iface \in NamesOf(p, r.info)
  /\ r.second # NoAddr => r.main # NoAddr

\* A table of such rows, in which an interface has one row at most.
SoundTable(T, p) ==
  /\ T = [t \in DOMAIN Regions |-> T[t]]
  /\ \A t \in DOMAIN Regions : T[t] \in [1 .. Regions[t] -> AllRows(p)]
  /\ \A t \in DOMAIN Regions : \A n \in 1 .. Regions[t] : RowOK(T[t][n], t, p)
  /\ \A t \in DOMAIN Regions : \A n, m \in 1 .. Regions[t] :
       T[t][n].info = T[t][m].info /\ T[t][n].info # None => n = m

\* Slot(), Place() and Row() of a table.
SlotsIn(T, t, i) == {n \in DOMAIN T[t] : T[t][n].info = i}
SlotIn(T, t, i)  == IF SlotsIn(T, t, i) = {} THEN 0 ELSE Min(SlotsIn(T, t, i))
PlaceIn(T, i) ==
  IF SlotIn(T, Region(i.type), i) > 0 THEN SlotIn(T, Region(i.type), i)
  ELSE SlotIn(T, Region(i.type), None)
RowIn(T, i) ==
  IF Region(i.type) \in DOMAIN Regions /\ SlotIn(T, Region(i.type), i) > 0
  THEN T[Region(i.type)][SlotIn(T, Region(i.type), i)] ELSE NoRow

\* The name an interface has now is one of its names.
LEMMA NameNow ==
  ASSUME NEW p, p \in Products, NEW i
  PROVE  VifGetSysName(p, i) \in NamesOf(p, i)
<1>1. p.usb0 \in BOOLEAN /\ p = [p EXCEPT !.usb0 = p.usb0]
  BY TableConstantsOK DEF Product
<1> QED
  BY <1>1 DEF NamesOf

\* When usb0 comes or goes the names are the same two, and the table is as sound as it was.
LEMMA SwitchedSame ==
  ASSUME NEW p, p \in Products, p.modem = "ME909"
  PROVE  /\ Switched(p) \in Products /\ Ifs(Switched(p)) = Ifs(p)
         /\ \A T : SoundTable(T, p) => SoundTable(T, Switched(p))
<1> DEFINE q == Switched(p)
<1>1. q \in Products /\ Ifs(q) = Ifs(p)
  BY InterfacesAreProper
<1>2. ASSUME NEW u \in BOOLEAN PROVE [q EXCEPT !.usb0 = u] = [p EXCEPT !.usb0 = u]
  BY TableConstantsOK DEF Product, Switched
<1> HIDE DEF q
<1>3. ASSUME NEW i PROVE NamesOf(q, i) = NamesOf(p, i)
  <2>1. ASSUME NEW u \in BOOLEAN
        PROVE  VifGetSysName([q EXCEPT !.usb0 = u], i) = VifGetSysName([p EXCEPT !.usb0 = u], i)
    BY <1>2
  <2> QED
    BY <2>1, Zenon DEF NamesOf
<1>4. UNION {NamesOf(q, i) : i \in Ifs(p)} = UNION {NamesOf(p, i) : i \in Ifs(p)}
  BY <1>3, Zenon
<1>5. AllRows(q) = AllRows(p)
  BY <1>1, <1>4, Zenon DEF AllRows
<1>6. ASSUME NEW row, NEW t, RowOK(row, t, p) PROVE RowOK(row, t, q)
  BY <1>3, <1>6 DEF RowOK
<1>7. ASSUME NEW T, SoundTable(T, p) PROVE SoundTable(T, q)
  BY <1>5, <1>6, <1>7 DEF SoundTable
<1> QED
  BY <1>1, <1>7 DEF q

\* No interface has the number of an empty row.
LEMMA NoneIsNone ==
  ASSUME NEW p, p \in Products
  PROVE  None \notin Ifs(p)
<1>1. \A i \in Ifs(p) : i.type # "NONE"
  BY TableConstantsOK
<1>2. None.type = "NONE"
  BY DEF None, If
<1> QED
  BY <1>1, <1>2

\* A real address is not the missing one.
LEMMA RealIsReal ==
  ASSUME NEW a, a \in RealAddrs
  PROVE  a # NoAddr /\ a.ip # NoIp /\ a.ip \in Ips /\ a.len \in 1 .. Bits
<1>1. a.ip \in Ips /\ a.len \in 1 .. Bits /\ Bits \in Nat
  BY TableConstantsOK DEF RealAddrs
<1>2. PICK k \in 1 .. Bits : a.ip[k] = 1
  BY <1>1 DEF Ips
<1>3. DOMAIN a.ip = 1 .. Bits /\ 1 \in 1 .. Bits
  BY <1>1, <1>2 DEF Ips
<1>4. DOMAIN NoIp = {}
  BY DEF NoIp
<1>5. a.ip # NoIp
  BY <1>3, <1>4
<1>6. NoAddr.ip = NoIp
  BY DEF NoAddr, Addr
<1> QED
  BY <1>1, <1>5, <1>6

\* A slot that is found holds what was looked for, and is found if it is there.
LEMMA SlotFacts ==
  ASSUME NEW T, NEW p, SoundTable(T, p), NEW t, t \in DOMAIN Regions, NEW i
  PROVE  /\ SlotIn(T, t, i) \in 0 .. Regions[t]
         /\ SlotIn(T, t, i) > 0 => SlotIn(T, t, i) \in 1 .. Regions[t] /\ T[t][SlotIn(T, t, i)].info = i
         /\ SlotIn(T, t, i) = 0 => \A n \in 1 .. Regions[t] : T[t][n].info # i
<1> DEFINE S == SlotsIn(T, t, i)
           k == SlotIn(T, t, i)
<1>1. Regions[t] \in Nat
  BY TableConstantsOK
<1>2. DOMAIN T[t] = 1 .. Regions[t]
  BY DEF SoundTable
<1>3. S \subseteq 1 .. Regions[t] /\ \A n \in S : T[t][n].info = i
  BY <1>2 DEF SlotsIn
<1>4. \A n \in 1 .. Regions[t] : T[t][n].info = i => n \in S
  BY <1>2 DEF SlotsIn
<1>5. k = IF S = {} THEN 0 ELSE Min(S)
  BY DEF SlotIn
<1> HIDE DEF S, k
<1>6. CASE S = {}
  <2>1. k = 0
    BY <1>5, <1>6
  <2> QED
    BY <1>1, <1>4, <1>6, <2>1 DEF k
<1>7. CASE S # {}
  <2>1. Min(S) \in S
    BY <1>1, <1>3, <1>7, MinIsMember
  <2>2. k \in S
    BY <1>5, <1>7, <2>1
  <2>3. k \in 1 .. Regions[t] /\ T[t][k].info = i
    BY <1>3, <2>2
  <2>4. k > 0 /\ k \in 0 .. Regions[t] /\ k # 0
    BY <1>1, <2>3
  <2> QED
    BY <2>3, <2>4 DEF k
<1> QED
  BY <1>6, <1>7

\* The row of an interface that has one.
LEMMA RowFound ==
  ASSUME NEW T, NEW p, SoundTable(T, p), NEW t, t \in DOMAIN Regions,
         NEW n, n \in 1 .. Regions[t], NEW i, T[t][n].info = i, i # None
  PROVE  RowIn(T, i) = T[t][n]
<1>1. Region(i.type) = t
  BY DEF SoundTable, RowOK
<1> DEFINE k == SlotIn(T, t, i)
<1>2. /\ k \in 0 .. Regions[t]
      /\ k > 0 => k \in 1 .. Regions[t] /\ T[t][k].info = i
      /\ k = 0 => \A m \in 1 .. Regions[t] : T[t][m].info # i
  BY SlotFacts
<1> HIDE DEF k
<1>3. Regions[t] \in Nat
  BY TableConstantsOK
<1>4. k > 0 /\ k \in 1 .. Regions[t] /\ T[t][k].info = i
  BY <1>2, <1>3
<1>5. k = n
  BY <1>4 DEF SoundTable
<1>6. RowIn(T, i) = T[t][k]
  BY <1>1, <1>4 DEF RowIn, k
<1> QED
  BY <1>5, <1>6

\* An interface has a row, or none.
LEMMA RowKept ==
  ASSUME NEW T, NEW p, SoundTable(T, p), NEW i, RowIn(T, i) # NoRow
  PROVE  /\ Region(i.type) \in DOMAIN Regions
         /\ SlotIn(T, Region(i.type), i) \in 1 .. Regions[Region(i.type)]
         /\ SlotIn(T, Region(i.type), i) > 0
         /\ RowIn(T, i) = T[Region(i.type)][SlotIn(T, Region(i.type), i)]
         /\ RowIn(T, i).info = i
<1> DEFINE t == Region(i.type)
           k == SlotIn(T, t, i)
<1>1. t \in DOMAIN Regions /\ k > 0 /\ RowIn(T, i) = T[t][k]
  BY DEF RowIn
<1>2. k \in 1 .. Regions[t] /\ T[t][k].info = i
  <2>1. k > 0 => k \in 1 .. Regions[t] /\ T[t][k].info = i
    BY <1>1, SlotFacts
  <2> QED
    BY <1>1, <2>1
<1> QED
  BY <1>1, <1>2

LEMMA RowLost ==
  ASSUME NEW T, NEW p, SoundTable(T, p), NEW i,
         \A t \in DOMAIN Regions : \A n \in 1 .. Regions[t] : T[t][n].info # i
  PROVE  RowIn(T, i) = NoRow
<1>1. SUFFICES ASSUME RowIn(T, i) # NoRow PROVE FALSE
  OBVIOUS
<1>2. /\ Region(i.type) \in DOMAIN Regions
      /\ SlotIn(T, Region(i.type), i) \in 1 .. Regions[Region(i.type)]
      /\ RowIn(T, i) = T[Region(i.type)][SlotIn(T, Region(i.type), i)]
      /\ RowIn(T, i).info = i
  BY <1>1, RowKept
<1> QED
  BY <1>2

LEMMA RowTypes ==
  ASSUME NEW T, NEW p, SoundTable(T, p), NEW i, RowIn(T, i) # NoRow
  PROVE  RowIn(T, i) \in AllRows(p) /\ RowOK(RowIn(T, i), Region(i.type), p)
<1> DEFINE t == Region(i.type)
           k == SlotIn(T, t, i)
<1>1. t \in DOMAIN Regions /\ k \in 1 .. Regions[t] /\ RowIn(T, i) = T[t][k]
  BY RowKept
<1> HIDE DEF k, t
<1>2. T[t] \in [1 .. Regions[t] -> AllRows(p)] /\ RowOK(T[t][k], t, p)
  BY <1>1 DEF SoundTable
<1>3. T[t][k] \in AllRows(p)
  BY <1>1, <1>2
<1> QED
  BY <1>1, <1>2, <1>3 DEF t

\* A row is put into a slot that is empty or its own.
WithRow(T, t, n, row) == [T EXCEPT ![t][n] = row]

LEMMA PutRow ==
  ASSUME NEW T, NEW p, SoundTable(T, p), NEW t, t \in DOMAIN Regions,
         NEW n, n \in 1 .. Regions[t], NEW row, row \in AllRows(p), RowOK(row, t, p),
         \A m \in 1 .. Regions[t] : T[t][m].info = row.info /\ row.info # None => m = n,
         NEW U, U = WithRow(T, t, n, row)
  PROVE  /\ SoundTable(U, p)
         /\ \A s \in DOMAIN Regions : \A m \in 1 .. Regions[s] :
              U[s][m] = IF s = t /\ m = n THEN row ELSE T[s][m]
<1>1. DOMAIN T = DOMAIN Regions
  BY DEF SoundTable
<1>2. T[t] \in [1 .. Regions[t] -> AllRows(p)]
  BY DEF SoundTable
<1>3. U = [s \in DOMAIN Regions |-> IF s = t THEN [T[t] EXCEPT ![n] = row] ELSE T[s]]
  <2>1. T = [s \in DOMAIN Regions |-> T[s]]
    BY DEF SoundTable
  <2>2. U = [T EXCEPT ![t] = [T[t] EXCEPT ![n] = row]]
    BY Zenon DEF WithRow
  <2> QED
    BY <2>1, <2>2
<1>4. /\ U[t] = [T[t] EXCEPT ![n] = row]
      /\ \A s \in DOMAIN Regions : s # t => U[s] = T[s]
  BY <1>3
<1>5. U[t] \in [1 .. Regions[t] -> AllRows(p)]
  BY <1>2, <1>4
<1>6. \A m \in 1 .. Regions[t] : U[t][m] = IF m = n THEN row ELSE T[t][m]
  BY <1>2, <1>4
<1>7. \A s \in DOMAIN Regions : U[s] \in [1 .. Regions[s] -> AllRows(p)]
  <2> SUFFICES ASSUME NEW s \in DOMAIN Regions PROVE U[s] \in [1 .. Regions[s] -> AllRows(p)]
    OBVIOUS
  <2>1. T[s] \in [1 .. Regions[s] -> AllRows(p)]
    BY DEF SoundTable
  <2> QED
    BY <1>4, <1>5, <2>1
<1>8. \A s \in DOMAIN Regions : \A m \in 1 .. Regions[s] :
        U[s][m] = IF s = t /\ m = n THEN row ELSE T[s][m]
  BY <1>4, <1>6
<1>9. \A s \in DOMAIN Regions : \A m \in 1 .. Regions[s] : RowOK(U[s][m], s, p)
  <2> SUFFICES ASSUME NEW s \in DOMAIN Regions, NEW m \in 1 .. Regions[s]
               PROVE RowOK(U[s][m], s, p)
    OBVIOUS
  <2>1. RowOK(T[s][m], s, p)
    BY DEF SoundTable
  <2>2. CASE s = t /\ m = n
    BY <1>6, <2>2
  <2>3. CASE ~(s = t /\ m = n)
    <3>1. U[s][m] = T[s][m]
      BY <1>8, <2>3
    <3> QED
      BY <2>1, <3>1
  <2> QED
    BY <2>2, <2>3
<1>10. \A s \in DOMAIN Regions : \A m, o \in 1 .. Regions[s] :
         U[s][m].info = U[s][o].info /\ U[s][m].info # None => m = o
  <2> SUFFICES ASSUME NEW s \in DOMAIN Regions, NEW m \in 1 .. Regions[s], NEW o \in 1 .. Regions[s],
                      U[s][m].info = U[s][o].info, U[s][m].info # None
               PROVE m = o
    OBVIOUS
  <2>1. T[s][m].info = T[s][o].info /\ T[s][m].info # None => m = o
    BY DEF SoundTable
  <2>2. CASE s # t
    <3>1. U[s] = T[s]
      BY <1>4, <2>2
    <3> QED
      BY <2>1, <3>1
  <2>3. CASE s = t
    <3>1. CASE m = n
      BY <1>6, <2>3, <3>1
    <3>2. CASE o = n
      BY <1>6, <2>3, <3>2
    <3>3. CASE m # n /\ o # n
      <4>1. U[s][m] = T[s][m] /\ U[s][o] = T[s][o]
        BY <1>6, <2>3, <3>3
      <4> QED
        BY <2>1, <4>1
    <3> QED
      BY <3>1, <3>2, <3>3
  <2> QED
    BY <2>2, <2>3
<1>11. U = [s \in DOMAIN Regions |-> U[s]]
  BY <1>3
<1> QED
  BY <1>7, <1>8, <1>9, <1>10, <1>11 DEF SoundTable

\* .. and leaves the row of every interface but the two it is about.
LEMMA OthersKeepRows ==
  ASSUME NEW T, NEW U, NEW p, SoundTable(T, p), SoundTable(U, p),
         NEW t, t \in DOMAIN Regions, NEW n, n \in 1 .. Regions[t], NEW row,
         \A s \in DOMAIN Regions : \A m \in 1 .. Regions[s] :
           U[s][m] = IF s = t /\ m = n THEN row ELSE T[s][m],
         NEW j, j # None, j # row.info, j # T[t][n].info
  PROVE  RowIn(U, j) = RowIn(T, j)
<1>1. CASE \E s \in DOMAIN Regions : \E m \in 1 .. Regions[s] : T[s][m].info = j
  <2>1. PICK s \in DOMAIN Regions : \E m \in 1 .. Regions[s] : T[s][m].info = j
    BY <1>1
  <2>2. PICK m \in 1 .. Regions[s] : T[s][m].info = j
    BY <2>1
  <2>3. U[s][m] = T[s][m]
    BY <2>2
  <2>4. RowIn(T, j) = T[s][m]
    BY <2>2, RowFound
  <2>5. RowIn(U, j) = U[s][m]
    BY <2>2, <2>3, RowFound
  <2> QED
    BY <2>3, <2>4, <2>5
<1>2. CASE \A s \in DOMAIN Regions : \A m \in 1 .. Regions[s] : T[s][m].info # j
  <2>1. \A s \in DOMAIN Regions : \A m \in 1 .. Regions[s] : U[s][m].info # j
    BY <1>2
  <2>2. RowIn(T, j) = NoRow
    BY <1>2, RowLost
  <2>3. RowIn(U, j) = NoRow
    BY <2>1, RowLost
  <2> QED
    BY <2>2, <2>3
<1> QED
  BY <1>1, <1>2

\* What the handler makes of a row that is published.
HearIn(T, row) ==
  IF Region(row.info.type) \in DOMAIN Regions /\ PlaceIn(T, row.info) > 0
  THEN WithRow(T, Region(row.info.type), PlaceIn(T, row.info), row) ELSE T
ForgetIn(T, i) ==
  IF Region(i.type) \in DOMAIN Regions /\ SlotIn(T, Region(i.type), i) > 0
  THEN WithRow(T, Region(i.type), SlotIn(T, Region(i.type), i), NoRow) ELSE T

\* The slot a row is put into is its own, or an empty one if it has none.
LEMMA PlaceFacts ==
  ASSUME NEW T, NEW p, SoundTable(T, p), NEW i, i # None, Region(i.type) \in DOMAIN Regions,
         NEW t, t = Region(i.type), NEW n, n = PlaceIn(T, i), n > 0
  PROVE  /\ n \in 1 .. Regions[t] /\ (T[t][n].info = i \/ T[t][n].info = None)
         /\ \A m \in 1 .. Regions[t] : T[t][m].info = i => m = n
<1> DEFINE k == SlotIn(T, t, i)
           e == SlotIn(T, t, None)
<1>1. /\ k \in 0 .. Regions[t]
      /\ k > 0 => k \in 1 .. Regions[t] /\ T[t][k].info = i
      /\ k = 0 => \A m \in 1 .. Regions[t] : T[t][m].info # i
  BY SlotFacts
<1>2. e > 0 => e \in 1 .. Regions[t] /\ T[t][e].info = None
  BY SlotFacts
<1>3. n = IF k > 0 THEN k ELSE e
  BY DEF PlaceIn
<1> HIDE DEF k, e
<1>4. CASE k > 0
  <2>1. n = k /\ n \in 1 .. Regions[t] /\ T[t][n].info = i
    BY <1>1, <1>3, <1>4
  <2>2. \A m \in 1 .. Regions[t] : T[t][m].info = i => m = n
    BY <2>1 DEF SoundTable
  <2> QED
    BY <2>1, <2>2
<1>5. CASE ~(k > 0)
  <2>1. k = 0
    BY <1>1, <1>5, TableConstantsOK
  <2>2. n = e /\ n \in 1 .. Regions[t] /\ T[t][n].info = None
    BY <1>2, <1>3, <1>5
  <2> QED
    BY <1>1, <2>1, <2>2
<1> QED
  BY <1>4, <1>5

\* A row that is published takes its place and disturbs no other; it is found again
\* unless it was new and there was no room.
LEMMA HearKeepsSound ==
  ASSUME NEW T, NEW p, p \in Products, SoundTable(T, p), NEW row, row \in AllRows(p),
         row.info \in Ifs(p), RowOK(row, Region(row.info.type), p),
         NEW U, U = HearIn(T, row)
  PROVE  /\ SoundTable(U, p)
         /\ \A j \in Ifs(p) : j # row.info => RowIn(U, j) = RowIn(T, j)
         /\ RowIn(U, row.info) = row \/ RowIn(U, row.info) = RowIn(T, row.info)
         /\ RowIn(T, row.info) # NoRow => RowIn(U, row.info) = row
<1> DEFINE i == row.info
           t == Region(i.type)
           n == PlaceIn(T, i)
<1>1. i # None /\ \A j \in Ifs(p) : j # None
  BY NoneIsNone
<1>2. RowIn(T, i) # NoRow => t \in DOMAIN Regions /\ n > 0
  <2> SUFFICES ASSUME RowIn(T, i) # NoRow PROVE t \in DOMAIN Regions /\ n > 0
    OBVIOUS
  <2>1. t \in DOMAIN Regions /\ SlotIn(T, t, i) > 0
    BY RowKept
  <2> QED
    BY <2>1 DEF PlaceIn
<1>3. CASE t \in DOMAIN Regions /\ n > 0
  <2>1. U = WithRow(T, t, n, row)
    BY <1>3, Zenon DEF HearIn
  <2>2. /\ n \in 1 .. Regions[t] /\ (T[t][n].info = i \/ T[t][n].info = None)
        /\ \A m \in 1 .. Regions[t] : T[t][m].info = i => m = n
    BY <1>1, <1>3, PlaceFacts
  <2> HIDE DEF n, t
  <2>3. RowOK(row, t, p)
    BY DEF t
  <2>4. /\ SoundTable(U, p)
        /\ \A s \in DOMAIN Regions : \A m \in 1 .. Regions[s] :
             U[s][m] = IF s = t /\ m = n THEN row ELSE T[s][m]
    BY <1>3, <2>1, <2>2, <2>3, PutRow
  <2>5. RowIn(U, i) = row
    <3>1. U[t][n] = row
      BY <1>3, <2>2, <2>4
    <3> QED
      BY <1>1, <1>3, <2>2, <2>4, <3>1, RowFound
  <2>6. ASSUME NEW j \in Ifs(p), j # i PROVE RowIn(U, j) = RowIn(T, j)
    <3>1. j # None /\ j # row.info /\ j # T[t][n].info
      BY <1>1, <2>2, <2>6
    <3> QED
      BY <1>3, <2>2, <2>4, <3>1, OthersKeepRows
  <2> QED
    BY <2>4, <2>5, <2>6
<1>4. CASE ~(t \in DOMAIN Regions /\ n > 0)
  <2>1. U = T
    BY <1>4, Zenon DEF HearIn
  <2> QED
    BY <1>2, <1>4, <2>1
<1> QED
  BY <1>3, <1>4

\* An interface that is destroyed has no row any more, and the others keep theirs.
LEMMA ForgetKeepsSound ==
  ASSUME NEW T, NEW p, p \in Products, SoundTable(T, p), NEW i, i \in Ifs(p),
         NEW U, U = ForgetIn(T, i)
  PROVE  /\ SoundTable(U, p) /\ RowIn(U, i) = NoRow
         /\ \A j \in Ifs(p) : j # i => RowIn(U, j) = RowIn(T, j)
<1> DEFINE t == Region(i.type)
           n == SlotIn(T, t, i)
<1>1. i # None /\ \A j \in Ifs(p) : j # None
  BY NoneIsNone
<1>2. CASE t \in DOMAIN Regions /\ n > 0
  <2>1. U = WithRow(T, t, n, NoRow)
    BY <1>2, Zenon DEF ForgetIn
  <2>2. n \in 1 .. Regions[t] /\ T[t][n].info = i
    BY <1>2, SlotFacts
  <2>3. Region(i.type) = t
    OBVIOUS
  <2> HIDE DEF n, t
  <2>4. NoRow.info = None /\ NoRow.second = NoAddr
    BY DEF NoRow, Bare
  <2>5. NoRow \in AllRows(p) /\ RowOK(NoRow, t, p)
    BY <2>4 DEF NoRow, Bare, AllRows, RowOK
  <2>6. \A m \in 1 .. Regions[t] : T[t][m].info = NoRow.info /\ NoRow.info # None => m = n
    BY <2>4
  <2>7. /\ SoundTable(U, p)
        /\ \A s \in DOMAIN Regions : \A m \in 1 .. Regions[s] :
             U[s][m] = IF s = t /\ m = n THEN NoRow ELSE T[s][m]
    BY <1>2, <2>1, <2>2, <2>5, <2>6, PutRow
  <2>8. \A s \in DOMAIN Regions : \A m \in 1 .. Regions[s] : U[s][m].info # i
    <3> SUFFICES ASSUME NEW s \in DOMAIN Regions, NEW m \in 1 .. Regions[s], U[s][m].info = i
                 PROVE FALSE
      OBVIOUS
    <3>1. U[s][m] # NoRow
      BY <1>1, <2>4
    <3>2. U[s][m] = T[s][m] /\ ~(s = t /\ m = n)
      BY <2>7, <3>1
    <3>3. RowIn(T, i) = T[s][m] /\ s = t
      <4>1. T[s][m].info = i
        BY <3>2
      <4>2. Region(i.type) = s
        BY <1>1, <4>1 DEF SoundTable, RowOK
      <4> QED
        BY <1>1, <2>3, <4>1, <4>2, RowFound
    <3>4. m = n
      BY <1>1, <1>2, <2>2, <3>2, <3>3 DEF SoundTable
    <3> QED
      BY <3>2, <3>3, <3>4
  <2>9. RowIn(U, i) = NoRow
    BY <2>7, <2>8, RowLost
  <2>10. ASSUME NEW j \in Ifs(p), j # i PROVE RowIn(U, j) = RowIn(T, j)
    <3>1. j # None /\ j # NoRow.info /\ j # T[t][n].info
      BY <1>1, <2>2, <2>4, <2>10
    <3> QED
      BY <1>2, <2>2, <2>7, <3>1, OthersKeepRows
  <2> QED
    BY <2>7, <2>9, <2>10
<1>3. CASE ~(t \in DOMAIN Regions /\ n > 0)
  <2>1. U = T
    BY <1>3, Zenon DEF ForgetIn
  <2>2. RowIn(T, i) = NoRow
    BY <1>3 DEF RowIn
  <2> QED
    BY <2>1, <2>2
<1> QED
  BY <1>2, <1>3

-----------------------------------------------------------------------------
(* The addresses.                                                          *)

Addrs(r) == {r.main, r.second} \ {NoAddr}

\* What the command line gave is what the rows have, and no two interfaces have
\* addresses that overlap.
TblInv ==
  /\ product \in Products
  /\ SoundTable(rows, product)
  /\ config = [i \in Ifs(product) |-> config[i]]
  /\ \A i \in Ifs(product) : config[i] = Addrs(RowIn(rows, i))
  /\ \A i, j \in Ifs(product) : i # j => \A a \in config[i], b \in config[j] : ~Overlap(a, b)

LEMMA RowIs ==
  ASSUME NEW i
  PROVE  Row(i) = RowIn(rows, i)
BY DEF Row, Slot, RowIn, SlotIn, SlotsIn, HasRegion

LEMMA HearIs ==
  ASSUME NEW row, Hear(row)
  PROVE  rows' = HearIn(rows, row)
BY DEF Hear, HearIn, WithRow, Place, PlaceIn, Slot, SlotIn, SlotsIn, HasRegion

LEMMA ForgetIs ==
  ASSUME NEW i, Forget(i)
  PROVE  rows' = ForgetIn(rows, i)
BY DEF Forget, ForgetIn, WithRow, Slot, SlotIn, SlotsIn, HasRegion

\* A shorter mask tells fewer addresses apart.
LEMMA MaskShorter ==
  ASSUME NEW x, NEW y, NEW l, NEW m, l \in Nat, m \in Nat, l <= m, Masked(x, m) = Masked(y, m)
  PROVE  Masked(x, l) = Masked(y, l)
<1>1. \A k \in 1 .. Bits : k <= m => x[k] = y[k]
  <2> SUFFICES ASSUME NEW k \in 1 .. Bits, k <= m PROVE x[k] = y[k]
    OBVIOUS
  <2>1. Masked(x, m)[k] = x[k] /\ Masked(y, m)[k] = y[k]
    BY DEF Masked
  <2> QED
    BY <2>1
<1>2. \A k \in 1 .. Bits : k <= l => k <= m
  BY TableConstantsOK
<1> QED
  BY <1>1, <1>2 DEF Masked

LEMMA OverlapSym ==
  ASSUME NEW a, NEW b, a.len \in Nat, b.len \in Nat, Overlap(a, b)
  PROVE  Overlap(b, a)
<1>1. (IF a.len < b.len THEN a.len ELSE b.len) = (IF b.len < a.len THEN b.len ELSE a.len)
  OBVIOUS
<1> QED
  BY <1>1 DEF Overlap

LEMMA SameNetOverlaps ==
  ASSUME NEW a, NEW b, a.len \in Nat, b.len \in Nat, SameNet(a.ip, b)
  PROVE  Overlap(a, b)
<1> DEFINE l == IF a.len < b.len THEN a.len ELSE b.len
<1>1. l \in Nat /\ l <= b.len
  OBVIOUS
<1>2. Masked(a.ip, b.len) = Masked(b.ip, b.len)
  BY DEF SameNet
<1>3. Masked(a.ip, l) = Masked(b.ip, l)
  <2> HIDE DEF l
  <2> QED
    BY <1>1, <1>2, MaskShorter
<1> QED
  BY <1>3 DEF Overlap

LEMMA SameIpOverlaps ==
  ASSUME NEW a, NEW b, a.ip = b.ip
  PROVE  Overlap(a, b)
BY DEF Overlap

\* The addresses of a row are real, and an empty row has none.
LEMMA AddrsAreReal ==
  ASSUME NEW T, NEW p, SoundTable(T, p), NEW i
  PROVE  /\ Addrs(RowIn(T, i)) \subseteq RealAddrs
         /\ Addrs(NoRow) = {}
<1>1. Addrs(NoRow) = {}
  BY DEF Addrs, NoRow, Bare
<1>2. CASE RowIn(T, i) = NoRow
  BY <1>1, <1>2
<1>3. CASE RowIn(T, i) # NoRow
  <2>1. RowIn(T, i) \in AllRows(p)
    BY <1>3, RowTypes
  <2> DEFINE r == RowIn(T, i)
  <2>2. r.main \in RealAddrs \cup {NoAddr} /\ r.second \in RealAddrs \cup {NoAddr}
    BY <2>1 DEF AllRows
  <2> HIDE DEF r
  <2>3. Addrs(r) \subseteq RealAddrs
    BY <2>2 DEF Addrs
  <2> QED
    BY <1>1, <2>3 DEF r
<1> QED
  BY <1>2, <1>3

\* A step that changes the row of one interface and nothing of the others.
LEMMA OneRowChanges ==
  ASSUME TblInv, UNCHANGED product, NEW i, i \in Ifs(product), SoundTable(rows', product),
         \A j \in Ifs(product) : j # i => RowIn(rows', j) = RowIn(rows, j),
         config' = [j \in Ifs(product) |-> IF j = i THEN Addrs(RowIn(rows', i)) ELSE config[j]],
         \A j \in Ifs(product) : j # i => \A a \in Addrs(RowIn(rows', i)), b \in config[j] : ~Overlap(a, b)
  PROVE  TblInv'
<1> DEFINE A == Addrs(RowIn(rows', i))
<1>1. config'[i] = A /\ \A j \in Ifs(product) : j # i => config'[j] = config[j]
  OBVIOUS
<1>2. \A j \in Ifs(product) : config'[j] = Addrs(RowIn(rows', j))
  <2> SUFFICES ASSUME NEW j \in Ifs(product) PROVE config'[j] = Addrs(RowIn(rows', j))
    OBVIOUS
  <2>1. CASE j = i
    BY <1>1, <2>1
  <2>2. CASE j # i
    <3>1. config[j] = Addrs(RowIn(rows, j))
      BY DEF TblInv
    <3>2. config'[j] = config[j] /\ RowIn(rows', j) = RowIn(rows, j)
      BY <1>1, <2>2
    <3> QED
      BY <3>1, <3>2
  <2> QED
    BY <2>1, <2>2
<1>3. \A j \in Ifs(product) : config'[j] \subseteq RealAddrs
  BY <1>2, AddrsAreReal
<1>4. \A a \in RealAddrs : a.len \in Nat
  BY TableConstantsOK DEF RealAddrs
<1>5. ASSUME NEW j \in Ifs(product), NEW k \in Ifs(product), j # k,
             NEW a \in config'[j], NEW b \in config'[k]
      PROVE  ~Overlap(a, b)
  <2>1. a.len \in Nat /\ b.len \in Nat
    BY <1>3, <1>4
  <2>2. CASE j = i
    BY <1>1, <1>5, <2>2
  <2>3. CASE k = i
    <3>1. ~Overlap(b, a)
      BY <1>1, <1>5, <2>3
    <3> QED
      BY <2>1, <3>1, OverlapSym
  <2>4. CASE j # i /\ k # i
    <3>1. a \in config[j] /\ b \in config[k]
      BY <1>1, <2>4
    <3> QED
      BY <1>5, <3>1 DEF TblInv
  <2> QED
    BY <2>2, <2>3, <2>4
<1>6. config' = [j \in Ifs(product) |-> config'[j]]
  OBVIOUS
<1>7. product' = product /\ product \in Products
  BY DEF TblInv
<1> QED
  BY <1>2, <1>5, <1>6, <1>7 DEF TblInv

\* An address the check lets pass overlaps with none of another interface.
LEMMA CheckedIsApart ==
  ASSUME TblInv, NEW i, i \in Ifs(product), NEW c, c \in RealAddrs, ~Conflicts(i, c),
         NEW j, j \in Ifs(product), j # i, NEW b, b \in config[j]
  PROVE  ~Overlap(c, b)
<1> DEFINE r == RowIn(rows, j)
<1>1. b \in Addrs(r) /\ SoundTable(rows, product) /\ product \in Products
  BY DEF TblInv
<1>2. r # NoRow
  BY <1>1, AddrsAreReal
<1>3. r \in AllRows(product) /\ RowOK(r, Region(j.type), product) /\ r.info = j
  BY <1>1, <1>2, RowTypes, RowKept
<1>4. r \in Table
  <2> DEFINE t == Region(j.type)
             k == SlotIn(rows, t, j)
  <2>1. t \in DOMAIN Regions /\ k \in 1 .. Regions[t] /\ r = rows[t][k]
    BY <1>1, <1>2, RowKept
  <2> HIDE DEF t, k
  <2>2. k \in DOMAIN rows[t]
    BY <1>1, <2>1 DEF SoundTable
  <2> QED
    BY <2>1, <2>2 DEF Table, Range
<1>5. r.main \in RealAddrs \cup {NoAddr} /\ r.second \in RealAddrs \cup {NoAddr}
  BY <1>3 DEF AllRows
<1>6. b = r.main \/ b = r.second
  BY <1>1 DEF Addrs
<1>7. b # NoAddr
  BY <1>1 DEF Addrs
<1> HIDE DEF r
<1>8. r.main # NoAddr
  BY <1>3, <1>6, <1>7 DEF RowOK
<1>9. r.main.ip # NoIp /\ b.ip # NoIp
  BY <1>5, <1>6, <1>7, <1>8, RealIsReal
<1>10. r.info # None /\ r.info # i
  BY <1>1, <1>3, NoneIsNone
<1> QED
  BY <1>4, <1>6, <1>9, <1>10 DEF Conflicts

\* Nothing has been created.
LEMMA TblStart == TableInit => TblInv
<1> SUFFICES ASSUME TableInit PROVE TblInv
  OBVIOUS
<1>1. /\ product \in Products
      /\ rows = [t \in DOMAIN Regions |-> [n \in 1 .. Regions[t] |-> NoRow]]
      /\ config = [i \in Ifs(product) |-> {}]
  BY DEF TableInit
<1>2. NoRow.info = None /\ NoRow.second = NoAddr
  BY DEF NoRow, Bare
<1>3. NoRow \in AllRows(product) /\ \A t : RowOK(NoRow, t, product)
  BY <1>2 DEF NoRow, Bare, AllRows, RowOK
<1>4. \A t \in DOMAIN Regions :
        rows[t] = [n \in 1 .. Regions[t] |-> NoRow]
  BY <1>1
<1>5. SoundTable(rows, product)
  <2>1. rows = [t \in DOMAIN Regions |-> rows[t]]
    BY <1>1
  <2>2. \A t \in DOMAIN Regions : rows[t] \in [1 .. Regions[t] -> AllRows(product)]
    BY <1>3, <1>4
  <2>3. \A t \in DOMAIN Regions : \A n \in 1 .. Regions[t] : rows[t][n] = NoRow
    BY <1>4
  <2> QED
    BY <1>2, <1>3, <2>1, <2>2, <2>3 DEF SoundTable
<1>6. ASSUME NEW i \in Ifs(product) PROVE RowIn(rows, i) = NoRow
  <2>1. i # None
    BY <1>1, NoneIsNone
  <2>2. \A t \in DOMAIN Regions : \A n \in 1 .. Regions[t] : rows[t][n].info # i
    BY <1>2, <1>4, <2>1
  <2> QED
    BY <1>5, <2>2, RowLost
<1>7. Addrs(NoRow) = {}
  BY <1>5, AddrsAreReal
<1>8. \A i \in Ifs(product) : config[i] = {}
  BY <1>1
<1> QED
  BY <1>1, <1>5, <1>6, <1>7, <1>8 DEF TblInv

\* The row an interface of the table has.
LEMMA OwnRow ==
  ASSUME TblInv, NEW i, i \in Ifs(product), NEW r, r = RowIn(rows, i), r # NoRow
  PROVE  /\ r \in AllRows(product) /\ RowOK(r, Region(i.type), product) /\ r.info = i
         /\ i # None /\ config[i] = Addrs(r) /\ r.iface \in NamesOf(product, i)
<1>1. SoundTable(rows, product) /\ product \in Products /\ config[i] = Addrs(r)
  BY DEF TblInv
<1>2. r \in AllRows(product) /\ RowOK(r, Region(i.type), product) /\ r.info = i
  BY <1>1, RowTypes, RowKept
<1>3. i # None
  BY <1>1, NoneIsNone
<1> QED
  BY <1>1, <1>2, <1>3 DEF RowOK

LEMMA CreateKeepsTbl ==
  ASSUME TblInv, NEW i, i \in Ifs(product), Create(i)
  PROVE  TblInv'
<1>1. SoundTable(rows, product) /\ product \in Products /\ i # None
  BY NoneIsNone DEF TblInv
<1> DEFINE row == Fresh(i)
<1>2. row = [info |-> i, iface |-> VifGetSysName(product, i), main |-> NoAddr, second |-> NoAddr]
  BY DEF Fresh, Bare
<1>3. RowIn(rows, i) = NoRow /\ Hear(row) /\ UNCHANGED <<product, config>>
  BY RowIs DEF Create
<1> HIDE DEF row
<1>4. row \in AllRows(product) /\ row.info = i /\ RowOK(row, Region(i.type), product)
  <2>1. /\ row.info = i /\ row.iface \in NamesOf(product, i)
        /\ row.main = NoAddr /\ row.second = NoAddr
    BY <1>1, <1>2, NameNow
  <2>2. row \in AllRows(product)
    BY <1>2, <2>1 DEF AllRows
  <2> QED
    BY <1>1, <2>1, <2>2 DEF RowOK
<1>5. rows' = HearIn(rows, row)
  BY <1>3, HearIs
<1>6. /\ SoundTable(rows', product)
      /\ \A j \in Ifs(product) : j # i => RowIn(rows', j) = RowIn(rows, j)
      /\ RowIn(rows', i) = row \/ RowIn(rows', i) = NoRow
  BY <1>1, <1>3, <1>4, <1>5, HearKeepsSound
<1>7. Addrs(row) = {} /\ Addrs(NoRow) = {}
  BY <1>1, <1>2, AddrsAreReal DEF Addrs
<1>8. {} = Addrs(RowIn(rows', i))
  BY <1>6, <1>7
<1>9. config' = [j \in Ifs(product) |-> IF j = i THEN Addrs(RowIn(rows', i)) ELSE config[j]]
  <2>1. config[i] = {} /\ config = [j \in Ifs(product) |-> config[j]]
    BY <1>3, <1>7 DEF TblInv
  <2> QED
    BY <1>3, <1>8, <2>1
<1>10. \A j \in Ifs(product) : j # i => \A a \in Addrs(RowIn(rows', i)), b \in config[j] : ~Overlap(a, b)
  BY <1>8
<1> QED
  BY <1>3, <1>6, <1>8, <1>9, <1>10, OneRowChanges

\* An interface of the table publishes a row with other addresses.
LEMMA AddressesChange ==
  ASSUME TblInv, UNCHANGED product, NEW i, i \in Ifs(product), RowIn(rows, i) # NoRow,
         NEW row, Hear(row), row.info = i, row.iface = RowIn(rows, i).iface,
         row = [info |-> row.info, iface |-> row.iface, main |-> row.main, second |-> row.second],
         row.main \in RealAddrs \cup {NoAddr}, row.second \in RealAddrs \cup {NoAddr},
         row.second # NoAddr => row.main # NoAddr,
         config' = [config EXCEPT ![i] = Addrs(row)],
         \A j \in Ifs(product) : j # i => \A a \in Addrs(row), b \in config[j] : ~Overlap(a, b)
  PROVE  TblInv'
<1>1. SoundTable(rows, product) /\ product \in Products /\ i # None
  BY NoneIsNone DEF TblInv
<1>2. row.iface \in NamesOf(product, i)
  BY OwnRow
<1>3. row \in AllRows(product)
  BY <1>2 DEF AllRows
<1>4. RowOK(row, Region(i.type), product)
  BY <1>1, <1>2 DEF RowOK
<1>5. rows' = HearIn(rows, row)
  BY HearIs
<1>6. /\ SoundTable(rows', product)
      /\ \A j \in Ifs(product) : j # i => RowIn(rows', j) = RowIn(rows, j)
      /\ RowIn(rows', i) = row
  BY <1>1, <1>3, <1>4, <1>5, HearKeepsSound
<1>7. config' = [j \in Ifs(product) |-> IF j = i THEN Addrs(RowIn(rows', i)) ELSE config[j]]
  <2>1. config = [j \in Ifs(product) |-> config[j]]
    BY DEF TblInv
  <2> QED
    BY <1>6, <2>1
<1>8. \A j \in Ifs(product) : j # i => \A a \in Addrs(RowIn(rows', i)), b \in config[j] : ~Overlap(a, b)
  BY <1>6
<1>9. SoundTable(rows', product) /\ \A j \in Ifs(product) : j # i => RowIn(rows', j) = RowIn(rows, j)
  BY <1>6
<1> QED
  BY <1>7, <1>8, <1>9, OneRowChanges

LEMMA SetMainKeepsTbl ==
  ASSUME TblInv, NEW i, i \in Ifs(product), NEW c, c \in RealAddrs, SetMain(i, c)
  PROVE  TblInv'
<1> DEFINE old == RowIn(rows, i)
           row == [old EXCEPT !.main = c]
<1>1. /\ old # NoRow /\ old.main = NoAddr /\ ~Conflicts(i, c) /\ Hear(row)
      /\ config' = [config EXCEPT ![i] = @ \cup {c}] /\ UNCHANGED product
  BY RowIs DEF SetMain
<1>2. /\ old \in AllRows(product) /\ RowOK(old, Region(i.type), product) /\ old.info = i
      /\ config[i] = Addrs(old)
  BY <1>1, OwnRow
<1>3. old.second = NoAddr
  BY <1>1, <1>2 DEF RowOK
<1>4. row = [info |-> i, iface |-> old.iface, main |-> c, second |-> NoAddr]
  BY <1>2, <1>3 DEF AllRows
<1>5. config[i] = {}
  BY <1>1, <1>2, <1>3 DEF Addrs
<1> HIDE DEF row
<1>6. c # NoAddr
  BY RealIsReal
<1>7. Addrs(row) = {c}
  BY <1>4, <1>6 DEF Addrs
<1>8. config' = [config EXCEPT ![i] = Addrs(row)]
  BY <1>1, <1>5, <1>7
<1>9. \A j \in Ifs(product) : j # i => \A a \in Addrs(row), b \in config[j] : ~Overlap(a, b)
  BY <1>1, <1>7, CheckedIsApart
<1>10. /\ row.info = i /\ row.iface = old.iface /\ row.main = c /\ row.second = NoAddr
       /\ row = [info |-> row.info, iface |-> row.iface, main |-> row.main, second |-> row.second]
  BY <1>4
<1> HIDE DEF old
<1>11. RowIn(rows, i) # NoRow /\ row.iface = RowIn(rows, i).iface
  BY <1>1, <1>10 DEF old
<1> QED
  BY <1>1, <1>6, <1>8, <1>9, <1>10, <1>11, AddressesChange

LEMMA SetSecondKeepsTbl ==
  ASSUME TblInv, NEW i, i \in Ifs(product), NEW c, c \in RealAddrs, SetSecond(i, c)
  PROVE  TblInv'
<1> DEFINE old == RowIn(rows, i)
           row == [old EXCEPT !.second = c]
<1>1. /\ old.main # NoAddr /\ old.second = NoAddr /\ ~Conflicts(i, c) /\ Hear(row)
      /\ config' = [config EXCEPT ![i] = @ \cup {c}] /\ UNCHANGED product
  BY RowIs DEF SetSecond
<1>2. old # NoRow
  BY <1>1 DEF NoRow, Bare
<1>3. /\ old \in AllRows(product) /\ old.info = i /\ config[i] = Addrs(old)
  BY <1>2, OwnRow
<1>4. row = [info |-> i, iface |-> old.iface, main |-> old.main, second |-> c]
  BY <1>3 DEF AllRows
<1>5. old.main \in RealAddrs
  BY <1>1, <1>3 DEF AllRows
<1>6. config[i] = {old.main}
  BY <1>1, <1>3 DEF Addrs
<1> HIDE DEF row
<1>7. c # NoAddr
  BY RealIsReal
<1>8. Addrs(row) = {old.main, c}
  BY <1>1, <1>4, <1>7 DEF Addrs
<1>9. config' = [config EXCEPT ![i] = Addrs(row)]
  BY <1>1, <1>6, <1>8
<1>10. \A j \in Ifs(product) : j # i => \A a \in Addrs(row), b \in config[j] : ~Overlap(a, b)
  <2> SUFFICES ASSUME NEW j \in Ifs(product), j # i, NEW a \in Addrs(row), NEW b \in config[j]
               PROVE ~Overlap(a, b)
    OBVIOUS
  <2>1. CASE a = c
    BY <1>1, <2>1, CheckedIsApart
  <2>2. CASE a = old.main
    <3>1. a \in config[i]
      BY <1>6, <2>2
    <3> QED
      BY <3>1 DEF TblInv
  <2> QED
    BY <1>8, <2>1, <2>2
<1>11. /\ row.info = i /\ row.iface = old.iface /\ row.main = old.main /\ row.second = c
       /\ row = [info |-> row.info, iface |-> row.iface, main |-> row.main, second |-> row.second]
  BY <1>4
<1>12. row.main # NoAddr /\ row.main \in RealAddrs
  BY <1>1, <1>5, <1>11
<1> HIDE DEF old
<1>13. RowIn(rows, i) # NoRow /\ row.iface = RowIn(rows, i).iface
  BY <1>2, <1>11 DEF old
<1> QED
  BY <1>1, <1>9, <1>10, <1>11, <1>12, <1>13, AddressesChange

LEMMA ClearKeepsTbl ==
  ASSUME TblInv, NEW i, i \in Ifs(product), Clear(i)
  PROVE  TblInv'
<1> DEFINE old == RowIn(rows, i)
           row == Bare(i, old.iface)
<1>1. /\ old.main # NoAddr /\ Hear(row)
      /\ config' = [config EXCEPT ![i] = {}] /\ UNCHANGED product
  BY RowIs DEF Clear
<1>2. old # NoRow
  BY <1>1 DEF NoRow, Bare
<1>3. old \in AllRows(product) /\ old.info = i
  BY <1>2, OwnRow
<1>4. row = [info |-> i, iface |-> old.iface, main |-> NoAddr, second |-> NoAddr]
  BY DEF Bare
<1> HIDE DEF row
<1>5. Addrs(row) = {}
  BY <1>4 DEF Addrs
<1>6. config' = [config EXCEPT ![i] = Addrs(row)]
  BY <1>1, <1>5
<1>7. \A j \in Ifs(product) : j # i => \A a \in Addrs(row), b \in config[j] : ~Overlap(a, b)
  BY <1>5
<1>8. /\ row.info = i /\ row.iface = old.iface /\ row.main = NoAddr /\ row.second = NoAddr
      /\ row = [info |-> row.info, iface |-> row.iface, main |-> row.main, second |-> row.second]
  BY <1>4
<1> HIDE DEF old
<1>9. RowIn(rows, i) # NoRow /\ row.iface = RowIn(rows, i).iface
  BY <1>2, <1>8 DEF old
<1> QED
  BY <1>1, <1>6, <1>7, <1>8, <1>9, AddressesChange

LEMMA DestroyKeepsTbl ==
  ASSUME TblInv, NEW i, i \in Ifs(product), Destroy(i)
  PROVE  TblInv'
<1>1. SoundTable(rows, product) /\ product \in Products
  BY DEF TblInv
<1>2. Forget(i) /\ config' = [config EXCEPT ![i] = {}] /\ UNCHANGED product
  BY DEF Destroy
<1>3. rows' = ForgetIn(rows, i)
  BY <1>2, ForgetIs
<1>4. /\ SoundTable(rows', product) /\ RowIn(rows', i) = NoRow
      /\ \A j \in Ifs(product) : j # i => RowIn(rows', j) = RowIn(rows, j)
  BY <1>1, <1>3, ForgetKeepsSound
<1>5. Addrs(RowIn(rows', i)) = {}
  BY <1>1, <1>4, AddrsAreReal
<1>6. config' = [j \in Ifs(product) |-> IF j = i THEN Addrs(RowIn(rows', i)) ELSE config[j]]
  <2>1. config = [j \in Ifs(product) |-> config[j]]
    BY DEF TblInv
  <2> QED
    BY <1>2, <1>5, <2>1
<1>7. \A j \in Ifs(product) : j # i => \A a \in Addrs(RowIn(rows', i)), b \in config[j] : ~Overlap(a, b)
  BY <1>5
<1> QED
  BY <1>2, <1>4, <1>6, <1>7, OneRowChanges

LEMMA TblStep == TblInv /\ [TableNext]_tableVars => TblInv'
<1> SUFFICES ASSUME TblInv, [TableNext]_tableVars PROVE TblInv'
  OBVIOUS
<1>1. CASE TableNext
  <2> SUFFICES ASSUME ~UsbChanges PROVE TblInv'
    <3>1. CASE UsbChanges
      <4>1. /\ product.modem = "ME909" /\ product' = Switched(product)
            /\ rows' = rows /\ config' = config
        BY <3>1 DEF UsbChanges
      <4>2. /\ product' \in Products /\ Ifs(product') = Ifs(product)
            /\ SoundTable(rows', product')
        BY <4>1, SwitchedSame DEF TblInv
      <4> QED
        BY <4>1, <4>2 DEF TblInv
    <3> QED
      BY <3>1
  <2>1. PICK i \in Ifs(product) :
          \/ Create(i) \/ Clear(i) \/ Destroy(i)
          \/ \E ip \in Ips, len \in Lens \ {0} :
               SetMain(i, Addr(ip, len)) \/ SetSecond(i, Addr(ip, len))
    BY <1>1 DEF TableNext
  <2>2. CASE Create(i)
    BY <2>2, CreateKeepsTbl
  <2>3. CASE Clear(i)
    BY <2>3, ClearKeepsTbl
  <2>4. CASE Destroy(i)
    BY <2>4, DestroyKeepsTbl
  <2>5. CASE \E ip \in Ips, len \in Lens \ {0} :
               SetMain(i, Addr(ip, len)) \/ SetSecond(i, Addr(ip, len))
    <3>1. PICK ip \in Ips, len \in Lens \ {0} :
            SetMain(i, Addr(ip, len)) \/ SetSecond(i, Addr(ip, len))
      BY <2>5
    <3>2. len \in 1 .. Bits
      BY TableConstantsOK DEF Lens
    <3>3. Addr(ip, len) \in RealAddrs
      BY <3>2 DEF Addr, RealAddrs
    <3> QED
      BY <3>1, <3>3, SetMainKeepsTbl, SetSecondKeepsTbl
  <2> QED
    BY <2>1, <2>2, <2>3, <2>4, <2>5
<1>2. CASE UNCHANGED tableVars
  <2>1. rows' = rows /\ product' = product /\ config' = config
    BY <1>2 DEF tableVars
  <2> QED
    BY <2>1 DEF TblInv
<1> QED
  BY <1>1, <1>2

\* The first of the rows that match is one of them.
LEMMA FirstHits ==
  ASSUME TblInv, NEW S, S \subseteq Table, NEW r, r \in S
  PROVE  \E x \in S : First(S) = x.info
<1> DEFINE regions == {k \in DOMAIN Mgmts : Mgmts[k] \in DOMAIN Regions /\ Hits(Mgmts[k], S) # {}}
           t       == Mgmts[Min(regions)]
<1>1. First(S) = IF regions = {} THEN None ELSE rows[t][Min(Hits(t, S))].info
  BY DEF First
<1>2. PICK s \in DOMAIN Regions : r \in Range(rows[s])
  BY DEF Table
<1>3. PICK n \in DOMAIN rows[s] : rows[s][n] = r
  BY <1>2 DEF Range
<1>4. n \in Hits(s, S)
  BY <1>3 DEF Hits
<1>5. PICK k \in DOMAIN Mgmts : Mgmts[k] = s
  <2>1. s \in Range(Mgmts)
    BY TableConstantsOK
  <2> QED
    BY <2>1 DEF Range
<1>6. DOMAIN Mgmts = 1 .. 11
  BY DEF Mgmts
<1>7. k \in regions /\ regions \subseteq 1 .. 11
  BY <1>4, <1>5, <1>6
<1>8. Min(regions) \in regions
  <2> HIDE DEF regions
  <2> QED
    BY <1>7, MinIsMember
<1>9. t \in DOMAIN Regions /\ Hits(t, S) # {}
  BY <1>8
<1> HIDE DEF t
<1>10. DOMAIN rows[t] = 1 .. Regions[t] /\ Regions[t] \in Nat
  BY <1>9, TableConstantsOK DEF TblInv, SoundTable
<1>11. Hits(t, S) \subseteq 1 .. Regions[t] /\ \A m \in Hits(t, S) : rows[t][m] \in S
  BY <1>10 DEF Hits
<1>12. Min(Hits(t, S)) \in Hits(t, S)
  BY <1>9, <1>10, <1>11, MinIsMember
<1>13. rows[t][Min(Hits(t, S))] \in S
  BY <1>11, <1>12
<1>14. regions # {}
  BY <1>7
<1> HIDE DEF regions
<1> QED
  BY <1>1, <1>13, <1>14

\* The first of the rows that match is of the only interface that has one.
LEMMA FirstIs ==
  ASSUME TblInv, NEW S, S \subseteq Table, NEW r, r \in S, NEW i, \A x \in S : x.info = i
  PROVE  First(S) = i
BY FirstHits

\* The row an address was given to.
LEMMA AddressHasRow ==
  ASSUME TblInv, NEW i, i \in Ifs(product), NEW a, a \in config[i], NEW r, r = Row(i)
  PROVE  r \in Table /\ r.info = i /\ a \in Addrs(r) /\ a \in RealAddrs
<1>1. r = RowIn(rows, i)
  BY RowIs
<1>2. SoundTable(rows, product) /\ a \in Addrs(r)
  BY <1>1 DEF TblInv
<1>3. r # NoRow /\ a \in RealAddrs
  BY <1>1, <1>2, AddrsAreReal
<1> DEFINE t == Region(i.type)
           k == SlotIn(rows, t, i)
<1>4. t \in DOMAIN Regions /\ k \in 1 .. Regions[t] /\ r = rows[t][k] /\ r.info = i
  BY <1>1, <1>2, <1>3, RowKept
<1> HIDE DEF t, k
<1>5. k \in DOMAIN rows[t]
  BY <1>2, <1>4 DEF SoundTable
<1>6. r \in Table
  BY <1>4, <1>5 DEF Table, Range
<1> QED
  BY <1>2, <1>3, <1>4, <1>6

\* A row that has an address overlapping with one of an interface is that interface's.
LEMMA OverlapIsOwn ==
  ASSUME TblInv, NEW i, i \in Ifs(product), NEW a, a \in config[i],
         NEW r, r \in Table, NEW b, b \in Addrs(r), Overlap(a, b)
  PROVE  r.info = i
<1>1. SoundTable(rows, product) /\ product \in Products
  BY DEF TblInv
<1>2. PICK t \in DOMAIN Regions : r \in Range(rows[t])
  BY DEF Table
<1>3. PICK n \in DOMAIN rows[t] : rows[t][n] = r
  BY <1>2 DEF Range
<1>4. n \in 1 .. Regions[t] /\ r \in AllRows(product) /\ RowOK(r, t, product)
  BY <1>1, <1>2, <1>3 DEF SoundTable
<1>5. r # NoRow
  BY <1>1, AddrsAreReal
<1>6. r.info # None
  BY <1>4, <1>5 DEF RowOK
<1>7. r.info \in Ifs(product)
  BY <1>4, <1>6 DEF AllRows
<1>8. RowIn(rows, r.info) = r
  BY <1>1, <1>3, <1>4, <1>6, RowFound
<1>9. b \in config[r.info]
  BY <1>7, <1>8 DEF TblInv
<1> QED
  BY <1>7, <1>9 DEF TblInv

\* The addresses a row has.
LEMMA RowAddresses ==
  ASSUME TblInv, NEW r, r \in Table
  PROVE  /\ r.main.ip # NoIp => r.main \in Addrs(r) /\ r.main.len \in Nat
         /\ r.second.ip # NoIp => r.second \in Addrs(r) /\ r.second.len \in Nat
         /\ r.main.ip = NoIp => r.main = NoAddr
         /\ r.second.ip = NoIp => r.second = NoAddr
<1>1. SoundTable(rows, product)
  BY DEF TblInv
<1>2. PICK t \in DOMAIN Regions : r \in Range(rows[t])
  BY DEF Table
<1>3. PICK n \in DOMAIN rows[t] : rows[t][n] = r
  BY <1>2 DEF Range
<1>4. r \in AllRows(product)
  BY <1>1, <1>2, <1>3 DEF SoundTable
<1>5. r.main \in RealAddrs \cup {NoAddr} /\ r.second \in RealAddrs \cup {NoAddr}
  BY <1>4 DEF AllRows
<1>6. NoAddr.ip = NoIp
  BY DEF NoAddr, Addr
<1>7. \A a \in RealAddrs : a # NoAddr /\ a.ip # NoIp /\ a.len \in Nat
  <2> SUFFICES ASSUME NEW a \in RealAddrs PROVE a # NoAddr /\ a.ip # NoIp /\ a.len \in Nat
    OBVIOUS
  <2>1. a # NoAddr /\ a.ip # NoIp /\ a.len \in 1 .. Bits
    BY RealIsReal
  <2> QED
    BY <2>1, TableConstantsOK
<1> QED
  BY <1>5, <1>6, <1>7 DEF Addrs

THEOREM TableInductive == TableSpec => []TblInv
<1>1. TableInit => TblInv
  BY TblStart
<1>2. TblInv /\ [TableNext]_tableVars => TblInv'
  BY TblStep
<1> QED
  BY <1>1, <1>2, PTL DEF TableSpec

LEMMA TblLeadsHome == TblInv => AddressLeadsHome
<1> SUFFICES ASSUME TblInv, NEW i \in Ifs(product), NEW a \in config[i]
             PROVE  /\ ByIp(a.ip) = i /\ ByGateway2(a.ip) = i
                    /\ a = Row(i).main => /\ ByLocalIp(a.ip) = i
                                          /\ BySubnet(Masked(a.ip, a.len), a.len) = i
                                          /\ OfLan(i) => LanByIp(a.ip) = i
  BY DEF AddressLeadsHome
<1> DEFINE r == Row(i)
<1>1. r \in Table /\ r.info = i /\ a \in Addrs(r) /\ a \in RealAddrs
  BY AddressHasRow
<1>2. a # NoAddr /\ a.ip # NoIp /\ a.len \in 1 .. Bits
  BY <1>1, RealIsReal
<1>3. a.len \in Nat /\ a.len > 0
  BY <1>2, TableConstantsOK
<1>4. a = r.main \/ a = r.second
  BY <1>1 DEF Addrs
<1> HIDE DEF r
<1>5. ASSUME NEW x \in Table, NEW b \in Addrs(x), b.len \in Nat, SameNet(a.ip, b)
      PROVE  x.info = i
  BY <1>3, <1>5, SameNetOverlaps, OverlapIsOwn
<1>6. ASSUME NEW x \in Table, NEW b \in Addrs(x), b.ip = a.ip
      PROVE  x.info = i
  BY <1>6, SameIpOverlaps, OverlapIsOwn
<1>7. SameNet(a.ip, a)
  BY DEF SameNet
<1>8. ByIp(a.ip) = i
  <2> DEFINE S == {x \in Table : x.main.ip = a.ip \/ (x.second.ip = a.ip /\ x.second.len > 0)}
  <2>1. r \in S
    BY <1>1, <1>3, <1>4
  <2>2. ASSUME NEW x \in S PROVE x.info = i
    <3>1. x \in Table /\ (x.main.ip = a.ip \/ x.second.ip = a.ip)
      OBVIOUS
    <3>2. /\ x.main.ip # NoIp => x.main \in Addrs(x)
          /\ x.second.ip # NoIp => x.second \in Addrs(x)
      BY <3>1, RowAddresses
    <3> QED
      BY <1>2, <1>6, <3>1, <3>2
  <2>3. S \subseteq Table /\ ByIp(a.ip) = First(S)
    BY DEF ByIp
  <2> HIDE DEF S
  <2> QED
    BY <2>1, <2>2, <2>3, FirstIs
<1>9. ByGateway2(a.ip) = i
  <2> DEFINE S == {x \in Table :
                     \/ x.main.ip # NoIp /\ x.main.len > 0 /\ SameNet(a.ip, x.main)
                     \/ x.second.ip # NoIp /\ x.second.len > 0 /\ SameNet(a.ip, x.second)}
  <2>1. r \in S
    BY <1>1, <1>2, <1>3, <1>4, <1>7
  <2>2. ASSUME NEW x \in S PROVE x.info = i
    <3>1. x \in Table /\ (\/ x.main.ip # NoIp /\ SameNet(a.ip, x.main)
                          \/ x.second.ip # NoIp /\ SameNet(a.ip, x.second))
      OBVIOUS
    <3>2. /\ x.main.ip # NoIp => x.main \in Addrs(x) /\ x.main.len \in Nat
          /\ x.second.ip # NoIp => x.second \in Addrs(x) /\ x.second.len \in Nat
      BY <3>1, RowAddresses
    <3> QED
      BY <1>5, <3>1, <3>2
  <2>3. S \subseteq Table /\ ByGateway2(a.ip) = First(S)
    BY DEF ByGateway2
  <2> HIDE DEF S
  <2> QED
    BY <2>1, <2>2, <2>3, FirstIs
<1>10. ASSUME a = r.main
       PROVE  ByLocalIp(a.ip) = i
  <2> DEFINE S == {x \in Table : x.main.ip = a.ip}
  <2>1. r \in S
    BY <1>1, <1>10
  <2>2. ASSUME NEW x \in S PROVE x.info = i
    <3>1. x \in Table /\ x.main.ip = a.ip
      OBVIOUS
    <3>2. x.main.ip # NoIp => x.main \in Addrs(x)
      BY <3>1, RowAddresses
    <3> QED
      BY <1>2, <1>6, <3>1, <3>2
  <2>3. S \subseteq Table /\ ByLocalIp(a.ip) = First(S)
    BY DEF ByLocalIp
  <2> HIDE DEF S
  <2> QED
    BY <2>1, <2>2, <2>3, FirstIs
<1>11. ASSUME a = r.main
       PROVE  BySubnet(Masked(a.ip, a.len), a.len) = i
  <2> DEFINE S == {x \in Table : /\ x.main.ip # NoIp /\ a.len > 0 /\ x.main.len = a.len
                                 /\ Masked(x.main.ip, a.len) = Masked(a.ip, a.len)}
  <2>1. r \in S
    BY <1>1, <1>2, <1>3, <1>11
  <2>2. ASSUME NEW x \in S PROVE x.info = i
    <3>1. x \in Table /\ x.main.ip # NoIp /\ SameNet(a.ip, x.main)
      BY DEF SameNet
    <3>2. x.main.ip # NoIp => x.main \in Addrs(x) /\ x.main.len \in Nat
      BY <3>1, RowAddresses
    <3> QED
      BY <1>5, <3>1, <3>2
  <2>3. S \subseteq Table /\ BySubnet(Masked(a.ip, a.len), a.len) = First(S)
    BY DEF BySubnet
  <2> HIDE DEF S
  <2> QED
    BY <2>1, <2>2, <2>3, FirstIs
<1>12. ASSUME a = r.main, OfLan(i)
       PROVE  LanByIp(a.ip) = i
  <2> DEFINE S == {x \in Table : /\ OfLan(x.info) /\ x.main.ip # NoIp /\ x.main.len > 0
                                 /\ SameNet(a.ip, x.main)}
  <2>1. r \in S
    BY <1>1, <1>2, <1>3, <1>7, <1>12
  <2>2. ASSUME NEW x \in S PROVE x.info = i
    <3>1. x \in Table /\ x.main.ip # NoIp /\ SameNet(a.ip, x.main)
      OBVIOUS
    <3>2. x.main.ip # NoIp => x.main \in Addrs(x) /\ x.main.len \in Nat
      BY <3>1, RowAddresses
    <3> QED
      BY <1>5, <3>1, <3>2
  <2>3. S \subseteq Table /\ LanByIp(a.ip) = First(S)
    BY DEF LanByIp
  <2> HIDE DEF S
  <2> QED
    BY <2>1, <2>2, <2>3, FirstIs
<1> QED
  BY <1>8, <1>9, <1>10, <1>11, <1>12 DEF r

-----------------------------------------------------------------------------
(* The names of the interfaces.                                            *)

\* The words of the types, on the command line and on the panel.
CliWordOf  == [t \in {"GE", "CELLULAR", "TUNNEL", "VXLAN", "SVI", "LO", "SUB_CELLULAR", "VP",
                      "OPENVPN", "DOT11", "SUB_DOT11"} |->
  CASE t = "GE" -> "gigabitethernet" [] t \in {"CELLULAR", "SUB_CELLULAR"} -> "cellular"
    [] t = "TUNNEL" -> "tunnel" [] t = "VXLAN" -> "vxlan" [] t = "SVI" -> "vlan"
    [] t = "LO" -> "loopback" [] t = "VP" -> "virtual-ppp" [] t = "OPENVPN" -> "openvpn"
    [] t \in {"DOT11", "SUB_DOT11"} -> "dot11radio"]

LEMMA CliTable ==
  /\ DOMAIN CliTypes = 1 .. 19
  /\ CliTypes[1] = <<"FE", "fastethernet">> /\ CliTypes[2] = <<"GE", "gigabitethernet">>
  /\ CliTypes[3] = <<"CELLULAR", "cellular">> /\ CliTypes[4] = <<"TUNNEL", "tunnel">>
  /\ CliTypes[5] = <<"VXLAN", "vxlan">> /\ CliTypes[6] = <<"SVI", "vlan">>
  /\ CliTypes[7] = <<"LO", "loopback">> /\ CliTypes[8] = <<"DIALER", "dialer">>
  /\ CliTypes[9] = <<"SUB_FE", "fastethernet">> /\ CliTypes[10] = <<"SUB_GE", "gigabitethernet">>
  /\ CliTypes[11] = <<"SUB_CELLULAR", "cellular">> /\ CliTypes[12] = <<"VP", "virtual-ppp">>
  /\ CliTypes[13] = <<"OPENVPN", "openvpn">> /\ CliTypes[14] = <<"DOT11", "dot11radio">>
  /\ CliTypes[15] = <<"SUB_DOT11", "dot11radio">> /\ CliTypes[16] = <<"BRIDGE", "bridge">>
  /\ CliTypes[17] = <<"CAN", "can">> /\ CliTypes[18] = <<"VE", "virtual-eth">>
  /\ CliTypes[19] = <<"STA_DOT11", "wlan-sta">>
BY DEF CliTypes

LEMMA CliTypeAt ==
  ASSUME NEW k \in 1 .. 19, \A j \in 1 .. k : CliTypes[j][2] = CliTypes[k][2] => j = k
  PROVE  CliType(CliTypes[k][2]) = CliTypes[k][1]
<1> DEFINE w == CliTypes[k][2]
           S == Having(CliTypes, 2, w)
<1>1. S \in SUBSET (1 .. 19) /\ k \in S
  BY CliTable DEF Having
<1>2. ASSUME NEW j \in S PROVE k <= j
  <2>1. j \in 1 .. 19 /\ CliTypes[j][2] = w
    BY CliTable DEF Having
  <2> QED
    BY <2>1
<1>3. CliType(w) = FirstIn(CliTypes, S, 1, "NONE")
  BY DEF CliType
<1> HIDE DEF S
<1>4. PICK n \in Nat : n = 19
  OBVIOUS
<1>5. FirstIn(CliTypes, S, 1, "NONE") = CliTypes[k][1]
  <2>1. S \in SUBSET (1 .. n)
    BY <1>1, <1>4
  <2>2. Min(S) = k
    BY <1>1, <1>2, <2>1, MinIs
  <2>3. S # {}
    BY <1>1
  <2> QED
    BY <2>2, <2>3 DEF FirstIn
<1> QED
  BY <1>3, <1>5

LEMMA CliWordAt ==
  ASSUME NEW k \in 1 .. 19, \A j \in 1 .. k : CliTypes[j][1] = CliTypes[k][1] => j = k,
         NEW i, i.type = CliTypes[k][1]
  PROVE  CliWord(i) = CliTypes[k][2]
<1> DEFINE S == Having(CliTypes, 1, i.type)
<1>1. S \in SUBSET (1 .. 19) /\ k \in S
  BY CliTable DEF Having
<1>2. ASSUME NEW j \in S PROVE k <= j
  <2>1. j \in 1 .. 19 /\ CliTypes[j][1] = i.type
    BY CliTable DEF Having
  <2> QED
    BY <2>1
<1>3. CliWord(i) = FirstIn(CliTypes, S, 2, "")
  BY DEF CliWord
<1> HIDE DEF S
<1>4. PICK n \in Nat : n = 19
  OBVIOUS
<1>5. FirstIn(CliTypes, S, 2, "") = CliTypes[k][2]
  <2>1. S \in SUBSET (1 .. n)
    BY <1>1, <1>4
  <2>2. Min(S) = k
    BY <1>1, <1>2, <2>1, MinIs
  <2>3. S # {}
    BY <1>1
  <2> QED
    BY <2>2, <2>3 DEF FirstIn
<1> QED
  BY <1>3, <1>5

LEMMA CliWordsRead ==
  /\ CliType("gigabitethernet") = "GE" /\ CliType("cellular") = "CELLULAR"
  /\ CliType("tunnel") = "TUNNEL" /\ CliType("vxlan") = "VXLAN" /\ CliType("vlan") = "SVI"
  /\ CliType("loopback") = "LO" /\ CliType("virtual-ppp") = "VP"
  /\ CliType("openvpn") = "OPENVPN" /\ CliType("dot11radio") = "DOT11"
<1>1. CliType("gigabitethernet") = "GE"
  BY CliTypeAt, CliTable, 2 \in 1 .. 19
<1>2. CliType("cellular") = "CELLULAR"
  BY CliTypeAt, CliTable, 3 \in 1 .. 19
<1>3. CliType("tunnel") = "TUNNEL"
  BY CliTypeAt, CliTable, 4 \in 1 .. 19
<1>4. CliType("vxlan") = "VXLAN"
  BY CliTypeAt, CliTable, 5 \in 1 .. 19
<1>5. CliType("vlan") = "SVI"
  BY CliTypeAt, CliTable, 6 \in 1 .. 19
<1>6. CliType("loopback") = "LO"
  BY CliTypeAt, CliTable, 7 \in 1 .. 19
<1>7. CliType("virtual-ppp") = "VP"
  BY CliTypeAt, CliTable, 12 \in 1 .. 19
<1>8. CliType("openvpn") = "OPENVPN"
  BY CliTypeAt, CliTable, 13 \in 1 .. 19
<1>9. CliType("dot11radio") = "DOT11"
  BY CliTypeAt, CliTable, 14 \in 1 .. 19
<1> QED
  BY <1>1, <1>2, <1>3, <1>4, <1>5, <1>6, <1>7, <1>8, <1>9

LEMMA CliWords ==
  ASSUME NEW i, i.type \in DOMAIN CliWordOf
  PROVE  CliWord(i) = CliWordOf[i.type]
<1>1. CASE i.type = "GE"
  BY <1>1, CliWordAt, CliTable, 2 \in 1 .. 19 DEF CliWordOf
<1>2. CASE i.type = "CELLULAR"
  BY <1>2, CliWordAt, CliTable, 3 \in 1 .. 19 DEF CliWordOf
<1>3. CASE i.type = "TUNNEL"
  BY <1>3, CliWordAt, CliTable, 4 \in 1 .. 19 DEF CliWordOf
<1>4. CASE i.type = "VXLAN"
  BY <1>4, CliWordAt, CliTable, 5 \in 1 .. 19 DEF CliWordOf
<1>5. CASE i.type = "SVI"
  BY <1>5, CliWordAt, CliTable, 6 \in 1 .. 19 DEF CliWordOf
<1>6. CASE i.type = "LO"
  BY <1>6, CliWordAt, CliTable, 7 \in 1 .. 19 DEF CliWordOf
<1>7. CASE i.type = "SUB_CELLULAR"
  BY <1>7, CliWordAt, CliTable, 11 \in 1 .. 19 DEF CliWordOf
<1>8. CASE i.type = "VP"
  BY <1>8, CliWordAt, CliTable, 12 \in 1 .. 19 DEF CliWordOf
<1>9. CASE i.type = "OPENVPN"
  BY <1>9, CliWordAt, CliTable, 13 \in 1 .. 19 DEF CliWordOf
<1>10. CASE i.type = "DOT11"
  BY <1>10, CliWordAt, CliTable, 14 \in 1 .. 19 DEF CliWordOf
<1>11. CASE i.type = "SUB_DOT11"
  BY <1>11, CliWordAt, CliTable, 15 \in 1 .. 19 DEF CliWordOf
<1> QED
  BY <1>1, <1>2, <1>3, <1>4, <1>5, <1>6, <1>7, <1>8, <1>9, <1>10, <1>11 DEF CliWordOf

LEMMA PanelTable ==
  /\ DOMAIN PanelTypes = 1 .. 14
  /\ PanelTypes[1] = <<"LAN", "lan">> /\ PanelTypes[2] = <<"WAN", "wan">>
  /\ PanelTypes[3] = <<"CELLULAR", "cellular">> /\ PanelTypes[4] = <<"TUNNEL", "tunnel">>
  /\ PanelTypes[5] = <<"SVI", "vlan">> /\ PanelTypes[6] = <<"LO", "loopback">>
  /\ PanelTypes[7] = <<"DIALER", "dialer">> /\ PanelTypes[8] = <<"VP", "l2tp">>
  /\ PanelTypes[9] = <<"OPENVPN", "openvpn">> /\ PanelTypes[10] = <<"STA_DOT11", "wlan-sta">>
  /\ PanelTypes[11] = <<"DOT11", "wlan">> /\ PanelTypes[12] = <<"SUB_DOT11", "wlan">>
  /\ PanelTypes[13] = <<"BRIDGE", "bridge">> /\ PanelTypes[14] = <<"VXLAN", "vxlan">>
BY DEF PanelTypes

LEMMA PanelTypeAt ==
  ASSUME NEW k \in 1 .. 14, NEW w, IsPrefixWord(PanelTypes[k][2], w),
         \A j \in 1 .. k : IsPrefixWord(PanelTypes[j][2], w) => j = k
  PROVE  PanelType(w) = PanelTypes[k][1]
<1> DEFINE S == Matching(w)
<1>1. S \in SUBSET (1 .. 14) /\ k \in S
  BY PanelTable DEF Matching
<1>2. ASSUME NEW j \in S PROVE k <= j
  <2>1. j \in 1 .. 14 /\ IsPrefixWord(PanelTypes[j][2], w)
    BY PanelTable DEF Matching
  <2> QED
    BY <2>1
<1>3. PanelType(w) = FirstIn(PanelTypes, S, 1, "NONE")
  BY DEF PanelType
<1> HIDE DEF S
<1>4. PICK n \in Nat : n = 14
  OBVIOUS
<1>5. FirstIn(PanelTypes, S, 1, "NONE") = PanelTypes[k][1]
  <2>1. S \in SUBSET (1 .. n)
    BY <1>1, <1>4
  <2>2. Min(S) = k
    BY <1>1, <1>2, <2>1, MinIs
  <2>3. S # {}
    BY <1>1
  <2> QED
    BY <2>2, <2>3 DEF FirstIn
<1> QED
  BY <1>3, <1>5

\* Which texts a word of the panel's table matches.
LEMMA PrefixIs ==
  ASSUME NEW w, NEW text
  PROVE  IsPrefixWord(w, text) <=> w = text \/ (w = "wlan" /\ text = "wlan-sta")
BY DEF IsPrefixWord

LEMMA PanelWordsRead ==
  /\ PanelType("lan") = "LAN" /\ PanelType("wan") = "WAN" /\ PanelType("cellular") = "CELLULAR"
  /\ PanelType("tunnel") = "TUNNEL" /\ PanelType("vlan") = "SVI" /\ PanelType("loopback") = "LO"
  /\ PanelType("l2tp") = "VP" /\ PanelType("openvpn") = "OPENVPN"
  /\ PanelType("wlan-sta") = "STA_DOT11" /\ PanelType("wlan") = "DOT11"
  /\ PanelType("vxlan") = "VXLAN"
<1>1. PanelType("lan") = "LAN"
  BY PanelTypeAt, PrefixIs, PanelTable, 1 \in 1 .. 14
<1>2. PanelType("wan") = "WAN"
  BY PanelTypeAt, PrefixIs, PanelTable, 2 \in 1 .. 14
<1>3. PanelType("cellular") = "CELLULAR"
  BY PanelTypeAt, PrefixIs, PanelTable, 3 \in 1 .. 14
<1>4. PanelType("tunnel") = "TUNNEL"
  BY PanelTypeAt, PrefixIs, PanelTable, 4 \in 1 .. 14
<1>5. PanelType("vlan") = "SVI"
  BY PanelTypeAt, PrefixIs, PanelTable, 5 \in 1 .. 14
<1>6. PanelType("loopback") = "LO"
  BY PanelTypeAt, PrefixIs, PanelTable, 6 \in 1 .. 14
<1>7. PanelType("l2tp") = "VP"
  BY PanelTypeAt, PrefixIs, PanelTable, 8 \in 1 .. 14
<1>8. PanelType("openvpn") = "OPENVPN"
  BY PanelTypeAt, PrefixIs, PanelTable, 9 \in 1 .. 14
<1>9. PanelType("wlan-sta") = "STA_DOT11"
  BY PanelTypeAt, PrefixIs, PanelTable, 10 \in 1 .. 14
<1>10. PanelType("wlan") = "DOT11"
  BY PanelTypeAt, PrefixIs, PanelTable, 11 \in 1 .. 14
<1>11. PanelType("vxlan") = "VXLAN"
  BY PanelTypeAt, PrefixIs, PanelTable, 14 \in 1 .. 14
<1> QED
  BY <1>1, <1>2, <1>3, <1>4, <1>5, <1>6, <1>7, <1>8, <1>9, <1>10, <1>11

\* The panel calls an Ethernet port by what it is for.
ShownType(p, i) ==
  IF i.type \notin {"FE", "GE"} THEN i.type
  ELSE IF p.build = "ER3" /\ i.type = "GE" /\ i.port = WanEth THEN "WAN" ELSE "LAN"

LEMMA PanelWordAt ==
  ASSUME NEW k \in 1 .. 14, \A j \in 1 .. k : PanelTypes[j][1] = PanelTypes[k][1] => j = k,
         NEW p, NEW i, ShownType(p, i) = PanelTypes[k][1]
  PROVE  PanelWord(p, i) = PanelTypes[k][2]
<1> DEFINE S == Having(PanelTypes, 1, ShownType(p, i))
<1>1. S \in SUBSET (1 .. 14) /\ k \in S
  BY PanelTable DEF Having
<1>2. ASSUME NEW j \in S PROVE k <= j
  <2>1. j \in 1 .. 14 /\ PanelTypes[j][1] = PanelTypes[k][1]
    BY PanelTable DEF Having
  <2> QED
    BY <2>1
<1>3. PanelWord(p, i) = FirstIn(PanelTypes, S, 2, "")
  BY DEF PanelWord, ShownType
<1> HIDE DEF S
<1>4. PICK n \in Nat : n = 14
  OBVIOUS
<1>5. FirstIn(PanelTypes, S, 2, "") = PanelTypes[k][2]
  <2>1. S \in SUBSET (1 .. n)
    BY <1>1, <1>4
  <2>2. Min(S) = k
    BY <1>1, <1>2, <2>1, MinIs
  <2>3. S # {}
    BY <1>1
  <2> QED
    BY <2>2, <2>3 DEF FirstIn
<1> QED
  BY <1>3, <1>5

PanelWordOf == [t \in {"LAN", "WAN", "CELLULAR", "TUNNEL", "SVI", "LO", "VP", "OPENVPN",
                       "STA_DOT11", "DOT11", "SUB_DOT11", "VXLAN"} |->
  CASE t = "LAN" -> "lan" [] t = "WAN" -> "wan" [] t = "CELLULAR" -> "cellular"
    [] t = "TUNNEL" -> "tunnel" [] t = "SVI" -> "vlan" [] t = "LO" -> "loopback"
    [] t = "VP" -> "l2tp" [] t = "OPENVPN" -> "openvpn" [] t = "STA_DOT11" -> "wlan-sta"
    [] t \in {"DOT11", "SUB_DOT11"} -> "wlan" [] t = "VXLAN" -> "vxlan"]

LEMMA PanelWords ==
  ASSUME NEW p, NEW i, ShownType(p, i) \in DOMAIN PanelWordOf
  PROVE  PanelWord(p, i) = PanelWordOf[ShownType(p, i)]
<1> DEFINE t == ShownType(p, i)
<1>1. CASE t = "LAN"
  BY <1>1, PanelWordAt, PanelTable, 1 \in 1 .. 14 DEF PanelWordOf
<1>2. CASE t = "WAN"
  BY <1>2, PanelWordAt, PanelTable, 2 \in 1 .. 14 DEF PanelWordOf
<1>3. CASE t = "CELLULAR"
  BY <1>3, PanelWordAt, PanelTable, 3 \in 1 .. 14 DEF PanelWordOf
<1>4. CASE t = "TUNNEL"
  BY <1>4, PanelWordAt, PanelTable, 4 \in 1 .. 14 DEF PanelWordOf
<1>5. CASE t = "SVI"
  BY <1>5, PanelWordAt, PanelTable, 5 \in 1 .. 14 DEF PanelWordOf
<1>6. CASE t = "LO"
  BY <1>6, PanelWordAt, PanelTable, 6 \in 1 .. 14 DEF PanelWordOf
<1>7. CASE t = "VP"
  BY <1>7, PanelWordAt, PanelTable, 8 \in 1 .. 14 DEF PanelWordOf
<1>8. CASE t = "OPENVPN"
  BY <1>8, PanelWordAt, PanelTable, 9 \in 1 .. 14 DEF PanelWordOf
<1>9. CASE t = "STA_DOT11"
  BY <1>9, PanelWordAt, PanelTable, 10 \in 1 .. 14 DEF PanelWordOf
<1>10. CASE t = "DOT11"
  BY <1>10, PanelWordAt, PanelTable, 11 \in 1 .. 14 DEF PanelWordOf
<1>11. CASE t = "SUB_DOT11"
  BY <1>11, PanelWordAt, PanelTable, 12 \in 1 .. 14 DEF PanelWordOf
<1>12. CASE t = "VXLAN"
  BY <1>12, PanelWordAt, PanelTable, 14 \in 1 .. 14 DEF PanelWordOf
<1> QED
  BY <1>1, <1>2, <1>3, <1>4, <1>5, <1>6, <1>7, <1>8, <1>9, <1>10, <1>11, <1>12 DEF PanelWordOf

\* The panel has no word for a sub interface of the modem.
LEMMA SubHasNoWord ==
  ASSUME NEW p, NEW i, i.type = "SUB_CELLULAR"
  PROVE  PanelName(p, i) = NoText
<1>1. ShownType(p, i) = "SUB_CELLULAR"
  BY DEF ShownType
<1>2. ASSUME NEW k \in DOMAIN PanelTypes PROVE PanelTypes[k][1] # "SUB_CELLULAR"
  BY PanelTable
<1>3. Having(PanelTypes, 1, "SUB_CELLULAR") = {}
  BY <1>2 DEF Having
<1>4. PanelWord(p, i) = ""
  BY <1>1, <1>3 DEF PanelWord, ShownType, FirstIn
<1> QED
  BY <1>4 DEF PanelName, IsWanSvi

\* The system names.
LEMMA SysNames ==
  ASSUME NEW p, NEW i
  PROVE  /\ i.type = "GE" => VifGetSysName(p, i) = EthName(p, i)
         /\ i.type \in {"CELLULAR", "SUB_CELLULAR"} => VifGetSysName(p, i) = CellName(p, i)
         /\ i.type = "TUNNEL" => VifGetSysName(p, i) = <<"gre", i.port>>
         /\ i.type = "VXLAN" => VifGetSysName(p, i) = <<"vxlan", i.port>>
         /\ i.type = "SVI" => VifGetSysName(p, i) = IF IsWanSvi(i) THEN <<"wan", i.port - WanBase + 1>>
                                                    ELSE <<"vlan", i.port>>
         /\ i.type = "LO" => VifGetSysName(p, i) = <<"lo">>
         /\ i.type = "VP" => VifGetSysName(p, i) = <<"ppp", i.port + 20>>
         /\ i.type = "OPENVPN" => VifGetSysName(p, i) = <<"tun", i.port>>
         /\ i.type \in {"DOT11", "SUB_DOT11"} => VifGetSysName(p, i) = WlanName(p, i)
         /\ i.type = "STA_DOT11" => VifGetSysName(p, i) = StaName(p)
<1>1. i.type = "GE" => VifGetSysName(p, i) = EthName(p, i)
  BY DEF VifGetSysName
<1>2. i.type \in {"CELLULAR", "SUB_CELLULAR"} => VifGetSysName(p, i) = CellName(p, i)
  BY DEF VifGetSysName
<1>3. i.type = "TUNNEL" => VifGetSysName(p, i) = <<"gre", i.port>>
  BY DEF VifGetSysName
<1>4. i.type = "VXLAN" => VifGetSysName(p, i) = <<"vxlan", i.port>>
  BY DEF VifGetSysName
<1>5. i.type = "SVI" => VifGetSysName(p, i) = IF IsWanSvi(i) THEN <<"wan", i.port - WanBase + 1>>
                                              ELSE <<"vlan", i.port>>
  BY DEF VifGetSysName
<1>6. i.type = "LO" => VifGetSysName(p, i) = <<"lo">>
  BY DEF VifGetSysName
<1>7. i.type = "VP" => VifGetSysName(p, i) = <<"ppp", i.port + 20>>
  BY DEF VifGetSysName
<1>8. i.type = "OPENVPN" => VifGetSysName(p, i) = <<"tun", i.port>>
  BY DEF VifGetSysName
<1>9. i.type \in {"DOT11", "SUB_DOT11"} => VifGetSysName(p, i) = WlanName(p, i)
  BY DEF VifGetSysName
<1>10. i.type = "STA_DOT11" => VifGetSysName(p, i) = StaName(p)
  BY DEF VifGetSysName
<1> QED
  BY <1>1, <1>2, <1>3, <1>4, <1>5, <1>6, <1>7, <1>8, <1>9, <1>10

RegionTypes == {"GE", "CELLULAR", "SUB_CELLULAR", "TUNNEL", "VXLAN", "SVI", "LO", "VP", "OPENVPN",
                "DOT11", "SUB_DOT11", "STA_DOT11"}

\* The interfaces the names are made for.
Ifaces == [type : RegionTypes, slot : Nat, port : Nat, sid : Nat]

LEMMA WlanNames ==
  ASSUME NEW p, NEW i
  PROVE  /\ p.build = "IR9" => WlanName(p, i) = <<"vlan", Dot11Svi + i.port - 1 + i.sid>>
         /\ p.build = "ER6" => WlanName(p, i) = <<Radio(i.port), i.sid>>
         /\ p.build \notin {"IR9", "ER6"} /\ i.type = "DOT11" => WlanName(p, i) = <<"ath", i.port - 1>>
         /\ p.build = "IR8" /\ i.type # "DOT11" => WlanName(p, i) = <<"ath", i.port - 1, i.sid>>
         /\ p.build \notin {"IR9", "ER6", "IR8"} /\ i.type # "DOT11" => WlanName(p, i) = NoName
BY DEF WlanName

\* What a name begins with tells the Wi-Fi client, the OpenVPN links and the modem's device
\* from the rest.
LEMMA NameTells ==
  ASSUME NEW p, NEW i, i \in Ifaces, Proper(p, i), NEW n, n = VifGetSysName(p, i), n # NoName
  PROVE  /\ n[1] = "athsta" => i.type = "STA_DOT11"
         /\ n[1] = "ath" /\ i.type # "STA_DOT11" => n[2] # StaPort
         /\ n[1] = "tun" <=> i.type = "OPENVPN"
         /\ n[1] \in {"usb", "usbeth2"} => i.type \in {"CELLULAR", "SUB_CELLULAR"}
<1>0. i.port \in Nat
  BY DEF Ifaces
<1>1. CASE i.type = "GE"
  <2>1. n = EthName(p, i)
    BY <1>1, SysNames
  <2> QED
    BY <1>1, <2>1 DEF EthName
<1>2. CASE i.type \in {"CELLULAR", "SUB_CELLULAR"}
  <2>1. n = CellName(p, i)
    BY <1>2, SysNames
  <2> QED
    BY <1>2, <2>1 DEF CellName
<1>3. CASE i.type \in {"DOT11", "SUB_DOT11"}
  <2>1. n = WlanName(p, i)
    BY <1>3, SysNames
  <2>2. i.port \in 1 .. 2 /\ i.port - 1 # StaPort
    BY <1>0, <1>3, NamesConstantsOK DEF Proper
  <2>3. CASE p.build = "IR9"
    BY <1>3, <2>1, <2>3, WlanNames
  <2>4. CASE p.build = "ER6"
    BY <1>3, <2>1, <2>4, WlanNames DEF Radio
  <2>5. CASE p.build \notin {"IR9", "ER6"} /\ i.type = "DOT11"
    BY <1>3, <2>1, <2>2, <2>5, WlanNames
  <2>6. CASE p.build \notin {"IR9", "ER6"} /\ i.type # "DOT11"
    <3>1. p.build = "IR8" /\ n = <<"ath", i.port - 1, i.sid>>
      BY <2>1, <2>6, WlanNames
    <3> QED
      BY <1>3, <2>2, <3>1
  <2> QED
    BY <2>3, <2>4, <2>5, <2>6
<1>4. CASE i.type \in {"TUNNEL", "VXLAN", "SVI", "LO", "VP"}
  BY <1>4, SysNames
<1>5. CASE i.type = "OPENVPN"
  BY <1>5, SysNames
<1>6. CASE i.type = "STA_DOT11"
  BY <1>6, SysNames DEF StaName
<1> QED
  BY <1>1, <1>2, <1>3, <1>4, <1>5, <1>6 DEF Ifaces, RegionTypes

\* No other interface has the name of the Wi-Fi client.
LEMMA StaAlone ==
  ASSUME NEW p, NEW i, i \in Ifaces, Proper(p, i), VifGetSysName(p, i) = StaName(p)
  PROVE  i.type = "STA_DOT11"
<1> DEFINE n == VifGetSysName(p, i)
<1>1. CASE p.build = "ER6"
  <2>1. n = <<"athsta">>
    BY <1>1 DEF StaName
  <2>2. n # NoName /\ n[1] = "athsta"
    BY <2>1 DEF NoName
  <2> HIDE DEF n
  <2> QED
    BY <2>2, NameTells DEF n
<1>2. CASE p.build # "ER6"
  <2>1. n = <<"ath", StaPort>>
    BY <1>2 DEF StaName
  <2>2. n # NoName /\ n[1] = "ath" /\ n[2] = StaPort
    BY <2>1 DEF NoName
  <2> HIDE DEF n
  <2> QED
    BY <2>2, NameTells DEF n
<1> QED
  BY <1>1, <1>2

\* A text of the command line is read back as this interface.
LEMMA MainReads ==
  ASSUME NEW p, NEW t, CliType(t.word) \notin {"NONE", "STA_DOT11", "FE", "GE", "OPENVPN"}, t.sid = 0
  PROVE  FromCliName(p, t) = SecondRadio(p, If(CliType(t.word), 0, t.port, 0))
<1>1. ~(t.sid > 0)
  OBVIOUS
<1> QED
  BY <1>1 DEF FromCliName

LEMMA PortReads ==
  ASSUME NEW p, NEW t, CliType(t.word) = "GE", t.sid = 0
  PROVE  FromCliName(p, t) = SecondRadio(p, If("GE", t.slot, t.port, 0))
<1>1. ~(t.sid > 0)
  OBVIOUS
<1> QED
  BY <1>1 DEF FromCliName

LEMMA OvpnReads ==
  ASSUME NEW p, NEW t, CliType(t.word) = "OPENVPN", t.sid = 0
  PROVE  FromCliName(p, t) =
           SecondRadio(p, If("OPENVPN", 0, IF t.name = "server" THEN OvpnServer ELSE t.port, 0))
<1>1. ~(t.sid > 0)
  OBVIOUS
<1> QED
  BY <1>1 DEF FromCliName

LEMMA SubReads ==
  ASSUME NEW p, NEW t, CliType(t.word) \in {"CELLULAR", "DOT11"}, t.sid \in Nat
  PROVE  FromCliName(p, t) = SecondRadio(p, If(IF t.sid > 0 THEN SubOf(CliType(t.word)) ELSE CliType(t.word),
                                               0, t.port, t.sid))
<1>1. t.sid = 0 \/ t.sid > 0
  OBVIOUS
<1>2. SubOf("DOT11") = "SUB_DOT11"
  BY DEF SubOf
<1> QED
  BY <1>1, <1>2 DEF FromCliName

LEMMA IfIs ==
  ASSUME NEW type, NEW slot, NEW port, NEW sid
  PROVE  /\ If(type, slot, port, sid).type = type /\ If(type, slot, port, sid).slot = slot
         /\ If(type, slot, port, sid).port = port /\ If(type, slot, port, sid).sid = sid
BY DEF If

\* A radio read back has the name it had, by whatever number.
LEMMA RadioReturns ==
  ASSUME NEW p, p \in Product, NEW i, i \in Ifaces, Proper(p, i), i.type = "DOT11", i.sid = 0,
         NEW x, x = SecondRadio(p, If("DOT11", 0, i.port, 0))
  PROVE  VifGetSysName(p, x) = VifGetSysName(p, i)
<1>1. CASE p.build = "IR9" /\ i.port = 2
  <2>1. x = If("SUB_DOT11", 0, 1, 1)
    BY <1>1, IfIs DEF SecondRadio
  <2>2. x.type = "SUB_DOT11" /\ x.port = 1 /\ x.sid = 1
    BY <2>1, IfIs
  <2>3. WlanName(p, x) = <<"vlan", Dot11Svi + 1 - 1 + 1>> /\ WlanName(p, i) = <<"vlan", Dot11Svi + 2 - 1 + 0>>
    BY <1>1, <2>2, WlanNames
  <2>4. Dot11Svi + 1 - 1 + 1 = Dot11Svi + 2 - 1 + 0
    BY NamesConstantsOK
  <2> QED
    BY <2>2, <2>3, <2>4, SysNames
<1>2. CASE ~(p.build = "IR9" /\ i.port = 2)
  <2>1. ~(p.build = "IG9" /\ i.port = 2)
    BY DEF Proper
  <2>2. x.type = "DOT11" /\ x.port = i.port /\ x.sid = i.sid
    BY <1>2, <2>1, IfIs DEF SecondRadio
  <2>3. WlanName(p, x) = WlanName(p, i)
    BY <2>2 DEF WlanName
  <2> QED
    BY <2>2, <2>3, SysNames
<1> QED
  BY <1>1, <1>2

\* No word of a name follows its number.
Unnamed(t) == t.name = ""

\* What the command line shows of an interface, typed again, leads to the same device.
LEMMA CliReturns ==
  ASSUME NEW p, p \in Product, NEW i, i \in Ifaces, Proper(p, i),
         i.type # "STA_DOT11", ~(i.type = "OPENVPN" /\ i.port = OvpnCloud)
  PROVE  /\ FromCliName(p, CliName(i)) # None
         /\ VifGetSysName(p, FromCliName(p, CliName(i))) = VifGetSysName(p, i)
<1> DEFINE x == FromCliName(p, CliName(i))
<1>1. i.port \in Nat /\ i.sid \in Nat /\ i.slot \in Nat
  BY DEF Ifaces
<1>2. None.type = "NONE"
  BY DEF None, If
<1>3. CASE i.type = "GE"
  <2>1. CliWord(i) = "gigabitethernet"
    BY <1>3, CliWords DEF CliWordOf
  <2>2. CliName(i).word = "gigabitethernet" /\ CliName(i).slot = i.slot /\ CliName(i).port = i.port /\ CliName(i).sid = 0 /\ Unnamed(CliName(i))
    BY <1>3, <2>1 DEF CliName, Text, Named, Unnamed
  <2>3. x = SecondRadio(p, If("GE", i.slot, i.port, 0))
    BY <2>2, PortReads, CliWordsRead
  <2>4. x.type = "GE" /\ x.port = i.port
    BY <2>3, IfIs DEF SecondRadio
  <2>5. EthName(p, x) = EthName(p, i)
    BY <2>4 DEF EthName
  <2> QED
    BY <1>2, <1>3, <2>4, <2>5, SysNames
<1>4. CASE i.type \in {"CELLULAR", "SUB_CELLULAR"}
  <2>1. CliWord(i) = "cellular"
    BY <1>4, CliWords DEF CliWordOf
  <2>2. CliName(i).word = "cellular" /\ CliName(i).port = i.port /\ CliName(i).sid \in Nat
    BY <1>1, <1>4, <2>1 DEF CliName, Text, Named, Unnamed
  <2>4. x.type \in {"CELLULAR", "SUB_CELLULAR"} /\ x.port = i.port
    BY <2>2, SubReads, CliWordsRead, IfIs DEF SecondRadio, SubOf
  <2>5. CellName(p, x) = CellName(p, i)
    BY <2>4 DEF CellName
  <2> QED
    BY <1>2, <1>4, <2>4, <2>5, SysNames
<1>5. CASE i.type \in {"TUNNEL", "VXLAN", "LO", "VP"}
  <2>1. CliWord(i) = CliWordOf[i.type] /\ CliWord(i) # ""
    BY <1>5, CliWords DEF CliWordOf
  <2>2. CliName(i).word = CliWord(i) /\ CliName(i).slot = 0 /\ CliName(i).port = i.port /\ CliName(i).sid = 0 /\ Unnamed(CliName(i))
    BY <1>5, <2>1 DEF CliName, Text, Named, Unnamed
  <2>3. CliType(CliWord(i)) = i.type
    BY <1>5, <2>1, CliWordsRead DEF CliWordOf
  <2>4. x = SecondRadio(p, If(i.type, 0, i.port, 0))
    BY <1>5, <2>2, <2>3, MainReads
  <2>5. x.type = i.type /\ x.port = i.port
    BY <1>5, <2>4, IfIs DEF SecondRadio
  <2> QED
    BY <1>2, <1>5, <2>5, SysNames
<1>6. CASE i.type = "SVI" /\ i.port # Dot11Svi
  <2>1. CliWord(i) = "vlan"
    BY <1>6, CliWords DEF CliWordOf
  <2>2. CliName(i).word = "vlan" /\ CliName(i).slot = 0 /\ CliName(i).port = i.port /\ CliName(i).sid = 0 /\ Unnamed(CliName(i))
    BY <1>6, <2>1 DEF CliName, Text, Named, Unnamed
  <2>3. x = SecondRadio(p, If("SVI", 0, i.port, 0))
    BY <2>2, MainReads, CliWordsRead
  <2>4. x.type = "SVI" /\ x.port = i.port
    BY <2>3, IfIs DEF SecondRadio
  <2>5. IsWanSvi(x) <=> IsWanSvi(i)
    BY <1>6, <2>4 DEF IsWanSvi
  <2> QED
    BY <1>2, <1>6, <2>4, <2>5, SysNames
<1>7. CASE i.type = "SVI" /\ i.port = Dot11Svi
  <2>1. CliWord(i) = "vlan"
    BY <1>7, CliWords DEF CliWordOf
  <2>2. CliName(i).word = "dot11radio" /\ CliName(i).slot = 0 /\ CliName(i).port = 1 /\ CliName(i).sid = 0 /\ Unnamed(CliName(i))
    BY <1>7, <2>1 DEF CliName, Text, Named, Unnamed
  <2>3. x = SecondRadio(p, If("DOT11", 0, 1, 0))
    BY <2>2, MainReads, CliWordsRead
  <2>4. x.type = "DOT11" /\ x.port = 1 /\ x.sid = 0
    BY <2>3, IfIs DEF SecondRadio
  <2>5. p.build = "IR9" /\ ~IsWanSvi(i)
    BY <1>7, NamesConstantsOK DEF Proper, IsWanSvi
  <2>6. VifGetSysName(p, x) = <<"vlan", Dot11Svi + 1 - 1 + 0>>
    BY <2>4, <2>5, SysNames, WlanNames
  <2>7. VifGetSysName(p, i) = <<"vlan", Dot11Svi>>
    BY <1>7, <2>5, SysNames
  <2>8. Dot11Svi + 1 - 1 + 0 = Dot11Svi
    BY NamesConstantsOK
  <2> QED
    BY <1>2, <2>4, <2>6, <2>7, <2>8
<1>8. CASE i.type = "OPENVPN"
  <2>1. CliWord(i) = "openvpn"
    BY <1>8, CliWords DEF CliWordOf
  <2>2. CASE i.port <= 10
    <3>1. CliName(i).word = "openvpn" /\ CliName(i).slot = 0 /\ CliName(i).port = i.port /\ CliName(i).sid = 0 /\ Unnamed(CliName(i))
      BY <1>1, <1>8, <2>1, <2>2 DEF CliName, Text, Named, Unnamed
    <3>2. CliName(i).name # "server"
      BY <3>1, Zenon DEF Unnamed
    <3>3. x = SecondRadio(p, If("OPENVPN", 0, i.port, 0))
      BY <3>1, <3>2, OvpnReads, CliWordsRead
    <3>4. x.type = "OPENVPN" /\ x.port = i.port
      BY <3>3, IfIs DEF SecondRadio
    <3> QED
      BY <1>2, <1>8, <3>4, SysNames
  <2>3. CASE ~(i.port <= 10)
    <3>1. i.port = OvpnServer /\ i.port > 10
      BY <1>1, <1>8, <2>3 DEF Proper
    <3>2. CliName(i).word = "openvpn" /\ CliName(i).name = "server" /\ CliName(i).sid = 0
      BY <1>8, <2>1, <3>1 DEF CliName, Text, Named, Unnamed
    <3>4. x = SecondRadio(p, If("OPENVPN", 0, i.port, 0))
      BY <3>1, <3>2, OvpnReads, CliWordsRead
    <3>5. x.type = "OPENVPN" /\ x.port = i.port
      BY <3>4, IfIs DEF SecondRadio
    <3> QED
      BY <1>2, <1>8, <3>5, SysNames
  <2> QED
    BY <2>2, <2>3
<1>9. CASE i.type = "DOT11"
  <2>1. CliWord(i) = "dot11radio" /\ i.sid = 0
    BY <1>9, CliWords DEF CliWordOf, Proper
  <2>2. CliName(i).word = "dot11radio" /\ CliName(i).slot = 0 /\ CliName(i).port = i.port /\ CliName(i).sid = 0 /\ Unnamed(CliName(i))
    BY <1>9, <2>1 DEF CliName, Text, Named, Unnamed
  <2>3. x = SecondRadio(p, If("DOT11", 0, i.port, 0))
    BY <2>2, MainReads, CliWordsRead
  <2>4. x # None
    BY <1>2, <2>3, IfIs DEF SecondRadio
  <2> QED
    BY <1>9, <2>1, <2>3, <2>4, RadioReturns
<1>10. CASE i.type = "SUB_DOT11"
  <2>1. CliWord(i) = "dot11radio" /\ i.sid > 0
    BY <1>10, CliWords DEF CliWordOf, Proper
  <2>2. CliName(i).word = "dot11radio" /\ CliName(i).slot = 0 /\ CliName(i).port = i.port /\ CliName(i).sid = i.sid /\ Unnamed(CliName(i))
    BY <1>10, <2>1 DEF CliName, Text, Named, Unnamed
  <2>3. x = SecondRadio(p, If("SUB_DOT11", 0, i.port, i.sid))
    BY <1>1, <2>1, <2>2, SubReads, CliWordsRead DEF SubOf
  <2>4. x.type = "SUB_DOT11" /\ x.port = i.port /\ x.sid = i.sid
    BY <2>3, IfIs DEF SecondRadio
  <2>5. WlanName(p, x) = WlanName(p, i)
    BY <1>10, <2>4 DEF WlanName
  <2> QED
    BY <1>2, <1>10, <2>4, <2>5, SysNames
<1> QED
  BY <1>3, <1>4, <1>5, <1>6, <1>7, <1>8, <1>9, <1>10 DEF Ifaces, RegionTypes

\* .. and read by the services it does as well.
LEMMA CmdReads ==
  ASSUME NEW p, NEW t, CliType(t.word) # "NONE", Unnamed(t),
         ~Refused(p, CliType(t.word), t.slot, t.port)
  PROVE  FromCmdName(p, t) =
           SecondRadio(p, If(IF t.sid > 0 THEN SubOf(CliType(t.word)) ELSE CliType(t.word),
                             t.slot, t.port, t.sid))
BY DEF FromCmdName, Unnamed

\* What is refused of an interface is refused of its sub interfaces.
LEMMA NotRefused ==
  ASSUME NEW p, NEW i, ~Refused(p, i.type, i.slot, i.port), NEW type, type \notin {"FE", "GE"}
  PROVE  ~Refused(p, type, 0, i.port)
BY DEF Refused

LEMMA CmdReturns ==
  ASSUME NEW p, p \in Product, NEW i, i \in Ifaces, Proper(p, i),
         i.type # "STA_DOT11", ~(i.type = "OPENVPN" /\ i.port > 10),
         ~Refused(p, i.type, i.slot, i.port)
  PROVE  VifGetSysName(p, FromCmdName(p, CliName(i))) = VifGetSysName(p, i)
<1> DEFINE x == FromCmdName(p, CliName(i))
<1>1. i.port \in Nat /\ i.sid \in Nat /\ i.slot \in Nat
  BY DEF Ifaces
<1>2. ASSUME NEW w, NEW type, CliType(w) = type, CliName(i).word = w, type # "NONE",
             Unnamed(CliName(i)), CliName(i).port = i.port, CliName(i).sid = i.sid, i.sid = 0,
             type = i.type, CliName(i).slot = i.slot \/ (CliName(i).slot = 0 /\ type \notin {"FE", "GE"})
      PROVE  x = SecondRadio(p, If(i.type, CliName(i).slot, i.port, 0))
  <2>1. ~Refused(p, type, CliName(i).slot, CliName(i).port)
    <3>1. CASE CliName(i).slot = i.slot
      BY <1>2, <3>1, Zenon
    <3>2. CASE CliName(i).slot = 0 /\ type \notin {"FE", "GE"}
      BY <1>2, <3>2, NotRefused, Zenon
    <3> QED
      BY <1>2, <3>1, <3>2
  <2>2. ~(CliName(i).sid > 0)
    BY <1>2
  <2> QED
    BY <1>2, <2>1, <2>2, CmdReads
<1>3. CASE i.type = "GE"
  <2>1. CliWord(i) = "gigabitethernet"
    BY <1>3, CliWords DEF CliWordOf
  <2>2. CliName(i).word = "gigabitethernet" /\ CliName(i).slot = i.slot /\ CliName(i).port = i.port /\ CliName(i).sid = 0 /\ Unnamed(CliName(i))
    BY <1>3, <2>1 DEF CliName, Text, Named, Unnamed
  <2>3. i.sid = 0
    BY <1>3 DEF Proper
  <2>4. x = SecondRadio(p, If("GE", i.slot, i.port, 0))
    BY <1>2, <1>3, <2>2, <2>3, CliWordsRead
  <2>5. x.type = "GE" /\ x.port = i.port
    BY <2>4, IfIs DEF SecondRadio
  <2>6. EthName(p, x) = EthName(p, i)
    BY <2>5 DEF EthName
  <2> QED
    BY <1>3, <2>5, <2>6, SysNames
<1>4. CASE i.type \in {"CELLULAR", "SUB_CELLULAR"}
  <2>1. CliWord(i) = "cellular"
    BY <1>4, CliWords DEF CliWordOf
  <2>2. CliName(i).word = "cellular" /\ CliName(i).slot = 0 /\ CliName(i).port = i.port /\ CliName(i).sid \in Nat /\ Unnamed(CliName(i))
    BY <1>1, <1>4, <2>1 DEF CliName, Text, Named, Unnamed
  <2>3. ~Refused(p, "CELLULAR", 0, i.port)
    BY NotRefused
  <2>4. x.type \in {"CELLULAR", "SUB_CELLULAR"} /\ x.port = i.port
    BY <2>2, <2>3, CmdReads, CliWordsRead, IfIs DEF SecondRadio, SubOf
  <2>5. CellName(p, x) = CellName(p, i)
    BY <2>4 DEF CellName
  <2> QED
    BY <1>4, <2>4, <2>5, SysNames
<1>5. CASE i.type \in {"TUNNEL", "VXLAN", "LO", "VP"}
  <2>1. CliWord(i) = CliWordOf[i.type] /\ CliWord(i) # "" /\ i.sid = 0
    BY <1>5, CliWords DEF CliWordOf, Proper
  <2>2. CliName(i).word = CliWord(i) /\ CliName(i).slot = 0 /\ CliName(i).port = i.port /\ CliName(i).sid = 0 /\ Unnamed(CliName(i))
    BY <1>5, <2>1 DEF CliName, Text, Named, Unnamed
  <2>3. CliType(CliWord(i)) = i.type
    BY <1>5, <2>1, CliWordsRead DEF CliWordOf
  <2>4. x = SecondRadio(p, If(i.type, 0, i.port, 0))
    BY <1>2, <1>5, <2>1, <2>2, <2>3
  <2>5. x.type = i.type /\ x.port = i.port
    BY <1>5, <2>4, IfIs DEF SecondRadio
  <2> QED
    BY <1>5, <2>5, SysNames
<1>6. CASE i.type = "SVI" /\ i.port # Dot11Svi
  <2>1. CliWord(i) = "vlan" /\ i.sid = 0
    BY <1>6, CliWords DEF CliWordOf, Proper
  <2>2. CliName(i).word = "vlan" /\ CliName(i).slot = 0 /\ CliName(i).port = i.port /\ CliName(i).sid = 0 /\ Unnamed(CliName(i))
    BY <1>6, <2>1 DEF CliName, Text, Named, Unnamed
  <2>3. x = SecondRadio(p, If("SVI", 0, i.port, 0))
    BY <1>2, <1>6, <2>1, <2>2, CliWordsRead
  <2>4. x.type = "SVI" /\ x.port = i.port
    BY <2>3, IfIs DEF SecondRadio
  <2>5. IsWanSvi(x) <=> IsWanSvi(i)
    BY <1>6, <2>4 DEF IsWanSvi
  <2> QED
    BY <1>6, <2>4, <2>5, SysNames
<1>7. CASE i.type = "SVI" /\ i.port = Dot11Svi
  <2>1. CliWord(i) = "vlan"
    BY <1>7, CliWords DEF CliWordOf
  <2>2. CliName(i).word = "dot11radio" /\ CliName(i).slot = 0 /\ CliName(i).port = 1 /\ CliName(i).sid = 0 /\ Unnamed(CliName(i))
    BY <1>7, <2>1 DEF CliName, Text, Named, Unnamed
  <2>3. ~Refused(p, "DOT11", CliName(i).slot, CliName(i).port) /\ ~(CliName(i).sid > 0)
    BY <2>2 DEF Refused
  <2>4. x = SecondRadio(p, If("DOT11", 0, 1, 0))
    BY <2>2, <2>3, CmdReads, CliWordsRead
  <2>5. x.type = "DOT11" /\ x.port = 1 /\ x.sid = 0
    BY <2>4, IfIs DEF SecondRadio
  <2>6. p.build = "IR9" /\ ~IsWanSvi(i)
    BY <1>7, NamesConstantsOK DEF Proper, IsWanSvi
  <2>7. VifGetSysName(p, x) = <<"vlan", Dot11Svi + 1 - 1 + 0>>
    BY <2>5, <2>6, SysNames, WlanNames
  <2>8. VifGetSysName(p, i) = <<"vlan", Dot11Svi>>
    BY <1>7, <2>6, SysNames
  <2>9. Dot11Svi + 1 - 1 + 0 = Dot11Svi
    BY NamesConstantsOK
  <2> QED
    BY <2>7, <2>8, <2>9
<1>8. CASE i.type = "OPENVPN"
  <2>1. CliWord(i) = "openvpn" /\ ~(i.port > 10) /\ i.sid = 0
    BY <1>8, CliWords DEF CliWordOf, Proper
  <2>2. CliName(i).word = "openvpn" /\ CliName(i).slot = 0 /\ CliName(i).port = i.port /\ CliName(i).sid = 0 /\ Unnamed(CliName(i))
    BY <1>8, <2>1 DEF CliName, Text, Named, Unnamed
  <2>3. x = SecondRadio(p, If("OPENVPN", 0, i.port, 0))
    BY <1>2, <1>8, <2>1, <2>2, CliWordsRead
  <2>4. x.type = "OPENVPN" /\ x.port = i.port
    BY <2>3, IfIs DEF SecondRadio
  <2> QED
    BY <1>8, <2>4, SysNames
<1>9. CASE i.type = "DOT11"
  <2>1. CliWord(i) = "dot11radio" /\ i.sid = 0
    BY <1>9, CliWords DEF CliWordOf, Proper
  <2>2. CliName(i).word = "dot11radio" /\ CliName(i).slot = 0 /\ CliName(i).port = i.port /\ CliName(i).sid = 0 /\ Unnamed(CliName(i))
    BY <1>9, <2>1 DEF CliName, Text, Named, Unnamed
  <2>3. x = SecondRadio(p, If("DOT11", 0, i.port, 0))
    BY <1>2, <1>9, <2>1, <2>2, CliWordsRead
  <2> QED
    BY <1>9, <2>1, <2>3, RadioReturns
<1>10. CASE i.type = "SUB_DOT11"
  <2>1. CliWord(i) = "dot11radio" /\ i.sid > 0
    BY <1>10, CliWords DEF CliWordOf, Proper
  <2>2. CliName(i).word = "dot11radio" /\ CliName(i).slot = 0 /\ CliName(i).port = i.port /\ CliName(i).sid = i.sid /\ Unnamed(CliName(i))
    BY <1>10, <2>1 DEF CliName, Text, Named, Unnamed
  <2>3. ~Refused(p, "DOT11", CliName(i).slot, CliName(i).port)
    BY <2>2, NotRefused
  <2>4. x = SecondRadio(p, If("SUB_DOT11", 0, i.port, i.sid))
    BY <1>1, <2>1, <2>2, <2>3, CmdReads, CliWordsRead DEF SubOf
  <2>5. x.type = "SUB_DOT11" /\ x.port = i.port /\ x.sid = i.sid
    BY <2>4, IfIs DEF SecondRadio
  <2>6. WlanName(p, x) = WlanName(p, i)
    BY <1>10, <2>5 DEF WlanName
  <2> QED
    BY <1>10, <2>5, <2>6, SysNames
<1> QED
  BY <1>3, <1>4, <1>5, <1>6, <1>7, <1>8, <1>9, <1>10 DEF Ifaces, RegionTypes

LEMMA IfaceIs ==
  ASSUME NEW i, i \in Ifaces
  PROVE  i = If(i.type, i.slot, i.port, i.sid)
BY DEF Ifaces, If

\* What the panel shows of an interface is read as this interface.
LEMMA PanelReturns ==
  ASSUME NEW p, p \in Product, NEW i, i \in Ifaces, Proper(p, i),
         i.type # "SUB_CELLULAR", ~(i.type = "VP" /\ i.port > 20)
  PROVE  FromPanelName(p, PanelName(p, i)) = i
<1> DEFINE t == PanelName(p, i)
           x == FromPanelName(p, t)
<1>1. i = If(i.type, i.slot, i.port, i.sid) /\ i.port \in Nat /\ i.sid \in Nat
  BY IfaceIs DEF Ifaces
<1>2. CASE i.type = "GE" /\ p.build = "ER3" /\ i.port = WanEth
  <2>1. PanelWord(p, i) = "wan"
    BY <1>2, PanelWords DEF ShownType, PanelWordOf
  <2>2. t.word = "wan" /\ t.port = 1
    <3>1. t = Text("wan", 0, i.port - 1, 0)
      BY <1>2, <2>1 DEF PanelName, IsWanSvi
    <3>2. i.port - 1 = 1
      BY <1>2, NamesConstantsOK
    <3> HIDE DEF t
    <3> QED
      BY <3>1, <3>2 DEF Text
  <2>3. x = If("GE", 0, WanEth, 0)
    BY <1>2, <2>2, PanelWordsRead DEF FromPanelName
  <2> QED
    BY <1>1, <1>2, <2>3 DEF Proper
<1>3. CASE i.type = "GE" /\ ~(p.build = "ER3" /\ i.port = WanEth)
  <2>1. PanelWord(p, i) = "lan"
    BY <1>3, PanelWords DEF ShownType, PanelWordOf
  <2>2. t.word = "lan" /\ t.port = i.port
    BY <1>3, <2>1 DEF PanelName, IsWanSvi, Text
  <2>3. x = IF p.build = "ER3" THEN If("GE", 0, LanEth, 0) ELSE If("GE", 1, i.port, 0)
    BY <2>2, PanelWordsRead DEF FromPanelName
  <2> QED
    BY <1>1, <1>3, <2>3 DEF Proper
<1>4. CASE i.type = "CELLULAR"
  <2>1. PanelWord(p, i) = "cellular"
    BY <1>4, PanelWords DEF ShownType, PanelWordOf
  <2>2. t.word = "cellular" /\ t.port = i.port /\ t.sid = 0
    BY <1>4, <2>1 DEF PanelName, IsWanSvi, Text
  <2>3. i.port > 0 /\ ~(i.port <= 0) /\ ~(t.sid > 0)
    BY <1>1, <1>4, <2>2 DEF Proper
  <2>4. x = If("CELLULAR", 0, i.port, 0)
    BY <2>2, <2>3, PanelWordsRead DEF FromPanelName
  <2> QED
    BY <1>1, <1>4, <2>4 DEF Proper
<1>5. CASE i.type \in {"TUNNEL", "VXLAN", "LO", "VP", "DOT11"}
  <2>1. PanelWord(p, i) = PanelWordOf[i.type] /\ PanelWord(p, i) # ""
    BY <1>5, PanelWords DEF ShownType, PanelWordOf
  <2>2. t.word = PanelWord(p, i) /\ t.port = i.port /\ t.sid = 0
    BY <1>5, <2>1 DEF PanelName, IsWanSvi, Text
  <2>3. PanelType(t.word) = i.type
    BY <1>5, <2>1, <2>2, PanelWordsRead DEF PanelWordOf
  <2>4. ~(t.sid > 0)
    BY <2>2
  <2>5. x = If(i.type, 0, i.port, 0)
    BY <1>5, <2>2, <2>3, <2>4 DEF FromPanelName
  <2> QED
    BY <1>1, <1>5, <2>5 DEF Proper
<1>6. CASE i.type = "SVI" /\ IsWanSvi(i)
  <2>1. PanelWord(p, i) = "vlan"
    BY <1>6, PanelWords DEF ShownType, PanelWordOf
  <2>2. t.word = "wan" /\ t.port = i.port - WanBase + 1
    BY <1>6, <2>1 DEF PanelName, Text
  <2>3. p.build # "ER3"
    BY <1>6 DEF Proper
  <2>4. x = If("SVI", 0, WanBase + (i.port - WanBase + 1) - 1, 0)
    BY <2>2, <2>3, PanelWordsRead DEF FromPanelName
  <2>5. WanBase + (i.port - WanBase + 1) - 1 = i.port
    BY <1>1, NamesConstantsOK
  <2> QED
    BY <1>1, <1>6, <2>4, <2>5 DEF Proper
<1>7. CASE i.type = "SVI" /\ ~IsWanSvi(i)
  <2>1. PanelWord(p, i) = "vlan"
    BY <1>7, PanelWords DEF ShownType, PanelWordOf
  <2>2. t.word = "vlan" /\ t.port = i.port /\ t.sid = 0
    BY <1>7, <2>1 DEF PanelName, Text
  <2>3. ~(t.sid > 0)
    BY <2>2
  <2>4. x = If("SVI", 0, i.port, 0)
    BY <2>2, <2>3, PanelWordsRead DEF FromPanelName
  <2> QED
    BY <1>1, <1>7, <2>4 DEF Proper
<1>8. CASE i.type = "OPENVPN"
  <2>1. PanelWord(p, i) = "openvpn" /\ ~IsWanSvi(i)
    BY <1>8, PanelWords DEF ShownType, PanelWordOf, IsWanSvi
  <2>2. 10 < OvpnCloud /\ OvpnCloud < OvpnServer /\ OvpnCloud \in Nat /\ OvpnServer \in Nat
    BY NamesConstantsOK
  <2>3. t.word = "openvpn" /\ t.sid = 0 /\ OvpnPort(t) = i.port
    <3>1. CASE i.port = OvpnCloud
      <4>1. t = Named("openvpn", "cloud")
        BY <1>8, <2>1, <2>2, <3>1 DEF PanelName
      <4>2. t.word = "openvpn" /\ t.sid = 0 /\ t.name = "cloud"
        BY <4>1 DEF Named, Text
      <4> QED
        BY <3>1, <4>2 DEF OvpnPort
    <3>2. CASE i.port = OvpnServer
      <4>1. i.port # OvpnCloud /\ i.port > OvpnCloud
        BY <2>2, <3>2
      <4>2. t = Named("openvpn", "server")
        BY <1>8, <2>1, <4>1 DEF PanelName
      <4>3. t.word = "openvpn" /\ t.sid = 0 /\ t.name = "server"
        BY <4>2 DEF Named, Text
      <4> QED
        BY <3>2, <4>3 DEF OvpnPort
    <3>3. CASE i.port <= 10
      <4>1. i.port # OvpnCloud /\ ~(i.port > OvpnCloud)
        BY <1>1, <2>2, <3>3
      <4>2. t = Text("openvpn", 0, i.port, 0)
        BY <1>8, <2>1, <4>1 DEF PanelName
      <4> HIDE DEF t
      <4>3. t.word = "openvpn" /\ t.sid = 0 /\ t.name = "" /\ t.port = i.port
        BY <4>2 DEF Text
      <4> QED
        BY <4>3 DEF OvpnPort
    <3> QED
      BY <1>8, <3>1, <3>2, <3>3 DEF Proper
  <2>4. ~(t.sid > 0)
    BY <2>3
  <2>5. x = If("OPENVPN", 0, i.port, 0)
    BY <2>3, <2>4, PanelWordsRead DEF FromPanelName
  <2> QED
    BY <1>1, <1>8, <2>5 DEF Proper
<1>9. CASE i.type = "SUB_DOT11"
  <2>1. PanelWord(p, i) = "wlan"
    BY <1>9, PanelWords DEF ShownType, PanelWordOf
  <2>2. t.word = "wlan" /\ t.port = i.port /\ t.sid = i.sid
    BY <1>9, <2>1 DEF PanelName, IsWanSvi, Text
  <2>3. t.sid > 0
    BY <1>9, <2>2 DEF Proper
  <2>4. x = If("SUB_DOT11", 0, i.port, i.sid)
    BY <2>2, <2>3, PanelWordsRead DEF FromPanelName
  <2> QED
    BY <1>1, <1>9, <2>4 DEF Proper
<1>10. CASE i.type = "STA_DOT11"
  <2>1. PanelWord(p, i) = "wlan-sta"
    BY <1>10, PanelWords DEF ShownType, PanelWordOf
  <2>2. t.word = "wlan-sta"
    BY <1>10, <2>1 DEF PanelName, IsWanSvi, Alone, Named, Text
  <2>3. x = If("STA_DOT11", 0, StaPort, 0)
    BY <2>2, PanelWordsRead DEF FromPanelName
  <2> QED
    BY <1>1, <1>10, <2>3 DEF Proper
<1> QED
  BY <1>2, <1>3, <1>4, <1>5, <1>6, <1>7, <1>8, <1>9, <1>10 DEF Ifaces, RegionTypes

-----------------------------------------------------------------------------
(* The routing tables of the uplinks.                                      *)

LEMMA Mirror ==
  /\ DOMAIN TableMirror = 1 .. 4
  /\ TableMirror[1] = <<"wan", 1, 2>> /\ TableMirror[2] = <<"cellular", 1, 1>>
  /\ TableMirror[3] = <<"wlan-sta", 0, 0>> /\ TableMirror[4] = <<"l2tp", 1, 20>>
BY DEF TableMirror

LEMMA TablesAfter ==
  /\ TableAfter[0] = TableBase /\ TableAfter[1] = TableBase + 2 /\ TableAfter[2] = TableBase + 3
<1> DEFINE After(g) == [n \in 0 .. 4 |-> IF n = 0 THEN TableBase ELSE g[n - 1] + TablesOf(TableMirror[n])]
           F == [x \in Nat \X (1 .. 4) |-> x[1] + TablesOf(TableMirror[x[2]])]
<1>1. TableBase \in Nat
  BY NamesConstantsOK
<1>2. ASSUME NEW n \in 1 .. 4 PROVE TablesOf(TableMirror[n]) \in Nat
  <2>1. n = 1 \/ n = 2 \/ n = 3 \/ n = 4
    OBVIOUS
  <2> QED
    BY <2>1, Mirror DEF TablesOf
<1>3. F \in [Nat \X (1 .. 4) -> Nat]
  BY <1>2
<1>4. PICK h \in [0 .. 4 -> Nat] : IsLoop(h, 4, TableBase, F)
  BY <1>1, <1>3, LoopExists, 4 \in Nat
<1>5. h = After(h)
  <2>1. ASSUME NEW n \in 0 .. 4
        PROVE  h[n] = IF n = 0 THEN TableBase ELSE h[n - 1] + TablesOf(TableMirror[n])
    <3>1. CASE n = 0
      BY <1>4, <3>1 DEF IsLoop
    <3>2. CASE n # 0
      <4>1. n \in 1 .. 4 /\ n - 1 \in 0 .. 4
        BY <3>2
      <4>2. h[n] = F[<<h[n - 1], n>>]
        BY <1>4, <4>1 DEF IsLoop
      <4> QED
        BY <3>2, <4>1, <4>2
    <3> QED
      BY <3>1, <3>2
  <2> QED
    BY <2>1
<1>6. TableAfter = CHOOSE g : g = After(g)
  BY DEF TableAfter
<1>7. TableAfter = After(TableAfter)
  BY <1>5, <1>6
<1>8. TableAfter[0] = TableBase
  BY <1>7
<1>9. TableAfter[1] = TableAfter[0] + TablesOf(TableMirror[1])
  BY <1>7
<1>10. TableAfter[2] = TableAfter[1] + TablesOf(TableMirror[2])
  BY <1>7
<1>11. TablesOf(TableMirror[1]) = 2 /\ TablesOf(TableMirror[2]) = 1
  BY Mirror DEF TablesOf
<1> QED
  BY <1>1, <1>8, <1>9, <1>10, <1>11

\* An uplink: the WAN port, a WAN VLAN, the modem or the Wi-Fi client.
UplinkTypes == {"GE", "SVI", "CELLULAR", "STA_DOT11"}

LEMMA TableAt ==
  ASSUME NEW p, NEW i, NEW k \in 1 .. 4, PanelName(p, i).word = TableMirror[k][1]
  PROVE  PolicyTable(p, i) =
           IF TableMirror[k][2] = 0 THEN TableAfter[k - 1]
           ELSE IF PanelName(p, i).port \notin TableMirror[k][2] .. TableMirror[k][3] THEN -1
           ELSE TableAfter[k - 1] + PanelName(p, i).port - TableMirror[k][2]
<1> DEFINE S == Having(TableMirror, 1, PanelName(p, i).word)
<1>1. \A j \in 1 .. 4 : TableMirror[j][1] = TableMirror[k][1] => j = k
  BY Mirror
<1>2. S = {k}
  BY <1>1, Mirror DEF Having
<1>3. PICK n \in Nat : n = 4
  OBVIOUS
<1>4. Min(S) = k
  <2>1. S \in SUBSET (1 .. n) /\ k \in S /\ \A j \in S : k <= j
    BY <1>2, <1>3
  <2> HIDE DEF S
  <2> QED
    BY <2>1, MinIs
<1>5. S # {} /\ TableMirror[k][2] \in Nat
  BY <1>2, Mirror
<1> HIDE DEF S
<1>6. CASE TableMirror[k][2] = 0
  BY <1>4, <1>5, <1>6 DEF PolicyTable, S
<1>7. CASE TableMirror[k][2] # 0 /\ PanelName(p, i).port \notin TableMirror[k][2] .. TableMirror[k][3]
  <2>1. TableMirror[k][2] > 0
    BY <1>5, <1>7
  <2> QED
    BY <1>4, <1>5, <1>7, <2>1 DEF PolicyTable, S
<1>8. CASE TableMirror[k][2] # 0 /\ PanelName(p, i).port \in TableMirror[k][2] .. TableMirror[k][3]
  BY <1>4, <1>5, <1>8 DEF PolicyTable, S
<1> QED
  BY <1>6, <1>7, <1>8

\* The table of each kind of uplink.
LEMMA UplinkTables ==
  ASSUME NEW p, p \in Product, NEW i, i \in Ifaces, Proper(p, i), CheckIfIsWan(p, i),
         PolicyTable(p, i) # -1
  PROVE  /\ i.type \in UplinkTypes
         /\ i.type = "GE" => p.build = "ER3" /\ i.port = WanEth /\ PolicyTable(p, i) = TableBase
         /\ i.type = "SVI" => /\ p.build # "ER3" /\ i.port - WanBase + 1 \in 1 .. 2
                              /\ PolicyTable(p, i) = TableBase + i.port - WanBase
         /\ i.type = "CELLULAR" => i.port = 1 /\ PolicyTable(p, i) = TableBase + 2
         /\ i.type = "STA_DOT11" => PolicyTable(p, i) = TableBase + 3
<1> DEFINE t == PanelName(p, i)
<1>1. i.port \in Nat /\ TableBase \in Nat /\ WanBase \in Nat
  BY NamesConstantsOK DEF Ifaces
<1>2. i.type \in UplinkTypes
  BY DEF CheckIfIsWan, UplinkTypes, IsWanSvi
<1>3. CASE i.type = "GE"
  <2>1. p.build = "ER3" /\ i.port = WanEth
    BY <1>3 DEF CheckIfIsWan, IsWanSvi
  <2>2. PanelWord(p, i) = "wan"
    BY <1>3, <2>1, PanelWords DEF ShownType, PanelWordOf
  <2>3. t.word = "wan" /\ t.port = 1
    <3>1. t = Text("wan", 0, i.port - 1, 0)
      BY <1>3, <2>1, <2>2 DEF PanelName, IsWanSvi
    <3>2. i.port - 1 = 1
      BY <2>1, NamesConstantsOK
    <3> HIDE DEF t
    <3> QED
      BY <3>1, <3>2 DEF Text
  <2>4. PolicyTable(p, i) = TableAfter[0] + 1 - 1
    BY <2>3, TableAt, Mirror, 1 \in 1 .. 4
  <2> QED
    BY <1>1, <1>2, <1>3, <2>1, <2>4, TablesAfter
<1>4. CASE i.type = "SVI"
  <2>1. IsWanSvi(i)
    BY <1>4 DEF CheckIfIsWan
  <2>2. PanelWord(p, i) = "vlan"
    BY <1>4, PanelWords DEF ShownType, PanelWordOf
  <2>3. t.word = "wan" /\ t.port = i.port - WanBase + 1
    BY <1>4, <2>1, <2>2 DEF PanelName, Text
  <2>4. PolicyTable(p, i) = IF t.port \notin 1 .. 2 THEN -1 ELSE TableAfter[0] + t.port - 1
    BY <2>3, TableAt, Mirror, 1 \in 1 .. 4
  <2>5. p.build # "ER3"
    BY <1>4, <2>1 DEF Proper
  <2> QED
    BY <1>1, <1>2, <1>4, <2>3, <2>4, <2>5, TablesAfter
<1>5. CASE i.type = "CELLULAR"
  <2>1. PanelWord(p, i) = "cellular"
    BY <1>5, PanelWords DEF ShownType, PanelWordOf
  <2>2. t.word = "cellular" /\ t.port = i.port
    BY <1>5, <2>1 DEF PanelName, IsWanSvi, Text
  <2>3. PolicyTable(p, i) = IF i.port \notin 1 .. 1 THEN -1 ELSE TableAfter[1] + i.port - 1
    BY <2>2, TableAt, Mirror, 2 \in 1 .. 4
  <2>4. i.port = 1
    BY <1>1, <2>3
  <2> QED
    BY <1>1, <1>2, <1>5, <2>3, <2>4, TablesAfter
<1>6. CASE i.type = "STA_DOT11"
  <2>1. PanelWord(p, i) = "wlan-sta"
    BY <1>6, PanelWords DEF ShownType, PanelWordOf
  <2>2. t.word = "wlan-sta"
    BY <1>6, <2>1 DEF PanelName, IsWanSvi, Alone, Named, Text
  <2>3. PolicyTable(p, i) = TableAfter[2]
    BY <2>2, TableAt, Mirror, 3 \in 1 .. 4
  <2> QED
    BY <1>1, <1>2, <1>6, <2>3, TablesAfter
<1> QED
  BY <1>2, <1>3, <1>4, <1>5, <1>6 DEF UplinkTypes

\* Two uplinks of a product with the same table are one.
LEMMA UplinksApart ==
  ASSUME NEW p, p \in Product,
         NEW i, i \in Ifaces, Proper(p, i), CheckIfIsWan(p, i), PolicyTable(p, i) # -1,
         NEW j, j \in Ifaces, Proper(p, j), CheckIfIsWan(p, j), PolicyTable(p, j) = PolicyTable(p, i)
  PROVE  i = j
<1>1. /\ i.type \in UplinkTypes
      /\ i.type = "GE" => p.build = "ER3" /\ i.port = WanEth /\ PolicyTable(p, i) = TableBase
      /\ i.type = "SVI" => /\ p.build # "ER3" /\ i.port - WanBase + 1 \in 1 .. 2
                           /\ PolicyTable(p, i) = TableBase + i.port - WanBase
      /\ i.type = "CELLULAR" => i.port = 1 /\ PolicyTable(p, i) = TableBase + 2
      /\ i.type = "STA_DOT11" => PolicyTable(p, i) = TableBase + 3
  BY UplinkTables
<1>2. /\ j.type \in UplinkTypes
      /\ j.type = "GE" => p.build = "ER3" /\ j.port = WanEth /\ PolicyTable(p, j) = TableBase
      /\ j.type = "SVI" => /\ p.build # "ER3" /\ j.port - WanBase + 1 \in 1 .. 2
                           /\ PolicyTable(p, j) = TableBase + j.port - WanBase
      /\ j.type = "CELLULAR" => j.port = 1 /\ PolicyTable(p, j) = TableBase + 2
      /\ j.type = "STA_DOT11" => PolicyTable(p, j) = TableBase + 3
  BY UplinkTables
<1>3. /\ i.port \in Nat /\ j.port \in Nat /\ WanBase \in Nat /\ TableBase \in Nat
      /\ PolicyTable(p, j) = PolicyTable(p, i)
  BY NamesConstantsOK DEF Ifaces
<1>4. i.type = j.type /\ i.port = j.port
  <2>1. CASE i.type = "GE"
    BY <1>1, <1>2, <1>3, <2>1 DEF UplinkTypes
  <2>2. CASE i.type = "SVI"
    BY <1>1, <1>2, <1>3, <2>2 DEF UplinkTypes
  <2>3. CASE i.type = "CELLULAR"
    BY <1>1, <1>2, <1>3, <2>3 DEF UplinkTypes
  <2>4. CASE i.type = "STA_DOT11"
    <3>1. j.type = "STA_DOT11"
      BY <1>1, <1>2, <1>3, <2>4 DEF UplinkTypes
    <3> QED
      BY <2>4, <3>1 DEF Proper
  <2> QED
    BY <1>1, <2>1, <2>2, <2>3, <2>4 DEF UplinkTypes
<1>5. i.slot = j.slot /\ i.sid = j.sid
  BY <1>1, <1>4 DEF Proper, UplinkTypes
<1>6. i = If(i.type, i.slot, i.port, i.sid) /\ j = If(j.type, j.slot, j.port, j.sid)
  BY IfaceIs
<1> QED
  BY <1>4, <1>5, <1>6

-----------------------------------------------------------------------------
(* The rows and their names.                                               *)

\* A row of the table is of an interface of the product, under a name of its own, or empty.
LEMMA TableRow ==
  ASSUME TblInv, NEW r, r \in Table
  PROVE  \/ r = NoRow
         \/ /\ r.info \in Ifs(product) /\ r.info # None
            /\ r.iface \in NamesOf(product, r.info)
            /\ Region(r.info.type) \in DOMAIN Regions
<1>1. SoundTable(rows, product)
  BY DEF TblInv
<1>2. PICK t \in DOMAIN Regions : r \in Range(rows[t])
  BY DEF Table
<1>3. PICK n \in DOMAIN rows[t] : rows[t][n] = r
  BY <1>2 DEF Range
<1>4. r \in AllRows(product) /\ RowOK(r, t, product)
  BY <1>1, <1>2, <1>3 DEF SoundTable
<1>5. CASE r.info = None
  BY <1>4, <1>5 DEF RowOK
<1>6. CASE r.info # None
  <2>1. r.info \in Ifs(product)
    BY <1>4, <1>6 DEF AllRows
  <2> QED
    BY <1>2, <1>4, <1>6, <2>1 DEF RowOK
<1> QED
  BY <1>5, <1>6

\* An interface that has a region is of one of the types the names are made for.
LEMMA ProperIface ==
  ASSUME NEW p, p \in Products, NEW i, i \in Ifs(p), Region(i.type) \in DOMAIN Regions
  PROVE  i \in Ifaces /\ Proper(p, i) /\ p \in Product
<1>1. i \in [type : STRING, slot : Nat, port : Nat, sid : Nat] /\ p \in Product
  BY TableConstantsOK
<1>2. Region(i.type) \in Range(Mgmts)
  BY TableConstantsOK
<1>3. PICK k \in DOMAIN Mgmts : Mgmts[k] = Region(i.type)
  BY <1>2 DEF Range
<1>4. k \in 1 .. 11
  BY <1>3 DEF Mgmts
<1>5. Region(i.type) \in RegionTypes
  <2>1. \A n \in 1 .. 11 : Mgmts[n] \in RegionTypes
    <3> SUFFICES ASSUME NEW n \in 1 .. 11 PROVE Mgmts[n] \in RegionTypes
      OBVIOUS
    <3>1. \/ n = 1 \/ n = 2 \/ n = 3 \/ n = 4 \/ n = 5 \/ n = 6 \/ n = 7 \/ n = 8 \/ n = 9
          \/ n = 10 \/ n = 11
      OBVIOUS
    <3> QED
      BY <3>1 DEF Mgmts, RegionTypes
  <2> QED
    BY <1>3, <1>4, <2>1
<1>6. i.type \in RegionTypes
  BY <1>5 DEF Region, RegionTypes
<1>7. Proper(p, i)
  BY InterfacesAreProper
<1> QED
  BY <1>1, <1>6, <1>7 DEF Ifaces

\* The row of an interface that is known.
LEMMA KnownRow ==
  ASSUME TblInv, NEW i, i \in Known
  PROVE  /\ i \in Ifs(product) /\ product \in Products /\ Row(i) \in Table /\ Row(i).info = i
         /\ i # None /\ Row(i).iface \in NamesOf(product, i) /\ Region(i.type) \in DOMAIN Regions
<1>1. i \in Ifs(product) /\ RowIn(rows, i) # NoRow /\ Row(i) = RowIn(rows, i)
  BY RowIs DEF Known
<1>2. SoundTable(rows, product) /\ product \in Products
  BY DEF TblInv
<1> DEFINE t == Region(i.type)
           k == SlotIn(rows, t, i)
<1>3. t \in DOMAIN Regions /\ k \in 1 .. Regions[t] /\ Row(i) = rows[t][k] /\ Row(i).info = i
  BY <1>1, <1>2, RowKept
<1> HIDE DEF t, k
<1>4. k \in DOMAIN rows[t]
  BY <1>2, <1>3 DEF SoundTable
<1>5. Row(i) \in Table
  BY <1>3, <1>4 DEF Table, Range
<1>6. Row(i) # NoRow
  BY <1>1
<1> QED
  BY <1>1, <1>2, <1>3, <1>5, <1>6, TableRow

\* An interface one of whose names is the name another has now has that name now.
LEMMA NameStays ==
  ASSUME NEW p, p \in Product, NEW i, i \in Ifaces, Proper(p, i),
         NEW name, name = VifGetSysName(p, i), name # NoName,
         NEW j, j \in Ifaces, Proper(p, j), name \in NamesOf(p, j)
  PROVE  VifGetSysName(p, j) = name
<1>1. PICK u \in BOOLEAN : name = VifGetSysName([p EXCEPT !.usb0 = u], j)
  BY DEF NamesOf
<1> DEFINE q == [p EXCEPT !.usb0 = u]
<1>2. q.build = p.build /\ q.modem = p.modem /\ q.key = p.key
  BY DEF Product
<1>3. name = VifGetSysName(q, j)
  BY <1>1
<1> HIDE DEF q
<1>4. CASE j.type \in {"CELLULAR", "SUB_CELLULAR"}
  <2>1. VifGetSysName(p, j) = CellName(p, j) /\ name = CellName(q, j)
    BY <1>3, <1>4, SysNames
  <2>2. CASE p.modem # "ME909"
    BY <1>2, <2>1, <2>2 DEF CellName
  <2>3. CASE p.modem = "ME909"
    <3>1. name \in {<<"usb", 0>>, <<"usbeth2">>}
      BY <1>2, <2>1, <2>3 DEF CellName
    <3>2. name[1] \in {"usb", "usbeth2"}
      BY <3>1
    <3>3. i.type \in {"CELLULAR", "SUB_CELLULAR"}
      BY <3>2, NameTells
    <3>4. name = CellName(p, i)
      BY <3>3, SysNames
    <3>5. CellName(p, i) = CellName(p, j)
      BY <2>3 DEF CellName
    <3> QED
      BY <2>1, <3>4, <3>5
  <2> QED
    BY <2>2, <2>3
<1>5. CASE j.type = "GE"
  <2>1. EthName(p, j) = EthName(q, j)
    BY <1>2 DEF EthName
  <2> QED
    BY <1>3, <1>5, <2>1, SysNames
<1>6. CASE j.type \in {"DOT11", "SUB_DOT11"}
  <2>1. WlanName(p, j) = WlanName(q, j)
    BY <1>2 DEF WlanName
  <2> QED
    BY <1>3, <1>6, <2>1, SysNames
<1>7. CASE j.type = "STA_DOT11"
  BY <1>2, <1>3, <1>7, SysNames DEF StaName
<1>8. CASE j.type \in {"TUNNEL", "VXLAN", "SVI", "LO", "VP", "OPENVPN"}
  BY <1>3, <1>8, SysNames
<1> QED
  BY <1>4, <1>5, <1>6, <1>7, <1>8 DEF Ifaces, RegionTypes

\* The first interface with the name of one that is known has that name.
LEMMA SameNameFound ==
  ASSUME TblInv, NEW i, i \in Known, NEW name, name = Row(i).iface, name # NoName,
         name = VifGetSysName(product, i)
  PROVE  /\ ByIface(name) # None /\ ByIface(name) \in Ifaces /\ Proper(product, ByIface(name))
         /\ VifGetSysName(product, ByIface(name)) = name
<1>1. /\ i \in Ifs(product) /\ product \in Products /\ Row(i) \in Table
      /\ Region(i.type) \in DOMAIN Regions
  BY KnownRow
<1>2. i \in Ifaces /\ Proper(product, i) /\ product \in Product
  BY <1>1, ProperIface
<1> DEFINE S == {r \in Table : r.iface = name}
<1>4. S \subseteq Table /\ Row(i) \in S /\ ByIface(name) = First(S)
  BY <1>1 DEF ByIface
<1>5. \A r \in S : r \in Table /\ r.iface = name
  OBVIOUS
<1> HIDE DEF S
<1>6. PICK r \in S : ByIface(name) = r.info
  BY <1>4, FirstHits
<1>7. NoRow.iface = NoName
  BY DEF NoRow, Bare
<1>8. /\ r.info \in Ifs(product) /\ r.info # None
      /\ name \in NamesOf(product, r.info) /\ Region(r.info.type) \in DOMAIN Regions
  <2>1. r \in Table /\ r.iface = name
    BY <1>5
  <2>2. r # NoRow
    BY <1>7, <2>1
  <2> QED
    BY <2>1, <2>2, TableRow
<1>9. r.info \in Ifaces /\ Proper(product, r.info)
  BY <1>1, <1>8, ProperIface
<1>10. VifGetSysName(product, r.info) = name
  BY <1>2, <1>8, <1>9, NameStays
<1> QED
  BY <1>6, <1>8, <1>9, <1>10

LEMMA TblShown == TblInv => ShownMayBeTyped
<1> SUFFICES ASSUME TblInv, NEW i \in Known, NEW name, name = Row(i).iface
             PROVE  /\ name # NoName /\ name = VifGetSysName(product, i) /\ i.type # "STA_DOT11" =>
                         /\ ~(i.type = "OPENVPN" /\ i.port = OvpnCloud) => SysOfCli(CliOfSys(name)) = name
                         /\ ~(i.type = "OPENVPN" /\ i.port > 10) /\ ~Refused(product, i.type, i.slot, i.port) =>
                              VifGetSysName(product, FromCmdName(product, CliName(i))) = name
                    /\ PanelName(product, i) # NoText /\ ~(i.type = "VP" /\ i.port > 20) =>
                         FromPanelName(product, PanelName(product, i)) = i
  BY DEF ShownMayBeTyped
<1>1. i \in Ifs(product) /\ product \in Products /\ Region(i.type) \in DOMAIN Regions
  BY KnownRow
<1>2. i \in Ifaces /\ Proper(product, i) /\ product \in Product /\ i.type \in RegionTypes
  <2>1. i \in Ifaces /\ Proper(product, i) /\ product \in Product
    BY <1>1, ProperIface
  <2> QED
    BY <2>1 DEF Ifaces
<1>3. ASSUME name # NoName, name = VifGetSysName(product, i), i.type # "STA_DOT11",
             ~(i.type = "OPENVPN" /\ i.port = OvpnCloud)
      PROVE  SysOfCli(CliOfSys(name)) = name
  <2> DEFINE j == ByIface(name)
  <2>1. j # None /\ j \in Ifaces /\ Proper(product, j) /\ VifGetSysName(product, j) = name
    BY <1>3, SameNameFound
  <2> HIDE DEF j
  <2>3. j.type \in RegionTypes /\ j.port \in Nat /\ i.port \in Nat
    BY <1>2, <2>1 DEF Ifaces
  <2>4. j.type # "STA_DOT11"
    <3> SUFFICES ASSUME j.type = "STA_DOT11" PROVE FALSE
      OBVIOUS
    <3>1. VifGetSysName(product, i) = StaName(product)
      BY <1>3, <2>1, SysNames
    <3> QED
      BY <1>2, <1>3, <3>1, StaAlone
  <2>5. ~(j.type = "OPENVPN" /\ j.port = OvpnCloud)
    <3> SUFFICES ASSUME j.type = "OPENVPN", j.port = OvpnCloud PROVE FALSE
      OBVIOUS
    <3>1. name = <<"tun", j.port>>
      BY <2>1, SysNames
    <3>2. name[1] = "tun"
      BY <3>1
    <3>3. i.type = "OPENVPN"
      BY <1>2, <1>3, <3>2, NameTells
    <3>4. name = <<"tun", i.port>>
      BY <1>3, <3>3, SysNames
    <3>5. i.port = j.port
      BY <3>1, <3>4
    <3> QED
      BY <1>3, <3>3, <3>5
  <2>6. /\ FromCliName(product, CliName(j)) # None
        /\ VifGetSysName(product, FromCliName(product, CliName(j))) = VifGetSysName(product, j)
    BY <1>2, <2>1, <2>4, <2>5, CliReturns
  <2>7. CliOfSys(name) = CliName(j)
    BY <2>1 DEF CliOfSys, j
  <2>8. SysOfCli(CliName(j)) = name
    BY <2>1, <2>6 DEF SysOfCli
  <2> QED
    BY <2>7, <2>8
<1>4. ASSUME PanelName(product, i) # NoText, ~(i.type = "VP" /\ i.port > 20)
      PROVE  FromPanelName(product, PanelName(product, i)) = i
  <2>1. i.type # "SUB_CELLULAR"
    BY <1>4, SubHasNoWord
  <2> QED
    BY <1>2, <1>4, <2>1, PanelReturns
<1>5. ASSUME name = VifGetSysName(product, i), i.type # "STA_DOT11",
             ~(i.type = "OPENVPN" /\ i.port > 10), ~Refused(product, i.type, i.slot, i.port)
      PROVE  VifGetSysName(product, FromCmdName(product, CliName(i))) = name
  BY <1>2, <1>5, CmdReturns
<1> QED
  BY <1>3, <1>4, <1>5

LEMMA TblTables == TblInv => UplinksHaveTables
<1> SUFFICES ASSUME TblInv, NEW i \in Uplinks, NEW j \in Uplinks, i # j,
                    PolicyTable(product, i) # -1
             PROVE  PolicyTable(product, i) # PolicyTable(product, j)
  BY DEF UplinksHaveTables
<1>1. ASSUME NEW x \in Uplinks
      PROVE  x \in Ifaces /\ Proper(product, x) /\ product \in Product /\ CheckIfIsWan(product, x)
  <2>1. PICK r \in Table : x = r.info
    BY DEF Uplinks
  <2>2. CheckIfIsWan(product, x)
    BY DEF Uplinks
  <2>3. NoRow.info = None /\ None.type = "NONE" /\ None.port = 0
    BY DEF NoRow, Bare, None, If
  <2>4. x.type # "NONE"
    BY <2>2 DEF CheckIfIsWan, IsWanSvi
  <2>5. x \in Ifs(product) /\ Region(x.type) \in DOMAIN Regions
    BY <2>1, <2>3, <2>4, TableRow
  <2>6. product \in Products
    BY DEF TblInv
  <2> QED
    BY <2>2, <2>5, <2>6, ProperIface
<1> QED
  BY <1>1, UplinksApart

\* Names, addresses and routing tables fit together: for any products and interfaces they
\* may have, any size of the table, and whatever comes and goes.
THEOREM InterfacesAlwaysFit == TableSpec => []InterfacesFit
<1>1. TblInv => InterfacesFit
  BY TblLeadsHome, TblShown, TblTables DEF InterfacesFit
<1> QED
  BY <1>1, TableInductive, PTL
===============================================================================
