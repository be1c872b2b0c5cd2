------------------------- MODULE GuestDaemon_proofs -------------------------
(* Three parts of confidential-agentd that share no state.  The limits of    *)
(* its HTTP endpoints hold for any number of listeners, connections and      *)
(* peers, and for every limit, rate and window.  A daemon that sleeps has    *)
(* read what there is, for any depth of the tree, any files and any number   *)
(* of changes.  A card that was withdrawn, refused or dropped with its peer  *)
(* is not used again before it is fetched again, for any number of peers,    *)
(* cards and commands.                                                       *)
EXTENDS HttpLimits, ResourceWatcher, A2aPeers, FiniteSetTheorems, TLAPS

-----------------------------------------------------------------------------
(* The HTTP endpoints *)

\* A thread that has accepted a connection is the only one to have it
OwnRequest ==
    \A s \in Server : thread[s].at # "accepting" =>
        /\ thread[s].req \in Request /\ thread[s].peer \in Client
        /\ at[thread[s].req] = "accepted"
        /\ \A q \in Server \ {s} : thread[q].at # "accepting" => thread[q].req # thread[s].req

\* What the limiter remembers of a peer bounds what it has let pass: all but
\* the last `count' passages came before the window, and all but the last
\* `count' and MaxRate more a window's length before it
WindowInv(p) ==
    LET passed == allowed[p]  n == Len(allowed[p])  w == windows[p]  IN
    /\ \A i \in 1..n : passed[i] =< clock
    /\ w # Null =>
        /\ w.start =< clock /\ w.count =< MaxRate
        /\ \A i \in 1..n : i + w.count =< n => passed[i] =< w.start
        /\ \A i \in 1..n : i + w.count + MaxRate =< n => passed[i] + Window =< w.start
    /\ w = Null => \A i \in 1..n : i + MaxRate =< n => passed[i] + Window =< clock

RateInv == \A p \in Client : WindowInv(p)

HttpInv == HttpTypeOK /\ OwnRequest /\ SlotsExact /\ RateInv /\ RateRespected

-----------------------------------------------------------------------------
LEMMA Sets ==
    /\ IsFiniteSet(Holding) /\ IsFiniteSet(Guarded)
    /\ Cardinality(Holding) \in Nat /\ Cardinality(Guarded) \in Nat
    /\ Holding' \in SUBSET Request /\ Guarded' \in SUBSET Server
    /\ IsFiniteSet(Holding') /\ IsFiniteSet(Guarded')
<1>1. Holding \in SUBSET Request /\ Guarded \in SUBSET Server
      /\ Holding' \in SUBSET Request /\ Guarded' \in SUBSET Server
    BY DEF Holding, Guarded
<1> QED  BY <1>1, FS_Subset, FS_CardinalityType, HttpAssumption

LEMMA InitHttpInv == HttpInit => HttpInv
<1> SUFFICES ASSUME HttpInit PROVE HttpInv
    OBVIOUS
<1> USE HttpAssumption DEF HttpInit, Waiting
<1>1. HttpTypeOK
    BY DEF HttpTypeOK, Places, States
<1>2. OwnRequest
    BY DEF OwnRequest
<1>3. SlotsExact
  <2>1. Holding = {} /\ Guarded = {}
      BY DEF Holding, Guarded
  <2> QED  BY <2>1, FS_EmptySet DEF SlotsExact
<1>4. RateInv
    BY DEF RateInv, WindowInv
<1>5. RateRespected
    BY DEF RateRespected
<1> QED  BY <1>1, <1>2, <1>3, <1>4, <1>5 DEF HttpInv

\* Steps that neither count nor let pass
LEMMA SameSlots ==
    ASSUME SlotsExact, Holding' = Holding, Guarded' = Guarded, UNCHANGED active
    PROVE  SlotsExact'
BY DEF SlotsExact

LEMMA SameRate ==
    ASSUME HttpInv, UNCHANGED <<windows, allowed>>, clock' = clock \/ clock' = clock + 1
    PROVE  RateInv' /\ RateRespected'
<1>1. RateInv'
  <2> SUFFICES ASSUME NEW p \in Client PROVE WindowInv(p)'
      BY DEF RateInv
  <2>1. WindowInv(p) /\ allowed[p] \in Seq(Nat) /\ clock \in Nat
      BY DEF HttpInv, RateInv, HttpTypeOK
  <2>2. windows[p] \in [start : Nat, count : Nat] \cup {Null}
      BY DEF HttpInv, HttpTypeOK
  <2> DEFINE passed == allowed[p]  n == Len(allowed[p])  w == windows[p]
  <2>3. \A i \in 1..n : passed[i] \in Nat
      BY <2>1
  <2>4. clock' \in Nat /\ clock =< clock' /\ Window \in Nat
      BY <2>1, HttpAssumption
  <2>5. \A i \in 1..n : passed[i] =< clock'
      BY <2>1, <2>3, <2>4 DEF WindowInv
  <2>6. w # Null =>
          /\ w.start =< clock' /\ w.count =< MaxRate
          /\ \A i \in 1..n : i + w.count =< n => passed[i] =< w.start
          /\ \A i \in 1..n : i + w.count + MaxRate =< n => passed[i] + Window =< w.start
    <3> SUFFICES ASSUME w # Null PROVE w.start =< clock'
        BY <2>1 DEF WindowInv
    <3>1. w.start \in Nat /\ w.start =< clock
        BY <2>1, <2>2 DEF WindowInv
    <3> HIDE DEF w
    <3> QED  BY <2>1, <2>4, <3>1
  <2>7. w = Null => \A i \in 1..n : i + MaxRate =< n => passed[i] + Window =< clock'
    <3> SUFFICES ASSUME w = Null, NEW i \in 1..n, i + MaxRate =< n
                 PROVE  passed[i] + Window =< clock'
        OBVIOUS
    <3>1. passed[i] + Window =< clock /\ passed[i] \in Nat
        BY <2>1, <2>3 DEF WindowInv
    <3> HIDE DEF passed, n
    <3> QED  BY <2>1, <2>4, <3>1
  <2> QED  BY <2>5, <2>6, <2>7 DEF WindowInv
<1> QED  BY <1>1 DEF HttpInv, RateRespected

LEMMA TickHttpInv ==
    ASSUME HttpInv, TimePasses PROVE HttpInv'
<1> USE DEF TimePasses, limits, handler
<1>1. HttpTypeOK'
    BY DEF HttpInv, HttpTypeOK
<1>2. OwnRequest'
    BY DEF HttpInv, OwnRequest
<1>3. SlotsExact'
    BY SameSlots DEF HttpInv, Holding, Guarded
<1> QED  BY <1>1, <1>2, <1>3, SameRate DEF HttpInv

LEMMA AcceptHttpInv ==
    ASSUME HttpInv, NEW s \in Server, NEW r \in Request, NEW p \in Client, Accept(s, r, p)
    PROVE  HttpInv'
<1>1. /\ thread[s].at = "accepting" /\ at[r] = "new"
      /\ UNCHANGED <<clock, active, windows, lock, reads, allowed>>
    BY DEF Accept, limits
<1>2. CASE /\ thread' = [thread EXCEPT ![s] = [Waiting EXCEPT !.at = "locking", !.req = r,
                                              !.peer = p, !.time = clock]]
           /\ at' = [at EXCEPT ![r] = "accepted"]
  <2> DEFINE taken == [Waiting EXCEPT !.at = "locking", !.req = r, !.peer = p, !.time = clock]
  <2>1. /\ taken.at = "locking" /\ taken.req = r /\ taken.peer = p
        /\ taken \in [at : Places, req : Request \cup {Null},
                       peer : Client \cup {Null}, time : Nat, current : Nat]
      BY DEF HttpInv, HttpTypeOK, Waiting, Places
  <2>2. thread' = [thread EXCEPT ![s] = taken]
      BY <1>2
  <2> HIDE DEF taken
  <2>3. HttpTypeOK'
      BY <1>1, <1>2, <2>1, <2>2, ZenonT(40) DEF HttpInv, HttpTypeOK, States
  <2>4. OwnRequest'
      BY <1>1, <1>2, <2>1, <2>2 DEF HttpInv, HttpTypeOK, OwnRequest
  <2>5. Holding' = Holding /\ Guarded' = Guarded
      BY <1>1, <1>2, <2>1, <2>2 DEF HttpInv, HttpTypeOK, Holding, Guarded
  <2> QED  BY <1>1, <2>3, <2>4, <2>5, SameSlots, SameRate DEF HttpInv
<1>3. CASE at' = [at EXCEPT ![r] = "closed"] /\ UNCHANGED thread
  <2>1. HttpTypeOK'
      BY <1>1, <1>3 DEF HttpInv, HttpTypeOK, States
  <2>2. OwnRequest'
      BY <1>1, <1>3 DEF HttpInv, HttpTypeOK, OwnRequest
  <2>3. Holding' = Holding /\ Guarded' = Guarded
      BY <1>1, <1>3 DEF HttpInv, HttpTypeOK, Holding, Guarded
  <2> QED  BY <1>1, <2>1, <2>2, <2>3, SameSlots, SameRate DEF HttpInv
<1> QED  BY <1>2, <1>3 DEF Accept

LEMMA LockHttpInv ==
    ASSUME HttpInv, NEW s \in Server, Lock(s) PROVE HttpInv'
<1> USE DEF Lock, handler
<1>1. HttpTypeOK'
    BY DEF HttpInv, HttpTypeOK, Places
<1>2. OwnRequest'
    BY DEF HttpInv, HttpTypeOK, OwnRequest
<1>3. Holding' = Holding /\ Guarded' = Guarded
    BY DEF HttpInv, HttpTypeOK, Holding, Guarded
<1> QED  BY <1>1, <1>2, <1>3, SameSlots, SameRate DEF HttpInv

LEMMA LoadHttpInv ==
    ASSUME HttpInv, NEW s \in Server, Load(s) PROVE HttpInv'
<1> USE DEF Load, handler, limits
<1>1. HttpTypeOK'
    BY ZenonT(40) DEF HttpInv, HttpTypeOK, Places
<1>2. OwnRequest'
    BY DEF HttpInv, HttpTypeOK, OwnRequest
<1>3. Holding' = Holding /\ Guarded' = Guarded
    BY DEF HttpInv, HttpTypeOK, Holding, Guarded
<1> QED  BY <1>1, <1>2, <1>3, SameSlots, SameRate DEF HttpInv

LEMMA RejectKeeps ==
    ASSUME HttpInv, NEW s \in Server, thread[s].at \notin {"accepting", "spawning"}, Reject(s)
    PROVE  /\ thread' \in [Server -> [at : Places, req : Request \cup {Null},
                              peer : Client \cup {Null}, time : Nat, current : Nat]]
           /\ at' \in [Request -> States]
           /\ OwnRequest' /\ Holding' = Holding /\ Guarded' = Guarded
<1> USE DEF Reject, Waiting
<1>1. thread[s].req \in Request /\ at[thread[s].req] = "accepted"
    BY DEF HttpInv, OwnRequest
<1>2. OwnRequest'
    BY <1>1 DEF HttpInv, HttpTypeOK, OwnRequest
<1>3. Holding' = Holding /\ Guarded' = Guarded
    BY <1>1 DEF HttpInv, HttpTypeOK, Holding, Guarded
<1> QED  BY <1>1, <1>2, <1>3 DEF HttpInv, HttpTypeOK, Places, States

LEMMA FullHttpInv ==
    ASSUME HttpInv, NEW s \in Server, Full(s) PROVE HttpInv'
<1>1. /\ Reject(s) /\ thread[s].at \notin {"accepting", "spawning"}
      /\ UNCHANGED <<clock, limits, reads, allowed>>
    BY DEF Full
<1>2. UNCHANGED <<clock, active, windows, lock, reads, allowed>>
    BY <1>1 DEF limits
<1>3. HttpTypeOK'
    BY <1>1, <1>2, RejectKeeps DEF HttpInv, HttpTypeOK
<1> QED  BY <1>1, <1>2, <1>3, RejectKeeps, SameSlots, SameRate DEF HttpInv

-----------------------------------------------------------------------------
(* The limiter: a passage in a window that goes on, or in one that begins *)

\* The passages of one peer keep the distance RateRespected asks for
Spaced(passed) ==
    \A i \in 1..Len(passed) :
        i + 2 * MaxRate =< Len(passed) => passed[i + 2 * MaxRate] >= passed[i] + Window

\* WindowInv's last three facts, of a window [start, count] that is live
Bounds(passed, start, count) ==
    /\ \A i \in 1..Len(passed) : i + count =< Len(passed) => passed[i] =< start
    /\ \A i \in 1..Len(passed) :
            i + count + MaxRate =< Len(passed) => passed[i] + Window =< start

\* One more passage within the window
LEMMA Passage ==
    ASSUME NEW now \in Nat, NEW passed \in Seq(Nat), NEW start \in Nat, NEW count \in Nat,
           count < MaxRate, start =< now, \A i \in 1..Len(passed) : passed[i] =< now,
           Bounds(passed, start, count), Spaced(passed)
    PROVE  LET next == Append(passed, now) IN
           /\ \A i \in 1..Len(next) : next[i] =< now
           /\ Bounds(next, start, count + 1) /\ Spaced(next)
<1> DEFINE next == Append(passed, now)
           n == Len(passed)
<1>1. /\ n \in Nat /\ Len(next) = n + 1 /\ next[n + 1] = now
      /\ \A i \in 1..n : next[i] = passed[i] /\ passed[i] \in Nat
    OBVIOUS
<1>2. MaxRate \in Nat /\ MaxRate > 0 /\ 2 * MaxRate = MaxRate + MaxRate /\ Window \in Nat
    BY HttpAssumption
<1>3. /\ \A i \in 1..n : i + count =< n => passed[i] =< start
      /\ \A i \in 1..n : i + count + MaxRate =< n => passed[i] + Window =< start
      /\ \A i \in 1..n : i + (MaxRate + MaxRate) =< n
                              => passed[i + (MaxRate + MaxRate)] >= passed[i] + Window
    BY <1>2 DEF Bounds, Spaced
<1> HIDE DEF next, n
<1>4. \A i \in 1..(n + 1) : next[i] =< now
    BY <1>1 DEF n
<1>5. Bounds(next, start, count + 1)
  <2>1. \A i \in 1..(n + 1) : i + (count + 1) =< n + 1 => next[i] =< start
      BY <1>1, <1>3
  <2>2. \A i \in 1..(n + 1) : i + (count + 1) + MaxRate =< n + 1 => next[i] + Window =< start
      BY <1>1, <1>2, <1>3
  <2> QED  BY <1>1, <2>1, <2>2 DEF Bounds
<1>6. Spaced(next)
  <2> SUFFICES ASSUME NEW i \in 1..(n + 1), i + (MaxRate + MaxRate) =< n + 1
               PROVE  next[i + (MaxRate + MaxRate)] >= next[i] + Window
      BY <1>1, <1>2 DEF Spaced
  <2>1. CASE i + (MaxRate + MaxRate) =< n
    <3>1. i \in 1..n /\ i + (MaxRate + MaxRate) \in 1..n
        BY <1>1, <1>2, <2>1
    <3> QED  BY <1>1, <1>3, <2>1, <3>1
  <2>2. CASE i + (MaxRate + MaxRate) = n + 1
    <3>1. i \in 1..n /\ i + count + MaxRate =< n
        BY <1>1, <1>2, <2>2
    <3>2. passed[i] + Window =< start /\ passed[i] \in Nat /\ next[i] = passed[i]
        BY <1>1, <1>3, <3>1
    <3>3. next[i + (MaxRate + MaxRate)] = now
        BY <1>1, <2>2
    <3> QED  BY <1>2, <3>2, <3>3
  <2> QED  BY <1>1, <1>2, <2>1, <2>2
<1> QED  BY <1>1, <1>4, <1>5, <1>6 DEF next

LEMMA LimitHttpInv ==
    ASSUME HttpInv, NEW s \in Server, Limit(s) PROVE HttpInv'
<1>p. PICK p \in Client : p = thread[s].peer
    BY DEF HttpInv, OwnRequest, Limit
<1> DEFINE live == Live(clock)
           window == Opened(clock, p)
<1>1. /\ clock \in Nat /\ thread[s].at = "limiting"
      /\ windows \in [Client -> [start : Nat, count : Nat] \cup {Null}]
      /\ allowed \in [Client -> Seq(Nat)] /\ MaxRate \in Nat /\ Window \in Nat \ {0}
      /\ UNCHANGED <<clock, active, reads>> /\ lock' = Null
    BY HttpAssumption DEF HttpInv, HttpTypeOK, OwnRequest, Limit
<1>2. /\ live \in [Client -> [start : Nat, count : Nat] \cup {Null}]
      /\ window \in [start : Nat, count : Nat]
    BY <1>1 DEF Live, Opened
<1>3. \A q \in Client : WindowInv(q)
    BY DEF HttpInv, RateInv
\* a window that has ended lies behind by its length
<1>4. ASSUME NEW q \in Client PROVE
        LET passed == allowed[q]  n == Len(allowed[q])  IN
        /\ \A i \in 1..n : passed[i] =< clock
        /\ live[q] # Null =>
            /\ live[q].start =< clock /\ live[q].count =< MaxRate
            /\ \A i \in 1..n : i + live[q].count =< n => passed[i] =< live[q].start
            /\ \A i \in 1..n : i + live[q].count + MaxRate =< n
                                    => passed[i] + Window =< live[q].start
        /\ live[q] = Null => \A i \in 1..n : i + MaxRate =< n => passed[i] + Window =< clock
  <2>1. WindowInv(q) /\ allowed[q] \in Seq(Nat)
        /\ windows[q] \in [start : Nat, count : Nat] \cup {Null}
      BY <1>1, <1>3
  <2>2. CASE windows[q] = Null
    <3>1. live[q] = Null
        BY <2>2 DEF Live
    <3> QED  BY <2>1, <2>2, <3>1 DEF WindowInv
  <2>3. CASE windows[q] # Null /\ clock < windows[q].start + Window
    <3>1. windows[q].start =< clock
        BY <2>1, <2>3 DEF WindowInv
    <3>2. live[q] = windows[q]
        BY <2>3, <3>1 DEF Live
    <3> QED  BY <2>1, <2>3, <3>2 DEF WindowInv
  <2>4. CASE windows[q] # Null /\ ~(clock < windows[q].start + Window)
    <3>1. live[q] = Null
        BY <2>4 DEF Live
    <3>2. windows[q].start + Window =< clock
        BY <1>1, <2>1, <2>4
    <3>3. \A i \in 1..Len(allowed[q]) : i + MaxRate =< Len(allowed[q])
                => i + windows[q].count =< Len(allowed[q])
        BY <1>1, <2>1, <2>4 DEF WindowInv
    <3> QED  BY <1>1, <2>1, <2>4, <3>1, <3>2, <3>3 DEF WindowInv
  <2> QED  BY <2>2, <2>3, <2>4
<1>5. CASE Reject(s) /\ UNCHANGED allowed /\ windows' = live
  <2>1. HttpTypeOK'
      BY <1>1, <1>2, <1>5, RejectKeeps DEF HttpInv, HttpTypeOK
  <2>2. RateInv'
      BY <1>1, <1>4, <1>5 DEF RateInv, WindowInv
  <2>3. RateRespected'
      BY <1>5 DEF HttpInv, RateRespected
  <2> QED  BY <1>1, <1>5, <2>1, <2>2, <2>3, RejectKeeps, SameSlots DEF HttpInv
<1>6. CASE /\ Reject(s) /\ UNCHANGED allowed /\ MaxRate > 0 /\ window.count >= MaxRate
           /\ windows' = [live EXCEPT ![p] = window]
  <2>1. window = live[p]
      BY <1>1, <1>6 DEF Opened
  <2>2. windows' = live
      BY <1>2, <1>6, <2>1
  <2> QED  BY <1>5, <1>6, <2>2
<1>7. CASE /\ MaxRate > 0 /\ window.count < MaxRate
           /\ windows' = [live EXCEPT ![p] = [window EXCEPT !.count = @ + 1]]
           /\ thread' = [thread EXCEPT ![s].at = "loading"]
           /\ allowed' = [allowed EXCEPT ![p] = Append(@, clock)]
           /\ UNCHANGED at
  <2> DEFINE opened == [window EXCEPT !.count = @ + 1]
  <2>1. /\ opened \in [start : Nat, count : Nat]
        /\ opened.start = window.start /\ opened.count = window.count + 1
      BY <1>2
  <2>2. /\ allowed[p] \in Seq(Nat) /\ window.start \in Nat /\ window.count \in Nat
        /\ allowed'[p] = Append(allowed[p], clock) /\ windows'[p] = opened
        /\ \A q \in Client \ {p} : allowed'[q] = allowed[q] /\ windows'[q] = live[q]
      BY <1>1, <1>2, <1>7
  \* before the passage
  <2>3. /\ window.start =< clock /\ \A i \in 1..Len(allowed[p]) : allowed[p][i] =< clock
        /\ Bounds(allowed[p], window.start, window.count) /\ Spaced(allowed[p])
    <3>1. Spaced(allowed[p])
        BY <1>1 DEF HttpInv, RateRespected, Spaced
    <3>2. CASE live[p] = Null
      <4>1. window.start = clock /\ window.count = 0
          BY <3>2 DEF Opened
      <4> HIDE DEF window, live
      <4>2. /\ \A i \in 1..Len(allowed[p]) : allowed[p][i] =< clock
            /\ \A i \in 1..Len(allowed[p]) :
                    i + MaxRate =< Len(allowed[p]) => allowed[p][i] + Window =< clock
          BY <1>1, <1>4, <3>2
      <4>3. Len(allowed[p]) \in Nat
          BY <2>2
      <4> QED  BY <1>1, <3>1, <4>1, <4>2, <4>3 DEF Bounds
    <3>3. CASE live[p] # Null
      <4>1. window = live[p]
          BY <3>3 DEF Opened
      <4> HIDE DEF window, live
      <4> QED  BY <1>1, <1>4, <3>1, <3>3, <4>1 DEF Bounds
    <3> QED  BY <3>2, <3>3
  <2> HIDE DEF opened, window, live
  <2>4. /\ \A i \in 1..Len(allowed'[p]) : allowed'[p][i] =< clock
        /\ Bounds(allowed'[p], opened.start, opened.count) /\ Spaced(allowed'[p])
    <3>1. clock \in Nat /\ window.count < MaxRate
        BY <1>1, <1>7
    <3>2. LET next == Append(allowed[p], clock) IN
          /\ \A i \in 1..Len(next) : next[i] =< clock
          /\ Bounds(next, window.start, window.count + 1) /\ Spaced(next)
        BY <2>2, <2>3, <3>1, Passage
    <3> QED  BY <2>1, <2>2, <3>2
  <2>5. HttpTypeOK'
    <3>1. windows' \in [Client -> [start : Nat, count : Nat] \cup {Null}]
        BY <1>2, <1>7, <2>1 DEF opened
    <3>2. allowed' \in [Client -> Seq(Nat)]
        BY <1>1, <1>7
    <3>3. thread' \in [Server -> [at : Places, req : Request \cup {Null},
                                  peer : Client \cup {Null}, time : Nat, current : Nat]]
        BY <1>7 DEF HttpInv, HttpTypeOK, Places
    <3> QED  BY <1>1, <1>7, <3>1, <3>2, <3>3 DEF HttpInv, HttpTypeOK
  <2>6. OwnRequest' /\ Holding' = Holding /\ Guarded' = Guarded
      BY <1>1, <1>7 DEF HttpInv, HttpTypeOK, OwnRequest, Holding, Guarded
  <2>7. WindowInv(p)'
    <3>1. /\ windows'[p] = opened /\ opened # Null /\ clock' = clock
          /\ opened.start =< clock /\ opened.count =< MaxRate
        BY <1>1, <1>7, <2>1, <2>2, <2>3, HttpAssumption
    <3> QED  BY <2>4, <3>1 DEF WindowInv, Bounds
  <2>8. ASSUME NEW q \in Client, q # p PROVE WindowInv(q)'
    <3>1. allowed'[q] = allowed[q] /\ windows'[q] = live[q] /\ clock' = clock
        BY <1>1, <2>2, <2>8
    <3> QED  BY <1>4, <3>1 DEF WindowInv
  <2>9. RateInv'
      BY <2>7, <2>8 DEF RateInv
  <2>10. RateRespected'
    <3>1. ASSUME NEW q \in Client PROVE Spaced(allowed'[q])
      <4>1. CASE q = p
          BY <2>4, <4>1
      <4>2. CASE q # p
        <5>1. Spaced(allowed[q]) /\ allowed'[q] = allowed[q]
            BY <2>2, <4>2 DEF HttpInv, RateRespected, Spaced
        <5> QED  BY <5>1
      <4> QED  BY <4>1, <4>2
    <3> QED  BY <3>1 DEF RateRespected, Spaced
  <2> QED  BY <1>1, <2>5, <2>6, <2>9, <2>10, SameSlots DEF HttpInv
<1> HIDE DEF window, live
<1>8. \/ Reject(s) /\ UNCHANGED allowed /\ windows' = live
      \/ /\ Reject(s) /\ UNCHANGED allowed /\ MaxRate > 0 /\ window.count >= MaxRate
         /\ windows' = [live EXCEPT ![p] = window]
      \/ /\ MaxRate > 0 /\ window.count < MaxRate
         /\ windows' = [live EXCEPT ![p] = [window EXCEPT !.count = @ + 1]]
         /\ thread' = [thread EXCEPT ![s].at = "loading"]
         /\ allowed' = [allowed EXCEPT ![p] = Append(@, clock)]
         /\ UNCHANGED at
    BY <1>p DEF Limit, Now, window, live
<1> QED  BY <1>5, <1>6, <1>7, <1>8

-----------------------------------------------------------------------------
(* The counter *)

LEMMA ExchangeHttpInv ==
    ASSUME HttpInv, NEW s \in Server, Exchange(s) PROVE HttpInv'
<1>1. /\ thread[s].at = "exchanging" /\ active \in Nat
      /\ thread[s].current \in Nat /\ thread[s].current < MaxActive
      /\ UNCHANGED <<clock, windows, lock, at, reads, allowed>>
    BY DEF Exchange, handler, HttpInv, HttpTypeOK
<1>2. Holding' = Holding
    BY <1>1 DEF Holding
<1>3. CASE /\ active = thread[s].current /\ active' = active + 1
           /\ thread' = [thread EXCEPT ![s].at = "spawning"]
  <2>1. HttpTypeOK'
    <3>1. thread' \in [Server -> [at : Places, req : Request \cup {Null},
                                  peer : Client \cup {Null}, time : Nat, current : Nat]]
        BY <1>3, ZenonT(40) DEF HttpInv, HttpTypeOK, Places
    <3>2. active' \in Nat
        BY <1>1, <1>3
    <3> QED  BY <1>1, <3>1, <3>2 DEF HttpInv, HttpTypeOK
  <2>2. OwnRequest'
      BY <1>1, <1>3 DEF HttpInv, HttpTypeOK, OwnRequest
  <2>3. Guarded' = Guarded \cup {s} /\ s \notin Guarded
      BY <1>1, <1>3 DEF HttpInv, HttpTypeOK, Guarded
  <2>4. Cardinality(Guarded') = Cardinality(Guarded) + 1
      BY <2>3, Sets, FS_AddElement
  <2>5. SlotsExact'
      BY <1>1, <1>2, <1>3, <2>4, Sets, HttpAssumption DEF HttpInv, SlotsExact
  <2> QED  BY <1>1, <2>1, <2>2, <2>5, SameRate DEF HttpInv
<1>4. CASE thread' = [thread EXCEPT ![s].current = active] /\ UNCHANGED active
  <2>1. HttpTypeOK'
      BY <1>1, <1>4 DEF HttpInv, HttpTypeOK
  <2>2. OwnRequest'
      BY <1>1, <1>4 DEF HttpInv, HttpTypeOK, OwnRequest
  <2>3. Guarded' = Guarded
      BY <1>4 DEF HttpInv, HttpTypeOK, Guarded
  <2> QED  BY <1>1, <1>2, <1>4, <2>1, <2>2, <2>3, SameSlots, SameRate DEF HttpInv
<1> QED  BY <1>3, <1>4 DEF Exchange

LEMMA SpawnHttpInv ==
    ASSUME HttpInv, NEW s \in Server, Spawn(s) PROVE HttpInv'
<1> DEFINE r == thread[s].req
<1> USE DEF Spawn, Waiting
<1>1. r \in Request /\ at[r] = "accepted" /\ r \notin Holding
    BY DEF HttpInv, OwnRequest, Holding
<1>2. Guarded' = Guarded \ {s} /\ s \in Guarded
    BY DEF HttpInv, HttpTypeOK, Guarded
<1>3. Cardinality(Guarded') = Cardinality(Guarded) - 1 /\ Cardinality(Guarded) >= 1
    BY <1>2, Sets, FS_RemoveElement, FS_EmptySet
<1>4. active >= 1
    BY <1>3, Sets DEF HttpInv, HttpTypeOK, SlotsExact
<1>5. HttpTypeOK'
  <2>1. active' \in Nat
      BY <1>4 DEF HttpInv, HttpTypeOK
  <2>2. thread' \in [Server -> [at : Places, req : Request \cup {Null},
                                peer : Client \cup {Null}, time : Nat, current : Nat]]
      BY DEF HttpInv, HttpTypeOK, Places
  <2>3. at' \in [Request -> States]
      BY DEF HttpInv, HttpTypeOK, States
  <2> QED  BY <2>1, <2>2, <2>3 DEF HttpInv, HttpTypeOK
<1>6. OwnRequest'
    BY <1>1 DEF HttpInv, HttpTypeOK, OwnRequest
<1>7. SlotsExact'
  <2>1. CASE at' = [at EXCEPT ![r] = "reading"] /\ UNCHANGED active
    <3>1. Holding' = Holding \cup {r}
        BY <1>1, <2>1 DEF HttpInv, HttpTypeOK, Holding
    <3>2. Cardinality(Holding') = Cardinality(Holding) + 1
        BY <1>1, <3>1, Sets, FS_AddElement
    <3> QED  BY <1>3, <2>1, <3>2, Sets DEF HttpInv, HttpTypeOK, SlotsExact
  <2>2. CASE at' = [at EXCEPT ![r] = "closed"] /\ active' = active - 1
    <3>1. Holding' = Holding
        BY <1>1, <2>2 DEF HttpInv, HttpTypeOK, Holding
    <3> QED  BY <1>3, <1>4, <2>2, <3>1, Sets, HttpAssumption DEF HttpInv, HttpTypeOK, SlotsExact
  <2> QED  BY <2>1, <2>2
<1> QED  BY <1>5, <1>6, <1>7, SameRate DEF HttpInv

\* A request that ends gives back its slot
LEMMA EndKeeps ==
    ASSUME HttpInv, NEW r \in Request, r \in Holding, at' = [at EXCEPT ![r] = "closed"],
           active' = active - 1, UNCHANGED <<clock, windows, lock, thread, allowed>>,
           reads' \in [Request -> Nat]
    PROVE  HttpInv'
<1>1. Holding' = Holding \ {r}
    BY DEF HttpInv, HttpTypeOK, Holding
<1>2. Cardinality(Holding') = Cardinality(Holding) - 1 /\ Cardinality(Holding) >= 1
    BY <1>1, Sets, FS_RemoveElement, FS_EmptySet
<1>3. active >= 1
    BY <1>2, Sets DEF HttpInv, HttpTypeOK, SlotsExact
<1>4. HttpTypeOK'
  <2>1. active' \in Nat
      BY <1>3 DEF HttpInv, HttpTypeOK
  <2>2. at' \in [Request -> States]
      BY DEF HttpInv, HttpTypeOK, States
  <2> QED  BY <2>1, <2>2 DEF HttpInv, HttpTypeOK
<1>5. OwnRequest'
    BY DEF HttpInv, HttpTypeOK, OwnRequest, Holding
<1>6. SlotsExact'
    BY <1>2, <1>3, Sets, HttpAssumption DEF HttpInv, HttpTypeOK, SlotsExact, Guarded
<1> QED  BY <1>4, <1>5, <1>6, SameRate DEF HttpInv

LEMMA ReadHeadHttpInv ==
    ASSUME HttpInv, NEW r \in Request, ReadHead(r) PROVE HttpInv'
<1> USE DEF ReadHead
<1>1. CASE UNCHANGED <<active, at>> /\ reads' = [reads EXCEPT ![r] = @ + 1]
  <2>1. HttpTypeOK'
      BY <1>1 DEF HttpInv, HttpTypeOK
  <2>2. OwnRequest'
      BY <1>1 DEF HttpInv, OwnRequest
  <2>3. Holding' = Holding /\ Guarded' = Guarded
      BY <1>1 DEF Holding, Guarded
  <2> QED  BY <1>1, <2>1, <2>2, <2>3, SameSlots, SameRate DEF HttpInv
<1>2. CASE at' = [at EXCEPT ![r] = "replying"] /\ UNCHANGED <<active, reads>>
  <2>1. HttpTypeOK'
      BY <1>2 DEF HttpInv, HttpTypeOK, States
  <2>2. OwnRequest'
      BY <1>2 DEF HttpInv, HttpTypeOK, OwnRequest
  <2>3. Holding' = Holding /\ Guarded' = Guarded
      BY <1>2 DEF HttpInv, HttpTypeOK, Holding, Guarded
  <2> QED  BY <1>2, <2>1, <2>2, <2>3, SameSlots, SameRate DEF HttpInv
<1>3. CASE at' = [at EXCEPT ![r] = "closed"] /\ active' = active - 1 /\ UNCHANGED reads
    BY <1>3, EndKeeps DEF Holding, HttpInv, HttpTypeOK
<1> QED  BY <1>1, <1>2, <1>3

LEMMA ReplyHttpInv ==
    ASSUME HttpInv, NEW r \in Request, Reply(r) PROVE HttpInv'
BY EndKeeps DEF Reply, Holding, HttpInv, HttpTypeOK

LEMMA NextHttpInv == HttpInv /\ [HttpNext]_httpVars => HttpInv'
<1> SUFFICES ASSUME HttpInv, [HttpNext]_httpVars PROVE HttpInv'
    OBVIOUS
<1>1. CASE UNCHANGED httpVars
    BY <1>1 DEF HttpInv, HttpTypeOK, OwnRequest, SlotsExact, Holding, Guarded, RateInv, WindowInv,
       RateRespected, httpVars, limits, handler
<1>2. ASSUME NEW s \in Server, NEW r \in Request, NEW p \in Client, Accept(s, r, p)
      PROVE  HttpInv'
    BY <1>2, AcceptHttpInv
<1>3. ASSUME NEW s \in Server, Serve(s) PROVE HttpInv'
    BY <1>3, LockHttpInv, LimitHttpInv, LoadHttpInv, FullHttpInv, ExchangeHttpInv, SpawnHttpInv
       DEF Serve
<1>4. ASSUME NEW r \in Request, Handle(r) PROVE HttpInv'
    BY <1>4, ReadHeadHttpInv, ReplyHttpInv DEF Handle
<1> QED  BY <1>1, <1>2, <1>3, <1>4, TickHttpInv DEF HttpNext

-----------------------------------------------------------------------------
\* The counter of live requests is exact and never above its limit, and no
\* peer passes the limiter more than twice the rate in the length of a window,
\* in whatever order the listeners' and the requests' threads run.
THEOREM LimitsRespected == HttpSpec => []LimitsHold
<1>1. HttpInv => LimitsHold
    BY DEF HttpInv, LimitsHold
<1> QED  BY <1>1, InitHttpInv, NextHttpInv, PTL DEF HttpSpec

\* The shared limits and the threads have their types.
THEOREM HttpTypeCorrect == HttpSpec => []HttpTypeOK
<1>1. HttpInv => HttpTypeOK
    BY DEF HttpInv
<1> QED  BY <1>1, InitHttpInv, NextHttpInv, PTL DEF HttpSpec

-----------------------------------------------------------------------------
(* The resource watcher *)

\* Directories hang together, and an inode is the one of one directory
TreeInv ==
    /\ ino[0] # Absent
    /\ \A d \in Level : ino[d] =< changes /\ watched[d] =< changes
    /\ \A d, e \in Level : d < e /\ ino[e] # Absent => ino[d] # Absent
    /\ \A d, e \in Level : d # e /\ ino[d] # Absent => ino[d] # ino[e] /\ watched[e] # ino[d]

\* A watch is on the directory it was taken for, or an event says that it is gone
OnDirectory(d) == watched[d] = ino[d] /\ ino[d] \in marks
WatchInv ==
    \A d \in Level : watched[d] # Absent =>
        OnDirectory(d) \/ [wd |-> watched[d], gone |-> TRUE] \in queue

\* Directories that are there and not watched
Unwatched == {d \in Needed : ino[d] # Absent /\ watched[d] # ino[d]}

\* What was read in this round is what there is, or the daemon will find out
Caught == queue # {} \/ Unwatched # {} \/ \A f \in known \ todo : seen[f] = content[f]

Unchanged == caller = "wait" /\ ~changed
CaughtInv ==
    /\ place = "read" /\ Boot \notin todo => Caught
    /\ place \in {"stat", "adjust"} /\ Unchanged => Caught
    /\ place = "poll" => Caught
    /\ place = "poll" => queue # {} \/ Unwatched = {}
    /\ place \in {"stat", "adjust"} /\ caller = "wait" => todo = {}
    /\ place = "poll" => todo = {}

\* existing_watch_dirs has found all levels up to the first that is not there,
\* or was not; a directory made since then has told its parent's watch
StatInv ==
    /\ place \in {"stat", "adjust"} => desired = {d \in Level : d < level}
    /\ place = "adjust" => level > 0
    /\ place = "adjust" /\ Unchanged =>
           queue # {} \/ Fresh # {} \/ level \notin Needed \/ ino[level] = Absent

IInv == WatcherTypeOK /\ TreeInv /\ WatchInv /\ CaughtInv /\ StatInv

-----------------------------------------------------------------------------
LEMMA NeededClosed ==
    ASSUME WatcherTypeOK
    PROVE  /\ Needed \subseteq Level
           /\ \A d \in Needed : \A e \in Level : e < d => e \in Needed
<1>1. Needed \subseteq Level
    BY DEF Needed
<1>2. ASSUME NEW d \in Needed, NEW e \in Level, e < d PROVE e \in Needed
  <2>1. PICK f \in known : d =< LevelOf[f]
      BY DEF Needed
  <2>2. LevelOf[f] \in Nat /\ d \in Nat /\ e \in Nat
      BY <1>1, <2>1, ConstAssumption DEF WatcherTypeOK, Level
  <2> QED  BY <1>2, <2>1, <2>2 DEF Needed
<1> QED  BY <1>1, <1>2

LEMMA EventTyped ==
    ASSUME NEW w \in Nat
    PROVE  /\ [wd |-> w, gone |-> TRUE] \in [wd : Nat, gone : BOOLEAN]
           /\ [wd |-> w, gone |-> FALSE] \in [wd : Nat, gone : BOOLEAN]
<1>1. TRUE \in BOOLEAN /\ FALSE \in BOOLEAN
    BY Zenon
<1> QED  BY <1>1, Zenon

LEMMA ToldTyped ==
    ASSUME WatcherTypeOK, NEW d \in Level PROVE Told(d) \subseteq [wd : Nat, gone : BOOLEAN]
<1>1. ino[d] \in Nat
    BY DEF WatcherTypeOK
<1> QED  BY <1>1, EventTyped, Zenon DEF Told

LEMMA RootNeeded == ASSUME WatcherTypeOK PROVE 0 \in Needed
<1>1. Boot \in known /\ Boot \in File
    BY ConstAssumption DEF WatcherTypeOK
<1>2. LevelOf[Boot] \in Level /\ 0 \in Level /\ 0 =< LevelOf[Boot]
    BY <1>1, ConstAssumption DEF Level
<1> QED  BY <1>1, <1>2 DEF Needed

\* A change below a directory that is watched leaves an event behind
LEMMA Noticed ==
    ASSUME WatchInv, NEW d \in Level, watched[d] # Absent, queue = {}
    PROVE  OnDirectory(d) /\ Told(d) # {}
BY DEF WatchInv, OnDirectory, Told

LEMMA InitIInv == WatcherInit => IInv
<1> SUFFICES ASSUME WatcherInit PROVE IInv
    OBVIOUS
<1> USE ConstAssumption DEF WatcherInit, Level, Absent
<1>1. WatcherTypeOK
    BY DEF WatcherTypeOK
<1>2. TreeInv /\ WatchInv
    BY DEF TreeInv, WatchInv
<1>3. CaughtInv /\ StatInv
    BY DEF CaughtInv, Unchanged, StatInv
<1> QED  BY <1>1, <1>2, <1>3 DEF IInv

-----------------------------------------------------------------------------
(* The file system *)

LEMMA MkDirIInv == ASSUME IInv, NEW d \in Level, MkDir(d) PROVE IInv'
<1>1. /\ d > 0 /\ ino[d] = Absent /\ ino[d - 1] # Absent /\ d - 1 \in Level
      /\ changes' = changes + 1 /\ changes \in Nat /\ ino' = [ino EXCEPT ![d] = changes + 1]
      /\ ino'[d] = changes + 1 /\ (\A e \in Level \ {d} : ino'[e] = ino[e])
      /\ queue' = queue \cup Told(d - 1)
      /\ UNCHANGED <<content, marks, place, caller, known, watched, level, desired, changed, todo,
                     seen>>
    BY ConstAssumption DEF IInv, WatcherTypeOK, MkDir, Change, Daemon, reconcile, Level
<1>2. WatcherTypeOK'
  <2>1. Told(d - 1) \subseteq [wd : Nat, gone : BOOLEAN]
      BY <1>1, ToldTyped DEF IInv
  <2> QED  BY <1>1, <2>1 DEF IInv, WatcherTypeOK
<1>3. TreeInv'
  <2>1. /\ \A e \in Level : e \in Nat /\ ino[e] \in Nat /\ watched[e] \in Nat
        /\ \A e \in Level : ino[e] =< changes /\ watched[e] =< changes
      BY ConstAssumption DEF IInv, WatcherTypeOK, TreeInv, Level
  <2>2. ino'[0] # Absent
      BY <1>1, <2>1, ConstAssumption DEF IInv, TreeInv, Level
  <2>3. \A e \in Level : ino'[e] =< changes' /\ watched'[e] =< changes'
      BY <1>1, <2>1
  <2>4. ASSUME NEW l \in Level, NEW e \in Level, l < e, ino'[e] # Absent PROVE ino'[l] # Absent
    <3>1. CASE l = d
        BY <1>1, <2>1, <3>1 DEF Absent
    <3>2. CASE l # d /\ e # d
        BY <1>1, <2>4, <3>2 DEF IInv, TreeInv
    <3>3. CASE e = d
      <4>1. l = d - 1 \/ l < d - 1
          BY <1>1, <2>1, <2>4, <3>3
      <4> QED  BY <1>1, <2>1, <2>4, <3>3, <4>1 DEF IInv, TreeInv
    <3> QED  BY <3>1, <3>2, <3>3
  <2>5. ASSUME NEW l \in Level, NEW e \in Level, l # e, ino'[l] # Absent
        PROVE  ino'[l] # ino'[e] /\ watched'[e] # ino'[l]
    <3>1. CASE l = d
        BY <1>1, <2>1, <2>5, <3>1
    <3>2. CASE l # d /\ e = d
        BY <1>1, <2>1, <2>5, <3>2 DEF IInv, TreeInv
    <3>3. CASE l # d /\ e # d
        BY <1>1, <2>5, <3>3 DEF IInv, TreeInv
    <3> QED  BY <3>1, <3>2, <3>3
  <2> QED  BY <2>2, <2>3, <2>4, <2>5 DEF TreeInv
<1>4. WatchInv'
    BY <1>1 DEF IInv, WatchInv, OnDirectory, TreeInv, Absent
<1>5. Needed' = Needed
    BY <1>1 DEF Needed
<1>6. Caught => Caught'
    BY <1>1, <1>5 DEF Caught, Unwatched
<1>7. queue' = {} /\ Unwatched = {} => Unwatched' = {}
  <2>1. SUFFICES ASSUME queue' = {}, Unwatched = {}, d \in Needed PROVE FALSE
      BY <1>1, <1>5, NeededClosed DEF IInv, Unwatched
  <2>2. watched[d - 1] = ino[d - 1]
    <3>1. d - 1 < d /\ d - 1 \in Needed
        BY <1>1, <2>1, NeededClosed, ConstAssumption DEF IInv, Level
    <3> QED  BY <1>1, <2>1, <3>1 DEF Unwatched
  <2> QED  BY <1>1, <2>1, <2>2, Noticed DEF IInv
<1>8. CaughtInv'
    BY <1>1, <1>6, <1>7 DEF IInv, CaughtInv, Unchanged
<1>9. StatInv'
  <2>1. Fresh' = Fresh
      BY <1>1 DEF Fresh
  <2>2. ASSUME place = "adjust", Unchanged, queue' = {}, Fresh = {}, level = d PROVE FALSE
    <3>1. d - 1 \in desired
        BY <1>1, <2>2 DEF IInv, StatInv, Level
    <3>2. watched[d - 1] # Absent
        BY <2>2, <3>1 DEF Fresh
    <3> QED  BY <1>1, <2>2, <3>2, Noticed DEF IInv
  <2>3. level \in Needed /\ level # d => ino'[level] = ino[level]
      BY <1>1, NeededClosed DEF IInv
  <2> QED  BY <1>1, <1>5, <2>1, <2>2, <2>3 DEF IInv, StatInv, Unchanged
<1> QED  BY <1>2, <1>3, <1>4, <1>8, <1>9 DEF IInv

LEMMA RmDirIInv == ASSUME IInv, NEW d \in Level, RmDir(d) PROVE IInv'
<1> DEFINE lost == IF ino[d] \in marks THEN {[wd |-> ino[d], gone |-> TRUE]} ELSE {}
<1>1. /\ d > 0 /\ ino[d] # Absent /\ d - 1 \in Level
      /\ (d < Depth => ino[d + 1] = Absent)
      /\ changes' = changes + 1 /\ changes \in Nat /\ ino' = [ino EXCEPT ![d] = Absent]
      /\ ino'[d] = Absent /\ (\A e \in Level \ {d} : ino'[e] = ino[e])
      /\ queue' = queue \cup Told(d - 1) \cup lost /\ marks' = marks \ {ino[d]}
      /\ UNCHANGED <<content, place, caller, known, watched, level, desired, changed, todo, seen>>
    BY ConstAssumption DEF IInv, WatcherTypeOK, RmDir, Change, Daemon, reconcile, Level
<1>2. WatcherTypeOK'
  <2>1. Told(d - 1) \subseteq [wd : Nat, gone : BOOLEAN]
      BY <1>1, ToldTyped DEF IInv
  <2>2. lost \subseteq [wd : Nat, gone : BOOLEAN]
    <3>1. ino[d] \in Nat
        BY DEF IInv, WatcherTypeOK
    <3> QED  BY <3>1, EventTyped, Zenon
  <2>3. ino' \in [Level -> Nat]
      BY <1>1 DEF IInv, WatcherTypeOK, Absent
  <2>4. marks' \subseteq Nat /\ changes' \in Nat
    <3>1. marks \subseteq Nat
        BY DEF IInv, WatcherTypeOK
    <3>2. marks' = marks \ {ino[d]} /\ changes' = changes + 1 /\ changes \in Nat
        BY <1>1
    <3>3. marks' \subseteq Nat
        BY <3>1, <3>2, Zenon
    <3> QED  BY <3>2, <3>3
  <2>5. queue' \subseteq [wd : Nat, gone : BOOLEAN]
    <3>1. queue \subseteq [wd : Nat, gone : BOOLEAN]
        BY DEF IInv, WatcherTypeOK
    <3>2. queue' = queue \cup Told(d - 1) \cup lost
        BY <1>1
    <3> QED  BY <2>1, <2>2, <3>1, <3>2, Zenon
  <2> QED  BY <1>1, <2>3, <2>4, <2>5 DEF IInv, WatcherTypeOK
<1>3. TreeInv'
  <2>1. /\ \A e \in Level : e \in Nat /\ ino[e] \in Nat /\ watched[e] \in Nat
        /\ \A e \in Level : ino[e] =< changes /\ watched[e] =< changes
      BY ConstAssumption DEF IInv, WatcherTypeOK, TreeInv, Level
  <2>2. ino'[0] # Absent
      BY <1>1, <2>1, ConstAssumption DEF IInv, TreeInv, Level
  <2>3. \A e \in Level : ino'[e] =< changes' /\ watched'[e] =< changes'
      BY <1>1, <2>1 DEF Absent
  <2>4. ASSUME NEW e \in Level, d < e PROVE ino[e] = Absent
    <3>1. d < Depth /\ d + 1 \in Level /\ (e = d + 1 \/ d + 1 < e)
        BY <2>4, ConstAssumption DEF Level
    <3> QED  BY <1>1, <3>1 DEF IInv, TreeInv
  <2>5. ASSUME NEW l \in Level, NEW e \in Level, l < e, ino'[e] # Absent PROVE ino'[l] # Absent
    <3>1. e # d /\ l # d
        BY <1>1, <2>4, <2>5
    <3> QED  BY <1>1, <2>5, <3>1 DEF IInv, TreeInv
  <2>6. ASSUME NEW l \in Level, NEW e \in Level, l # e, ino'[l] # Absent
        PROVE  ino'[l] # ino'[e] /\ watched'[e] # ino'[l]
      BY <1>1, <2>6 DEF IInv, TreeInv
  <2> QED  BY <2>2, <2>3, <2>5, <2>6 DEF TreeInv
<1>4. WatchInv'
    BY <1>1 DEF IInv, WatchInv, OnDirectory, TreeInv
<1>5. Needed' = Needed
    BY <1>1 DEF Needed
<1>6. Caught => Caught'
  <2>1. SUFFICES ASSUME queue' = {}, Unwatched # {} PROVE Unwatched' # {}
      BY <1>1 DEF Caught
  <2>2. PICK e \in Unwatched : TRUE
      BY <2>1
  <2>3. CASE e # d
    <3>1. e \in Level /\ e \in Needed' /\ ino'[e] # Absent /\ watched'[e] # ino'[e]
        BY <1>1, <1>5, <2>2, <2>3, NeededClosed DEF IInv, Unwatched
    <3> QED  BY <3>1 DEF Unwatched
  <2>4. CASE e = d
    <3>1. d - 1 < d /\ d - 1 \in Needed /\ ino[d - 1] # Absent
        BY <1>1, <2>2, <2>4, NeededClosed, ConstAssumption DEF IInv, TreeInv, Unwatched, Level
    <3>2. watched[d - 1] # ino[d - 1]
        BY <1>1, <2>1, <3>1, Noticed DEF IInv
    <3>3. d - 1 # d /\ ino'[d - 1] = ino[d - 1]
        BY <1>1, <3>1, ConstAssumption DEF Level
    <3> QED  BY <1>1, <1>5, <3>1, <3>2, <3>3 DEF Unwatched
  <2> QED  BY <2>3, <2>4
<1>7. Unwatched' \subseteq Unwatched
    BY <1>1, <1>5, NeededClosed DEF IInv, Unwatched
<1>8. CaughtInv'
    BY <1>1, <1>6, <1>7 DEF IInv, CaughtInv, Unchanged
<1>9. StatInv'
  <2>1. Fresh' = Fresh
      BY <1>1 DEF Fresh
  <2>2. level \in Needed /\ ino[level] = Absent => ino'[level] = Absent
      BY <1>1, NeededClosed DEF IInv
  <2> QED  BY <1>1, <1>5, <2>1, <2>2 DEF IInv, StatInv, Unchanged
<1> QED  BY <1>2, <1>3, <1>4, <1>8, <1>9 DEF IInv

LEMMA PutIInv == ASSUME IInv, NEW f \in File, NEW version \in Nat, Put(f, version) PROVE IInv'
<1> DEFINE d == LevelOf[f]
<1>1. /\ d \in Level /\ ino[d] # Absent /\ changes' = changes + 1 /\ changes \in Nat
      /\ content' = [content EXCEPT ![f] = version]
      /\ queue' = queue \cup Told(d)
      /\ UNCHANGED <<ino, marks, place, caller, known, watched, level, desired, changed, todo, seen>>
    BY ConstAssumption DEF IInv, WatcherTypeOK, Put, Change, Daemon, reconcile, Level
<1>2. WatcherTypeOK'
  <2>1. Told(d) \subseteq [wd : Nat, gone : BOOLEAN]
      BY <1>1, ToldTyped DEF IInv
  <2> QED  BY <1>1, <2>1 DEF IInv, WatcherTypeOK
<1>3. TreeInv'
    BY <1>1 DEF IInv, WatcherTypeOK, TreeInv
<1>4. WatchInv'
    BY <1>1 DEF IInv, WatchInv, OnDirectory
<1>5. Needed' = Needed /\ Unwatched' = Unwatched /\ Fresh' = Fresh
    BY <1>1 DEF Needed, Unwatched, Fresh
<1>6. Caught => Caught'
  <2>1. SUFFICES ASSUME queue' = {}, Unwatched = {}, f \in known PROVE FALSE
      BY <1>1, <1>5 DEF Caught, IInv, WatcherTypeOK
  <2>2. d \in Needed
      BY <1>1, <2>1, ConstAssumption DEF Needed, Level
  <2>3. watched[d] = ino[d]
      BY <1>1, <2>1, <2>2 DEF Unwatched
  <2> QED  BY <1>1, <2>1, <2>3, Noticed DEF IInv
<1>7. CaughtInv'
    BY <1>1, <1>5, <1>6 DEF IInv, CaughtInv, Unchanged
<1>8. StatInv'
    BY <1>1, <1>5 DEF IInv, StatInv, Unchanged
<1> QED  BY <1>2, <1>3, <1>4, <1>7, <1>8 DEF IInv

-----------------------------------------------------------------------------
(* reconcile_watches *)

LEMMA StatIInv == ASSUME IInv, Stat PROVE IInv'
<1>1. /\ place = "stat" /\ level \in Nat
      /\ UNCHANGED <<ino, content, changes, marks, queue, caller, known, watched, changed, todo,
                     seen>>
    BY DEF IInv, WatcherTypeOK, Stat, fs, inotify
<1>2. CASE level \in Needed /\ ino[level] # Absent
  <2>1. desired' = desired \cup {level} /\ level' = level + 1 /\ place' = "stat" /\ level \in Level
      BY <1>1, <1>2, NeededClosed DEF IInv, Stat
  <2>2. WatcherTypeOK'
      BY <1>1, <2>1 DEF IInv, WatcherTypeOK
  <2>3. Needed' = Needed /\ Unwatched' = Unwatched /\ TreeInv' /\ WatchInv'
      BY <1>1 DEF IInv, Needed, Unwatched, TreeInv, WatchInv, OnDirectory
  <2>4. CaughtInv'
      BY <1>1, <2>1, <2>3 DEF IInv, CaughtInv, Caught, Unchanged
  <2>5. StatInv'
      BY <1>1, <2>1 DEF IInv, StatInv, Level
  <2> QED  BY <2>2, <2>3, <2>4, <2>5 DEF IInv
<1>3. CASE ~(level \in Needed /\ ino[level] # Absent)
  <2>1. place' = "adjust" /\ UNCHANGED <<level, desired>>
      BY <1>3 DEF Stat
  <2>2. WatcherTypeOK'
      BY <1>1, <2>1 DEF IInv, WatcherTypeOK
  <2>3. Needed' = Needed /\ Unwatched' = Unwatched /\ TreeInv' /\ WatchInv'
      BY <1>1 DEF IInv, Needed, Unwatched, TreeInv, WatchInv, OnDirectory
  <2>4. CaughtInv'
      BY <1>1, <2>1, <2>3 DEF IInv, CaughtInv, Caught, Unchanged
  <2>5. level > 0
      BY <1>1, <1>3, RootNeeded DEF IInv, TreeInv
  <2>6. StatInv'
      BY <1>1, <1>3, <2>1, <2>3, <2>5 DEF IInv, StatInv
  <2> QED  BY <2>2, <2>3, <2>4, <2>6 DEF IInv
<1> QED  BY <1>2, <1>3

LEMMA UnwatchIInv == ASSUME IInv, NEW d \in Level, Unwatch(d) PROVE IInv'
<1> DEFINE gone == IF watched[d] \in marks THEN {[wd |-> watched[d], gone |-> TRUE]} ELSE {}
<1>1. /\ place = "adjust" /\ watched[d] # Absent /\ watched' = [watched EXCEPT ![d] = Absent]
      /\ marks' = marks \ {watched[d]} /\ queue' = queue \cup gone /\ changed' = TRUE
      /\ UNCHANGED <<ino, content, changes, place, caller, known, level, desired, todo, seen>>
    BY DEF Unwatch, Stale, fs
<1>2. WatcherTypeOK'
  <2>1. gone \subseteq [wd : Nat, gone : BOOLEAN]
    <3>1. watched[d] \in Nat
        BY DEF IInv, WatcherTypeOK
    <3> QED  BY <3>1, EventTyped, Zenon
  <2>2. changed' \in BOOLEAN
      BY <1>1, Zenon
  <2> QED  BY <1>1, <2>1, <2>2 DEF IInv, WatcherTypeOK, Absent
<1>3. TreeInv'
    BY <1>1 DEF IInv, WatcherTypeOK, TreeInv, Absent
<1>4. WatchInv'
    BY <1>1 DEF IInv, WatcherTypeOK, TreeInv, WatchInv, OnDirectory
<1>5. CaughtInv' /\ StatInv'
    BY <1>1 DEF IInv, CaughtInv, StatInv, Unchanged
<1> QED  BY <1>2, <1>3, <1>4, <1>5 DEF IInv

LEMMA WatchIInv == ASSUME IInv, NEW d \in Level, Watch(d) PROVE IInv'
<1>1. /\ place = "adjust" /\ ino[d] # Absent /\ watched' = [watched EXCEPT ![d] = ino[d]]
      /\ marks' = marks \cup {ino[d]} /\ changed' = TRUE
      /\ UNCHANGED <<ino, content, changes, queue, place, caller, known, level, desired, todo, seen>>
    BY DEF Watch, fs
<1>2. WatcherTypeOK'
  <2>1. changed' \in BOOLEAN
      BY <1>1, Zenon
  <2> QED  BY <1>1, <2>1 DEF IInv, WatcherTypeOK
<1>3. TreeInv'
    BY <1>1 DEF IInv, WatcherTypeOK, TreeInv
<1>4. WatchInv'
    BY <1>1 DEF IInv, WatcherTypeOK, WatchInv, OnDirectory
<1>5. CaughtInv' /\ StatInv'
    BY <1>1 DEF IInv, CaughtInv, StatInv, Unchanged
<1> QED  BY <1>2, <1>3, <1>4, <1>5 DEF IInv

LEMMA WatchFailsIInv == ASSUME IInv, NEW d \in Level, WatchFails(d) PROVE IInv'
<1>1. /\ marks' = {} /\ queue' = {} /\ watched' = [l \in Level |-> Absent] /\ known' = Base
      /\ todo' = {} /\ seen' = [f \in File |-> Absent] /\ UNCHANGED <<ino, content, changes>>
      /\ place' = "stat" /\ caller' = "new" /\ level' = 0 /\ desired' = {} /\ changed' = FALSE
    BY DEF WatchFails, Reconcile, fs
<1>2. WatcherTypeOK'
  <2>1. changed' \in BOOLEAN
      BY <1>1, Zenon
  <2> QED  BY <1>1, <2>1, ConstAssumption DEF IInv, WatcherTypeOK, Absent
<1>3. TreeInv' /\ WatchInv'
    BY <1>1 DEF IInv, WatcherTypeOK, TreeInv, WatchInv, Absent
<1>4. CaughtInv' /\ StatInv'
    BY <1>1 DEF CaughtInv, StatInv, Unchanged, Level
<1> QED  BY <1>2, <1>3, <1>4 DEF IInv

\* Nothing had to be changed: whatever is there has been watched since before
\* it was read
LEMMA ReconciledIInv == ASSUME IInv, Reconciled PROVE IInv'
<1>1. /\ place = "adjust" /\ Stale = {} /\ Fresh = {}
      /\ UNCHANGED <<ino, content, changes, marks, queue, caller, known, watched, level, desired,
                     changed, seen>>
    BY DEF Reconciled, fs, inotify, reconcile
<1>2. Needed' = Needed /\ Unwatched' = Unwatched /\ TreeInv' /\ WatchInv'
    BY <1>1 DEF IInv, Needed, Unwatched, TreeInv, WatchInv, OnDirectory
<1>3. CASE Unchanged
  <2>1. place' = "poll" /\ todo' = todo
      BY <1>3 DEF Reconciled, Unchanged
  <2>2. WatcherTypeOK'
      BY <1>1, <2>1 DEF IInv, WatcherTypeOK
  <2>3. queue # {} \/ Unwatched = {}
    <3>1. SUFFICES ASSUME queue = {}, NEW d \in Unwatched PROVE FALSE
        OBVIOUS
    <3>2. d \in Level /\ d \in Needed /\ ino[d] # Absent /\ watched[d] # ino[d]
        BY <3>1, NeededClosed DEF IInv, Unwatched
    <3>3. watched[d] = Absent
        BY <3>1, <3>2, Noticed DEF IInv, OnDirectory
    <3>4. d \notin desired
        BY <1>1, <3>2, <3>3 DEF Fresh
    <3>5. level =< d /\ level \in Level
      <4>1. desired = {e \in Level : e < level} /\ level \in Nat
          BY <1>1 DEF IInv, WatcherTypeOK, StatInv
      <4>2. d \in Nat /\ Depth \in Nat /\ d =< Depth
          BY <3>2, ConstAssumption DEF Level
      <4>3. ~(d < level)
          BY <3>2, <3>4, <4>1
      <4> QED  BY <4>1, <4>2, <4>3 DEF Level
    <3>6. level \in Needed
      <4>1. level = d \/ level < d
          BY <3>2, <3>5, ConstAssumption DEF Level
      <4> QED  BY <3>2, <3>5, <4>1, NeededClosed DEF IInv
    <3>7. ino[level] = Absent
        BY <1>1, <1>3, <3>1, <3>6 DEF IInv, StatInv
    <3>8. level = d \/ level < d
        BY <3>2, <3>5, ConstAssumption DEF Level
    <3> QED  BY <3>2, <3>5, <3>7, <3>8 DEF IInv, TreeInv
  <2>4. CaughtInv'
    <3>1. todo = {} /\ Caught
        BY <1>1, <1>3 DEF IInv, CaughtInv, Unchanged
    <3>2. Caught'
        BY <1>1, <1>2, <2>1, <3>1 DEF Caught
    <3>3. place' = "poll" /\ todo' = {} /\ (queue' # {} \/ Unwatched' = {})
        BY <1>1, <1>2, <2>1, <2>3, <3>1
    <3> QED  BY <3>2, <3>3 DEF CaughtInv
  <2>5. StatInv'
      BY <2>1 DEF StatInv
  <2> QED  BY <1>2, <2>2, <2>4, <2>5 DEF IInv
<1>4. CASE ~Unchanged
  <2>1. place' = "read" /\ todo' = {Boot}
      BY <1>4 DEF Reconciled, Unchanged
  <2>2. WatcherTypeOK'
      BY <1>1, <2>1, ConstAssumption DEF IInv, WatcherTypeOK
  <2>3. CaughtInv' /\ StatInv'
      BY <2>1 DEF CaughtInv, StatInv
  <2> QED  BY <1>2, <2>2, <2>3 DEF IInv
<1> QED  BY <1>3, <1>4

-----------------------------------------------------------------------------
(* The round and the wait *)

LEMMA ReadBootIInv == ASSUME IInv, ReadBoot PROVE IInv'
<1>1. /\ place = "read" /\ seen' = [seen EXCEPT ![Boot] = content[Boot]]
      /\ known' \in {Base, File} /\ todo' = known' \ {Boot}
      /\ UNCHANGED <<ino, content, changes, marks, queue, place, caller, watched, level, desired,
                     changed>>
    BY DEF IInv, WatcherTypeOK, ReadBoot, fs, inotify, reconcile
<1>2. WatcherTypeOK'
    BY <1>1, ConstAssumption DEF IInv, WatcherTypeOK
<1>3. TreeInv' /\ WatchInv'
    BY <1>1 DEF IInv, TreeInv, WatchInv, OnDirectory
<1>4. Caught'
    BY <1>1, ConstAssumption DEF IInv, WatcherTypeOK, Caught
<1>5. CaughtInv' /\ StatInv'
    BY <1>1, <1>4 DEF CaughtInv, StatInv
<1> QED  BY <1>2, <1>3, <1>5 DEF IInv

LEMMA ReadIInv == ASSUME IInv, NEW f \in File, Read(f) PROVE IInv'
<1>1. /\ place = "read" /\ Boot \notin todo /\ f \in todo
      /\ seen' = [seen EXCEPT ![f] = content[f]] /\ todo' = todo \ {f}
      /\ UNCHANGED <<ino, content, changes, marks, queue, place, caller, known, watched, level,
                     desired, changed>>
    BY DEF Read, fs, inotify, reconcile
<1>2. WatcherTypeOK'
    BY <1>1 DEF IInv, WatcherTypeOK
<1>3. TreeInv' /\ WatchInv' /\ Unwatched' = Unwatched
    BY <1>1 DEF IInv, TreeInv, WatchInv, OnDirectory, Unwatched, Needed
<1>4. Caught'
    BY <1>1, <1>3, ConstAssumption DEF IInv, WatcherTypeOK, CaughtInv, Caught
<1>5. CaughtInv' /\ StatInv'
    BY <1>1, <1>4 DEF CaughtInv, StatInv
<1> QED  BY <1>2, <1>3, <1>5 DEF IInv

LEMMA WaitIInv == ASSUME IInv, Wait PROVE IInv'
<1>1. /\ place = "read" /\ todo = {} /\ place' = "stat" /\ caller' = "wait" /\ level' = 0
      /\ desired' = {} /\ changed' = FALSE
      /\ UNCHANGED <<ino, content, changes, marks, queue, known, watched, todo, seen>>
    BY DEF Wait, Reconcile, fs, inotify
<1>2. WatcherTypeOK'
  <2>1. changed' \in BOOLEAN
      BY <1>1, Zenon
  <2> QED  BY <1>1, <2>1 DEF IInv, WatcherTypeOK
<1>3. TreeInv' /\ WatchInv' /\ Unwatched' = Unwatched
    BY <1>1 DEF IInv, TreeInv, WatchInv, OnDirectory, Unwatched, Needed
<1>4. CaughtInv'
    BY <1>1, <1>3 DEF IInv, CaughtInv, Caught
<1>5. StatInv'
    BY <1>1 DEF StatInv, Level
<1> QED  BY <1>2, <1>3, <1>4, <1>5 DEF IInv

LEMMA DrainIInv == ASSUME IInv, Drain PROVE IInv'
<1>1. /\ queue' = {}
      /\ watched' = [d \in Level |->
             IF [wd |-> watched[d], gone |-> TRUE] \in queue THEN Absent ELSE watched[d]]
      /\ place' = "stat" /\ caller' = "drained" /\ level' = 0 /\ desired' = {} /\ changed' = FALSE
      /\ UNCHANGED <<ino, content, changes, marks, known, todo, seen>>
    BY DEF Drain, Reconcile, fs
<1>2. WatcherTypeOK'
  <2>1. changed' \in BOOLEAN
      BY <1>1, Zenon
  <2> QED  BY <1>1, <2>1 DEF IInv, WatcherTypeOK, Absent
<1>3. TreeInv'
    BY <1>1 DEF IInv, WatcherTypeOK, TreeInv, Absent
<1>4. WatchInv'
    BY <1>1 DEF IInv, WatchInv, OnDirectory
<1>5. CaughtInv' /\ StatInv'
    BY <1>1 DEF CaughtInv, StatInv, Unchanged, Level
<1> QED  BY <1>2, <1>3, <1>4, <1>5 DEF IInv

-----------------------------------------------------------------------------
LEMMA NextIInv == IInv /\ [WatcherNext]_watcherVars => IInv'
<1> SUFFICES ASSUME IInv, [WatcherNext]_watcherVars PROVE IInv'
    OBVIOUS
<1>1. CASE WatcherStep
    BY <1>1, StatIInv, ReconciledIInv, UnwatchIInv, WatchIInv, WatchFailsIInv, ReadBootIInv,
       WaitIInv, DrainIInv, ReadIInv DEF WatcherStep
<1>2. ASSUME NEW d \in Level, MkDir(d) \/ RmDir(d) PROVE IInv'
    BY <1>2, MkDirIInv, RmDirIInv
<1>3. ASSUME NEW f \in File, Put(f, changes + 1) \/ Put(f, Absent) PROVE IInv'
  <2>1. changes + 1 \in Nat /\ Absent \in Nat
      BY DEF IInv, WatcherTypeOK, Absent
  <2> QED  BY <1>3, <2>1, PutIInv
<1>4. CASE UNCHANGED watcherVars
    BY <1>4 DEF IInv, WatcherTypeOK, TreeInv, WatchInv, OnDirectory, CaughtInv, Caught, Unchanged,
       StatInv, Unwatched, Needed, Fresh, watcherVars, fs, inotify, reconcile
<1> QED  BY <1>1, <1>2, <1>3, <1>4 DEF WatcherNext

\* Directories, watches, events and what was read keep their shape, for any
\* depth and any number of changes.
THEOREM TypeCorrect == WatcherSpec => []WatcherTypeOK
<1>1. IInv => WatcherTypeOK
    BY DEF IInv
<1> QED  BY <1>1, InitIInv, NextIInv, PTL DEF WatcherSpec

\* A daemon that sleeps has read what there is: no order of directories that
\* come and go and of watches that are added and lost hides a file from it.
THEOREM SleepsInformed == WatcherSpec => []NothingMissed
<1>1. IInv => NothingMissed
    BY DEF IInv, CaughtInv, Caught, NothingMissed
<1> QED  BY <1>1, InitIInv, NextIInv, PTL DEF WatcherSpec

-----------------------------------------------------------------------------
(* A2A peers and their cards *)

\* No cached card is obsolete: in memory, and on disk for what was saved with it.
NotObsolete(entries, old) ==
    \A p \in Peer : entries[p] # None /\ entries[p].card # None =>
        <<p, entries[p].card>> \notin old
CacheInv == NotObsolete(cache, obsolete) /\ NotObsolete(saved.cache, saved.obsolete)

\* Only peers of the bundle are resolved, and nothing is left between rounds
RoundInv ==
    /\ round.todo \subseteq Peers(round.bundle)
    /\ pc \in {"down", "idle"} => round = NoRound

SyncInv == TypeOK /\ RoundInv /\ CacheInv /\ RefusedNotReused

-----------------------------------------------------------------------------
LEMMA NobodyType == Nobody \in Bundle /\ Nobody \in Cache
                    /\ Nobody \in [Peer -> Card \cup {None}]
BY DEF Nobody, Bundle, Cache

LEMMA InitSyncInv == Init => SyncInv
<1> SUFFICES ASSUME Init PROVE SyncInv
    OBVIOUS
<1>1. TypeOK
    BY NobodyType DEF Init, TypeOK, Ready, NoRound
<1>2. CacheInv
    BY DEF Init, CacheInv, NotObsolete, Nobody
<1>3. RefusedNotReused
    BY DEF Init, RefusedNotReused
<1>4. RoundInv
    BY DEF Init, RoundInv, NoRound
<1> QED  BY <1>1, <1>2, <1>3, <1>4 DEF SyncInv

-----------------------------------------------------------------------------
(* Type correctness *)

LEMMA HostType ==
    ASSUME TypeOK, NEW c \in Proc,
           Add(c) \/ Remove(c) \/ Deploy(c) \/ Sync(c) \/ HostStep(c) \/ DieOnHost(c)
    PROVE  TypeOK'
<1> USE DEF TypeOK
<1>1. CASE Add(c)
    BY <1>1 DEF Add, Begin, Bundle, guest
<1>2. CASE Remove(c)
    BY <1>2 DEF Remove, Begin, Bundle, guest
<1>3. CASE Deploy(c)
    BY <1>3 DEF Deploy, Begin, Bundle, guest
<1>4. CASE Sync(c)
    BY <1>4 DEF Sync, Begin, Bundle, guest
<1>5. CASE HostStep(c)
  <2>1. CASE WriteRegistry(c)
      BY <2>1 DEF WriteRegistry, Step, Bundle, guest
  <2>2. CASE Render(c)
      BY <2>2 DEF Render, Carry, guest
  <2>3. CASE WriteBundle(c)
      BY <2>3 DEF WriteBundle, Step, guest
  <2>4. CASE Inject(c)
      BY <2>4 DEF Inject, Carry, guest
  <2>5. CASE Arrive(c)
      BY <2>5, NobodyType DEF Arrive, Ready, guest
  <2> QED  BY <1>5, <2>1, <2>2, <2>3, <2>4, <2>5 DEF HostStep
<1>6. CASE DieOnHost(c)
    BY <1>6, NobodyType DEF DieOnHost, Ready, guest
<1> QED  BY <1>1, <1>2, <1>3, <1>4, <1>5, <1>6

LEMMA CachedType == ASSUME TypeOK, NEW ps \in SUBSET Peer PROVE Cached(ps) \subseteq Peer \X Card
BY DEF TypeOK, Cached, Cache, CacheEntry

\* What a step of the daemon on one peer leaves behind
LEMMA ResolvedType ==
    ASSUME TypeOK, NEW p \in Peer,
           NEW entry \in CacheEntry,
           NEW card \in Card \cup {None}, Resolved(p, entry, card),
           obsolete' \subseteq Peer \X Card
    PROVE  TypeOK'
BY DEF TypeOK, Resolved, Cache, host

LEMMA ResolveType ==
    ASSUME TypeOK, RoundInv, NEW p \in Peer, Resolve(p)
    PROVE  TypeOK'
<1> DEFINE pin == round.bundle[p]
           card == IF cache[p] = None THEN None ELSE cache[p].card
<1>1. Todo(p) => pin \in Pin
    BY DEF Todo, RoundInv, Peers, TypeOK, Bundle
<1>2. card \in Card \cup {None}
    BY DEF TypeOK, Cache, CacheEntry
<1>3. obsolete \subseteq Peer \X Card /\ Cached({p}) \subseteq Peer \X Card
    BY CachedType DEF TypeOK
<1>4. ASSUME NEW q \in Pin, NEW x \in Card \cup {None}
      PROVE  Entry(q, x) \in CacheEntry
    BY DEF Entry, CacheEntry
<1>5. CASE UseCache(p)
  <2>1. cache[p] \in CacheEntry
      BY <1>5 DEF UseCache, Usable, TypeOK, Cache
  <2>2. cache[p].card \in Card \cup {None}
      BY <2>1 DEF CacheEntry
  <2>3. Resolved(p, cache[p], cache[p].card) /\ obsolete' = obsolete
      BY <1>5 DEF UseCache
  <2> QED  BY <1>3, <2>1, <2>2, <2>3, ResolvedType
<1>6. CASE FetchCard(p)
  <2>1. published[p] \in Card
      BY <1>6 DEF FetchCard, Accepts, TypeOK
  <2>2. Resolved(p, Entry(pin, published[p]), published[p]) /\ obsolete' \subseteq obsolete
      BY <1>6 DEF FetchCard
  <2>3. Todo(p)
      BY <1>6 DEF FetchCard, Fetching
  <2> QED  BY <1>1, <1>3, <1>4, <2>1, <2>2, <2>3, ResolvedType
<1>7. CASE FetchRefused(p)
  <2>1. Resolved(p, Entry(pin, None), None) /\ obsolete' = obsolete \cup Cached({p})
      BY <1>7 DEF FetchRefused
  <2>2. Todo(p)
      BY <1>7 DEF FetchRefused, Fetching
  <2> QED  BY <1>1, <1>3, <1>4, <2>1, <2>2, ResolvedType
<1>8. CASE FetchFails(p)
  <2>1. Resolved(p, Entry(pin, card), card) /\ obsolete' = obsolete
      BY <1>8 DEF FetchFails
  <2>2. Todo(p)
      BY <1>8 DEF FetchFails, Fetching
  <2> QED  BY <1>1, <1>2, <1>3, <1>4, <2>1, <2>2, ResolvedType
<1> QED  BY <1>5, <1>6, <1>7, <1>8 DEF Resolve

LEMMA StartType == TypeOK /\ Start => TypeOK'
<1> SUFFICES ASSUME TypeOK, Start PROVE TypeOK'
    OBVIOUS
<1>1. PICK due \in SUBSET {p \in Peer : saved.cache[p] # None} :
        cache' = [p \in Peer |-> IF p \in due THEN [saved.cache[p] EXCEPT !.due = TRUE]
                                 ELSE saved.cache[p]]
    BY DEF Start
<1>2. saved.cache \in Cache /\ saved.obsolete \subseteq Peer \X Card
    BY DEF TypeOK
<1>3. cache' \in Cache
    BY <1>1, <1>2 DEF Cache, CacheEntry
<1> QED  BY <1>2, <1>3 DEF Start, TypeOK, host

LEMMA ReadBundleType == TypeOK /\ ReadBundle => TypeOK'
<1> SUFFICES ASSUME TypeOK, ReadBundle PROVE TypeOK'
    OBVIOUS
<1> DEFINE b == IF bundle = None THEN Nobody ELSE bundle
<1>1. b \in Bundle
    BY NobodyType DEF TypeOK
<1>2. cache' \in Cache
    BY NobodyType DEF ReadBundle, TypeOK, Cache
<1>3. obsolete' \subseteq Peer \X Card
    BY CachedType DEF ReadBundle, TypeOK
<1>4. round' = [bundle |-> b, todo |-> Peers(b), cards |-> Nobody]
    BY DEF ReadBundle
<1>5. round' \in [bundle : Bundle, todo : SUBSET Peer, cards : [Peer -> Card \cup {None}]]
    BY <1>1, <1>4, NobodyType DEF Peers
<1> QED  BY <1>2, <1>3, <1>5 DEF ReadBundle, TypeOK, host

LEMMA NextType == TypeOK /\ RoundInv /\ [Next]_vars => TypeOK'
<1> SUFFICES ASSUME TypeOK, RoundInv, [Next]_vars PROVE TypeOK'
    OBVIOUS
<1>1. CASE \E c \in Proc : Add(c) \/ Remove(c) \/ Deploy(c) \/ Sync(c) \/ HostStep(c)
                            \/ DieOnHost(c)
    BY <1>1, HostType
<1>2. CASE Publish
    BY <1>2 DEF Publish, TypeOK, host, guest
<1>3. CASE Guest
  <2>1. CASE PublishRoutes
      BY <2>1 DEF PublishRoutes, TypeOK, host
  <2>2. CASE Save
      BY <2>2, NobodyType DEF Save, NoRound, TypeOK, host
  <2> QED  BY <1>3, <2>1, <2>2, StartType, ReadBundleType, ResolveType DEF Guest
<1>4. ASSUME NEW p \in Peer, Tick(p) PROVE TypeOK'
    BY <1>4 DEF Tick, TypeOK, Cache, CacheEntry, host
<1>5. CASE FailRound
    BY <1>5 DEF FailRound, TypeOK, host
<1>6. CASE Die
    BY <1>6, NobodyType DEF Die, NoRound, TypeOK, host
<1>7. CASE Redeliver
    BY <1>7 DEF Redeliver, TypeOK, host, guest
<1>8. CASE UNCHANGED vars
    BY <1>8 DEF vars, TypeOK, host, guest
<1> QED  BY <1>1, <1>2, <1>3, <1>4, <1>5, <1>6, <1>7, <1>8 DEF Next

-----------------------------------------------------------------------------
(* The cache and the round *)

LEMMA NextRoundInv == TypeOK /\ RoundInv /\ [Next]_vars => RoundInv'
<1> SUFFICES ASSUME TypeOK, RoundInv, [Next]_vars PROVE RoundInv'
    OBVIOUS
<1>1. ASSUME NEW p \in Peer, NEW entry, NEW card, pc = "resolve", Resolved(p, entry, card)
      PROVE  RoundInv'
    BY <1>1 DEF Resolved, RoundInv, TypeOK, Peers
<1>2. CASE Guest
  <2>1. ASSUME NEW p \in Peer, Resolve(p) PROVE RoundInv'
      BY <1>1, <2>1 DEF Resolve, UseCache, FetchCard, FetchRefused, FetchFails, Fetching, Todo
  <2>2. CASE ReadBundle
      BY <2>2 DEF ReadBundle, RoundInv
  <2>3. CASE Start \/ PublishRoutes
      BY <2>3 DEF Start, PublishRoutes, RoundInv
  <2>4. CASE Save
      BY <2>4 DEF Save, NoRound, RoundInv
  <2> QED  BY <1>2, <2>1, <2>2, <2>3, <2>4 DEF Guest
<1>3. CASE Die
    BY <1>3 DEF Die, NoRound, RoundInv
<1>4. CASE UNCHANGED <<round, pc>>
    BY <1>4 DEF RoundInv
<1>5. ASSUME NEW c \in Proc, Add(c) \/ Remove(c) \/ Deploy(c) \/ Sync(c) \/ HostStep(c)
                            \/ DieOnHost(c)
      PROVE  UNCHANGED <<round, pc>>
    BY <1>5 DEF Add, Remove, Deploy, Sync, Begin, HostStep, WriteRegistry, Render,
                WriteBundle, Inject, Arrive, DieOnHost, guest
<1>6. CASE Publish \/ (\E p \in Peer : Tick(p)) \/ Redeliver \/ UNCHANGED vars
    BY <1>4, <1>6 DEF Publish, Tick, Redeliver, vars, guest
<1>7. CASE FailRound
    BY <1>7 DEF FailRound, RoundInv
<1> QED  BY <1>2, <1>3, <1>4, <1>5, <1>6, <1>7 DEF Next

\* A step on one peer keeps the cache fresh when what it leaves for that peer is
\* fresh, and other peers are not touched.
LEMMA ResolvedFresh ==
    ASSUME TypeOK, CacheInv, RefusedNotReused, NEW p \in Peer, NEW entry, NEW card,
           Resolved(p, entry, card),
           entry # None => entry.card = card,
           <<p, card>> \notin obsolete',
           \A q \in Peer \ {p} : \A x : <<q, x>> \in obsolete' => <<q, x>> \in obsolete
    PROVE  CacheInv' /\ RefusedNotReused'
<1>1. \A q \in Peer \ {p} : cache'[q] = cache[q] /\ round'.cards[q] = round.cards[q]
    BY DEF Resolved, TypeOK, Cache
<1>2. cache'[p] = entry /\ round'.cards[p] = card /\ saved' = saved
    BY DEF Resolved, TypeOK, Cache
<1>3. NotObsolete(cache, obsolete)'
    BY <1>1, <1>2 DEF CacheInv, NotObsolete
<1>4. RefusedNotReused'
    BY <1>1, <1>2 DEF RefusedNotReused
<1> QED  BY <1>2, <1>3, <1>4 DEF CacheInv, NotObsolete

LEMMA ResolveFresh ==
    ASSUME SyncInv, NEW p \in Peer, Resolve(p)
    PROVE  CacheInv' /\ RefusedNotReused'
<1> USE DEF SyncInv
<1> DEFINE pin == round.bundle[p]
           card == IF cache[p] = None THEN None ELSE cache[p].card
<1>1. \A q \in Peer : <<q, None>> \notin obsolete /\ <<q, None>> \notin Cached({p})
    BY PeersAssumption, CachedType DEF TypeOK
<1>2. \A q \in Peer \ {p} : \A x : <<q, x>> \notin Cached({p})
    BY DEF Cached
<1>3. \A x : Entry(pin, x).card = x
    BY DEF Entry
<1>4. cache[p] # None => cache[p].card = card /\ <<p, card>> \notin obsolete
    BY <1>1 DEF CacheInv, NotObsolete
<1>5. CASE UseCache(p)
  <2>1. Resolved(p, cache[p], card) /\ cache[p] # None /\ obsolete' = obsolete
      BY <1>5 DEF UseCache, Usable
  <2> QED  BY <1>4, <2>1, ResolvedFresh
<1>6. CASE FetchCard(p)
  <2>1. /\ Resolved(p, Entry(pin, published[p]), published[p])
        /\ obsolete' = obsolete \ {<<p, published[p]>>}
      BY <1>6 DEF FetchCard
  <2> QED  BY <1>3, <2>1, ResolvedFresh
<1>7. CASE FetchRefused(p)
  <2>1. Resolved(p, Entry(pin, None), None) /\ obsolete' = obsolete \cup Cached({p})
      BY <1>7 DEF FetchRefused
  <2>2. <<p, None>> \notin obsolete'
      BY <1>1, <2>1
  <2>3. \A q \in Peer \ {p} : \A x : <<q, x>> \in obsolete' => <<q, x>> \in obsolete
      BY <1>2, <2>1
  <2> QED  BY <1>3, <2>1, <2>2, <2>3, ResolvedFresh
<1>8. CASE FetchFails(p)
  <2>1. Resolved(p, Entry(pin, card), card) /\ obsolete' = obsolete
      BY <1>8 DEF FetchFails
  <2>2. <<p, card>> \notin obsolete
      BY <1>1, <1>4
  <2> QED  BY <1>3, <2>1, <2>2, ResolvedFresh
<1> QED  BY <1>5, <1>6, <1>7, <1>8 DEF Resolve

\* A daemon that starts has what was saved, some of it due
LEMMA StartFresh == SyncInv /\ Start => CacheInv' /\ RefusedNotReused'
<1> SUFFICES ASSUME SyncInv, Start PROVE CacheInv' /\ RefusedNotReused'
    OBVIOUS
<1> USE DEF SyncInv
<1>1. PICK due \in SUBSET {p \in Peer : saved.cache[p] # None} :
        cache' = [p \in Peer |-> IF p \in due THEN [saved.cache[p] EXCEPT !.due = TRUE]
                                 ELSE saved.cache[p]]
    BY DEF Start
<1>2. \A p \in Peer : cache'[p] # None =>
          saved.cache[p] # None /\ cache'[p].card = saved.cache[p].card
    BY <1>1 DEF TypeOK, Cache, CacheEntry
<1>3. obsolete' = saved.obsolete /\ saved' = saved
    BY DEF Start
<1>4. CacheInv'
    BY <1>2, <1>3 DEF CacheInv, NotObsolete
<1>5. RefusedNotReused'
  <2>1. round'.cards = Nobody
      BY DEF Start, RoundInv, NoRound
  <2>2. \A p \in Peer : <<p, None>> \notin saved.obsolete
      BY PeersAssumption DEF TypeOK
  <2> QED  BY <1>3, <2>1, <2>2 DEF RefusedNotReused, Nobody
<1> QED  BY <1>4, <1>5

\* Peers that left the bundle leave the cache, provided that a bundle without
\* peers comes with a mesh
LEMMA ReadBundleFresh ==
    ASSUME SyncInv, ReadBundle, MeshDelivered = {TRUE}
    PROVE  CacheInv' /\ RefusedNotReused'
<1> USE DEF SyncInv
<1> DEFINE b == IF bundle = None THEN Nobody ELSE bundle
<1>1. obsolete' = obsolete \cup Cached(Peer \ Peers(b)) /\ saved' = saved
    BY DEF ReadBundle
<1>2. \A p \in Peer : cache'[p] # None => p \in Peers(b) /\ cache'[p] = cache[p]
  <2>1. cache' = IF bundle = None THEN Nobody
                 ELSE [p \in Peer |-> IF p \in Peers(b) THEN cache[p] ELSE None]
      BY DEF ReadBundle
  <2> QED  BY <2>1 DEF Nobody
<1>3. \A p \in Peers(b) : \A x : <<p, x>> \notin Cached(Peer \ Peers(b))
    BY DEF Cached
<1>4. NotObsolete(cache, obsolete)'
    BY <1>1, <1>2, <1>3 DEF CacheInv, NotObsolete
<1>5. RefusedNotReused'
  <2>1. round'.cards = Nobody
      BY DEF ReadBundle
  <2>2. \A p \in Peer : <<p, None>> \notin obsolete'
      BY <1>1, PeersAssumption, CachedType DEF TypeOK
  <2> QED  BY <2>1, <2>2 DEF RefusedNotReused, Nobody
<1> QED  BY <1>1, <1>4, <1>5 DEF CacheInv

LEMMA NextFresh ==
    ASSUME SyncInv, [Next]_vars, MeshDelivered = {TRUE}
    PROVE  CacheInv' /\ RefusedNotReused'
<1> USE DEF SyncInv
<1>1. CASE UNCHANGED <<cache, saved, round, obsolete>>
    BY <1>1 DEF CacheInv, NotObsolete, RefusedNotReused
<1>2. CASE Guest
  <2>1. CASE Save
    <3>1. cache' = cache /\ obsolete' = obsolete
          /\ saved' = [cache |-> cache, obsolete |-> obsolete]
        BY <2>1 DEF Save
    <3>2. CacheInv'
        BY <3>1 DEF CacheInv, NotObsolete
    <3>3. round'.cards = Nobody
        BY <2>1 DEF Save, NoRound
    <3>4. \A p \in Peer : <<p, None>> \notin obsolete
        BY PeersAssumption DEF TypeOK
    <3> QED  BY <3>1, <3>2, <3>3, <3>4 DEF RefusedNotReused, Nobody
  <2>2. CASE PublishRoutes
      BY <1>1, <2>2 DEF PublishRoutes
  <2> QED  BY <1>2, <2>1, <2>2, StartFresh, ReadBundleFresh, ResolveFresh DEF Guest
<1>3. ASSUME NEW p \in Peer, Tick(p) PROVE CacheInv' /\ RefusedNotReused'
  <2>1. \A q \in Peer : cache'[q] # None => cache[q] # None /\ cache'[q].card = cache[q].card
      BY <1>3 DEF Tick, TypeOK, Cache, CacheEntry
  <2>2. UNCHANGED <<saved, round, obsolete>>
      BY <1>3 DEF Tick
  <2> QED  BY <2>1, <2>2 DEF CacheInv, NotObsolete, RefusedNotReused
<1>4. CASE Die
    BY <1>4 DEF Die, NoRound, Nobody, CacheInv, NotObsolete, RefusedNotReused
<1>5. ASSUME NEW c \in Proc, Add(c) \/ Remove(c) \/ Deploy(c) \/ Sync(c) \/ HostStep(c)
                            \/ DieOnHost(c)
      PROVE  UNCHANGED <<cache, saved, round, obsolete>>
    BY <1>5 DEF Add, Remove, Deploy, Sync, Begin, HostStep, WriteRegistry, Render,
                WriteBundle, Inject, Arrive, DieOnHost, guest
<1>6. CASE Publish \/ FailRound \/ Redeliver \/ UNCHANGED vars
    BY <1>1, <1>6 DEF Publish, FailRound, Redeliver, vars, guest
<1> QED  BY <1>1, <1>2, <1>3, <1>4, <1>5, <1>6 DEF Next

-----------------------------------------------------------------------------
(* Theorems *)

\* Registry, commands, bundles, cache and round keep their shape, whether or not
\* a mesh was delivered: an entry that is stored always has a pin of its bundle
\* (resolve_a2a_peer).
THEOREM CacheTypeCorrect == Spec => []TypeOK
<1>1. Init => TypeOK /\ RoundInv
    BY InitSyncInv DEF SyncInv
<1>2. TypeOK /\ RoundInv /\ [Next]_vars => (TypeOK /\ RoundInv)'
    BY NextType, NextRoundInv
<1> QED  BY <1>1, <1>2, PTL DEF Spec

\* A card that was withdrawn or refused, or that left with its peer, is not
\* used again before it is fetched again, for any number of peers, cards,
\* commands and faults, in a guest that has a mesh (a2a_fetch_error_allows_stale,
\* negative_a2a_cache and the retain at the end of a2a_tng_ingress).
THEOREM RefusedStaysAway ==
    ASSUME MeshDelivered = {TRUE}
    PROVE  Spec => []RefusedNotReused
<1>1. Init => SyncInv
    BY InitSyncInv
<1>2. SyncInv /\ [Next]_vars => SyncInv'
    BY NextType, NextRoundInv, NextFresh DEF SyncInv
<1>3. SyncInv => RefusedNotReused
    BY DEF SyncInv
<1> QED  BY <1>1, <1>2, <1>3, PTL DEF Spec

=============================================================================
