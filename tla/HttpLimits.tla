---------------------------- MODULE HttpLimits ----------------------------
(***************************************************************************)
(* The HTTP endpoints of confidential-agentd (daemon/src/app.rs): one      *)
(* thread per listener accepts connections, both share HttpServerLimits, a *)
(* counter of live requests kept with compare-exchange and a fixed-window  *)
(* rate limiter behind a lock, and each admitted request has a thread.     *)
(***************************************************************************)
EXTENDS Naturals, FiniteSets, Sequences

CONSTANTS
    Server,         \* the accept threads: the status and the AgentCard listener
    Request,        \* connections, each of which is accepted once
    Client,         \* addresses they come from
    MaxActive,      \* HTTP_MAX_CONCURRENT_REQUESTS
    MaxRate,        \* HTTP_RATE_LIMIT_REQUESTS
    Window,         \* HTTP_RATE_LIMIT_WINDOW
    MaxReads,       \* reads until HTTP_MAX_HEADER_BYTES are there
    MaxTime,        \* bound on the clock
    Null

ASSUME HttpAssumption ==
    /\ MaxActive \in Nat /\ MaxRate \in Nat /\ MaxReads \in Nat /\ MaxTime \in Nat
    /\ Window \in Nat \ {0}
    /\ IsFiniteSet(Server) /\ IsFiniteSet(Request)
    /\ Null \notin Request \cup Client \cup [start : Nat, count : Nat]

VARIABLES
    clock,
    active,     \* active_requests
    windows,    \* peers of the limiter: Null or [start, count]
    lock,       \* who holds the mutex of the limiter
    thread,     \* the accept threads: [at, req, peer, time, current]
    at,         \* the requests
    reads,      \* reads a request has made
    allowed     \* history: when the limiter let a peer pass

limits == <<active, windows, lock>>
handler == <<at, reads>>
httpVars == <<clock, limits, thread, handler, allowed>>

Waiting == [at |-> "accepting", req |-> Null, peer |-> Null, time |-> 0, current |-> 0]
Holding == {r \in Request : at[r] \in {"reading", "replying"}}

----------------------------------------------------------------------------
HttpInit ==
    /\ clock = 0
    /\ active = 0
    /\ windows = [p \in Client |-> Null]
    /\ lock = Null
    /\ thread = [s \in Server |-> Waiting]
    /\ at = [r \in Request |-> "new"]
    /\ reads = [r \in Request |-> 0]
    /\ allowed = [p \in Client |-> <<>>]

TimePasses ==
    /\ clock < MaxTime
    /\ clock' = clock + 1
    /\ UNCHANGED <<limits, thread, handler, allowed>>

\* the listener gets a connection and sets its timeouts, unless that fails
Accept(s, r, p) ==
    /\ thread[s].at = "accepting" /\ at[r] = "new"
    /\ \/ /\ thread' = [thread EXCEPT ![s] = [Waiting EXCEPT !.at = "locking", !.req = r,
                                              !.peer = p, !.time = clock]]
          /\ at' = [at EXCEPT ![r] = "accepted"]
       \/ at' = [at EXCEPT ![r] = "closed"] /\ UNCHANGED thread
    /\ UNCHANGED <<clock, limits, reads, allowed>>

\* allow_peer takes the lock
Lock(s) ==
    /\ thread[s].at = "locking" /\ lock = Null
    /\ lock' = s
    /\ thread' = [thread EXCEPT ![s].at = "limiting"]
    /\ UNCHANGED <<clock, active, windows, handler, allowed>>

\* Instant::now() is read under the lock
Now(s) == clock

\* retain: the windows that have not ended; one that begins after now has
Live(now) ==
    [p \in Client |-> IF windows[p] # Null /\ windows[p].start =< now
                       /\ now < windows[p].start + Window
                    THEN windows[p] ELSE Null]

Opened(now, p) == IF Live(now)[p] = Null THEN [start |-> now, count |-> 0] ELSE Live(now)[p]

\* the thread closes the connection it has refused and accepts the next one
Reject(s) ==
    /\ thread' = [thread EXCEPT ![s] = Waiting]
    /\ at' = [at EXCEPT ![thread[s].req] = "closed"]

\* FixedWindowRateLimiter.allow
Limit(s) ==
    LET p == thread[s].peer
        now == Now(s)
        window == Opened(now, p)
    IN /\ thread[s].at = "limiting"
       /\ lock' = Null
       /\ \/ /\ MaxRate = 0
             /\ windows' = Live(now) /\ Reject(s) /\ UNCHANGED allowed
          \/ /\ MaxRate > 0 /\ window.count >= MaxRate
             /\ windows' = [Live(now) EXCEPT ![p] = window]
             /\ Reject(s) /\ UNCHANGED allowed
          \/ /\ MaxRate > 0 /\ window.count < MaxRate
             /\ windows' = [Live(now) EXCEPT ![p] = [window EXCEPT !.count = @ + 1]]
             /\ thread' = [thread EXCEPT ![s].at = "loading"]
             /\ allowed' = [allowed EXCEPT ![p] = Append(@, clock)]
             /\ UNCHANGED at
       /\ UNCHANGED <<clock, active, reads>>

\* try_acquire_request loads the counter
Load(s) ==
    /\ thread[s].at = "loading"
    /\ thread' = [thread EXCEPT ![s].at = "exchanging", ![s].current = active]
    /\ UNCHANGED <<clock, limits, handler, allowed>>

Full(s) ==
    /\ thread[s].at = "exchanging" /\ thread[s].current >= MaxActive
    /\ Reject(s)
    /\ UNCHANGED <<clock, limits, reads, allowed>>

\* faulty variant of Exchange: the incremented counter is stored unconditionally
Store(s) ==
    /\ thread[s].at = "exchanging" /\ thread[s].current < MaxActive
    /\ active' = thread[s].current + 1
    /\ thread' = [thread EXCEPT ![s].at = "spawning"]
    /\ UNCHANGED <<clock, windows, lock, handler, allowed>>

\* compare_exchange_weak, which may fail though nothing has changed
Exchange(s) ==
    /\ thread[s].at = "exchanging" /\ thread[s].current < MaxActive
    /\ \/ /\ active = thread[s].current
          /\ active' = active + 1
          /\ thread' = [thread EXCEPT ![s].at = "spawning"]
       \/ /\ thread' = [thread EXCEPT ![s].current = active]
          /\ UNCHANGED active
    /\ UNCHANGED <<clock, windows, lock, handler, allowed>>

\* the thread of the request gets the guard; without a thread it is dropped
Spawn(s) ==
    /\ thread[s].at = "spawning"
    /\ thread' = [thread EXCEPT ![s] = Waiting]
    /\ \/ /\ at' = [at EXCEPT ![thread[s].req] = "reading"]
          /\ UNCHANGED active
       \/ /\ at' = [at EXCEPT ![thread[s].req] = "closed"]
          /\ active' = active - 1
    /\ UNCHANGED <<clock, windows, lock, reads, allowed>>

----------------------------------------------------------------------------
(* handle_http_request, which owns the guard *)

\* faulty variant of ReadHead: the size of the head is not bounded
ReadOn(r) ==
    /\ at[r] = "reading"
    /\ \/ reads' = [reads EXCEPT ![r] = 1 - @] /\ UNCHANGED at
       \/ at' = [at EXCEPT ![r] = "replying"] /\ UNCHANGED reads
    /\ UNCHANGED <<clock, limits, thread, allowed>>

\* one read of the head: it is complete, or more is to come and fits, or it is
\* too large or ends too early; a read that times out ends the request
ReadHead(r) ==
    /\ at[r] = "reading"
    /\ \/ /\ reads[r] < MaxReads
          /\ reads' = [reads EXCEPT ![r] = @ + 1]
          /\ UNCHANGED <<active, at>>
       \/ /\ at' = [at EXCEPT ![r] = "replying"]
          /\ UNCHANGED <<active, reads>>
       \/ /\ at' = [at EXCEPT ![r] = "closed"]
          /\ active' = active - 1
          /\ UNCHANGED reads
    /\ UNCHANGED <<clock, windows, lock, thread, allowed>>

\* whatever is answered, and if the file or the connection fails, the guard is
\* dropped in the end
Reply(r) ==
    /\ at[r] = "replying"
    /\ at' = [at EXCEPT ![r] = "closed"]
    /\ active' = active - 1
    /\ UNCHANGED <<clock, windows, lock, thread, reads, allowed>>

----------------------------------------------------------------------------
Serve(s) == Lock(s) \/ Limit(s) \/ Load(s) \/ Full(s) \/ Exchange(s) \/ Spawn(s)
Handle(r) == ReadHead(r) \/ Reply(r)

HttpNext ==
    \/ TimePasses
    \/ \E s \in Server :
        \/ \E r \in Request, p \in Client : Accept(s, r, p)
        \/ Serve(s)
    \/ \E r \in Request : Handle(r)

(* A request thread is scheduled and its reads and writes end, with bytes, *)
(* an error or the timeout of the socket.                                  *)
HttpSpec == HttpInit /\ [][HttpNext]_httpVars /\ \A r \in Request : WF_httpVars(Handle(r))

----------------------------------------------------------------------------
States == {"new", "accepted", "reading", "replying", "closed"}
Places == {"accepting", "locking", "limiting", "loading", "exchanging", "spawning"}

HttpTypeOK ==
    /\ clock \in Nat /\ active \in Nat
    /\ windows \in [Client -> [start : Nat, count : Nat] \cup {Null}]
    /\ lock \in Server \cup {Null}
    /\ thread \in [Server -> [at : Places, req : Request \cup {Null},
                              peer : Client \cup {Null}, time : Nat, current : Nat]]
    /\ at \in [Request -> States]
    /\ reads \in [Request -> Nat]
    /\ allowed \in [Client -> Seq(Nat)]

\* threads that have a guard and no request thread yet
Guarded == {s \in Server : thread[s].at = "spawning"}

\* The counter is the number of guards that exist, and never above the limit:
\* two accept threads that race for the last slot do not both get it, and no
\* way a request can end keeps its slot or gives it back twice.
SlotsExact ==
    /\ active = Cardinality(Holding) + Cardinality(Guarded)
    /\ active =< MaxActive

\* A peer passes the limiter at most twice MaxRate times within the length of
\* a window, wherever the windows begin and whichever thread asks: any
\* 2 * MaxRate + 1 passages in a row take a window or longer.
RateRespected ==
    \A p \in Client : \A i \in 1..Len(allowed[p]) :
        i + 2 * MaxRate =< Len(allowed[p])
            => allowed[p][i + 2 * MaxRate] >= allowed[p][i] + Window

\* Both limits of the daemon's listeners, on live requests and on the rate of a
\* peer, hold however the accept threads and the requests interleave.
LimitsHold == SlotsExact /\ RateRespected

\* A request gives its slot back, however slowly its peer sends the head.
EventuallyReleased ==
    \A r \in Request : at[r] = "reading" ~> at[r] = "closed"

============================================================================
