------------------------------ MODULE Gateway ------------------------------
(***************************************************************************)
(* The server side of cai-gateway for one MCP port (gateway/src/lib.rs):   *)
(* service tokens and the replay cache, the connections that are served at *)
(* the same time, and the audit chain their records share.                 *)
(*                                                                         *)
(* A chain hash is the sequence of the records it stands for.  A record is *)
(* written in three calls, the line, its newline and fsync, under the lock *)
(* of the store; the process may be killed and the power may fail between  *)
(* any two of them.                                                        *)
(***************************************************************************)
EXTENDS Naturals, Sequences, FiniteSets

CONSTANTS
    Token,          \* the tokens peers may sign, one jti each
    Conn,           \* connections that can be open at the same time
    Ttl,            \* DEFAULT_TOKEN_TTL_SEC
    Skew,           \* TOKEN_CLOCK_SKEW_SEC
    MaxRest,        \* the longest a thread rests with a time it has read
    Torn,           \* BOOLEAN: a line may be left without its newline, or in half
    MaxTime,        \* bound on the clock
    MaxRequests,    \* bound on the requests of all connections
    MaxFaults,      \* bound on deaths, power losses and failed writes
    Route,          \* the thread of the route, which writes the first record
    None

ASSUME ConstAssumption ==
    /\ Ttl \in Nat /\ Skew \in Nat /\ MaxRest \in Nat /\ Torn \in BOOLEAN
    /\ MaxTime \in Nat /\ MaxRequests \in Nat /\ MaxFaults \in Nat
    /\ None \notin Token \cup Nat
    /\ Route \notin Conn

Genesis == [request |-> 0, result |-> None]     \* the record that begins a chain
Garbage == [bad |-> TRUE]       \* a line that is not JSON

VARIABLES
    clock,      \* now_unix()
    issued,     \* for each token None or its iat; exp is iat + Ttl
    process,    \* "down", "starting", "guarded", "opening", "up", "closed" (route ended)
    rules,      \* marked traffic to the port is redirected to the gateway
    replay,     \* the jtis in ReplayCache
    conn,       \* the connections
    store,      \* AuditStore in memory: None or [seq, latest]
    pen,        \* who holds the lock in append_record, and for what
    file,       \* None or the lines of the audit file
    tail,       \* the last line has no newline
    synced,     \* how many lines fsync has covered
    requests,   \* number of requests read so far
    faults,
    (* history *)
    admitted,   \* how often this process admitted each token
    answered,   \* requests whose answer has left the gateway, with the reply
    attested,   \* digests a delivered tee_attest answer carries
    failed      \* an append has failed after it had written

disk == <<file, tail, synced>>
process_vars == <<process, rules, replay, store, pen>>
past == <<admitted, answered, attested, failed>>
vars == <<clock, issued, disk, process_vars, conn, requests, faults, past>>

Exp(t) == issued[t] + Ttl
Hash(line) == Append(line.prev, line.rec)
Idle == [at |-> "free", token |-> None, seen |-> 0, request |-> 0,
         reply |-> "none", digest |-> <<>>]

----------------------------------------------------------------------------
(* The audit file *)

Lines == IF file = None THEN <<>> ELSE file

\* verify_path: every line is a record, numbered and chained to the one before
Valid(lines) ==
    \A i \in 1..Len(lines) :
        /\ lines[i] # Garbage
        /\ lines[i].seq = i - 1
        /\ lines[i].prev = IF i = 1 THEN <<>> ELSE Hash(lines[i - 1])

\* faulty variant of PositionOf: the number of the last line, not the next one
PositionOfLast(lines) ==
    IF lines = <<>> THEN [seq |-> 0, latest |-> <<>>]
    ELSE [seq |-> lines[Len(lines)].seq, latest |-> Hash(lines[Len(lines)])]

\* the position at which AuditStore::open leaves the store
PositionOf(lines) ==
    IF lines = <<>> THEN [seq |-> 0, latest |-> <<>>]
    ELSE [seq |-> lines[Len(lines)].seq + 1, latest |-> Hash(lines[Len(lines)])]

----------------------------------------------------------------------------
(* Requests, replies and records *)

(* parse_json_rpc: a body that is no JSON has no method either.            *)
Methods == {"none", "tools/list", "virtual tool", "other"}

(* What an upstream may answer within its time, if it does: the framing of *)
(* the response, and how its body ends compared with what that announces.  *)
Upstreams == [answers : BOOLEAN, fits : BOOLEAN, parses : BOOLEAN,
              codings : SUBSET {"chunked", "gzip"},
              lengths : {"none", "agree", "conflict"},
              body : {"whole", "cut", "longer"}]

Chunked(u) == "chunked" \in u.codings

(* read_http_response: transfer_encoding_is_chunked, the lengths, and only *)
(* for chunks, in decode_chunked_body, the end of the body.                *)
Accepted(u) ==
    /\ u.answers /\ u.fits /\ u.parses
    /\ u.codings \subseteq {"chunked"}
    /\ u.lengths # "conflict"
    /\ Chunked(u) => u.lengths = "none" /\ u.body = "whole"

\* forward_http_request, and the error a connection makes of its failure
ReplyOf(u) ==
    IF ~Accepted(u) THEN "error" ELSE IF u.body = "whole" THEN "result" ELSE "damaged"

Replies == {ReplyOf(u) : u \in Upstreams}

\* inject_virtual_tools: a list of tools is completed, anything else is left
Injected(reply) == IF reply = "result" THEN "completed" ELSE reply

\* response_json_result_hash: an error has none, nor has what does not parse
ResultOf(reply) == IF reply \in {"error", "damaged"} THEN None ELSE reply

\* AuditInput of a request, of its caller and its reply
RecordOf(request, reply) == [request |-> request, result |-> ResultOf(reply)]

Line(rec) == [seq |-> store.seq, prev |-> store.latest, rec |-> rec]

\* what follows a line without newline becomes part of it
WithLine(line) ==
    IF tail THEN [file EXCEPT ![Len(file)] = Garbage] ELSE Append(Lines, line)

----------------------------------------------------------------------------
Init ==
    /\ clock = 0
    /\ issued = [t \in Token |-> None]
    /\ process = "down" /\ rules = FALSE
    /\ replay = {} /\ store = None /\ pen = None
    /\ conn = [c \in Conn |-> Idle]
    /\ file = None /\ tail = FALSE /\ synced = 0
    /\ requests = 0 /\ faults = 0
    /\ admitted = [t \in Token |-> 0]
    /\ answered = {} /\ attested = {} /\ failed = FALSE

(* The clock.  MaxRest bounds how long a thread rests between reading it and *)
(* taking the lock of the replay cache (see Admit), which nothing in the code *)
(* does.                                                                      *)
Tick ==
    /\ clock < MaxTime
    /\ \A c \in Conn : conn[c].at = "checking" => clock + 1 =< conn[c].seen + MaxRest
    /\ clock' = clock + 1
    /\ UNCHANGED <<issued, disk, process_vars, conn, requests, faults, past>>

\* sign_service_token in the gateway of a peer, whose clock may run ahead by more
\* than the skew
Sign(t, ahead) ==
    /\ issued[t] = None
    /\ issued' = [issued EXCEPT ![t] = clock + ahead]
    /\ UNCHANGED <<clock, disk, process_vars, conn, requests, faults, past>>

----------------------------------------------------------------------------
(* The process *)

\* run_gateway: NetfilterGuard::install begins by removing what is there
Start ==
    /\ process = "down"
    /\ process' = "starting" /\ rules' = FALSE /\ replay' = {}
    /\ admitted' = [t \in Token |-> 0]
    /\ UNCHANGED <<clock, issued, disk, store, pen, conn, requests, faults,
                   answered, attested, failed>>

InstallRules ==
    /\ process = "starting"
    /\ process' = "guarded" /\ rules' = TRUE
    /\ UNCHANGED <<clock, issued, disk, replay, store, pen, conn, requests, faults, past>>

\* run_server_route and AuditStore::open
OpenStore ==
    /\ process = "guarded"
    /\ IF file # None /\ ~Valid(file)
       THEN process' = "closed" /\ UNCHANGED store
       ELSE /\ process' = IF file = None THEN "opening" ELSE "up"
            /\ store' = PositionOf(Lines)
    /\ UNCHANGED <<clock, issued, disk, rules, replay, pen, conn, requests, faults, past>>

Gone ==
    /\ process' = "down" /\ replay' = {} /\ store' = None /\ pen' = None
    /\ conn' = [c \in Conn |-> Idle]
    /\ faults' = faults + 1

\* killed, which leaves the rules, or stopped, which drops the guard; either
\* way the connections, which run_gateway does not join, end with the process
Die(stopped) ==
    /\ process # "down" /\ faults < MaxFaults
    /\ tail => Torn
    /\ Gone
    /\ rules' = (rules /\ ~stopped)
    /\ failed' = (failed \/ tail)
    /\ UNCHANGED <<clock, issued, disk, requests, admitted, answered, attested>>

\* what was not synced may be lost from the end, or survive in part
PowerLoss ==
    /\ faults < MaxFaults
    /\ Gone
    /\ rules' = FALSE
    /\ \E kept \in synced..Len(Lines) :
          \/ /\ file' = IF kept = 0 THEN None ELSE SubSeq(Lines, 1, kept)
             /\ tail' = (tail /\ kept = Len(Lines))
             /\ tail' => Torn
             /\ synced' = kept
             /\ failed' = (failed \/ tail')
          \/ /\ Torn /\ kept < Len(Lines)
             /\ file' = Append(SubSeq(Lines, 1, kept), Garbage)
             /\ tail' = TRUE
             /\ synced' = kept + 1
             /\ failed' = TRUE
    /\ UNCHANGED <<clock, issued, requests, admitted, answered, attested>>

----------------------------------------------------------------------------
(* Connections *)

\* read_frame and the checks of verify_service_token that need no lock
Connect(c, t) ==
    /\ process = "up" /\ rules /\ conn[c] = Idle
    /\ issued[t] # None
    /\ Exp(t) >= clock /\ issued[t] =< clock + Skew
    /\ conn' = [conn EXCEPT ![c] = [Idle EXCEPT !.at = "checking",
                                                !.token = t, !.seen = clock]]
    /\ UNCHANGED <<clock, issued, disk, process_vars, requests, faults, past>>

\* faulty variant of Fresh: entries go as soon as their token has expired
FreshUntilExpiry(now) == {j \in replay : Exp(j) >= now}

\* ReplayCache::retain: what may still be presented to a slower thread stays
Fresh(now) == {j \in replay : Exp(j) + Skew >= now}

\* ReplayCache::insert, with the time read before the lock was taken
Admit(c) ==
    LET t == conn[c].token
        cache == Fresh(conn[c].seen)
    IN  /\ conn[c].at = "checking"
        /\ IF t \in cache
           THEN /\ replay' = cache
                /\ conn' = [conn EXCEPT ![c] = Idle]
                /\ UNCHANGED admitted
           ELSE /\ replay' = cache \cup {t}
                /\ conn' = [conn EXCEPT ![c].at = "serving"]
                /\ admitted' = [admitted EXCEPT ![t] = @ + 1]
        /\ UNCHANGED <<clock, issued, disk, process, rules, store, pen, requests, faults,
                       answered, attested, failed>>

\* the caller closes, a request cannot be read, or the last one asked for it
HangUp(c) ==
    /\ conn[c].at = "serving"
    /\ conn' = [conn EXCEPT ![c] = Idle]
    /\ UNCHANGED <<clock, issued, disk, process_vars, requests, faults, past>>

\* read_http_request; one without a method is answered at once with an error
\* and leaves no record
Request(c, method) ==
    /\ conn[c].at = "serving" /\ requests < MaxRequests
    /\ requests' = requests + 1
    /\ IF method = "none" THEN UNCHANGED conn
       ELSE conn' = [conn EXCEPT ![c].at = method, ![c].request = requests + 1]
    /\ UNCHANGED <<clock, issued, disk, process_vars, faults, past>>

\* the reply that the connection goes on to record
Replied(c, reply, digest) ==
    conn' = [conn EXCEPT ![c].at = "recording", ![c].reply = reply, ![c].digest = digest]

\* a request for the upstream, whose list of tools is completed
Forward(c, reply) ==
    /\ conn[c].at \in {"other", "tools/list"}
    /\ Replied(c, IF conn[c].at = "other" THEN reply ELSE Injected(reply), <<>>)
    /\ UNCHANGED <<clock, issued, disk, process_vars, requests, faults, past>>

\* virtual_tool_response: audit_status tells the digest, and tee_attest binds
\* it; both read it under the lock. The evidence is collected without it
\* (tee_attest_result), which may fail.
Attest(c, reply) ==
    /\ conn[c].at = "virtual tool" /\ pen = None
    /\ Replied(c, reply, IF reply = "result" THEN store.latest ELSE <<>>)
    /\ UNCHANGED <<clock, issued, disk, process_vars, requests, faults, past>>

\* virtual_tool_response: audit_verify reads the file under the lock
Verify(c) ==
    /\ conn[c].at = "virtual tool" /\ pen = None
    /\ Replied(c, IF Valid(Lines) THEN "valid" ELSE "invalid", <<>>)
    /\ UNCHANGED <<clock, issued, disk, process_vars, requests, faults, past>>

----------------------------------------------------------------------------
(* append_record *)

Wants(who) ==
    \/ who = Route /\ process = "opening"
    \/ who \in Conn /\ conn[who].at = "recording"

\* append_genesis, or append with the input of the connection
Wanted(who) == IF who = Route THEN Genesis ELSE RecordOf(conn[who].request, conn[who].reply)

WriteLine(who) ==
    /\ pen = None /\ Wants(who)
    /\ pen' = [by |-> who, rec |-> Wanted(who)]
    /\ file' = WithLine(Line(Wanted(who)))
    /\ tail' = TRUE
    /\ UNCHANGED <<clock, issued, synced, process, rules, replay, store, conn,
                   requests, faults, past>>

EndLine ==
    /\ pen # None /\ tail
    /\ tail' = FALSE
    /\ UNCHANGED <<clock, issued, file, synced, process_vars, conn, requests,
                   faults, past>>

\* the response is written
Answered(c) ==
    [conn[c] EXCEPT !.at = "serving", !.request = 0, !.reply = "none", !.digest = <<>>]

Told(c) == [request |-> conn[c].request, reply |-> conn[c].reply]

\* sync_all, the new position in memory, and then the answer
SyncLine ==
    /\ pen # None /\ ~tail
    /\ synced' = Len(file)
    /\ store' = [seq |-> store.seq + 1, latest |-> Append(store.latest, pen.rec)]
    /\ pen' = None
    /\ IF pen.by = Route
       THEN process' = "up" /\ UNCHANGED <<conn, answered, attested>>
       ELSE LET c == pen.by
            IN  /\ conn' = [conn EXCEPT ![c] = Answered(c)]
                /\ answered' = answered \cup {Told(c)}
                /\ attested' = attested \cup
                      (IF conn[c].digest # <<>> THEN {conn[c].digest} ELSE {})
                /\ UNCHANGED process
    /\ UNCHANGED <<clock, issued, file, tail, rules, replay, requests, faults,
                   admitted, failed>>

\* faulty variant of AppendFails: the failure is logged and the answer sent
AppendFailsQuietly(partly) ==
    /\ ~partly /\ pen # None /\ pen.by # Route /\ faults < MaxFaults
    /\ tail => Torn
    /\ pen' = None /\ faults' = faults + 1 /\ failed' = TRUE
    /\ conn' = [conn EXCEPT ![pen.by] = Answered(pen.by)]
    /\ answered' = answered \cup {Told(pen.by)}
    /\ UNCHANGED <<clock, issued, disk, process, rules, store, replay, requests,
                   admitted, attested>>

\* a write or fsync fails: the store stays where it was, the answer is
\* withheld and the connection ends; a route without its genesis record ends
AppendFails(partly) ==
    /\ pen # None /\ faults < MaxFaults
    /\ tail => Torn
    /\ IF partly THEN Torn /\ tail /\ file' = [file EXCEPT ![Len(file)] = Garbage]
                 ELSE UNCHANGED file
    /\ pen' = None /\ faults' = faults + 1 /\ failed' = TRUE
    /\ IF pen.by = Route
       THEN process' = "closed" /\ store' = None /\ UNCHANGED conn
       ELSE conn' = [conn EXCEPT ![pen.by] = Idle] /\ UNCHANGED <<process, store>>
    /\ UNCHANGED <<clock, issued, tail, synced, rules, replay, requests,
                   admitted, answered, attested>>

----------------------------------------------------------------------------
Next ==
    \/ Tick
    \/ \E t \in Token : \E ahead \in {0, Skew + 1} : Sign(t, ahead)
    \/ Start \/ InstallRules \/ OpenStore
    \/ \E stopped \in BOOLEAN : Die(stopped)
    \/ PowerLoss
    \/ \E c \in Conn :
          \/ \E t \in Token : Connect(c, t)
          \/ Admit(c) \/ HangUp(c)
          \/ \E method \in Methods : Request(c, method)
          \/ \E reply \in Replies : Forward(c, reply)
          \/ \E reply \in {"result", "error"} : Attest(c, reply)
          \/ Verify(c)
    \/ \E who \in Conn \cup {Route} : WriteLine(who)
    \/ EndLine \/ SyncLine
    \/ \E partly \in BOOLEAN : AppendFails(partly)

Spec == Init /\ [][Next]_vars

----------------------------------------------------------------------------
Names == {"none", "error", "result", "damaged", "completed", "valid", "invalid"}
Record == [request : Nat, result : Names \cup {None}]
Entry == [seq : Nat, prev : Seq(Record), rec : Record]
File == Seq(Entry \cup {Garbage})
Position == [seq : Nat, latest : Seq(Record)]
Writing == [by : Conn \cup {Route}, rec : Record]
Connection == [at : {"free", "checking", "serving", "recording"} \cup (Methods \ {"none"}),
               token : Token \cup {None}, seen : Nat, request : Nat, reply : Names,
               digest : Seq(Record)]

ASSUME NoneAssumption == None \notin File \cup Position \cup Writing

TypeOK ==
    /\ clock \in Nat /\ requests \in Nat /\ faults \in Nat
    /\ issued \in [Token -> Nat \cup {None}]
    /\ process \in {"down", "starting", "guarded", "opening", "up", "closed"}
    /\ rules \in BOOLEAN /\ replay \subseteq Token
    /\ conn \in [Conn -> Connection]
    /\ store \in Position \cup {None} /\ pen \in Writing \cup {None}
    /\ file \in File \cup {None} /\ tail \in BOOLEAN /\ synced \in 0..Len(Lines)
    /\ admitted \in [Token -> Nat] /\ failed \in BOOLEAN
    /\ answered \subseteq [request : Nat, reply : Names] /\ attested \subseteq Seq(Record)

(* One process admits a token once (verify_service_token): however the     *)
(* expiry of the cache, the skew of the clocks and two connections that    *)
(* present it at the same time fall together, as long as no thread rests   *)
(* for more than the skew with the time it has read: MaxRest =< Skew. With *)
(* a longer rest it does not hold: counterexample 14 of the README.        *)
AdmittedOnce == \A t \in Token : admitted[t] =< 1

Recorded == {Lines[i].rec : i \in {k \in 1..Len(Lines) : Lines[k] # Garbage}}

(* Whatever was answered has a readable record of that very reply, for     *)
(* ever: the answer waits for fsync (handle_mcp_connection, append_record).*)
AnsweredRecorded == \A a \in answered : RecordOf(a.request, a.reply) \in Recorded

(* A digest that tee_attest has handed out is the hash of a line on disk,  *)
(* whatever fails later: an attested chain is never taken back.            *)
AttestedKept ==
    \A d \in attested : \E i \in 1..Len(Lines) :
        Lines[i] # Garbage /\ Hash(Lines[i]) = d

(* What a caller has been told, a result or a digest, no restart, failed   *)
(* append or loss of power takes from the log.                             *)
ToldStays == AnsweredRecorded /\ AttestedKept

(* No caller gets a part of a response for the whole. It does not hold:    *)
(* what is not chunked ends where the upstream ends, whatever its length.  *)
WholeOrError == \A a \in answered : a.reply # "damaged"

(* The chain in the file verifies unless an append was cut short after it  *)
(* had written: neither concurrent connections, nor restarts, nor the loss *)
(* of unsynced lines break it.                                             *)
ChainIntact == ~failed => Valid(Lines)
=============================================================================
