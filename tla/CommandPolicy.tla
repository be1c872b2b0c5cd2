--------------------------- MODULE CommandPolicy ---------------------------
(***************************************************************************)
(* cai-pep serve (cai-pep/src/main.rs): agents submit commands over a Unix *)
(* socket, one thread each.  A command that passes the policy runs in a    *)
(* container of its own, or, when it is the attestation helper, beside the *)
(* server.  The client of the container runtime, its container and the     *)
(* thread that waits for both take their steps independently; the runtime  *)
(* is external.                                                            *)
(***************************************************************************)
EXTENDS Naturals, FiniteSets

CONSTANTS
    Request,        \* the requests agents send, in any order
    MaxTime,        \* bound on the clock, in milliseconds as now_ms() reads it
    MaxDeaths,      \* bound on deaths of the server
    None

ASSUME ConstAssumption == MaxTime \in Nat /\ MaxDeaths \in Nat

VARIABLES
    clock,
    pid,        \* process of the server: 0, 1, ...
    listening,  \* the server has bound its socket
    nextId,     \* NEXT_ID of unique_id
    at,         \* where the thread of a request is
    answer,     \* "none", "ok", "bad_request", "failed" or the rule that denies
    name,       \* --name of the container
    client,     \* the runtime's client or the helper: "none", "alive", "dead"
    sandbox,    \* the container of a request
    path,       \* file a request keeps its evidence in
    evidence    \* the evidence files

server == <<clock, pid, listening, nextId>>
work == <<client, sandbox>>
files == <<path, evidence>>
pepVars == <<server, at, answer, name, work, files>>

(* A container: "asked" while the runtime creates it, "created", "running",*)
(* "attached" if it runs and holds the pipes of the client, "exited" until *)
(* --rm has removed it.                                                    *)
Running == {"running", "attached"}
Present == Running \cup {"created", "exited"}
Sandboxes == Present \cup {"none", "asked", "gone"}

(* What the policy looks at.  "allowed" is a directory under an allowed    *)
(* prefix which is not below the workspace.  A command may name the helper *)
(* anywhere; its words are none if its quotes do not match.                *)
Intents == [method : {"submit_intent", "other"}, tool : {"exec", "other"},
            workdir : {"missing", "outside", "allowed", "workspace"},
            denied : {"no", "pattern", "path"},
            names : BOOLEAN,
            words : {"none", "other command", "attest"},
            subcommand : {"collect-and-verify", "other", "missing"},
            options : {"known", "unknown", "without value"}]

\* try_parse_attestation_shell_command and parse_attestation_args
Attestation(i) ==
    IF ~i.names THEN "no"
    ELSE IF i.words = "none" THEN "unparsable"
    ELSE IF i.words = "other command" THEN "no"
    ELSE IF i.subcommand # "collect-and-verify" \/ i.options # "known" THEN "invalid"
    ELSE "valid"

\* handle_intent up to the start of the command; the first rule decides
Verdict(i) ==
    IF i.method # "submit_intent" \/ i.tool # "exec" THEN "bad_request"
    ELSE IF i.workdir = "missing" THEN "fs.invalid_workdir"
    ELSE IF i.workdir = "outside" THEN "fs.workdir_prefix"
    ELSE IF i.denied = "pattern" THEN "command.deny_pattern"
    ELSE IF i.denied = "path" THEN "fs.deny_prefix"
    ELSE IF Attestation(i) = "unparsable" THEN "command.attest_parse"
    ELSE IF Attestation(i) = "invalid" THEN "command.attest_invalid"
    ELSE IF Attestation(i) = "valid" THEN "attest"
    ELSE IF i.workdir # "workspace" THEN "failed"      \* host_to_container_path
    ELSE "docker"

Verdicts == {Verdict(i) : i \in Intents}

----------------------------------------------------------------------------
PepInit ==
    /\ clock = 0 /\ pid = 0 /\ nextId = 0
    /\ listening = FALSE
    /\ at = [r \in Request |-> "idle"]
    /\ answer = [r \in Request |-> "none"]
    /\ name = [r \in Request |-> None]
    /\ client = [r \in Request |-> "none"]
    /\ sandbox = [r \in Request |-> "none"]
    /\ path = [r \in Request |-> None]
    /\ evidence = {}

Tick ==
    /\ clock < MaxTime
    /\ clock' = clock + 1
    /\ UNCHANGED <<pid, listening, nextId, at, answer, name, work, files>>

\* serve: binds the socket, and first removes the file of a dead server
Serve ==
    /\ ~listening
    /\ listening' = TRUE
    /\ nextId' = 0
    /\ UNCHANGED <<clock, pid, at, answer, name, work, files>>

(* The server is killed.  Its threads end; the clients it started and      *)
(* their containers live on and nobody looks for them again.               *)
Die ==
    /\ listening /\ pid < MaxDeaths
    /\ pid' = pid + 1 /\ listening' = FALSE
    /\ at' = [r \in Request |-> IF at[r] \in {"idle", "answered", "shown", "failed"}
                               THEN at[r] ELSE "lost"]
    /\ UNCHANGED <<clock, nextId, answer, name, work, files>>

\* run_submit, or any other client: the arguments make a request, which
\* send_request writes before it shuts its side down
Send(r) ==
    /\ at[r] = "idle" /\ listening
    /\ at' = [at EXCEPT ![r] = "sent"]
    /\ UNCHANGED <<server, answer, name, work, files>>

Answer(r, a) ==
    /\ at' = [at EXCEPT ![r] = "answered"]
    /\ answer' = [answer EXCEPT ![r] = a]

\* the connection is closed without a response
Drop(r) == at' = [at EXCEPT ![r] = "lost"] /\ UNCHANGED answer

\* send_request reads to the end: a response, or nothing, which is no JSON
Receive(r) ==
    /\ at[r] \in {"answered", "lost"}
    /\ at' = [at EXCEPT ![r] = IF at[r] = "answered" THEN "shown" ELSE "failed"]
    /\ UNCHANGED <<server, answer, name, work, files>>

\* handle_stream cannot read the request, or not parse it
Unreadable(r) ==
    /\ at[r] = "sent"
    /\ Drop(r)
    /\ UNCHANGED <<server, name, work, files>>

(* The command is summarized for the log and for two of the refusals, by a *)
(* cut after 120 bytes: a thread panics if that is inside of a character,  *)
(* when the command has long been executed.                                *)
Summarized(r, a) == Answer(r, a) \/ Drop(r)

\* handle_intent ends before it has started anything; intents are arbitrary
Refuse(r) ==
    /\ at[r] = "sent"
    /\ \E v \in Verdicts \ {"docker", "attest"} :
           IF v \in {"command.attest_parse", "command.attest_invalid"}
           THEN Summarized(r, v) ELSE Answer(r, v)
    /\ UNCHANGED <<server, name, work, files>>

\* faulty variant of UniqueId: without the counter
TimeAndProcess == <<clock, pid, 0>>

\* unique_id: milliseconds, process and a counter
UniqueId == <<clock, pid, nextId>>

\* run_exec_in_docker spawns the client with a new name
Launch(r) ==
    /\ at[r] = "sent"
    /\ name' = [name EXCEPT ![r] = UniqueId]
    /\ nextId' = nextId + 1
    /\ \/ /\ client' = [client EXCEPT ![r] = "alive"]
          /\ at' = [at EXCEPT ![r] = "waiting"]
          /\ UNCHANGED answer
       \/ Answer(r, "failed") /\ UNCHANGED client         \* spawn failed
    /\ UNCHANGED <<clock, pid, listening, sandbox, files>>

----------------------------------------------------------------------------
(* The runtime and its clients *)

SetBox(r, b) == sandbox' = [sandbox EXCEPT ![r] = b]

\* the client asks for the container; the runtime serves it without the client
Ask(r) ==
    /\ name[r] # None /\ client[r] = "alive" /\ sandbox[r] = "none"
    /\ SetBox(r, "asked")
    /\ UNCHANGED <<server, at, answer, name, client, files>>

\* a name is given once
Create(r) ==
    /\ sandbox[r] = "asked"
    /\ SetBox(r, IF \E s \in Request \ {r} : name[s] = name[r] /\ sandbox[s] \in Present
                 THEN "none" ELSE "created")
    /\ UNCHANGED <<server, at, answer, name, client, files>>

StartBox(r) ==
    /\ client[r] = "alive" /\ sandbox[r] = "created"
    /\ \E b \in Running : SetBox(r, b)
    /\ UNCHANGED <<server, at, answer, name, client, files>>

Exit(r) ==
    /\ sandbox[r] \in Running
    /\ SetBox(r, "exited")
    /\ UNCHANGED <<server, at, answer, name, client, files>>

AutoRemove(r) ==
    /\ sandbox[r] = "exited"
    /\ SetBox(r, "gone")
    /\ UNCHANGED <<server, at, answer, name, client, files>>

\* the client ends, with its container or because it lost the runtime
ClientEnds(r) ==
    /\ name[r] # None /\ client[r] = "alive"
    /\ client' = [client EXCEPT ![r] = "dead"]
    /\ UNCHANGED <<server, at, answer, name, sandbox, files>>

----------------------------------------------------------------------------
(* run_command_and_capture_with_cleanup *)

\* faulty variant of Ended: the container is thought to end with its client
EndedWithout(r) ==
    /\ at[r] = "waiting" /\ client[r] = "dead"
    /\ at' = [at EXCEPT ![r] = "joining"]
    /\ UNCHANGED <<server, answer, name, work, files>>

\* try_wait finds that the client has ended
Ended(r) ==
    /\ at[r] = "waiting" /\ client[r] = "dead"
    /\ at' = [at EXCEPT ![r] = "removing"]
    /\ UNCHANGED <<server, answer, name, work, files>>

\* faulty variant of Expire: the readers are joined before the removal
ExpireAndJoin(r) ==
    /\ at[r] = "waiting" /\ client[r] = "alive"
    /\ client' = [client EXCEPT ![r] = "dead"]
    /\ at' = [at EXCEPT ![r] = "joining"]
    /\ UNCHANGED <<server, answer, name, sandbox, files>>

\* the time is up: kill and wait for the client, then stop its container
Expire(r) ==
    /\ at[r] = "waiting" /\ client[r] = "alive"
    /\ client' = [client EXCEPT ![r] = "dead"]
    /\ at' = [at EXCEPT ![r] = "removing"]
    /\ UNCHANGED <<server, answer, name, sandbox, files>>

\* the containers that rm --force finds under the name
Named(r) == {s \in Request : name[s] = name[r] /\ sandbox[s] \in Present}
Removed(r) == [s \in Request |-> IF s \in Named(r) THEN "gone" ELSE sandbox[s]]

\* remove_sandbox: removed, or there is no container of this name
Remove(r) ==
    /\ at[r] = "removing"
    /\ sandbox' = Removed(r)
    /\ at' = [at EXCEPT ![r] = "joining"]
    /\ UNCHANGED <<server, answer, name, client, files>>

\* remove_sandbox fails or does not end within its deadline; the removal may
\* go through all the same
RemoveFails(r) ==
    /\ at[r] = "removing"
    /\ sandbox' \in {sandbox, Removed(r)}
    /\ Answer(r, "failed")
    /\ UNCHANGED <<server, name, client, files>>

\* spawn_capped_reader ends when nobody holds the other end of its pipe
Join(r) ==
    /\ at[r] = "joining"
    /\ client[r] = "dead" /\ sandbox[r] # "attached"
    /\ Summarized(r, "ok")
    /\ UNCHANGED <<server, name, work, files>>

----------------------------------------------------------------------------
(* execute_attestation_request.  The helper is started up to three times,  *)
(* and killed when its time is up; it has no container and no children.    *)

\* the policy and the reference values are loaded, or a warning says why not
Prepare(r) ==
    /\ at[r] = "sent"
    /\ path' = [path EXCEPT ![r] = <<clock, pid>>]
    /\ at' = [at EXCEPT ![r] = "fetching"]
    /\ UNCHANGED <<server, answer, name, work, evidence>>

\* get-evidence: written, an exit code that is not 0, or not started
Fetch(r) ==
    /\ at[r] = "fetching"
    /\ \/ /\ at' = [at EXCEPT ![r] = "verifying"]
          /\ evidence' = evidence \cup {path[r]}
          /\ UNCHANGED answer
       \/ Summarized(r, "ok") /\ evidence' = evidence \ {path[r]}
       \/ Answer(r, "failed") /\ UNCHANGED evidence
    /\ UNCHANGED <<server, name, work, path>>

\* verify: its output is the answer whatever it found, unless it cannot start
Verify(r) ==
    /\ at[r] = "verifying"
    /\ \/ Summarized(r, "ok") /\ evidence' = evidence \ {path[r]}
       \/ Answer(r, "failed") /\ UNCHANGED evidence
    /\ UNCHANGED <<server, name, work, path>>

----------------------------------------------------------------------------
Thread(r) ==
    \/ Unreadable(r) \/ Refuse(r) \/ Launch(r) \/ Ended(r) \/ Expire(r)
    \/ Remove(r) \/ RemoveFails(r) \/ Join(r)
    \/ Prepare(r) \/ Fetch(r) \/ Verify(r)

Runtime(r) ==
    Ask(r) \/ Create(r) \/ StartBox(r) \/ Exit(r) \/ AutoRemove(r) \/ ClientEnds(r)

PepNext ==
    \/ Tick \/ Serve \/ Die
    \/ \E r \in Request : Send(r) \/ Receive(r) \/ Thread(r) \/ Runtime(r)

(* A thread is scheduled, its deadlines pass and the removal has one of    *)
(* its own; so is the one that waits for the response.  Nothing is assumed *)
(* of the command, its client or the runtime.                              *)
PepSpec == PepInit /\ [][PepNext]_pepVars
             /\ \A r \in Request : WF_pepVars(Thread(r)) /\ WF_pepVars(Receive(r))

----------------------------------------------------------------------------
Name == Nat \X Nat \X Nat

ASSUME NoneAssumption == None \notin Name

PepTypeOK ==
    /\ clock \in Nat /\ pid \in Nat /\ nextId \in Nat
    /\ listening \in BOOLEAN
    /\ at \in [Request -> {"idle", "sent", "waiting", "removing", "joining",
                           "fetching", "verifying", "answered", "lost",
                           "shown", "failed"}]
    /\ answer \in [Request -> {"none", "ok"} \cup Verdicts]
    /\ name \in [Request -> Name \cup {None}]
    /\ client \in [Request -> {"none", "alive", "dead"}]
    /\ sandbox \in [Request -> Sandboxes]
    /\ path \in [Request -> (Nat \X Nat) \cup {None}]

\* An answer with a result means that the command is over: its container does
\* not run and will not.  A container that may still run is answered as failed
\* ("removal is unconfirmed"), in whatever order the client, the runtime and
\* the deadline act.
StoppedOrReported ==
    \A r \in Request :
        answer[r] = "ok" => sandbox[r] \notin Running /\ client[r] # "alive"

\* The removal at the end of one request stops no container of another one,
\* although all are removed by name and the names are made from a clock that
\* two requests read in the same millisecond.
OthersKeepRunning ==
    [][\A r \in Request :
        sandbox[r] \in Running /\ sandbox'[r] = "gone" => at[r] = "removing"]_pepVars

\* Whoever has sent a request does not wait for ever, be it for a response or
\* for the end of the connection: neither a command without end, nor a
\* container that holds the pipes, nor a runtime that does not answer, nor the
\* death of the server or of one of its threads keeps it waiting.
EventuallyAnswered ==
    \A r \in Request : at[r] = "sent" ~> at[r] \in {"shown", "failed"}

\* What is executed is reported, unless the server dies. It does not hold: see
\* Summarized.
ExecutedIsReported ==
    \A r \in Request : name[r] # None /\ at[r] \in {"lost", "failed"} => pid > 0

============================================================================
