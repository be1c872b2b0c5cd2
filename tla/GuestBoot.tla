----------------------------- MODULE GuestBoot ------------------------------
(***************************************************************************)
(* How a guest boots: confidential-agentd initrd-fetch                     *)
(* (daemon/src/app.rs) decides the mode, obtains the bootstrap and the     *)
(* disk key from the injected files or from the Trustee KBS under one      *)
(* deadline, and either stages the key or powers the guest off; the rootfs *)
(* daemon then starts in the mode the initrd left in /run.  A fetch from   *)
(* the KBS runs two helper processes (daemon/src/trustee.rs), a token      *)
(* agent and the CDH one-shot.                                             *)
(*                                                                         *)
(* Time is counted down: left is what remains of the deadline, budget what *)
(* remains of one fetch.  The sleeps between attempts are not states.      *)
(***************************************************************************)
EXTENDS Naturals

CONSTANTS
    Timeout,        \* CA_SECRET_WAIT_TIMEOUT_SEC; 0 waits for ever
    CdhTimeout,     \* CA_CDH_ONESHOT_TIMEOUT_SEC
    TokenWait,      \* how long the token agent may take to open its socket
    Absent          \* no file, no resource, nothing staged

ASSUME BootAssumption ==
    /\ Timeout \in Nat /\ CdhTimeout \in Nat \ {0} /\ TokenWait \in Nat \ {0}

Least(a, b) == IF a < b THEN a ELSE b
Resource == {"bootstrap", "disk"}

VARIABLES
    (* outside the guest *)
    userdata,   \* ECS user data: "none" or "runtime"
    cdh,        \* the files the injection service has put under cdh_root
    kbs,        \* what the KBS would release to this guest
    (* the guest *)
    point,      \* where the boot is
    left,       \* InitrdDeadline
    mode,       \* what detect_initrd_runtime found
    want,       \* the resource being waited for
    got,        \* the bytes consumed so far
    staged,     \* /run/cai/secrets/disk_key
    runtime,    \* /run/cai/trustee-runtime.json exists
    measured,   \* the runtime digest is in the event log of the agent in use
    daemonMode, \* the mode of the rootfs daemon, or Absent
    (* a fetch from the KBS *)
    budget,     \* what remains of its timeout
    readyIn,    \* what remains of the wait for the token agent
    agent,      \* the token agent runs
    child,      \* the CDH one-shot: "none", "running", "exited"
    heirs,      \* a descendant of it still holds its output pipes
    answer      \* what it printed, Absent when it failed

outside == <<userdata, cdh, kbs>>
booting == <<point, left, mode, want, got, staged, runtime, measured, daemonMode>>
helpers == <<budget, readyIn, agent, child, heirs, answer>>
guestVars == <<booting, helpers>>

InInitrd == {"detect", "measure", "fetch", "token", "run", "join",
             "validate", "stage", "persist"}
InRootfs == {"load", "register", "serve"}

NothingGot == [r \in Resource |-> Absent]
HelpersIdle ==
    /\ budget' = 0 /\ readyIn' = 0 /\ agent' = FALSE
    /\ child' = "none" /\ heirs' = FALSE /\ answer' = Absent

\* a machine that has just been started: /run is empty
Fresh(at) ==
    /\ point = at /\ left = Timeout /\ mode = "none"
    /\ want = "bootstrap" /\ got = NothingGot
    /\ staged = Absent /\ runtime = FALSE /\ measured = FALSE
    /\ daemonMode = Absent
    /\ budget = 0 /\ readyIn = 0 /\ agent = FALSE
    /\ child = "none" /\ heirs = FALSE /\ answer = Absent
Becomes(at) ==
    /\ point' = at /\ left' = Timeout /\ mode' = "none"
    /\ want' = "bootstrap" /\ got' = NothingGot
    /\ staged' = Absent /\ runtime' = FALSE /\ measured' = FALSE
    /\ daemonMode' = Absent
    /\ HelpersIdle
PowerOn == Becomes("detect") /\ cdh' = NothingGot
PowerOff == Becomes("off") /\ cdh' = NothingGot

----------------------------------------------------------------------------
(* The deadline *)

Expired == Timeout > 0 /\ left = 0

Tick ==
    /\ point \in InInitrd
    /\ left > 0 \/ budget > 0 \/ readyIn > 0
    /\ left' = IF left > 0 THEN left - 1 ELSE 0
    /\ budget' = IF budget > 0 THEN budget - 1 ELSE 0
    /\ readyIn' = IF readyIn > 0 THEN readyIn - 1 ELSE 0
    /\ UNCHANGED <<outside, point, mode, want, got, staged, runtime, measured,
                   daemonMode, agent, child, heirs, answer>>

\* initrd_fail_closed: poweroff is requested, the exec provider fails
FailClosed ==
    /\ point' = "failed"
    /\ HelpersIdle
    /\ UNCHANGED <<left, mode, want, got, staged, runtime, measured,
                   daemonMode>>

\* an attempt has failed: the last one if the deadline is over by then
Retry ==
    IF Expired THEN FailClosed
    ELSE /\ point' = IF point = "measure" THEN "measure" ELSE "fetch"
         /\ HelpersIdle
         /\ UNCHANGED <<left, mode, want, got, staged, runtime, daemonMode>>

\* and no attempt starts after it
OutOfTime ==
    /\ point \in {"measure", "fetch"} /\ Expired
    /\ FailClosed /\ UNCHANGED outside

Consume(bytes) ==
    /\ got' = [got EXCEPT ![want] = bytes]
    /\ IF want = "bootstrap"
       THEN want' = "disk" /\ point' = "fetch"
       ELSE point' = "validate" /\ UNCHANGED want
    /\ HelpersIdle
    /\ UNCHANGED <<left, mode, staged, runtime, measured, daemonMode>>

----------------------------------------------------------------------------
(* detect_initrd_runtime; AAEL *)

\* parse_canonical
Canonical == userdata = "runtime"

\* no user data, or a guest that is not on ECS and is not asked for any
DetectChallenge ==
    /\ userdata = "none"
    /\ mode' = "challenge" /\ point' = "fetch"
    /\ UNCHANGED <<left, want, got, staged, runtime, measured, daemonMode,
                   helpers>>
DetectTrustee ==
    /\ Canonical
    /\ mode' = "trustee" /\ point' = "measure"
    /\ UNCHANGED <<left, want, got, staged, runtime, measured, daemonMode,
                   helpers>>

\* fetch_user_data: the third query has failed too
QueryFails == FailClosed

Detect ==
    /\ point = "detect"
    /\ DetectChallenge \/ DetectTrustee \/ QueryFails
    /\ UNCHANGED outside

\* three posts; the answer to one that was recorded may be lost
Measure ==
    /\ point = "measure" /\ ~Expired
    /\ \/ /\ measured' = TRUE /\ point' = "fetch"
          /\ UNCHANGED <<left, mode, want, got, staged, runtime, daemonMode,
                         helpers>>
       \/ measured' \in {measured, TRUE} /\ Retry
    /\ UNCHANGED outside

----------------------------------------------------------------------------
(* The resources *)

\* wait_for_resource: an empty file is one still being written
ReadInjected ==
    /\ point = "fetch" /\ mode = "challenge" /\ ~Expired
    /\ cdh[want] # Absent
    /\ Consume(cdh[want])
    /\ UNCHANGED outside

\* the configured timeout, but no longer than the boot has
ConfiguredTimeout == CdhTimeout
FetchTimeout == IF Timeout > 0 THEN Least(left, CdhTimeout) ELSE CdhTimeout

\* fetch_physical_resource
StartAgent ==
    /\ point = "fetch" /\ mode = "trustee" /\ ~Expired
    /\ budget' = FetchTimeout
    /\ readyIn' = Least(budget', TokenWait)
    /\ agent' = TRUE
    /\ point' = "token"
    /\ UNCHANGED <<outside, left, mode, want, got, staged, runtime, measured,
                   daemonMode, child, heirs, answer>>

AgentReady ==
    /\ point = "token" /\ budget > 0
    /\ child' = "running" /\ point' = "run"
    /\ UNCHANGED <<outside, left, mode, want, got, staged, runtime, measured,
                   daemonMode, budget, readyIn, agent, heirs, answer>>

\* it exits, is not ready in time, or leaves no time; Drop kills it
AgentFails ==
    /\ point = "token"
    /\ Retry /\ UNCHANGED <<outside, measured>>

\* the one-shot may start others that share its pipes
ChildForks ==
    /\ child = "running" /\ heirs' = TRUE
    /\ UNCHANGED <<outside, booting, budget, readyIn, agent, child, answer>>

\* it prints what the KBS releases to a guest with this event log
ChildExits ==
    /\ child = "running" /\ child' = "exited"
    /\ answer' \in {Absent, IF measured THEN kbs[want] ELSE Absent}
    /\ UNCHANGED <<outside, booting, budget, readyIn, agent, heirs>>

ReapLeader ==
    /\ point = "run" /\ child = "exited" /\ point' = "join"
    /\ UNCHANGED <<outside, left, mode, want, got, staged, runtime, measured,
                   daemonMode, budget, readyIn, agent, child, heirs, answer>>

\* run_bounded_command: whatever is left of the process group is killed
\* before the readers are joined
Reap ==
    /\ point = "run" /\ child = "exited"
    /\ heirs' = FALSE /\ point' = "join"
    /\ UNCHANGED <<outside, left, mode, want, got, staged, runtime, measured,
                   daemonMode, budget, readyIn, agent, child, answer>>

KillGroup ==
    /\ point = "run" /\ child = "running" /\ budget = 0
    /\ child' = "exited" /\ heirs' = FALSE /\ answer' = Absent
    /\ point' = "join"
    /\ UNCHANGED <<outside, left, mode, want, got, staged, runtime, measured,
                   daemonMode, budget, readyIn, agent>>

\* the readers end when nobody holds the pipes
Join ==
    /\ point = "join" /\ ~heirs
    /\ IF answer = Absent
       THEN Retry /\ UNCHANGED measured
       ELSE Consume(answer)
    /\ UNCHANGED outside

----------------------------------------------------------------------------
(* initrd_fetch_inner, after both resources *)

Validate ==
    /\ point = "validate"
    /\ IF got["bootstrap"].mode = mode
       THEN /\ point' = "stage"
            /\ UNCHANGED <<left, mode, want, got, staged, runtime, measured,
                           daemonMode, helpers>>
       ELSE FailClosed
    /\ UNCHANGED outside

\* a failure after the write leaves the key staged; the provider fails
Stage ==
    /\ point = "stage"
    /\ staged' = got["disk"]
    /\ point' \in {"persist", "failed"}
    /\ UNCHANGED <<outside, left, mode, want, got, runtime, measured,
                   daemonMode, helpers>>

\* persist_for_rootfs, with Trustee only
Persist ==
    /\ point = "persist"
    /\ \/ runtime' = (mode = "trustee") /\ point' = "unlock"
       \/ mode = "trustee" /\ point' = "failed" /\ UNCHANGED runtime
    /\ UNCHANGED <<outside, left, mode, want, got, staged, measured,
                   daemonMode, helpers>>

----------------------------------------------------------------------------
(* The rootfs: its Attestation Agent starts with an event log of its own *)

\* cat disk_key; the disk opens, and the root is switched
SwitchRoot ==
    /\ point = "unlock"
    /\ point' = "load" /\ measured' = FALSE
    /\ UNCHANGED <<outside, left, mode, want, got, staged, runtime,
                   daemonMode, helpers>>

\* run_daemon, load_rootfs_runtime
LoadRuntime ==
    /\ point = "load"
    /\ daemonMode' = IF runtime THEN "trustee" ELSE "challenge"
    /\ point' = IF runtime THEN "register" ELSE "serve"
    /\ UNCHANGED <<outside, left, mode, want, got, staged, runtime, measured,
                   helpers>>

RegisterIfPossible ==
    /\ point = "register" /\ measured' \in {measured, TRUE} /\ point' = "serve"
    /\ UNCHANGED <<outside, left, mode, want, got, staged, runtime,
                   daemonMode, helpers>>

\* no request to the KBS before this; a failure ends the daemon
Register ==
    /\ point = "register"
    /\ \/ measured' = TRUE /\ point' = "serve"
       \/ measured' \in {measured, TRUE} /\ point' = "load"
    /\ UNCHANGED <<outside, left, mode, want, got, staged, runtime,
                   daemonMode, helpers>>

\* the daemon dies and systemd starts it again
DaemonRestarts ==
    /\ point \in {"register", "serve"}
    /\ point' = "load"
    /\ UNCHANGED <<outside, left, mode, want, got, staged, runtime, measured,
                   daemonMode, helpers>>

Initrd ==
    \/ OutOfTime \/ Detect \/ Measure \/ ReadInjected
    \/ StartAgent \/ AgentReady \/ AgentFails \/ Reap \/ KillGroup \/ Join
    \/ Validate \/ Stage \/ Persist
Rootfs == LoadRuntime \/ Register \/ DaemonRestarts
Child == ChildForks \/ ChildExits

----------------------------------------------------------------------------
(* Properties *)

\* The guest serves in one mode from the initrd on: the one of its user
\* data.  The bootstrap it unlocked with was made for that mode, the rootfs
\* daemon works in it although it learns of it through a file in /run only,
\* and a Trustee daemon serves only once its own event log tells the mode.
OneMode ==
    point \in InRootfs =>
        /\ mode = (IF userdata = "runtime" THEN "trustee" ELSE "challenge")
        /\ got["bootstrap"].mode = mode
        /\ point # "load" => daemonMode = mode
        /\ point = "serve" /\ mode = "trustee" => measured

\* The helper processes belong to one fetch: none outlives it, and the one
\* that is running is given no more time than the boot has.
HelpersBounded ==
    /\ agent => point \in {"token", "run", "join"}
    /\ child = "running" \/ heirs => point = "run"
    /\ Timeout > 0 => budget =< left

\* A boot with a deadline ends, unlocked or powered off, whatever the KBS,
\* the injection service and the helper processes do.
BootEnds == Timeout > 0 /\ point \in InInitrd ~> point \notin InInitrd
=============================================================================
