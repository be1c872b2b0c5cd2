----------------------------- MODULE MCConnect -----------------------------
EXTENDS Connect

\* per stage, what can be named: only some of it is accepted
MCNamed == {{}, {"release"}, {"release", "key"}, {"cosign"}, {"model"}, {"release", "key", "model"}}

MCPlain ==
    [target |-> "codex", stage |-> "none", harness |-> "none", mode |-> "none", id |-> "none",
     imageId |-> "none", zone |-> "text",
     manifest |-> "none", token |-> "none", variants |-> {"release"}, replicas |-> 1,
     disk |-> {}, references |-> "sample", pep |-> TRUE, dingtalk |-> FALSE,
     interactive |-> FALSE, given |-> {"dashscope", "bucket"}, named |-> {},
     unverified |-> FALSE, force |-> TRUE]

\* what the target of a staged instance cannot do without
MCFor(a) ==
    [a EXCEPT !.id = IF a.stage = "deploy" THEN "plain" ELSE @,
              !.harness = IF a.target = "allinone" /\ a.stage = "deploy" THEN "openclaw" ELSE @]
MCBase ==
    {MCFor([MCPlain EXCEPT !.target = t, !.stage = s, ![x[1]] = x[2],
                           !.references = r, !.named = f, !.unverified = u, !.force = o]) :
        t \in Targets, s \in {"none", "build", "deploy"},
        x \in {<<"replicas", 1>>, <<"replicas", 2>>, <<"disk", {60}>>, <<"disk", {120}>>},
        r \in {"sample", "rekor"}, f \in MCNamed, u \in BOOLEAN, o \in BOOLEAN}
MCArgument ==
    {a \in MCBase :
        /\ "model" \in a.named => a.target = "vllm-inference"
        /\ a.unverified => a.stage = "deploy"}
    \cup {MCFor([MCPlain EXCEPT !.target = t, !.stage = s, ![x[1]] = x[2],
                                !.named = {"release", "key", "model"} \ IF s = "deploy" THEN {} ELSE {"release", "key"}]) :
        t \in Targets, s \in {"none", "build", "deploy"},
        x \in {<<"id", "plain">>, <<"id", "blank">>, <<"manifest", "digest">>, <<"manifest", "short">>,
               <<"token", "long">>, <<"token", "short">>, <<"variants", {}>>, <<"variants", {"debug"}>>,
               <<"variants", {"release", "debug"}>>, <<"pep", FALSE>>, <<"given", {}>>,
               <<"dingtalk", TRUE>>, <<"mode", "cli">>, <<"imageId", "cloud">>,
               <<"imageId", "bad">>, <<"zone", "blank">>}}
    \cup {MCFor([MCPlain EXCEPT !.target = t, !.stage = s, !.given = {"dashscope"},
                                !.dingtalk = TRUE, !.interactive = TRUE, !.named = {"model"}]) :
        t \in {"openclaw", "openclaw-vllm", "vllm-inference"}, s \in {"none", "build"}}
    \cup {[MCPlain EXCEPT !.target = "allinone", !.stage = "deploy", !.id = "plain", !.harness = h,
                          !.mode = m, !.named = {"release", "key"}, !.replicas = n] :
        h \in Harnesses \cup {"none"}, m \in {"none", "cli", "gateway", "app-server"}, n \in {1, 2}}

MCInside == {{}, {"release"}, {"key"}, {"cosign"}, {"model"}}

MCA2a(description, interfaces, signing) ==
    {[enabled |-> TRUE, name |-> "text", description |-> description, ttl |-> 1,
      interfaces |-> interfaces, signing |-> signing]}
MCUnsigned == [required |-> FALSE, keyless |-> FALSE, issuer |-> "blank", subject |-> "blank"]
MCSigned == [required |-> TRUE, keyless |-> TRUE, issuer |-> "text", subject |-> "text"]

MCEdited ==
    [connect |-> {<<>>, <<[port |-> 1, encryption |-> "ohttp"]>>,
                  <<[port |-> 1, encryption |-> "rats-tls"], [port |-> 2, encryption |-> "ohttp"]>>},
     ports |-> {<<>>, <<1, 2>>, <<1, 1>>, <<0, 1>>},
     replicas |-> {0, 1, 2},
     slb |-> {{}, {[enabled |-> TRUE, type |-> "alb"]}, {[enabled |-> TRUE, type |-> "nlb"]}},
     disk |-> {{}, {10}, {32}},
     resize |-> {{}, {[number |-> 32, unit |-> "GB"]}, {[number |-> 33, unit |-> "GiB"]},
                 {[number |-> 35, unit |-> "GB"]}},
     variant |-> {"release", "debug"},
     rekor |-> {{}, {[required |-> TRUE, key |-> FALSE]}},
     id |-> {"blank", "default"}, mode |-> {"trustee"}, app |-> {{}, {"blank"}}, zone |-> {"blank"},
     imageName |-> {"blank"}, packages |-> {<<"xz">>, <<"git", "xz-utils">>},
     repos |-> {<<[name |-> "os", https |-> FALSE]>>,
                <<[name |-> "os", https |-> TRUE], [name |-> "os", https |-> TRUE]>>},
     sources |-> {{}, {"blank"}}, releaseKey |-> {TRUE},
     resources |-> {{[name |-> "config", source |-> "blank", absolute |-> TRUE]},
                    {[name |-> "data_passphrase", source |-> "config", absolute |-> TRUE]}},
     a2a |-> {{}} \cup {MCA2a(d, i, s) : d \in {{}, {"blank"}, {"text"}},
                        i \in {<<>>, <<[port |-> 1, binding |-> "blank"]>>,
                               <<[port |-> 2, binding |-> "text"]>>},
                        s \in {MCUnsigned, MCSigned}}]

MCResolve == [x \in {"a1", "a2", "alb", "dead"} |->
                CASE x = "alb" -> {"a2"} [] x = "dead" -> {} [] OTHER -> {x}]
MCUrl == {[plain |-> TRUE, scheme |-> "https", path |-> "agent-card", host |-> h, port |-> 443] :
            h \in {"a1", "a2", "dead"}}

\* two services with the same port; one with a balancer, one without reference
\* values, one that is stopped
MCService(id, phase, slb) ==
    [id |-> id, phase |-> phase, connect |-> <<[port |-> 1, encryption |-> "rats-tls"]>>,
     ip |-> "a1", slb |-> slb, replicas |-> <<"a1", "a2">>]
MCHost(s, sample) == [services |-> s, bundle |-> TRUE, sample |-> sample, rekor |-> {}]
MCHostState ==
    {MCHost(<<MCService("s1", "active", "blank"), MCService("s2", "active", "alb")>>, {"s1", "s2"}),
     MCHost(<<MCService("s1", "active", "dead"), MCService("s2", "stopped", "blank")>>, {"s1"}),
     MCHost(<<MCService("s1", "active", "blank")>>, {})}

MCSymmetry == Permutations(Session)
=============================================================================
