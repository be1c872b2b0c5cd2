------------------------------ MODULE A2aPeers ------------------------------
(* Agent-to-agent peers: the registry a2a.json on the host, which the a2a
   commands rewrite without any lock (cli/src/app/commands.rs), and the cache
   of fetched AgentCards in the guest daemon (daemon/src/app.rs).  A command
   reads the registry, fetches a preview, writes the registry back, renders the
   bundle and delivers it; deploy renders and delivers it too.  Each round of
   the daemon resolves the peers of its bundle one by one: from the cache, or
   by a fetch that succeeds, is refused or does not get through; then it
   publishes the routes and saves its state.

   What tells two entries of a peer apart is the signer it is pinned to, which
   stands for the fingerprint of alias, URL, scope and pin; a card is a record
   with its signer, and whatever else it announces.                          *)
EXTENDS Naturals

CONSTANTS
    Peer,            \* the entries' keys: alias, or else URL
    Pin,             \* what an entry can be pinned to: a signer, or Anyone
    Anyone,          \* the pin of an entry added without a signer
    Card,            \* cards a peer can publish
    Proc,            \* commands that run at the same time
    None,
    MeshDelivered,   \* whether a mesh bundle was delivered too: a set of answers
    MaxCommands, MaxChanges, MaxFaults   \* bounds

CacheEntry == [pin : Pin, card : Card \cup {None}, due : BOOLEAN]

ASSUME PeersAssumption ==
    /\ None \notin Pin /\ None \notin Card /\ None \notin Peer /\ None \notin CacheEntry
    /\ MeshDelivered \in (SUBSET BOOLEAN) \ {{}}
    /\ {MaxCommands, MaxChanges, MaxFaults} \subseteq Nat

VARIABLES
    registry,    \* a2a.json: the pin of every peer, or None
    bundleFile,  \* a2a-bundle.json on the host
    cmd,         \* what each command is doing
    published,   \* the card each peer serves, or None when it refuses
    sent,        \* the bundle the guest got last
    bundle,      \* the bundle in the guest's resource tree, or None
    cache,       \* a2a_cache of the daemon: an entry, or None
    saved,       \* a2a_cache and obsolete, as in state.json
    pc, round,   \* the daemon's round: its bundle, peers to do, resolved cards
    routes,      \* the cards behind the listeners of TNG and the directory
    obsolete,    \* history: cards that may not be used before they are fetched again
    spent

host == <<registry, bundleFile, cmd, sent>>
guest == <<cache, saved, pc, round, routes, obsolete>>
vars == <<host, guest, published, bundle, spent>>

Nobody == [p \in Peer |-> None]
Ready == [step |-> "ready", peer |-> None, pin |-> None, seen |-> Nobody]
NoRound == [bundle |-> Nobody, todo |-> {}, cards |-> Nobody]
Peers(b) == {p \in Peer : b[p] # None}
Spend(what) == spent' = [spent EXCEPT ![what] = @ + 1]

-----------------------------------------------------------------------------
(* The host *)

Step(c, step) == cmd' = [cmd EXCEPT ![c].step = step]
Carry(c, step, b) ==
    cmd' = [cmd EXCEPT ![c] = [step |-> step, peer |-> None, pin |-> None, seen |-> b]]
Begin(c, step, p, pin) ==
    /\ cmd[c].step = "ready"
    /\ cmd' = [cmd EXCEPT ![c] = [step |-> step, peer |-> p, pin |-> pin, seen |-> registry]]
    /\ UNCHANGED <<registry, bundleFile, sent, guest, published, bundle>>

\* cmd_a2a reads the registry, refuses what does not fit it and fetches a preview
Add(c) ==
    /\ spent.commands < MaxCommands /\ Spend("commands")
    /\ \E p \in Peer, pin \in Pin : registry[p] = None /\ Begin(c, "write", p, pin)
Remove(c) ==
    /\ spent.commands < MaxCommands /\ Spend("commands")
    /\ \E p \in Peer : registry[p] # None /\ Begin(c, "write", p, None)
\* deploy only renders and delivers the bundle
Deploy(c) ==
    /\ spent.commands < MaxCommands /\ Spend("commands")
    /\ Begin(c, "render", None, None)
\* a2a sync, once the operator sees that the guest has another bundle
Sync(c) ==
    /\ \A d \in Proc : cmd[d].step = "ready"
    /\ sent # registry
    /\ Begin(c, "write", None, None) /\ UNCHANGED spent

\* write_a2a_state: the registry as it was read, with the entry changed
WriteRegistry(c) ==
    /\ cmd[c].step = "write"
    /\ registry' = [p \in Peer |-> IF p = cmd[c].peer THEN cmd[c].pin ELSE cmd[c].seen[p]]
    /\ Step(c, "render")
    /\ UNCHANGED <<bundleFile, sent, guest, published, bundle, spent>>

\* sync_a2a_bundle: read the registry, replace the file, send the file
Render(c) ==
    /\ cmd[c].step = "render"
    /\ Carry(c, "bundle", registry)
    /\ UNCHANGED <<registry, bundleFile, sent, guest, published, bundle, spent>>
WriteBundle(c) ==
    /\ cmd[c].step = "bundle"
    /\ bundleFile' = cmd[c].seen
    /\ Step(c, "inject")
    /\ UNCHANGED <<registry, sent, guest, published, bundle, spent>>
Inject(c) ==
    /\ cmd[c].step = "inject"
    /\ Carry(c, "arrive", bundleFile)
    /\ UNCHANGED <<registry, bundleFile, sent, guest, published, bundle, spent>>
Arrive(c) ==
    /\ cmd[c].step = "arrive"
    /\ sent' = cmd[c].seen /\ bundle' = cmd[c].seen
    /\ cmd' = [cmd EXCEPT ![c] = Ready]
    /\ UNCHANGED <<registry, bundleFile, guest, published, spent>>

\* A command dies, or its delivery is refused
DieOnHost(c) ==
    /\ cmd[c].step # "ready"
    /\ spent.faults < MaxFaults /\ Spend("faults")
    /\ cmd' = [cmd EXCEPT ![c] = Ready]
    /\ UNCHANGED <<registry, bundleFile, sent, guest, published, bundle>>

HostStep(c) == WriteRegistry(c) \/ Render(c) \/ WriteBundle(c) \/ Inject(c) \/ Arrive(c)

-----------------------------------------------------------------------------
(* The peers *)

\* A peer publishes another card, or withdraws it
Publish ==
    /\ spent.changes < MaxChanges /\ Spend("changes")
    /\ \E p \in Peer, card \in Card \cup {None} :
          published[p] # card /\ published' = [published EXCEPT ![p] = card]
    /\ UNCHANGED <<host, guest, bundle>>

\* fetch_verified_agent_card: the signature is verified when a signer is pinned
Accepts(pin, card) == card # None /\ pin \in {Anyone, card.signer}

-----------------------------------------------------------------------------
(* The guest daemon *)

\* An entry is used for a while (next_refresh_unix), then fetched again
Entry(pin, card) == [pin |-> pin, card |-> card, due |-> FALSE]
UsableLong(entry, pin) == entry # None /\ entry.pin = pin
Usable(entry, pin) == entry # None /\ entry.pin = pin /\ ~entry.due

\* read_daemon_state; time has passed since it was written
Start ==
    /\ pc = "down"
    /\ \E due \in SUBSET {p \in Peer : saved.cache[p] # None} :
          cache' = [p \in Peer |-> IF p \in due THEN [saved.cache[p] EXCEPT !.due = TRUE]
                                   ELSE saved.cache[p]]
    /\ obsolete' = saved.obsolete
    /\ pc' = "idle"
    /\ UNCHANGED <<host, saved, round, routes, published, bundle, spent>>

Tick(p) ==
    /\ cache[p] # None /\ ~cache[p].due
    /\ cache' = [cache EXCEPT ![p].due = TRUE]
    /\ UNCHANGED <<host, saved, pc, round, routes, obsolete, published, bundle, spent>>

Cached(ps) == {<<p, cache[p].card>> : p \in {q \in ps : cache[q] # None /\ cache[q].card # None}}

\* sync_mesh reads the bundle.  Without one the cache is cleared; with an empty
\* one and no mesh the empty configuration is published at once.
ReadBundle ==
    /\ pc = "idle"
    /\ LET b == IF bundle = None THEN Nobody ELSE bundle IN
       \E mesh \in MeshDelivered :
          /\ round' = [bundle |-> b, todo |-> Peers(b), cards |-> Nobody]
          /\ cache' = IF bundle = None THEN Nobody
                      ELSE IF ~mesh /\ Peers(b) = {} THEN cache
                      ELSE [p \in Peer |-> IF p \in Peers(b) THEN cache[p] ELSE None]
          /\ obsolete' = obsolete \cup Cached(Peer \ Peers(b))
    /\ pc' = "resolve"
    /\ UNCHANGED <<host, saved, routes, published, bundle, spent>>

\* resolve_a2a_peer
Todo(p) == pc = "resolve" /\ p \in round.todo
Resolved(p, entry, card) ==
    /\ cache' = [cache EXCEPT ![p] = entry]
    /\ round' = [round EXCEPT !.todo = @ \ {p}, !.cards[p] = card]
    /\ UNCHANGED <<host, saved, pc, routes, published, bundle>>

UseCache(p) ==
    /\ Todo(p) /\ Usable(cache[p], round.bundle[p])
    /\ Resolved(p, cache[p], cache[p].card)
    /\ UNCHANGED <<obsolete, spent>>

Fetching(p) == Todo(p) /\ ~Usable(cache[p], round.bundle[p])
FetchCard(p) ==
    /\ Fetching(p) /\ Accepts(round.bundle[p], published[p])
    /\ Resolved(p, Entry(round.bundle[p], published[p]), published[p])
    /\ obsolete' = obsolete \ {<<p, published[p]>>} /\ UNCHANGED spent
KeepRefused(p) ==
    /\ Fetching(p) /\ ~Accepts(round.bundle[p], published[p])
    /\ LET card == IF cache[p] = None THEN None ELSE cache[p].card IN
       Resolved(p, Entry(round.bundle[p], card), card)
    /\ obsolete' = obsolete \cup Cached({p}) /\ UNCHANGED spent
\* Refused, gone or not acceptable: the cached card is forgotten
FetchRefused(p) ==
    /\ Fetching(p) /\ ~Accepts(round.bundle[p], published[p])
    /\ Resolved(p, Entry(round.bundle[p], None), None)
    /\ obsolete' = obsolete \cup Cached({p}) /\ UNCHANGED spent
\* The peer cannot be reached: the cached card goes on, for the present pin
FetchFails(p) ==
    /\ Fetching(p)
    /\ spent.faults < MaxFaults /\ Spend("faults")
    /\ LET card == IF cache[p] = None THEN None ELSE cache[p].card IN
       Resolved(p, Entry(round.bundle[p], card), card)
    /\ UNCHANGED obsolete

\* The directory and TNG follow the round
PublishRoutes ==
    /\ pc = "resolve" /\ round.todo = {}
    /\ routes' = round.cards
    /\ pc' = "save"
    /\ UNCHANGED <<host, cache, saved, round, obsolete, published, bundle, spent>>
\* Something before or while publishing fails
FailRound ==
    /\ pc = "resolve"
    /\ spent.faults < MaxFaults /\ Spend("faults")
    /\ pc' = "save"
    /\ UNCHANGED <<host, cache, saved, round, routes, obsolete, published, bundle>>

\* write_daemon_state at the end of the round
Save ==
    /\ pc = "save"
    /\ saved' = [cache |-> cache, obsolete |-> obsolete]
    /\ round' = NoRound
    /\ pc' = "idle"
    /\ UNCHANGED <<host, cache, routes, obsolete, published, bundle, spent>>

\* The daemon dies, or the guest loses power and with it the resource tree
Die ==
    /\ pc # "down"
    /\ spent.faults < MaxFaults /\ Spend("faults")
    /\ pc' = "down" /\ cache' = Nobody /\ round' = NoRound /\ obsolete' = {}
    /\ bundle' \in {bundle, None}
    /\ UNCHANGED <<host, saved, routes, published>>
\* What was delivered is fetched again from Trustee or injected once more
Redeliver ==
    /\ bundle = None /\ sent # Nobody
    /\ bundle' = sent
    /\ UNCHANGED <<host, guest, published, spent>>

Init ==
    /\ registry = Nobody /\ bundleFile = Nobody /\ sent = Nobody
    /\ cmd = [c \in Proc |-> Ready]
    /\ published \in [Peer -> Card]
    /\ bundle = None /\ cache = Nobody /\ routes = Nobody /\ obsolete = {}
    /\ saved = [cache |-> Nobody, obsolete |-> {}]
    /\ pc = "idle" /\ round = NoRound
    /\ spent = [commands |-> 0, changes |-> 0, faults |-> 0]

Resolve(p) == UseCache(p) \/ FetchCard(p) \/ FetchRefused(p) \/ FetchFails(p)
Guest == Start \/ ReadBundle \/ (\E p \in Peer : Resolve(p)) \/ PublishRoutes \/ Save
Next ==
    \/ \E c \in Proc : Add(c) \/ Remove(c) \/ Deploy(c) \/ Sync(c) \/ HostStep(c) \/ DieOnHost(c)
    \/ Publish \/ Guest \/ (\E p \in Peer : Tick(p)) \/ FailRound \/ Die \/ Redeliver

Spec == Init /\ [][Next]_vars

\* Commands that were begun go on, the daemon's loop and the clock run, and the
\* operator syncs while the guest has another bundle than the registry.
FairSpec ==
    /\ Spec /\ WF_vars(Guest) /\ WF_vars(Redeliver)
    /\ WF_vars(\E c \in Proc : Sync(c))
    /\ \A c \in Proc : WF_vars(HostStep(c))
    /\ \A p \in Peer : WF_vars(Tick(p))

-----------------------------------------------------------------------------
(* Properties *)

Bundle == [Peer -> Pin \cup {None}]
Cache == [Peer -> CacheEntry \cup {None}]
TypeOK ==
    /\ registry \in Bundle /\ bundleFile \in Bundle /\ sent \in Bundle
    /\ bundle \in Bundle \cup {None}
    /\ cmd \in [Proc -> [step : {"ready", "write", "render", "bundle", "inject", "arrive"},
                         peer : Peer \cup {None}, pin : Pin \cup {None}, seen : Bundle]]
    /\ published \in [Peer -> Card \cup {None}] /\ routes \in [Peer -> Card \cup {None}]
    /\ cache \in Cache /\ obsolete \subseteq Peer \X Card
    /\ saved \in [cache : Cache, obsolete : SUBSET (Peer \X Card)]
    /\ pc \in {"down", "idle", "resolve", "save"}
    /\ round \in [bundle : Bundle, todo : SUBSET Peer, cards : [Peer -> Card \cup {None}]]

\* A card that the peer withdrew or that its pin refused, and the card of a peer
\* that was removed from the bundle, is not used again before it is fetched
\* again - not while the peer cannot be reached, and not after the daemon or the
\* guest went down, once the round that noticed has been saved.
RefusedNotReused == \A p \in Peer : <<p, round.cards[p]>> \notin obsolete

\* A card is used only under a pin that accepts it.
PinChecked == \A p \in Peer :
    round.cards[p] # None => Accepts(round.bundle[p], round.cards[p])

\* Once operators and peers come to rest, whatever was interrupted, the guest
\* serves exactly the peers of the registry whose cards their pins accept, with
\* the cards they publish now: no cache entry, good or bad, and no old bundle
\* lasts for ever.
Wanted(p) == IF registry[p] # None /\ Accepts(registry[p], published[p])
             THEN published[p] ELSE None
EventuallyCurrent == <>[](\A p \in Peer : routes[p] = Wanted(p))

=============================================================================
