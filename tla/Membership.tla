----------------------------- MODULE Membership -----------------------------
(***************************************************************************)
(* Who changes the default balancer's backends while the proxy runs: DNS   *)
(* discovery, Kubernetes discovery (internal/discovery), and reloads of    *)
(* the configuration by signal, by POST /reload or by the file watcher     *)
(* (internal/server/server.go). Each Add, Remove and UpdateWeight is one   *)
(* step under the balancer's lock; a sync and a reload are many.           *)
(*                                                                         *)
(* A backend object is a pair of its creator and its URL: no two live      *)
(* objects agree in both. A failed lookup, list or stat changes nothing    *)
(* and is a stutter; the back-off after it is only a delay.                *)
(***************************************************************************)
EXTENDS Integers, Sequences, FiniteSets, TLC

CONSTANTS
    Configs,          \* contents of the file: backends (URL -> weight), route
    FirstConfig,      \* the one the process started with
    DnsUrl, KubeUrl,  \* URLs that discovery may find
    Parts,            \* the sets of parts to run together
    MaxChanges        \* bound: changes of each of file, DNS and cluster

VARIABLES
    parts,
    fleet,      \* BaseBalancer.backends: object -> weight
    disc,       \* each discoverer: position, desired set, owned map
    zone,       \* what DNS answers
    cluster,    \* the Endpoints object
    feed,       \* events the API server has yet to send on the watch
    tokenOk,    \* kd.token is the one the API server accepts
    file,       \* the configuration file: stamp, content, whether it loads
    baseline,   \* lastMod and lastSize of the watcher
    callers,    \* goroutines waiting for reloadMu
    reload,     \* the one that holds it
    cfg,        \* s.cfg.Backends and s.cfg.Routes
    routes,     \* the router's table
    changes     \* how often each of file, DNS and cluster changed

discVars == <<disc, zone, cluster, feed, tokenOk>>
fileVars == <<file, baseline, callers, reload, cfg, routes>>
memVars == <<parts, fleet, discVars, fileVars, changes>>

NoTable == [group |-> "none", host |-> "none"]  \* no routes, and so no router
NoReload == [by |-> "none", new |-> FirstConfig, existing |-> {}, todo |-> {}]

Of(who) == {o \in DOMAIN fleet : o[1] = who}
Without(f, o) == [x \in DOMAIN f \ {o} |-> f[x]]

MemInit ==
    /\ parts \in Parts
    /\ fleet = [o \in {"config"} \X DOMAIN FirstConfig.backends |-> FirstConfig.backends[o[2]]]
    /\ disc = [w \in {"dns", "kube"} |-> [at |-> "rest", desired |-> {}, owned |-> {}]]
    /\ zone = {}
    /\ cluster = [exists |-> TRUE, urls |-> {}]
    /\ feed = <<>>
    /\ tokenOk = TRUE
    /\ file = [stamp |-> 0, content |-> FirstConfig, loads |-> TRUE]
    /\ baseline = 0
    /\ callers = {}
    /\ reload = NoReload
    /\ cfg = FirstConfig
    /\ routes = FirstConfig.route
    /\ changes = [x \in {"file", "zone", "cluster"} |-> 0]

-----------------------------------------------------------------------------
(* Discovery.                                                              *)

\* Discoverer.resolve: the answer a sync works from.
Resolve ==
    /\ disc["dns"].at = "rest"
    /\ disc' = [disc EXCEPT !["dns"].at = "sync", !["dns"].desired = zone]
    /\ UNCHANGED <<parts, fleet, zone, cluster, feed, tokenOk, fileVars, changes>>

\* Discoverer.sync and KubernetesDiscovery.sync: the additions, one by one.
SyncAdd(w, u) ==
    /\ disc[w].at = "sync" /\ u \in disc[w].desired \ disc[w].owned
    /\ fleet' = (<<w, u>> :> 1) @@ fleet
    /\ disc' = [disc EXCEPT ![w].owned = @ \cup {u}]
    /\ UNCHANGED <<parts, zone, cluster, feed, tokenOk, fileVars, changes>>

\* Mutant: the object is forgotten without being taken out.
SyncForget(w, u) ==
    /\ disc[w].at = "sync" /\ disc[w].desired \subseteq disc[w].owned
    /\ u \in disc[w].owned \ disc[w].desired
    /\ disc' = [disc EXCEPT ![w].owned = @ \ {u}]
    /\ UNCHANGED <<parts, fleet, zone, cluster, feed, tokenOk, fileVars, changes>>

\* Mutant: backends are taken out by URL.
SyncRemoveByUrl(w, u) ==
    /\ disc[w].at = "sync" /\ disc[w].desired \subseteq disc[w].owned
    /\ u \in disc[w].owned \ disc[w].desired
    /\ fleet' = [o \in {o \in DOMAIN fleet : o[2] # u} |-> fleet[o]]
    /\ disc' = [disc EXCEPT ![w].owned = @ \ {u}]
    /\ UNCHANGED <<parts, zone, cluster, feed, tokenOk, fileVars, changes>>

\* ... then the removals, also of removeAll. Remove of an object that is not
\* there does nothing.
SyncRemove(w, u) ==
    /\ disc[w].at = "sync" /\ disc[w].desired \subseteq disc[w].owned
    /\ u \in disc[w].owned \ disc[w].desired
    /\ fleet' = Without(fleet, <<w, u>>)
    /\ disc' = [disc EXCEPT ![w].owned = @ \ {u}]
    /\ UNCHANGED <<parts, zone, cluster, feed, tokenOk, fileVars, changes>>

\* DNS waits for its ticker; Kubernetes goes on to the watch.
SyncDone(w) ==
    /\ disc[w].at = "sync" /\ disc[w].owned = disc[w].desired
    /\ disc' = [disc EXCEPT ![w].at = IF w = "dns" THEN "rest" ELSE "watch", ![w].desired = {}]
    /\ UNCHANGED <<parts, fleet, zone, cluster, feed, tokenOk, fileVars, changes>>


\* A list, or the opening of a watch, that is answered with 401: the token is
\* read again from its file and the loop lists anew.
Denied ==
    /\ disc["kube"].at \in {"rest", "watch"} /\ ~tokenOk
    /\ tokenOk' = TRUE
    /\ disc' = [disc EXCEPT !["kube"].at = "rest"]
    /\ UNCHANGED <<parts, fleet, zone, cluster, feed, fileVars, changes>>

\* listAndSync: an object that does not exist is an error, and nothing more.
\* The watch opened next starts from the version listed.
List ==
    /\ disc["kube"].at = "rest" /\ tokenOk /\ cluster.exists
    /\ disc' = [disc EXCEPT !["kube"].at = "sync", !["kube"].desired = cluster.urls]
    /\ feed' = <<>>
    /\ UNCHANGED <<parts, fleet, zone, cluster, tokenOk, fileVars, changes>>

\* watchStream: ADDED and MODIFIED carry the addresses, DELETED removes all.
WatchEvent ==
    /\ disc["kube"].at = "watch" /\ feed # <<>>
    /\ disc' = [disc EXCEPT !["kube"].at = "sync", !["kube"].desired = Head(feed)]
    /\ feed' = Tail(feed)
    /\ UNCHANGED <<parts, fleet, zone, cluster, tokenOk, fileVars, changes>>

\* The stream ends, by the server or by an error, with events unsent.
StreamEnd ==
    /\ disc["kube"].at = "watch"
    /\ disc' = [disc EXCEPT !["kube"].at = "rest"]
    /\ feed' = <<>>
    /\ UNCHANGED <<parts, fleet, zone, cluster, tokenOk, fileVars, changes>>

-----------------------------------------------------------------------------
(* Reloads.                                                                *)

\* A tick of startConfigWatch that finds another stamp.
Poll ==
    /\ callers \cap {"watch"} = {} /\ reload.by # "watch"
    /\ file.stamp # baseline
    /\ baseline' = file.stamp
    /\ callers' = callers \cup {"watch"}
    /\ UNCHANGED <<parts, fleet, discVars, file, reload, cfg, routes, changes>>

\* SIGHUP or POST /reload.
Signal ==
    /\ callers \cap {"signal"} = {} /\ reload.by # "signal"
    /\ callers' = callers \cup {"signal"}
    /\ UNCHANGED <<parts, fleet, discVars, file, baseline, reload, cfg, routes, changes>>

\* reloadConfig from the lock to the diff: a file that does not load ends it.
\* todo holds the URLs to add or weigh, then the objects to remove.
Reload(c) ==
    /\ c \in callers /\ reload.by = "none"
    /\ callers' = callers \ {c}
    /\ IF ~file.loads THEN UNCHANGED reload
       ELSE reload' = [by |-> c, new |-> file.content, existing |-> DOMAIN fleet,
                       todo |-> DOMAIN file.content.backends]
    /\ UNCHANGED <<parts, fleet, discVars, file, baseline, cfg, routes, changes>>

\* applyBackendChanges, the first loop: a URL found among the live objects,
\* whoever made them, gets its weight; another gets an object.
Apply(u) ==
    LET live == {o \in reload.existing : o[2] = u}
        w == reload.new.backends[u]
    IN
    /\ u \in reload.todo
    /\ IF live = {} THEN fleet' = (<<"config", u>> :> w) @@ fleet
       ELSE \E o \in live : fleet' = IF o \in DOMAIN fleet THEN [fleet EXCEPT ![o] = w] ELSE fleet
    /\ reload' = [reload EXCEPT !.todo = @ \ {u}]
    /\ UNCHANGED <<parts, discVars, file, baseline, callers, cfg, routes, changes>>

Undesired == {o \in reload.existing : o[2] \notin DOMAIN reload.new.backends}

\* ... the second loop: every live object whose URL is not in the file goes,
\* with its circuit-breaker state.
Drop(o) ==
    /\ reload.by # "none" /\ reload.todo = {} /\ o \in Undesired
    /\ fleet' = Without(fleet, o)
    /\ reload' = [reload EXCEPT !.existing = @ \ {o}]
    /\ UNCHANGED <<parts, discVars, file, baseline, callers, cfg, routes, changes>>

\* routeGroupsEqual compares prefixes, algorithms and backends only.
SameGroups(r1, r2) == r1.group = r2.group


\* The rest of reloadConfig.
Finish ==
    /\ reload.by # "none" /\ reload.todo = {} /\ Undesired = {}
    /\ routes' = IF routes = NoTable \/ SameGroups(cfg.route, reload.new.route) THEN routes
                 ELSE reload.new.route
    /\ cfg' = reload.new
    /\ reload' = NoReload
    /\ UNCHANGED <<parts, fleet, discVars, file, baseline, callers, changes>>

-----------------------------------------------------------------------------
(* What changes around the proxy.                                          *)

Change(x) ==
    /\ changes[x] < MaxChanges
    /\ changes' = [changes EXCEPT ![x] = @ + 1]

Edit(c, loads) ==
    /\ Change("file") /\ c # file.content
    /\ file' = [stamp |-> file.stamp + 1, content |-> c, loads |-> loads]
    /\ UNCHANGED <<parts, fleet, discVars, baseline, callers, reload, cfg, routes>>

ZoneChange(us) ==
    /\ Change("zone") /\ us # zone
    /\ zone' = us
    /\ UNCHANGED <<parts, fleet, disc, cluster, feed, tokenOk, fileVars>>

\* A change of the Endpoints object, perhaps with a rotation of the token.
ClusterChange(c, rotated) ==
    /\ Change("cluster") /\ c # cluster
    /\ cluster' = c
    /\ feed' = IF disc["kube"].at = "rest" THEN feed ELSE Append(feed, c.urls)
    /\ tokenOk' = (tokenOk /\ ~rotated)
    /\ UNCHANGED <<parts, fleet, disc, zone, fileVars>>

Objects == {[exists |-> TRUE, urls |-> us] : us \in SUBSET KubeUrl} \cup {[exists |-> FALSE, urls |-> {}]}

DnsStep == Resolve \/ (\E u \in DnsUrl : SyncAdd("dns", u) \/ SyncRemove("dns", u)) \/ SyncDone("dns")
KubeStep ==
    \/ Denied \/ List \/ WatchEvent
    \/ \E u \in KubeUrl : SyncAdd("kube", u) \/ SyncRemove("kube", u)
    \/ SyncDone("kube")
RunReload ==
    \/ \E c \in {"watch", "signal"} : Reload(c)
    \/ \E u \in reload.todo : Apply(u)
    \/ \E o \in Undesired : Drop(o)
    \/ Finish

MemNext ==
    \/ "dns" \in parts /\ (DnsStep \/ \E us \in SUBSET DnsUrl : ZoneChange(us))
    \/ "kube" \in parts /\ (KubeStep \/ StreamEnd
                              \/ \E c \in Objects, r \in BOOLEAN : ClusterChange(c, r))
    \/ "reload" \in parts /\ (RunReload \/ Poll \/ Signal \/ \E c \in Configs, ok \in BOOLEAN : Edit(c, ok))

\* Lookups, lists, ticks and reloads keep coming, and in the end one of each
\* succeeds.
MemFairSpec ==
    /\ MemInit /\ [][MemNext]_memVars
    /\ WF_memVars("dns" \in parts /\ DnsStep)
    /\ WF_memVars("kube" \in parts /\ KubeStep)
    /\ WF_memVars("reload" \in parts /\ RunReload)
    /\ WF_memVars("reload" \in parts /\ Poll)

-----------------------------------------------------------------------------
\* "A Discoverer only ever manages the backends it created" and can always
\* take them out again: a discovered backend in the balancer is in its
\* creator's owned map, whatever syncs and reloads overlap.
NoOrphans == \A w \in {"dns", "kube"}, o \in DOMAIN fleet : o[1] = w => o[2] \in disc[w].owned

\* "every synced backend is tracked per target, so statically-configured
\* backends and backends owned by other targets are never touched": a
\* backend leaves the balancer only by its creator's hand, or by a reload
\* whose file does not list its URL.
OnlyTheCreatorRemoves ==
    [][\A o \in DOMAIN fleet \ DOMAIN fleet' :
          \/ o[1] \in {"dns", "kube"} /\ disc'[o[1]] # disc[o[1]]
          \/ o \in Undesired]_memVars


\* When the file settles on something that loads, it ends up applied: an edit
\* between the watcher's stat and the read of the file is not missed, the
\* balancer has exactly the configured backends with the configured weights,
\* beside the discovered ones, and the router serves the configured groups.
Applied(c) ==
    /\ cfg = c
    /\ {o[2] : o \in Of("config")} = DOMAIN c.backends
    /\ \A u \in DOMAIN c.backends : fleet[<<"config", u>>] = c.backends[u]
    /\ routes = NoTable \/ SameGroups(routes, c.route)

\* "It diffs the current default-group backends (s.cfg.Backends) against
\* newBackends": a reload leaves discovered backends alone.
ReloadKeepsDiscovered ==
    [][\A w \in {"dns", "kube"} : disc'[w] = disc[w] => Of(w) \subseteq DOMAIN fleet']_memVars
=============================================================================
