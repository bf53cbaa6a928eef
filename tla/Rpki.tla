-------------------------------- MODULE Rpki --------------------------------
(***************************************************************************)
(* RPKI data in the RDE (rde.c).  The RTR engine sends the ROA table and   *)
(* the ASPA sets in one transmission; the RDE builds the new tables aside, *)
(* switches to them at IMSG_RECONF_DONE and walks the Adj-RIB-In in slices *)
(* to validate every route again.  Meanwhile routes are announced and      *)
(* withdrawn, a reload of the configuration walks the same Adj-RIB-In with *)
(* rde_softreconfig_in, and the attributes (struct rde_aspath) that routes *)
(* share hold the ASPA outcome together with the generation it is for.     *)
(***************************************************************************)
EXTENDS Aspa

CONSTANTS
  Routes,    \* routes of the Adj-RIB-In in tree order, 1..n
  Source,    \* [Routes -> [kind, peer]]: who announces a route, kind "ebgp",
             \* "ibgp" or "network" (announced by the router itself)
  Announced, \* [Routes -> set of attributes [path, kind, med]]
  Confs,     \* configurations [rules, filtered_in_locrib, role]: the input
             \* filter of the Loc-RIB, the filter mode, the role of each peer
  Boot,      \* the first of them
  InRules(_, _, _), \* what a filter makes of attributes and state:
             \* attributes, or None for deny
  LocalAs,   \* rde_local_as(), the same in all configurations
  Offers,    \* Offers[k]: what the k-th transmission may hold, [roa, vaps]
  Paths,     \* further paths to validate
  Gens,      \* values of rde_aspa_generation (256)
  MaxUpdates, MaxReloads  \* bounds: routes that come or go, config reloads

ASSUME RoutesAreNumbered ==
  1 \in Routes /\ Cardinality(Routes) \in Nat /\ Routes = 1..Cardinality(Routes)
ASSUME GensAssumption == Gens \in Nat \ {0, 1}
ASSUME BootAssumption == Boot \in Confs

VARIABLES
  ibuf_rtr,  \* messages from the RTR engine
  roa_new, aspa_new,   \* the tables that are being received
  rde_roa, rde_aspa,   \* the tables in use
  rde_aspa_generation,
  rpki,      \* next route of the walk, 0: rpki_update_pending is not set
  conf,      \* the configuration in use: rib->in_rules, conf, peer->role
  soft,      \* the walk of a config reload: next route (0: none), whether
             \* the Loc-RIB is RECONF_RELOAD, and, as history, the routes
             \* whose peer got another role
  rib,       \* [adj, loc: Routes -> route or None, asp: attributes -> cached
             \* ASPA outcome], the shared rde_aspath objects
  fatal,     \* a check of aspa_add_set or of the dispatch failed
  sent,      \* history: contents of all transmissions
  vaps,      \* history: the content of rde_aspa
  unfiltered, \* history: routes whose state a config reload changed without
             \* filtering them again
  outdated,  \* history: routes a config reload gave the outcome of an
             \* earlier generation
  left       \* what is left of the bounds

tables == <<roa_new, aspa_new, rde_roa, rde_aspa, rde_aspa_generation>>
vars == <<ibuf_rtr, tables, rpki, conf, soft, rib, fatal, sent, vaps, unfiltered,
          outdated, left>>

Attrs == UNION {Announced[r] : r \in Routes}
         \cup UNION {{InRules(c.rules, a, v) : c \in Confs,
                       v \in [roa : {"valid", "invalid", "notfound"},
                              aspa : {"VALID", "INVALID", "UNKNOWN",
                                      "NEVER_KNOWN"}]} \ {None} :
                     a \in UNION {Announced[r] : r \in Routes}}

(***************************************************************************)
(* The RTR engine: rtr_recalc sends all it has, the customers of the ASPA  *)
(* sets in descending order and the providers of each in ascending order.  *)
(* The items of the ROA table are one message here, the three messages of  *)
(* an ASPA set are one.                                                    *)
(***************************************************************************)
Sorted(S) ==
  [i \in 1..Cardinality(S) |->
     CHOOSE x \in S : Cardinality({y \in S : y <= x}) = i]
Descending(S) ==
  [i \in 1..Cardinality(S) |->
     CHOOSE x \in S : Cardinality({y \in S : y >= x}) = i]
rtr_recalc(offer) ==
  LET customers == Descending(DOMAIN offer.vaps)
      set(i) == [type |-> "aspa", as |-> customers[i],
                 tas |-> Sorted(offer.vaps[customers[i]])]
      sizes == [i \in DOMAIN customers |->
                  Cardinality(offer.vaps[customers[i]])]
  IN <<[type |-> "roa_set", roa |-> offer.roa],
       [type |-> "aspa_prep", entries |-> Len(customers),
        datasize |-> FoldFunction(+, 0, sizes)]>>
     \o [i \in DOMAIN customers |-> set(i)]
     \o <<[type |-> "done", vaps |-> offer.vaps]>>

Recalc ==
  /\ left.offers > 0
  /\ \E offer \in Offers[Len(Offers) + 1 - left.offers] :
       /\ ibuf_rtr' = ibuf_rtr \o rtr_recalc(offer)
       /\ sent' = sent \cup {offer}
  /\ left' = [left EXCEPT !.offers = @ - 1]
  /\ UNCHANGED <<tables, rpki, conf, soft, rib, fatal, vaps, unfiltered, outdated>>

----------------------------------------------------------------------------
(* The tables say: rde_roa_validity and rde_aspa_validity.  A ROA table is *)
(* a set of <<route, origin>> pairs.                                       *)
Origin(path) ==
  LET last == path[Len(path)] IN
  IF path = <<>> THEN LocalAs
  ELSE IF last.type # "AS_SEQUENCE" THEN 0
  ELSE last.ases[Len(last.ases)]

rde_roa_validity(roa, r, path) ==
  IF <<r, Origin(path)>> \in roa THEN "valid"
  ELSE IF \E v \in roa : v[1] = r THEN "invalid" ELSE "notfound"

rde_aspa_validity(r, outcome) ==
  IF Source[r].kind # "ebgp" THEN "NEVER_KNOWN"
  ELSE IF conf.role[Source[r].peer] = "none" THEN "UNKNOWN"
  ELSE IF conf.role[Source[r].peer] = "customer" THEN outcome.downup
  ELSE outcome.onlyup

(***************************************************************************)
(* prefix_update on one RIB: the route takes the shared object of its      *)
(* attributes, path_getcache, which keeps the outcome it has; an object no *)
(* route refers to is freed.                                               *)
(***************************************************************************)
Refs(w) == {e.attr : e \in ({w.adj[r] : r \in Routes}
                            \cup {w.loc[r] : r \in Routes}) \ {None}}
Freed(w) == [w EXCEPT !.asp = [a \in Attrs |->
                                 IF a \in Refs(w) THEN @[a] ELSE None]]

path_getcache(asp, attr, fresh) ==
  [asp EXCEPT ![attr] = IF @ = None THEN fresh ELSE @]

prefix_update(w, table, r, attr, vstate, fresh, filtered) ==
  Freed([w EXCEPT ![table][r] = [attr |-> attr, vstate |-> vstate,
                                 filtered |-> filtered],
                  !.asp = path_getcache(@, attr, fresh)])

prefix_withdraw(w, table, r) == Freed([w EXCEPT ![table][r] = None])

(* What all three callers do with a Loc-RIB: filter, then add or remove.   *)
Filtered(w, r, attr, vstate, fresh) ==
  LET out == InRules(conf.rules, attr, vstate) IN
  IF out # None THEN prefix_update(w, "loc", r, out, vstate, fresh, FALSE)
  ELSE IF conf.filtered_in_locrib
  THEN prefix_update(w, "loc", r, attr, vstate, fresh, TRUE)
  ELSE prefix_withdraw(w, "loc", r)

----------------------------------------------------------------------------
(* An UPDATE that announces a route, or network_add.  The outcome is taken *)
(* from the tables in use and stored under the present generation.         *)
Announce(r, attr) ==
  LET ebgp   == Source[r].kind = "ebgp"
      fresh  == [gen |-> IF ebgp THEN rde_aspa_generation ELSE 0,
                 outcome |-> IF ebgp THEN aspa_validation(rde_aspa, attr.path)
                             ELSE Both("UNKNOWN")]
      vstate == [roa |-> rde_roa_validity(rde_roa, r, attr.path),
                 aspa |-> rde_aspa_validity(r, fresh.outcome)]
      w == prefix_update(rib, "adj", r, attr, vstate, fresh, FALSE)
  IN /\ left.updates > 0
     /\ rib' = IF Source[r].kind = "network"
               THEN prefix_update(w, "loc", r, attr, vstate, fresh, FALSE)
               ELSE Filtered(w, r, attr, vstate, fresh)
     /\ left' = [left EXCEPT !.updates = @ - 1]
     /\ unfiltered' = unfiltered \ {r}
     /\ outdated' = outdated \ {r}
     /\ UNCHANGED <<ibuf_rtr, tables, rpki, conf, soft, fatal, sent, vaps>>

Withdraw(r) ==
  /\ left.updates > 0
  /\ rib.adj[r] # None
  /\ rib' = prefix_withdraw(prefix_withdraw(rib, "loc", r), "adj", r)
  /\ left' = [left EXCEPT !.updates = @ - 1]
  /\ unfiltered' = unfiltered \ {r}
  /\ outdated' = outdated \ {r}
  /\ UNCHANGED <<ibuf_rtr, tables, rpki, conf, soft, fatal, sent, vaps>>

(***************************************************************************)
(* The end of a transmission: rde_roa_reload, rde_aspa_reload and, if one  *)
(* of the tables changed, rde_rpki_reload.  While a walk runs both new     *)
(* tables are dropped.                                                     *)
(***************************************************************************)
\* Bug: a new ASPA table keeps the generation of the old one.
Switch_same(msg) ==
  LET roa_changed  == roa_new # rde_roa
      aspa_changed == ~aspa_table_equal(aspa_new, rde_aspa)
  IN /\ rde_roa' = roa_new
     /\ rde_aspa' = aspa_new
     /\ vaps' = msg.vaps
     /\ rde_aspa_generation' = rde_aspa_generation
     /\ rpki' = IF roa_changed \/ aspa_changed THEN 1 ELSE 0
     /\ roa_new' = {} /\ aspa_new' = None

Switch(msg) ==
  LET roa_changed  == roa_new # rde_roa
      aspa_changed == ~aspa_table_equal(aspa_new, rde_aspa)
  IN /\ rde_roa' = roa_new
     /\ rde_aspa' = aspa_new
     /\ vaps' = msg.vaps
     /\ rde_aspa_generation' =
          IF aspa_changed THEN (rde_aspa_generation + 1) % Gens
          ELSE rde_aspa_generation
     /\ rpki' = IF roa_changed \/ aspa_changed THEN 1 ELSE 0
     /\ roa_new' = {} /\ aspa_new' = None

\* Bug: new tables come into force under a running walk.
RtrDone_running(msg) ==
  \/ /\ rpki = 0
     /\ Switch(msg)
  \/ /\ rpki # 0
     /\ rde_roa' = roa_new
     /\ rde_aspa' = aspa_new
     /\ vaps' = msg.vaps
     /\ rde_aspa_generation' = (rde_aspa_generation + 1) % Gens
     /\ roa_new' = {} /\ aspa_new' = None
     /\ UNCHANGED rpki

RtrDone(msg) ==
  \/ /\ rpki = 0
     /\ Switch(msg)
  \/ /\ rpki # 0
     /\ roa_new' = {} /\ aspa_new' = None
     /\ UNCHANGED <<rde_roa, rde_aspa, rde_aspa_generation, rpki, vaps>>

RtrPrep(msg) ==
  /\ fatal' = (fatal \/ aspa_new # None)
  /\ aspa_new' = aspa_table_prep(msg.entries, msg.datasize)

RtrAspa(msg) ==
  /\ fatal' = (fatal \/ aspa_new = None
                      \/ AddFails(aspa_new, msg.as, msg.tas))
  /\ aspa_new' = IF fatal' THEN aspa_new
                 ELSE aspa_add_set(aspa_new, msg.as, msg.tas)

rde_dispatch_imsg_rtr ==
  /\ ibuf_rtr # <<>> /\ ~fatal
  /\ ibuf_rtr' = Tail(ibuf_rtr)
  /\ LET msg == Head(ibuf_rtr)
         kept == <<rde_roa, rde_aspa, rde_aspa_generation, rpki, vaps>>
     IN \/ /\ msg.type = "roa_set" /\ roa_new' = msg.roa
           /\ UNCHANGED <<kept, aspa_new, fatal>>
        \/ /\ msg.type = "aspa_prep" /\ RtrPrep(msg)
           /\ UNCHANGED <<kept, roa_new>>
        \/ /\ msg.type = "aspa" /\ RtrAspa(msg)
           /\ UNCHANGED <<kept, roa_new>>
        \/ /\ msg.type = "done" /\ RtrDone(msg) /\ UNCHANGED fatal
  /\ UNCHANGED <<conf, soft, rib, sent, unfiltered, outdated, left>>

----------------------------------------------------------------------------
(* rde_rpki_softreload on one route: an outcome of another generation is   *)
(* computed anew, in the object all routes with these attributes share.    *)
Revalidated(w, attr) ==
  [w EXCEPT !.asp[attr] =
     IF @.gen = rde_aspa_generation THEN @
     ELSE [gen |-> rde_aspa_generation,
           outcome |-> aspa_validation(rde_aspa, attr.path)]]

\* Bug: the filters are not run again.
rde_rpki_softreload_unfiltered(r) ==
  LET p == rib.adj[r]
      never == p.vstate.aspa = "NEVER_KNOWN"
      w == IF never THEN rib ELSE Revalidated(rib, p.attr)
      obj == w.asp[p.attr]
      vstate == [roa |-> rde_roa_validity(rde_roa, r, p.attr.path),
                 aspa |-> IF never THEN "NEVER_KNOWN"
                          ELSE rde_aspa_validity(r, obj.outcome)]
      set == [w EXCEPT !.adj[r].vstate = vstate]
  IN IF p = None THEN rib
     ELSE IF vstate = p.vstate THEN w
     ELSE set

rde_rpki_softreload(r) ==
  LET p == rib.adj[r]
      never == p.vstate.aspa = "NEVER_KNOWN"
      w == IF never THEN rib ELSE Revalidated(rib, p.attr)
      obj == w.asp[p.attr]
      vstate == [roa |-> rde_roa_validity(rde_roa, r, p.attr.path),
                 aspa |-> IF never THEN "NEVER_KNOWN"
                          ELSE rde_aspa_validity(r, obj.outcome)]
      set == [w EXCEPT !.adj[r].vstate = vstate]
  IN IF p = None THEN rib
     ELSE IF vstate = p.vstate THEN w
     ELSE IF Source[r].kind = "network" THEN set
     ELSE Filtered(set, r, p.attr, vstate, obj)

NextOf(r) == IF r + 1 \in Routes THEN r + 1 ELSE 0

RpkiStep ==
  /\ rpki # 0
  /\ rib' = rde_rpki_softreload(rpki)
  /\ unfiltered' = IF rib'.adj[rpki] = None \/ Source[rpki].kind = "network"
                      \/ rib'.adj[rpki].vstate = rib.adj[rpki].vstate
                   THEN unfiltered ELSE unfiltered \ {rpki}
  /\ outdated' = outdated \ {rpki}
  /\ rpki' = NextOf(rpki)
  /\ UNCHANGED <<ibuf_rtr, tables, conf, soft, fatal, sent, vaps, left>>

(***************************************************************************)
(* A reload of the configuration: new filter rules, filter mode and roles  *)
(* come into force at once, then the Adj-RIB-In is walked.  The walk takes *)
(* the outcome of the object whatever its generation, and filters only     *)
(* into the RIBs that are RECONF_RELOAD, those with other rules and, after *)
(* a change of the filter mode, the Loc-RIB.  A walk without a change here *)
(* is for the sake of another RIB.                                         *)
(***************************************************************************)
Rerole(new) ==
  {r \in Routes : new.role[Source[r].peer] # conf.role[Source[r].peer]}

\* Bug: a change of the filter mode reloads nothing.
SoftStart_mode ==
  /\ left.reloads > 0 /\ soft.next = 0
  /\ \E new \in Confs :
       /\ conf' = new
       /\ soft' = [next |-> 1, reload |-> new.rules # conf.rules,
                   roles |-> Rerole(new)]
  /\ left' = [left EXCEPT !.reloads = @ - 1]
  /\ UNCHANGED <<ibuf_rtr, tables, rpki, rib, fatal, sent, vaps, unfiltered,
                 outdated>>

SoftStart ==
  /\ left.reloads > 0 /\ soft.next = 0
  /\ \E new \in Confs :
       /\ conf' = new
       /\ soft' = [next |-> 1,
                   reload |-> \/ new.rules # conf.rules
                              \/ new.filtered_in_locrib # conf.filtered_in_locrib,
                   roles |-> Rerole(new)]
  /\ left' = [left EXCEPT !.reloads = @ - 1]
  /\ UNCHANGED <<ibuf_rtr, tables, rpki, rib, fatal, sent, vaps, unfiltered,
                 outdated>>

rde_softreconfig_in(r, reload) ==
  LET p == rib.adj[r]
      obj == rib.asp[p.attr]
      aspa == IF p.vstate.aspa = "NEVER_KNOWN" THEN "NEVER_KNOWN"
              ELSE rde_aspa_validity(r, obj.outcome)
      set == [rib EXCEPT !.adj[r].vstate.aspa = aspa]
  IN IF p = None THEN rib
     ELSE IF Source[r].kind = "network" \/ ~reload THEN set
     ELSE Filtered(set, r, p.attr, set.adj[r].vstate, obj)

SoftStep ==
  LET r == soft.next
      now == rib'.adj[r]
      filtered == soft.reload /\ Source[r].kind # "network"
  IN /\ r # 0
     /\ rib' = rde_softreconfig_in(r, soft.reload)
     /\ soft' = [soft EXCEPT !.next = NextOf(r)]
     /\ unfiltered' = IF filtered THEN unfiltered \ {r}
                      ELSE IF now # rib.adj[r] THEN unfiltered \cup {r}
                      ELSE unfiltered
     /\ outdated' = IF now # None /\ now.vstate.aspa # "NEVER_KNOWN"
                       /\ rib'.asp[now.attr].gen # rde_aspa_generation
                    THEN outdated \cup {r} ELSE outdated \ {r}
     /\ UNCHANGED <<ibuf_rtr, tables, rpki, conf, fatal, sent, vaps, left>>

----------------------------------------------------------------------------
NoRoutes == [r \in Routes |-> None]

Init ==
  /\ ibuf_rtr = <<>>
  /\ roa_new = {} /\ aspa_new = None
  /\ rde_roa = {} /\ rde_aspa = None /\ rde_aspa_generation = 0
  /\ rpki = 0
  /\ conf = Boot /\ soft = [next |-> 0, reload |-> FALSE, roles |-> {}]
  /\ rib = [adj |-> NoRoutes, loc |-> NoRoutes,
            asp |-> [a \in Attrs |-> None]]
  /\ fatal = FALSE
  /\ sent = {[roa |-> {}, vaps |-> <<>>]} /\ vaps = <<>>
  /\ unfiltered = {} /\ outdated = {}
  /\ left = [offers |-> Len(Offers), updates |-> MaxUpdates,
             reloads |-> MaxReloads]

Next ==
  \/ Recalc
  \/ rde_dispatch_imsg_rtr
  \/ \E r \in Routes : \E attr \in Announced[r] : Announce(r, attr)
  \/ \E r \in Routes : Withdraw(r)
  \/ RpkiStep
  \/ SoftStart
  \/ SoftStep

Spec == Init /\ [][Next]_vars

(* The RDE's poll loop serves the pipe and runs the walks.                 *)
FairSpec == Spec /\ WF_vars(rde_dispatch_imsg_rtr) /\ WF_vars(RpkiStep)

----------------------------------------------------------------------------
(* The state a route of the Adj-RIB-In should have under the tables in     *)
(* use, by the reference of module Aspa.                                   *)
Wanted(r) ==
  LET path == rib.adj[r].attr.path IN
  [roa |-> rde_roa_validity(rde_roa, r, path),
   aspa |-> rde_aspa_validity(r, Expected(vaps, path))]

Checked(r) == rib.adj[r] # None /\ (rpki = 0 \/ r < rpki)

(* The walk of a reload has still to come to r.                            *)
Awaited(r) == soft.next # 0 /\ r >= soft.next

(* The end of a transmission finds the new ASPA table equal to the one in  *)
(* use only if both were made from the same records.                       *)
EqualIsSame ==
  ibuf_rtr # <<>> /\ Head(ibuf_rtr).type = "done"
    /\ aspa_table_equal(aspa_new, rde_aspa)
  => Head(ibuf_rtr).vaps = vaps

(* The tables in use are those of one transmission.                        *)
OfOneTransmission == [roa |-> rde_roa, vaps |-> vaps] \in sent

(* Every table in use comes whole from one transmission, ROAs and ASPA     *)
(* sets of the same one, none of the checks of aspa_add_set fails, the     *)
(* hash table finds exactly the relations that were sent, and the          *)
(* comparison with the next table does not miss a change.                  *)
TableRight ==
  /\ ~fatal
  /\ OfOneTransmission
  /\ rde_aspa # None =>
       \A c, p \in DOMAIN Hash :
         aspa_cp_lookup(rde_aspa, c, p) = Relation(vaps, c, p)
  /\ EqualIsSame

(* aspa_validation returns what the definition of an ASPA-valid path says, *)
(* for every path and for both directions.                                 *)
ValidationRight ==
  \A path \in Paths \cup {a.path : a \in Attrs} :
    aspa_validation(rde_aspa, path) = Expected(vaps, path)

(* A shared rde_aspath that carries the present generation carries the     *)
(* outcome of the present table.                                           *)
CacheRight ==
  \A a \in Attrs :
    rib.asp[a] # None /\ a.kind = "ebgp"
      /\ rib.asp[a].gen = rde_aspa_generation
    => rib.asp[a].outcome = Expected(vaps, a.path)

(* Every route the walk has passed, and every route once it is over, has   *)
(* the state the tables in use and the role of its peer give it, however   *)
(* announcements, shared attributes and slices interleave.  A new role is  *)
(* in force at once and reaches a route with the walk of the reload.       *)
VstateRight ==
  \A r \in Routes \ outdated :
    Checked(r) /\ ~(r \in soft.roles /\ Awaited(r))
      => rib.adj[r].vstate = Wanted(r)

(* Validation states, stored in routes or cached in shared attributes, are *)
(* those of the tables in use.                                             *)
StatesRight == CacheRight /\ VstateRight

(* What the filter in use makes of a route is in the Loc-RIB.              *)
Follows(r) ==
  LET p == rib.adj[r]
      out == InRules(conf.rules, p.attr, p.vstate)
  IN rib.loc[r] =
       IF p = None \/ (out = None /\ ~conf.filtered_in_locrib) THEN None
       ELSE [attr |-> IF out = None THEN p.attr ELSE out,
             vstate |-> p.vstate, filtered |-> out = None]

(* The Loc-RIB holds what the input filter in use makes of the Adj-RIB-In. *)
(* When a reload changed the rules or the filter mode, that holds of every *)
(* route the walk has passed, and of all routes once the walk is over.     *)
LocFollows ==
  \A r \in Routes \ unfiltered :
    Source[r].kind # "network" /\ ~(soft.reload /\ Awaited(r)) => Follows(r)

(* bgpd.conf(5): "Each as AS_PATH received from an eBGP peer is checked    *)
(* against the aspa-set, and the ASPA Validation State (AVS) is set."      *)
AlwaysChecked ==
  \A r \in Routes : Checked(r) /\ ~Awaited(r) => rib.adj[r].vstate = Wanted(r)

(* bgpd.conf(5), avs: "This rule applies only to UPDATES where the ASPA    *)
(* Validation State (AVS) matches."                                        *)
AlwaysFiltered ==
  rpki = 0 /\ soft.next = 0 =>
    \A r \in Routes : Source[r].kind # "network" => Follows(r)

(* bgpd.conf(5): the roa-set and the aspa-set "are merged with the         *)
(* corresponding tables received via rtr sessions": what the RTR engine    *)
(* sent last is used in the end.                                           *)
LatestUsed ==
  \A offer \in Offers[Len(Offers)] :
    (left.offers = 0 /\ ibuf_rtr # <<>> /\ ibuf_rtr[Len(ibuf_rtr)].vaps = offer.vaps
       ~> vaps = offer.vaps)
=============================================================================
