---------------------------- MODULE Rpki_proofs -----------------------------
(***************************************************************************)
(* Proofs about the routes and their validation states, for any number of  *)
(* routes, any announcements, tables, filters and reloads.                 *)
(***************************************************************************)
EXTENDS Rpki, TLAPS

\* None is no route.
NoneIsNoRoute ==
  \A a, v, f : None # [attr |-> a, vstate |-> v, filtered |-> f]

\* A route of the Adj-RIB-In has attributes and a state of two parts.
IsRoute(e) ==
  e = [attr |-> e.attr,
       vstate |-> [roa |-> e.vstate.roa, aspa |-> e.vstate.aspa],
       filtered |-> e.filtered]

Shape(w) ==
  /\ DOMAIN w = {"adj", "loc", "asp"}
  /\ DOMAIN w.adj = Routes /\ DOMAIN w.loc = Routes
  /\ \A r \in Routes : w.adj[r] = None \/ IsRoute(w.adj[r])

\* What the input filter in use makes of route p.
LocOf(p) ==
  LET out == InRules(conf.rules, p.attr, p.vstate)
  IN IF p = None \/ (out = None /\ ~conf.filtered_in_locrib) THEN None
     ELSE [attr |-> IF out = None THEN p.attr ELSE out,
           vstate |-> p.vstate, filtered |-> out = None]

\* A route of the Loc-RIB that passed the filter, or that it denied but that is
\* kept.
Passed(a, v) == [attr |-> a, vstate |-> v, filtered |-> FALSE]
Denied(a, v) == [attr |-> a, vstate |-> v, filtered |-> TRUE]

\* Route r of the Adj-RIB-In is given the state v.
SetState(w, r, v) == [w EXCEPT !.adj[r].vstate = v]

\* prefix_update() of the Loc-RIB with these, and of the Adj-RIB-In.
Pass(w, r, a, v, fresh) == prefix_update(w, "loc", r, a, v, fresh, FALSE)
Deny(w, r, a, v, fresh) == prefix_update(w, "loc", r, a, v, fresh, TRUE)
Take(w, r, a, v, fresh) == prefix_update(w, "adj", r, a, v, fresh, FALSE)

\* The walk of a reload that changed the filter has still to come to r.
Waits(r) == soft.reload /\ Awaited(r)

\* A configuration, and the walk of a reload.
Configured ==
  /\ conf \in Confs
  /\ soft = [next |-> soft.next, reload |-> soft.reload, roles |-> soft.roles]
  /\ soft.next \in Routes \cup {0}

RibRight ==
  /\ Shape(rib)
  /\ rpki \in Routes \cup {0}
  /\ Configured
  /\ \A r \in Routes : rib.adj[r] = None => rib.loc[r] = None
  /\ LocFollows
-----------------------------------------------------------------------------
LEMMA FollowsIs ==
    ASSUME NEW r, Follows(r)
    PROVE  rib.loc[r] = LocOf(rib.adj[r])
BY DEF Follows, LocOf

\* Steps that are not of a reload leave the configuration and its walk alone.
LEMMA SameConf ==
    ASSUME Configured, UNCHANGED <<conf, soft>>
    PROVE  /\ Configured' /\ conf' = conf
           /\ \A x : Waits(x)' <=> Waits(x)
           /\ \A x : Awaited(x)' <=> Awaited(x)
BY DEF Configured, Waits, Awaited

\* An object that is freed is all that Freed() changes.
LEMMA FreedSame ==
    ASSUME NEW w, Shape(w)
    PROVE  Shape(Freed(w)) /\ Freed(w).adj = w.adj /\ Freed(w).loc = w.loc
<1>1. /\ DOMAIN Freed(w) = {"adj", "loc", "asp"}
      /\ Freed(w).adj = w.adj /\ Freed(w).loc = w.loc
  BY DEF Freed, Shape
<1>. QED  BY <1>1 DEF Shape

LEMMA UpdateLoc ==
    ASSUME NEW w, Shape(w), NEW r \in Routes, NEW a, NEW v, NEW fresh,
           NEW u, u = Pass(w, r, a, v, fresh)
    PROVE  /\ Shape(u) /\ u.adj = w.adj
           /\ u.loc[r] = Passed(a, v)
           /\ \A x \in Routes \ {r} : u.loc[x] = w.loc[x]
<1>. DEFINE set == [w EXCEPT !["loc"][r] = Passed(a, v),
                             !.asp = path_getcache(@, a, fresh)]
<1>1. /\ DOMAIN set = {"adj", "loc", "asp"} /\ set.adj = w.adj
      /\ set.loc = [w.loc EXCEPT ![r] = Passed(a, v)]
  BY DEF Shape
<1>2. Shape(set)
  BY <1>1 DEF Shape
<1>3. u = Freed(set)
  BY Zenon DEF prefix_update, Pass, Passed
<1>. HIDE DEF set
<1>. QED  BY <1>1, <1>2, <1>3, FreedSame DEF Shape

LEMMA UpdateLocFiltered ==
    ASSUME NEW w, Shape(w), NEW r \in Routes, NEW a, NEW v, NEW fresh,
           NEW u, u = Deny(w, r, a, v, fresh)
    PROVE  /\ Shape(u) /\ u.adj = w.adj
           /\ u.loc[r] = Denied(a, v)
           /\ \A x \in Routes \ {r} : u.loc[x] = w.loc[x]
<1>. DEFINE set == [w EXCEPT !["loc"][r] = Denied(a, v),
                             !.asp = path_getcache(@, a, fresh)]
<1>1. /\ DOMAIN set = {"adj", "loc", "asp"} /\ set.adj = w.adj
      /\ set.loc = [w.loc EXCEPT ![r] = Denied(a, v)]
  BY DEF Shape
<1>2. Shape(set)
  BY <1>1 DEF Shape
<1>3. u = Freed(set)
  BY Zenon DEF prefix_update, Deny, Denied
<1>. HIDE DEF set
<1>. QED  BY <1>1, <1>2, <1>3, FreedSame DEF Shape

LEMMA UpdateAdj ==
    ASSUME NEW w, Shape(w), NEW r \in Routes, NEW a, NEW v1, NEW v2, NEW fresh,
           NEW v, v = [roa |-> v1, aspa |-> v2],
           NEW u, u = Take(w, r, a, v, fresh)
    PROVE  /\ Shape(u) /\ u.loc = w.loc
           /\ u.adj[r] = Passed(a, v)
           /\ \A x \in Routes \ {r} : u.adj[x] = w.adj[x]
<1>. DEFINE set == [w EXCEPT !["adj"][r] = Passed(a, v),
                             !.asp = path_getcache(@, a, fresh)]
<1>1. /\ DOMAIN set = {"adj", "loc", "asp"} /\ set.loc = w.loc
      /\ set.adj = [w.adj EXCEPT ![r] = Passed(a, v)]
  BY DEF Shape
<1>2. Shape(set)
  <2>1. ASSUME NEW x \in Routes PROVE set.adj[x] = None \/ IsRoute(set.adj[x])
    <3>1. CASE x = r
      BY Zenon, <3>1, <1>1 DEF Shape, IsRoute, Passed
    <3>2. CASE x # r
      BY <3>2, <1>1 DEF Shape
    <3>. QED  BY <3>1, <3>2
  <2>. QED  BY <1>1, <2>1 DEF Shape
<1>3. u = Freed(set)
  BY Zenon DEF prefix_update, Take, Passed
<1>. HIDE DEF set
<1>4. Shape(u) /\ u.adj = set.adj /\ u.loc = set.loc
  BY <1>2, <1>3, FreedSame
<1>. QED  BY <1>1, <1>4 DEF Shape

LEMMA WithdrawLoc ==
    ASSUME NEW w, Shape(w), NEW r \in Routes,
           NEW u, u = prefix_withdraw(w, "loc", r)
    PROVE  /\ Shape(u) /\ u.adj = w.adj /\ u.loc[r] = None
           /\ \A x \in Routes \ {r} : u.loc[x] = w.loc[x]
<1>. DEFINE set == [w EXCEPT !["loc"][r] = None]
<1>1. /\ DOMAIN set = {"adj", "loc", "asp"} /\ set.adj = w.adj
      /\ set.loc = [w.loc EXCEPT ![r] = None]
  BY DEF Shape
<1>2. Shape(set)
  BY <1>1 DEF Shape
<1>3. u = Freed(set)
  BY DEF prefix_withdraw
<1>. HIDE DEF set
<1>. QED  BY <1>1, <1>2, <1>3, FreedSame DEF Shape

LEMMA WithdrawAdj ==
    ASSUME NEW w, Shape(w), NEW r \in Routes,
           NEW u, u = prefix_withdraw(w, "adj", r)
    PROVE  /\ Shape(u) /\ u.loc = w.loc /\ u.adj[r] = None
           /\ \A x \in Routes \ {r} : u.adj[x] = w.adj[x]
<1>. DEFINE set == [w EXCEPT !["adj"][r] = None]
<1>1. /\ DOMAIN set = {"adj", "loc", "asp"} /\ set.loc = w.loc
      /\ set.adj = [w.adj EXCEPT ![r] = None]
  BY DEF Shape
<1>2. Shape(set)
  BY <1>1 DEF Shape
<1>3. u = Freed(set)
  BY Zenon DEF prefix_withdraw
<1>. HIDE DEF set
<1>. QED  BY <1>1, <1>2, <1>3, FreedSame DEF Shape

\* The filter puts in the Loc-RIB what it makes of the route.
LEMMA FilteredRight ==
    ASSUME NoneIsNoRoute, NEW w, Shape(w), NEW r \in Routes, NEW fresh,
           w.adj[r] # None,
           NEW u, u = Filtered(w, r, w.adj[r].attr, w.adj[r].vstate, fresh)
    PROVE  /\ Shape(u) /\ u.adj = w.adj
           /\ u.loc[r] = LocOf(w.adj[r])
           /\ \A x \in Routes \ {r} : u.loc[x] = w.loc[x]
<1>. DEFINE a == w.adj[r].attr
            v == w.adj[r].vstate
            out == InRules(conf.rules, a, v)
<1>1. CASE out # None
  <2>1. u = Pass(w, r, out, v, fresh)
    BY <1>1 DEF Filtered, Pass
  <2>2. LocOf(w.adj[r]) = Passed(out, v)
    BY Zenon, <1>1 DEF LocOf, Passed
  <2>3. a = w.adj[r].attr /\ v = w.adj[r].vstate
    OBVIOUS
  <2>. HIDE DEF a, v, out
  <2>4. /\ Shape(u) /\ u.adj = w.adj
        /\ u.loc[r] = Passed(out, v)
        /\ \A x \in Routes \ {r} : u.loc[x] = w.loc[x]
    BY SMTT(30), <2>1, UpdateLoc
  <2>. QED  BY <2>2, <2>3, <2>4
<1>2. CASE out = None /\ conf.filtered_in_locrib
  <2>1. u = Deny(w, r, a, v, fresh)
    BY <1>2 DEF Filtered, Deny
  <2>2. LocOf(w.adj[r]) = Denied(a, v)
    BY Zenon, <1>2 DEF LocOf, Denied
  <2>3. a = w.adj[r].attr /\ v = w.adj[r].vstate
    OBVIOUS
  <2>. HIDE DEF a, v, out
  <2>4. /\ Shape(u) /\ u.adj = w.adj
        /\ u.loc[r] = Denied(a, v)
        /\ \A x \in Routes \ {r} : u.loc[x] = w.loc[x]
    BY <2>1, UpdateLocFiltered
  <2>. QED  BY <2>2, <2>3, <2>4
<1>3. CASE out = None /\ ~conf.filtered_in_locrib
  <2>1. u = prefix_withdraw(w, "loc", r)
    BY <1>3 DEF Filtered
  <2>2. LocOf(w.adj[r]) = None
    BY <1>3 DEF LocOf
  <2>. QED  BY <2>1, <2>2, WithdrawLoc
<1>. QED  BY Zenon, <1>1, <1>2, <1>3

\* A step that touches route r only: the other routes follow as before.
LEMMA FollowsKept ==
    ASSUME RibRight, NEW r \in Routes, Shape(rib'), conf' = conf,
           \A x \in Routes \ {r} : Waits(x) => Waits(x)',
           \A x \in Routes \ {r} : rib'.adj[x] = rib.adj[x] /\ rib'.loc[x] = rib.loc[x],
           unfiltered \ {r} \subseteq unfiltered',
           r \in unfiltered' \/ Source[r].kind = "network"
              \/ rib'.loc[r] = LocOf(rib'.adj[r]),
           rib'.adj[r] = None => rib'.loc[r] = None
    PROVE  /\ LocFollows'
           /\ \A x \in Routes : rib'.adj[x] = None => rib'.loc[x] = None
<1>0. \A x \in Routes : rib'.adj[x] = None => rib'.loc[x] = None
  BY DEF RibRight
<1>. SUFFICES ASSUME NEW x \in Routes \ unfiltered', Source[x].kind # "network",
                     ~Waits(x)'
              PROVE  Follows(x)'
  BY <1>0 DEF LocFollows, Waits
<1>1. SUFFICES rib'.loc[x] = LocOf(rib'.adj[x])
  BY DEF Follows, LocOf
<1>2. CASE x = r
  BY <1>2
<1>3. CASE x # r
  <2>1. Follows(x)
    BY <1>3 DEF RibRight, LocFollows, Waits
  <2>2. rib.loc[x] = LocOf(rib.adj[x])
    BY <2>1, FollowsIs
  <2>. QED  BY <1>3, <2>2
<1>. QED  BY <1>2, <1>3

LEMMA RibInit == ASSUME Init PROVE RibRight
<1>1. Shape(rib)
  BY DEF Init, Shape, NoRoutes
<1>2. ASSUME NEW r \in Routes PROVE Follows(r)
  BY DEF Init, NoRoutes, Follows
<1>3. Configured /\ rpki = 0
  BY BootAssumption DEF Init, Configured
<1>4. \A r \in Routes : rib.loc[r] = None
  BY DEF Init, NoRoutes
<1>. QED  BY SMTT(30), <1>1, <1>2, <1>3, <1>4 DEF RibRight, LocFollows

LEMMA AnnounceKeeps ==
    ASSUME NoneIsNoRoute, RibRight, NEW r \in Routes, NEW attr, Announce(r, attr)
    PROVE  RibRight'
<1>1. PICK fresh, ro, av, v, w :
        /\ v = [roa |-> ro, aspa |-> av]
        /\ w = Take(rib, r, attr, v, fresh)
        /\ rib' = IF Source[r].kind = "network"
                  THEN Pass(w, r, attr, v, fresh)
                  ELSE Filtered(w, r, attr, v, fresh)
  BY ZenonT(30) DEF Announce, Take, Pass
<1>2. unfiltered' = unfiltered \ {r} /\ UNCHANGED <<rpki, conf, soft>>
  BY DEF Announce
<1>6. Configured' /\ conf' = conf /\ \A x : Waits(x)' <=> Waits(x)
  BY Zenon, <1>2, SameConf DEF RibRight
<1>3. /\ Shape(w) /\ w.loc = rib.loc
      /\ w.adj[r] = Passed(attr, v)
      /\ \A x \in Routes \ {r} : w.adj[x] = rib.adj[x]
  BY <1>1, UpdateAdj DEF RibRight
<1>. w.adj[r] # None
  BY <1>3 DEF Passed, NoneIsNoRoute
<1>4. CASE Source[r].kind = "network"
  <2>1. rib' = Pass(w, r, attr, v, fresh)
    BY <1>1, <1>4
  <2>2. /\ Shape(rib') /\ rib'.adj = w.adj
        /\ \A x \in Routes \ {r} : rib'.loc[x] = w.loc[x]
    BY SMTT(30), <2>1, <1>3, UpdateLoc
  <2>3. LocFollows' /\ \A x \in Routes : rib'.adj[x] = None => rib'.loc[x] = None
    BY SMTT(30), <1>2, <1>3, <1>4, <1>6, <2>2, FollowsKept
  <2>. QED  BY SMTT(30), <1>2, <1>6, <2>2, <2>3 DEF RibRight
<1>5. CASE Source[r].kind # "network"
  <2>1. w.adj[r].attr = attr /\ w.adj[r].vstate = v /\ w.adj[r] # None
    BY <1>3 DEF Passed, NoneIsNoRoute
  <2>2. rib' = Filtered(w, r, w.adj[r].attr, w.adj[r].vstate, fresh)
    BY SMTT(30), <1>1, <1>5, <2>1
  <2>3. /\ Shape(rib') /\ rib'.adj = w.adj
        /\ rib'.loc[r] = LocOf(w.adj[r])
        /\ \A x \in Routes \ {r} : rib'.loc[x] = w.loc[x]
    BY SMTT(30), <2>1, <2>2, <1>3, FilteredRight
  <2>4. LocFollows' /\ \A x \in Routes : rib'.adj[x] = None => rib'.loc[x] = None
    BY SMTT(30), <1>2, <1>3, <1>6, <2>3, FollowsKept
  <2>. QED  BY SMTT(30), <1>2, <1>6, <2>3, <2>4 DEF RibRight
<1>. QED  BY <1>4, <1>5

LEMMA WithdrawKeeps ==
    ASSUME RibRight, NEW r \in Routes, Withdraw(r)
    PROVE  RibRight'
<1>1. PICK w : w = prefix_withdraw(rib, "loc", r)
  OBVIOUS
<1>2. rib' = prefix_withdraw(w, "adj", r)
  BY <1>1 DEF Withdraw
<1>3. unfiltered' = unfiltered \ {r} /\ UNCHANGED <<rpki, conf, soft>>
  BY DEF Withdraw
<1>8. Configured' /\ conf' = conf /\ \A x : Waits(x)' <=> Waits(x)
  BY Zenon, <1>3, SameConf DEF RibRight
<1>. Shape(rib)
  BY DEF RibRight
<1>4. /\ Shape(w) /\ w.adj = rib.adj /\ w.loc[r] = None
      /\ \A x \in Routes \ {r} : w.loc[x] = rib.loc[x]
  BY <1>1, WithdrawLoc
<1>5. /\ Shape(rib') /\ rib'.loc = w.loc /\ rib'.adj[r] = None
      /\ \A x \in Routes \ {r} : rib'.adj[x] = w.adj[x]
  BY SMTT(30), <1>2, <1>4, WithdrawAdj
<1>6. rib'.loc[r] = LocOf(rib'.adj[r])
  BY <1>4, <1>5 DEF LocOf
<1>7. LocFollows' /\ \A x \in Routes : rib'.adj[x] = None => rib'.loc[x] = None
  BY SMTT(30), <1>3, <1>4, <1>5, <1>6, <1>8, FollowsKept
<1>. QED  BY SMTT(30), <1>3, <1>5, <1>7, <1>8 DEF RibRight

\* A route of the Adj-RIB-In that is given another state.
LEMMA StateSet ==
    ASSUME NoneIsNoRoute, NEW w, Shape(w), NEW r \in Routes, w.adj[r] # None,
           NEW v1, NEW v2, NEW v, v = [roa |-> v1, aspa |-> v2],
           NEW u, u = SetState(w, r, v)
    PROVE  /\ Shape(u) /\ u.loc = w.loc
           /\ u.adj[r].vstate = v /\ u.adj[r].attr = w.adj[r].attr /\ u.adj[r] # None
           /\ \A x \in Routes \ {r} : u.adj[x] = w.adj[x]
<1>1. PICK e : e = [w.adj[r] EXCEPT !.vstate = v]
  BY Zenon
<1>2. IsRoute(w.adj[r])
  BY DEF Shape
<1>3. /\ DOMAIN u = {"adj", "loc", "asp"} /\ u.loc = w.loc
      /\ u.adj = [w.adj EXCEPT ![r] = e]
  BY <1>1 DEF Shape, SetState
<1>4. e = [attr |-> w.adj[r].attr, vstate |-> v, filtered |-> w.adj[r].filtered]
  BY <1>1, <1>2 DEF IsRoute
<1>5. e.attr = w.adj[r].attr /\ e.vstate = v /\ IsRoute(e) /\ e # None
  BY <1>4 DEF IsRoute, NoneIsNoRoute
<1>6. u.adj[r] = e /\ \A x \in Routes \ {r} : u.adj[x] = w.adj[x]
  BY <1>3 DEF Shape
<1>7. Shape(u)
  BY SMTT(30), <1>3, <1>5, <1>6 DEF Shape
<1>. QED  BY SMTT(30), <1>3, <1>5, <1>6, <1>7

\* An outcome computed anew is stored in the shared object only.
LEMMA RevalidatedSame ==
    ASSUME Shape(rib), NEW a, NEW w, w = Revalidated(rib, a)
    PROVE  Shape(w) /\ w.adj = rib.adj /\ w.loc = rib.loc
<1>1. DOMAIN w = {"adj", "loc", "asp"} /\ w.adj = rib.adj /\ w.loc = rib.loc
  BY DEF Revalidated, Shape
<1>. QED  BY <1>1 DEF Shape

LEMMA OtherAspa ==
    ASSUME NEW s, NEW s1, NEW s2, NEW x, s = [roa |-> s1, aspa |-> s2]
    PROVE  [s EXCEPT !.aspa = x] = [roa |-> s1, aspa |-> x]
OBVIOUS

\* The number after that of a route is that of a route, or zero.
LEMMA NextOfIn == ASSUME NEW r PROVE NextOf(r) \in Routes \cup {0}
BY DEF NextOf

LEMMA RpkiStepKeeps ==
    ASSUME NoneIsNoRoute, RibRight, RpkiStep
    PROVE  RibRight'
<1>1. PICK r \in Routes : r = rpki
  BY DEF RpkiStep, RibRight
<1>2. PICK p : p = rib.adj[r]
  OBVIOUS
<1>3. /\ rib' = rde_rpki_softreload(r)
      /\ unfiltered' = IF rib'.adj[r] = None \/ Source[r].kind = "network"
                          \/ rib'.adj[r].vstate = rib.adj[r].vstate
                       THEN unfiltered ELSE unfiltered \ {r}
      /\ rpki' = NextOf(r) /\ UNCHANGED <<conf, soft>>
  BY <1>1 DEF RpkiStep
<1>8. Configured' /\ conf' = conf /\ \A x : Waits(x)' <=> Waits(x)
  BY Zenon, <1>3, SameConf DEF RibRight
<1>4. rpki' \in Routes \cup {0} /\ Configured'
  BY <1>3, <1>8, NextOfIn
<1>5. Shape(rib)
  BY DEF RibRight
<1>6. CASE p = None
  <2>1. rib' = rib
    BY SMTT(30), <1>2, <1>3, <1>6 DEF rde_rpki_softreload
  <2>2. unfiltered' = unfiltered
    BY Zenon, <1>2, <1>3, <1>6, <2>1
  <2>3. LocFollows'
    BY <1>8, <2>1, <2>2 DEF RibRight, LocFollows, Follows, Waits
  <2>. QED  BY SMTT(30), <1>4, <2>1, <2>3 DEF RibRight
<1>7. CASE p # None
  <2>. DEFINE never == p.vstate.aspa = "NEVER_KNOWN"
  <2>1. PICK w : w = IF never THEN rib ELSE Revalidated(rib, p.attr)
    OBVIOUS
  <2>2. Shape(w) /\ w.adj = rib.adj /\ w.loc = rib.loc
    <3>1. CASE never
      BY SMTT(30), <3>1, <2>1, <1>5
    <3>2. CASE ~never
      BY SMTT(30), <3>2, <2>1, <1>5, RevalidatedSame
    <3>. QED  BY <3>1, <3>2
  <2>3. PICK v1, v2, v, obj, set :
          /\ v = [roa |-> v1, aspa |-> v2]
          /\ set = SetState(w, r, v)
          /\ rib' = IF v = p.vstate THEN w
                    ELSE IF Source[r].kind = "network" THEN set
                    ELSE Filtered(set, r, p.attr, v, obj)
    <3>. DEFINE obj == w.asp[p.attr]
                ro == rde_roa_validity(rde_roa, r, p.attr.path)
                av == IF never THEN "NEVER_KNOWN" ELSE rde_aspa_validity(r, obj.outcome)
                v == [roa |-> ro, aspa |-> av]
                set == SetState(w, r, v)
    <3>1. rib' = IF v = p.vstate THEN w
                 ELSE IF Source[r].kind = "network" THEN set
                 ELSE Filtered(set, r, p.attr, v, obj)
      BY Zenon, <1>2, <1>3, <1>7, <2>1 DEF rde_rpki_softreload, SetState
    <3>. HIDE DEF ro, av, obj
    <3>. QED  BY SMTT(30), <3>1
  <2>4. CASE v = p.vstate
    <3>1. rib' = w
      BY SMTT(30), <2>3, <2>4
    <3>2. unfiltered' = unfiltered
      BY Zenon, <1>3, <3>1, <2>2
    <3>3. LocFollows'
      <4>1. rib'.adj = rib.adj /\ rib'.loc = rib.loc
        BY <3>1, <2>2
      <4>. QED  BY SMTT(30), <1>8, <4>1, <3>2 DEF RibRight, LocFollows, Follows, Waits
    <3>. QED  BY SMTT(30), <1>4, <2>2, <3>1, <3>3 DEF RibRight
  <2>5. CASE v # p.vstate
    <3>1. /\ Shape(set) /\ set.loc = w.loc
          /\ set.adj[r].vstate = v /\ set.adj[r].attr = p.attr /\ set.adj[r] # None
          /\ \A x \in Routes \ {r} : set.adj[x] = w.adj[x]
      BY SMTT(30), <1>2, <1>7, <2>2, <2>3, StateSet
    <3>2. CASE Source[r].kind = "network"
      <4>1. rib' = set
        BY SMTT(30), <2>3, <2>5, <3>2
      <4>2. unfiltered' = unfiltered
        BY SMTT(30), <1>3, <3>2
      <4>3. LocFollows' /\ \A x \in Routes : rib'.adj[x] = None => rib'.loc[x] = None
        BY SMTT(30), <1>8, <4>1, <4>2, <3>1, <3>2, <2>2, FollowsKept
      <4>. QED  BY SMTT(30), <1>4, <3>1, <4>1, <4>3 DEF RibRight
    <3>3. CASE Source[r].kind # "network"
      <4>1. rib' = Filtered(set, r, set.adj[r].attr, set.adj[r].vstate, obj)
        BY SMTT(30), <2>3, <2>5, <3>1, <3>3
      <4>2. /\ Shape(rib') /\ rib'.adj = set.adj
            /\ rib'.loc[r] = LocOf(set.adj[r])
            /\ \A x \in Routes \ {r} : rib'.loc[x] = set.loc[x]
        BY SMTT(30), <4>1, <3>1, FilteredRight
      <4>3. unfiltered \ {r} \subseteq unfiltered'
        BY <1>3
      <4>4. LocFollows' /\ \A x \in Routes : rib'.adj[x] = None => rib'.loc[x] = None
        BY SMTT(30), <1>8, <4>2, <4>3, <3>1, <2>2, FollowsKept
      <4>. QED  BY SMTT(30), <1>4, <4>2, <4>4 DEF RibRight
    <3>. QED  BY SMTT(30), <3>2, <3>3
  <2>. QED  BY <2>4, <2>5
<1>. QED  BY SMTT(30), <1>6, <1>7

\* The walk of a reload leaves one route behind with each step.
LEMMA SoftMoves ==
    ASSUME Configured, SoftStep
    PROVE  /\ Configured' /\ conf' = conf
           /\ soft'.reload = soft.reload /\ soft'.roles = soft.roles
           /\ \A y \in Routes \ {soft.next} : Awaited(y) => Awaited(y)'
<1>1. /\ conf' = conf /\ soft.next \in Routes
      /\ soft' = [soft EXCEPT !.next = NextOf(soft.next)]
  BY SMTT(30) DEF SoftStep, Configured
<1>2. PICK n, d, c, m : /\ soft = [next |-> n, reload |-> d, roles |-> c]
                        /\ m = NextOf(n)
  BY DEF Configured
<1>3. soft.next = n /\ soft.reload = d /\ soft.roles = c
  BY <1>2
<1>4. soft' = [next |-> m, reload |-> d, roles |-> c]
  BY <1>1, <1>2, <1>3
<1>5. Configured'
  BY <1>1, <1>2, <1>4, NextOfIn DEF Configured
<1>6. ASSUME NEW y \in Routes \ {n}, Awaited(y) PROVE Awaited(y)'
  <2>1. PICK k \in Nat : Routes = 1..k
    BY RoutesAreNumbered
  <2>2. n \in 1..k /\ y \in 1..k /\ y >= n /\ y # n
    BY <1>1, <1>3, <1>6, <2>1 DEF Awaited
  <2>3. m = n + 1
    BY <1>2, <2>1, <2>2 DEF NextOf
  <2>4. soft'.next = m
    BY <1>4
  <2>. QED  BY <2>2, <2>3, <2>4 DEF Awaited
<1>. QED  BY SMTT(30), <1>1, <1>3, <1>4, <1>5, <1>6

LEMMA SoftStepKeeps ==
    ASSUME NoneIsNoRoute, RibRight, SoftStep
    PROVE  RibRight'
<1>1. PICK r \in Routes : r = soft.next
  BY ZenonT(30) DEF SoftStep, RibRight, Configured
<1>2. PICK p : p = rib.adj[r]
  OBVIOUS
<1>. DEFINE filtered == soft.reload /\ Source[r].kind # "network"
<1>3. /\ rib' = rde_softreconfig_in(r, soft.reload)
      /\ soft' = [soft EXCEPT !.next = NextOf(r)]
      /\ unfiltered' = IF filtered THEN unfiltered \ {r}
                       ELSE IF rib'.adj[r] # rib.adj[r] THEN unfiltered \cup {r}
                       ELSE unfiltered
      /\ UNCHANGED rpki
  BY <1>1 DEF SoftStep
<1>9. /\ Configured' /\ conf' = conf /\ soft'.reload = soft.reload
      /\ \A x \in Routes \ {r} : Waits(x) => Waits(x)'
  BY <1>1, SoftMoves DEF RibRight, Waits
<1>4. rpki' \in Routes \cup {0} /\ Configured'
  BY Zenon, <1>3, <1>9 DEF RibRight
<1>5. Shape(rib)
  BY DEF RibRight
<1>6. unfiltered \ {r} \subseteq unfiltered'
  BY <1>3
<1>7. CASE p = None
  <2>1. rib' = rib
    BY SMTT(30), <1>2, <1>3, <1>7 DEF rde_softreconfig_in
  <2>2. rib.loc[r] = None /\ LocOf(rib.adj[r]) = None
    BY Zenon, <1>2, <1>7 DEF RibRight, LocOf
  <2>3. LocFollows' /\ \A x \in Routes : rib'.adj[x] = None => rib'.loc[x] = None
    BY SMTT(30), <1>5, <1>6, <1>9, <2>1, <2>2, FollowsKept
  <2>. QED  BY SMTT(30), <1>4, <1>5, <2>1, <2>3 DEF RibRight
<1>8. CASE p # None
  <2>1. PICK v1, v2, v, obj, set :
          /\ v = [roa |-> v1, aspa |-> v2]
          /\ set = SetState(rib, r, v)
          /\ rib' = IF Source[r].kind = "network" \/ ~soft.reload THEN set
                    ELSE Filtered(set, r, p.attr, set.adj[r].vstate, obj)
    <3>. DEFINE obj == rib.asp[rib.adj[r].attr]
                av == IF rib.adj[r].vstate.aspa = "NEVER_KNOWN" THEN "NEVER_KNOWN"
                      ELSE rde_aspa_validity(r, obj.outcome)
                ro == p.vstate.roa
                v == [roa |-> ro, aspa |-> av]
                set == [rib EXCEPT !.adj[r].vstate.aspa = av]
    <3>0. rib' = IF rib.adj[r] = None THEN rib
                 ELSE IF Source[r].kind = "network" \/ ~soft.reload THEN set
                 ELSE Filtered(set, r, rib.adj[r].attr, set.adj[r].vstate, obj)
      BY <1>3, Zenon DEF rde_softreconfig_in
    <3>. HIDE DEF set, obj
    <3>1. rib' = IF Source[r].kind = "network" \/ ~soft.reload THEN set
                 ELSE Filtered(set, r, p.attr, set.adj[r].vstate, obj)
      BY SMTT(30), <1>2, <3>0, <1>8
    <3>2. set = SetState(rib, r, v)
      <4>1. IsRoute(p)
        BY SMTT(30), <1>2, <1>5, <1>8 DEF Shape
      <4>2. [p.vstate EXCEPT !.aspa = av] = v
        <5>1. p.vstate = [roa |-> p.vstate.roa, aspa |-> p.vstate.aspa]
          BY <4>1 DEF IsRoute
        <5>0. PICK x : x = av
          OBVIOUS
        <5>2. PICK s, s1, s2 : s = p.vstate /\ s = [roa |-> s1, aspa |-> s2] /\ ro = s1
          BY <5>1
        <5>3. [s EXCEPT !.aspa = x] = [roa |-> s1, aspa |-> x]
          BY <5>2, OtherAspa
        <5>. QED  BY SMTT(30), <5>0, <5>2, <5>3
      <4>. HIDE DEF v, av
      <4>3. [rib.adj[r] EXCEPT !.vstate.aspa = av] = [rib.adj[r] EXCEPT !.vstate = v]
        BY Zenon, <4>2, <1>2
      <4>. QED  BY <4>3 DEF SetState, set
    <3>. HIDE DEF ro, av, obj, set
    <3>. QED  BY <3>1, <3>2
  <2>2. /\ Shape(set) /\ set.loc = rib.loc
        /\ set.adj[r].vstate = v /\ set.adj[r].attr = p.attr /\ set.adj[r] # None
        /\ \A x \in Routes \ {r} : set.adj[x] = rib.adj[x]
    BY SMTT(30), <1>2, <1>5, <1>8, <2>1, StateSet
  <2>3. CASE ~filtered
    <3>1. rib' = set
      BY SMTT(30), <2>1, <2>3
    <3>2. CASE rib'.adj[r] # rib.adj[r]
      <4>1. r \in unfiltered'
        BY SMTT(30), <1>3, <2>3, <3>2
      <4>2. LocFollows' /\ \A x \in Routes : rib'.adj[x] = None => rib'.loc[x] = None
        BY SMTT(30), <1>6, <1>9, <2>2, <3>1, <4>1, FollowsKept
      <4>. QED  BY SMTT(30), <1>4, <2>2, <3>1, <4>2 DEF RibRight
    <3>3. CASE rib'.adj[r] = rib.adj[r]
      <4>1. unfiltered' = unfiltered
        BY SMTT(30), <1>3, <2>3, <3>3
      <4>2. /\ \A x \in Routes : rib'.adj[x] = rib.adj[x]
            /\ rib'.loc = rib.loc
        BY Zenon, <2>2, <3>1, <3>3
      <4>3. LocFollows'
        <5>1. ASSUME NEW x \in Routes \ unfiltered', Source[x].kind # "network",
                     ~Waits(x)'
              PROVE  Follows(x)'
          <6>1. ~Waits(x)
            BY <1>9, <2>3, <5>1 DEF Waits
          <6>2. Follows(x)
            BY SMTT(30), <4>1, <5>1, <6>1 DEF RibRight, LocFollows, Waits
          <6>. QED  BY <1>9, <4>2, <6>2 DEF Follows
        <5>. QED  BY SMTT(30), <5>1 DEF LocFollows, Waits
      <4>. QED  BY SMTT(30), <1>4, <2>2, <3>1, <4>2, <4>3 DEF RibRight
    <3>. QED  BY Zenon, <3>2, <3>3
  <2>4. CASE filtered
    <3>1. rib' = Filtered(set, r, set.adj[r].attr, set.adj[r].vstate, obj)
      BY SMTT(30), <2>1, <2>2, <2>4
    <3>2. /\ Shape(rib') /\ rib'.adj = set.adj
          /\ rib'.loc[r] = LocOf(set.adj[r])
          /\ \A x \in Routes \ {r} : rib'.loc[x] = set.loc[x]
      BY SMTT(30), <3>1, <2>2, FilteredRight
    <3>3. LocFollows' /\ \A x \in Routes : rib'.adj[x] = None => rib'.loc[x] = None
      BY SMTT(30), <1>6, <1>9, <2>2, <3>2, FollowsKept
    <3>. QED  BY <1>4, <3>2, <3>3 DEF RibRight
  <2>. QED  BY <2>3, <2>4
<1>. QED  BY <1>7, <1>8

\* A step that leaves the routes and the configuration alone.
LEMMA RibSame ==
    ASSUME RibRight, UNCHANGED <<conf, soft, rib, unfiltered>>,
           rpki' \in Routes \cup {0}
    PROVE  RibRight'
<1>1. Configured' /\ \A x : Awaited(x)' <=> Awaited(x)
  BY Zenon, SameConf DEF RibRight
<1>2. \A x : Follows(x)' <=> Follows(x)
  BY Zenon DEF Follows
<1>3. LocFollows'
  BY Zenon, <1>1, <1>2 DEF RibRight, LocFollows
<1>. QED  BY Zenon, <1>1, <1>3 DEF RibRight, Shape, IsRoute

LEMMA DispatchKeeps ==
    ASSUME RibRight, rde_dispatch_imsg_rtr
    PROVE  RibRight'
<1>1. UNCHANGED <<conf, soft, rib, unfiltered>>
  BY DEF rde_dispatch_imsg_rtr
<1>2. rpki' = rpki \/ rpki' = 1 \/ rpki' = 0
  BY DEF rde_dispatch_imsg_rtr, RtrDone, Switch
<1>3. rpki' \in Routes \cup {0}
  BY <1>2, RoutesAreNumbered DEF RibRight
<1>. QED  BY Zenon, <1>1, <1>3, RibSame

\* A reload that changes the rules or the filter mode has the walk come to every
\* route; one that changes neither leaves what the filter makes of a route.
LEMMA SoftStartKeeps ==
    ASSUME RibRight, SoftStart
    PROVE  RibRight'
<1>1. UNCHANGED <<rib, rpki, unfiltered>> /\ soft.next = 0
  BY DEF SoftStart
<1>2. PICK new \in Confs :
        /\ conf' = new
        /\ soft' = [next |-> 1,
                    reload |-> \/ new.rules # conf.rules
                               \/ new.filtered_in_locrib # conf.filtered_in_locrib,
                    roles |-> Rerole(new)]
  BY Zenon DEF SoftStart
<1>3. 1 \in Routes /\ \A r \in Routes : r >= 1
  BY SMTT(30), RoutesAreNumbered
<1>4. Configured'
  BY SMTT(30), <1>2, <1>3 DEF Configured
<1>5. ASSUME NEW r \in Routes \ unfiltered, Source[r].kind # "network", ~Waits(r)'
      PROVE  Follows(r)'
  <2>1. Awaited(r)'
    BY SMTT(30), <1>2, <1>3 DEF Awaited
  <2>2. conf'.rules = conf.rules /\ conf'.filtered_in_locrib = conf.filtered_in_locrib
    BY SMTT(30), <1>2, <1>5, <2>1 DEF Waits
  <2>3. Follows(r)
    BY SMTT(30), <1>1, <1>5 DEF RibRight, LocFollows, Awaited
  <2>. QED  BY ZenonT(30), <1>1, <2>2, <2>3 DEF Follows
<1>6. LocFollows'
  BY <1>1, <1>5 DEF LocFollows, Waits
<1>. QED  BY <1>1, <1>4, <1>6 DEF RibRight, Shape, IsRoute

LEMMA RibKept ==
    ASSUME NoneIsNoRoute, RibRight, [Next]_vars
    PROVE  RibRight'
<1>1. CASE Recalc
  <2>1. UNCHANGED <<conf, soft, rib, unfiltered>> /\ rpki' \in Routes \cup {0}
    BY <1>1 DEF Recalc, RibRight
  <2>. QED  BY Zenon, <2>1, RibSame
<1>2. CASE rde_dispatch_imsg_rtr
  BY <1>2, DispatchKeeps
<1>3. CASE \E r \in Routes : \E attr \in Announced[r] : Announce(r, attr)
  BY <1>3, AnnounceKeeps
<1>4. CASE \E r \in Routes : Withdraw(r)
  BY <1>4, WithdrawKeeps
<1>5. CASE RpkiStep
  BY Zenon, <1>5, RpkiStepKeeps
<1>6. CASE SoftStart
  BY <1>6, SoftStartKeeps
<1>7. CASE SoftStep
  BY SMTT(30), <1>7, SoftStepKeeps
<1>8. CASE UNCHANGED vars
  <2>1. UNCHANGED <<conf, soft, rib, unfiltered>> /\ rpki' \in Routes \cup {0}
    BY <1>8 DEF vars, RibRight
  <2>. QED  BY Zenon, <2>1, RibSame
<1>. QED  BY SMTT(30), <1>1, <1>2, <1>3, <1>4, <1>5, <1>6, <1>7, <1>8 DEF Next

\* The Loc-RIB holds what the input filter in use makes of the Adj-RIB-In,
\* whatever announcements, withdrawals, revalidation after a new table and
\* reloads that change the rules, the filter mode or the roles do in between,
\* for any filters and any tables.  Two kinds of routes may differ: those the
\* walk of a reload has still to come to, when it changed the rules or the mode,
\* and those whose state a reload changed without filtering them again
\* (rde_update_update, rde_rpki_softreload, rde_reload_done,
\* rde_softreconfig_in).
THEOREM LocFollowsKept ==
    ASSUME NoneIsNoRoute
    PROVE  Spec => []LocFollows
<1>1. Init => RibRight
  BY RibInit
<1>2. RibRight /\ [Next]_vars => RibRight'
  BY RibKept
<1>3. RibRight => LocFollows
  BY DEF RibRight
<1>. QED  BY <1>1, <1>2, <1>3, PTL DEF Spec
-----------------------------------------------------------------------------
(***************************************************************************)
(* Validation states.  That a table in use holds the records it was made   *)
(* from and that aspa_validation computes what the reference says is about *)
(* data, and checked by TLC (TableRight, ValidationRight).  From these it  *)
(* is proved that no interleaving leaves a stale state behind.             *)
(***************************************************************************)

\* None is no outcome of a validation.
NoneIsNoObject == \A g, o : None # [gen |-> g, outcome |-> o]

\* No input filter changes the path to one with another outcome.  Repeating the
\* first AS does not (prepend-neighbor), since validation skips repetitions;
\* prepend-self and as-override may, and then the object of the filtered route
\* carries the outcome of the path as it was received.
FiltersKeepOutcome ==
  \A c \in Confs, a \in Attrs : \A v, x :
    InRules(c.rules, a, v) # None =>
      Expected(x, InRules(c.rules, a, v).path) = Expected(x, a.path)

\* The generation, one byte, does not come round to zero.
NoWrap == rde_aspa_generation' >= rde_aspa_generation

\* An outcome of a validation; the state of a route may be none.
Decided(c) == c.onlyup # "NEVER_KNOWN" /\ c.downup # "NEVER_KNOWN"

\* Object o for the path, when the generation is g and the records are x.
ObjRight(o, path, g, x) ==
  /\ o.gen \in Nat /\ o.gen <= g
  /\ Decided(o.outcome)
  /\ o.gen = g => o.outcome = Expected(x, path)

CacheOk(w, g, x) ==
  /\ DOMAIN w.asp = Attrs
  /\ \A a \in Attrs : w.asp[a] # None => ObjRight(w.asp[a], a.path, g, x)

\* The object of a route of the Adj-RIB-In is there.
Held(w) ==
  \A r \in Routes :
    w.adj[r] # None => w.adj[r].attr \in Attrs /\ w.asp[w.adj[r].attr] # None

Sound(w, g, x) == Shape(w) /\ CacheOk(w, g, x) /\ Held(w)

LEMMA FreedSound ==
    ASSUME NEW w, NEW g, NEW x, Sound(w, g, x)
    PROVE  Sound(Freed(w), g, x)
<1>1. Shape(Freed(w)) /\ Freed(w).adj = w.adj
  BY FreedSame DEF Sound
<1>2. Freed(w).asp = [a \in Attrs |-> IF a \in Refs(w) THEN w.asp[a] ELSE None]
  BY DEF Freed, Sound, Shape
<1>3. CacheOk(Freed(w), g, x)
  BY <1>2 DEF CacheOk, Sound
<1>4. ASSUME NEW r \in Routes, w.adj[r] # None
      PROVE  w.adj[r].attr \in Refs(w)
  BY Zenon, <1>4 DEF Refs
<1>5. Held(Freed(w))
  BY SMTT(30), <1>1, <1>2, <1>4 DEF Held, Sound
<1>. QED  BY <1>1, <1>3, <1>5 DEF Sound

\* path_getcache() keeps what is there and adds a right object.
LEMMA GetCache ==
    ASSUME NEW w, NEW g, NEW x, CacheOk(w, g, x), NEW a, NEW fresh,
           ObjRight(fresh, a.path, g, x), fresh # None,
           NEW asp, asp = path_getcache(w.asp, a, fresh)
    PROVE  /\ DOMAIN asp = Attrs
           /\ \A b \in Attrs : asp[b] # None => ObjRight(asp[b], b.path, g, x)
           /\ \A b \in Attrs : w.asp[b] # None => asp[b] # None
           /\ a \in Attrs => asp[a] # None
BY DEF path_getcache, CacheOk

LEMMA UpdateLocSound ==
    ASSUME NEW w, NEW g, NEW x, Sound(w, g, x), NEW r \in Routes, NEW a, NEW v,
           NEW fresh, ObjRight(fresh, a.path, g, x), fresh # None, NEW f,
           NEW u, u = prefix_update(w, "loc", r, a, v, fresh, f)
    PROVE  Sound(u, g, x)
<1>. DEFINE e == [attr |-> a, vstate |-> v, filtered |-> f]
            asp == path_getcache(w.asp, a, fresh)
            set == [w EXCEPT !["loc"][r] = e, !.asp = path_getcache(@, a, fresh)]
<1>1. /\ DOMAIN set = {"adj", "loc", "asp"} /\ set.adj = w.adj
      /\ set.loc = [w.loc EXCEPT ![r] = e] /\ set.asp = asp
  BY DEF Shape, Sound
<1>2. Shape(set)
  BY <1>1 DEF Shape, Sound
<1>3. u = Freed(set)
  BY Zenon DEF prefix_update
<1>4. /\ DOMAIN asp = Attrs
      /\ \A b \in Attrs : asp[b] # None => ObjRight(asp[b], b.path, g, x)
      /\ \A b \in Attrs : w.asp[b] # None => asp[b] # None
  BY Zenon, GetCache DEF Sound
<1>. HIDE DEF set, asp, e
<1>5. CacheOk(set, g, x)
  BY Zenon, <1>1, <1>4 DEF CacheOk
<1>6. Held(set)
  BY Zenon, <1>1, <1>4 DEF Held, Sound
<1>. QED  BY <1>2, <1>3, <1>5, <1>6, FreedSound DEF Sound

LEMMA UpdateAdjSound ==
    ASSUME NEW w, NEW g, NEW x, Sound(w, g, x), NEW r \in Routes,
           NEW a \in Attrs, NEW v1, NEW v2, NEW v, v = [roa |-> v1, aspa |-> v2],
           NEW fresh, ObjRight(fresh, a.path, g, x), fresh # None,
           NEW u, u = Take(w, r, a, v, fresh)
    PROVE  Sound(u, g, x)
<1>. DEFINE e == Passed(a, v)
            asp == path_getcache(w.asp, a, fresh)
            set == [w EXCEPT !["adj"][r] = e, !.asp = path_getcache(@, a, fresh)]
<1>1. /\ DOMAIN set = {"adj", "loc", "asp"} /\ set.loc = w.loc
      /\ set.adj = [w.adj EXCEPT ![r] = e] /\ set.asp = asp
  BY DEF Shape, Sound
<1>2. u = Freed(set)
  BY Zenon DEF prefix_update, Take, Passed
<1>3. /\ DOMAIN asp = Attrs
      /\ \A b \in Attrs : asp[b] # None => ObjRight(asp[b], b.path, g, x)
      /\ \A b \in Attrs : w.asp[b] # None => asp[b] # None
      /\ asp[a] # None
  BY Zenon, GetCache DEF Sound
<1>4. IsRoute(e) /\ e.attr = a
  BY Zenon DEF IsRoute, Passed
<1>. HIDE DEF set, asp, e
<1>5. Shape(set)
  BY Zenon, <1>1, <1>4 DEF Shape, Sound
<1>6. CacheOk(set, g, x)
  BY Zenon, <1>1, <1>3 DEF CacheOk
<1>7. Held(set)
  <2>1. ASSUME NEW y \in Routes, set.adj[y] # None
        PROVE  set.adj[y].attr \in Attrs /\ set.asp[set.adj[y].attr] # None
    <3>0. DOMAIN w.adj = Routes
      BY Zenon DEF Shape, Sound
    <3>1. CASE y = r
      BY ONLY SMTT(30), <3>0, <3>1, <1>1, <1>3, <1>4, a \in Attrs
    <3>2. CASE y # r
      BY <2>1, <3>2, <1>1, <1>3 DEF Shape, Held, Sound
    <3>. QED  BY ZenonT(30), <3>1, <3>2
  <2>. QED  BY Zenon, <2>1 DEF Held
<1>. QED  BY <1>2, <1>5, <1>6, <1>7, FreedSound DEF Sound

LEMMA WithdrawSound ==
    ASSUME NEW w, NEW g, NEW x, Sound(w, g, x), NEW r \in Routes,
           NEW t \in {"adj", "loc"}, NEW u, u = prefix_withdraw(w, t, r)
    PROVE  Sound(u, g, x)
<1>. DEFINE set == [w EXCEPT ![t][r] = None]
<1>1. /\ DOMAIN set = {"adj", "loc", "asp"} /\ set.asp = w.asp
      /\ DOMAIN set.adj = Routes /\ DOMAIN set.loc = Routes
      /\ \A y \in Routes : set.adj[y] = None \/ set.adj[y] = w.adj[y]
  BY DEF Shape, Sound
<1>2. u = Freed(set)
  BY Zenon DEF prefix_withdraw
<1>. HIDE DEF set
<1>3. Shape(set)
  BY SMTT(30), <1>1 DEF Shape, Sound
<1>4. CacheOk(set, g, x) /\ Held(set)
  BY <1>1 DEF CacheOk, Held, Sound
<1>. QED  BY <1>2, <1>3, <1>4, FreedSound DEF Sound

LEMMA FilteredSound ==
    ASSUME FiltersKeepOutcome, conf \in Confs,
           NEW w, NEW g, NEW x, Sound(w, g, x),
           NEW r \in Routes, NEW a \in Attrs, NEW v, NEW fresh,
           ObjRight(fresh, a.path, g, x), fresh # None,
           NEW u, u = Filtered(w, r, a, v, fresh)
    PROVE  Sound(u, g, x)
<1>. DEFINE out == InRules(conf.rules, a, v)
<1>1. CASE out # None
  <2>1. u = prefix_update(w, "loc", r, out, v, fresh, FALSE)
    BY Zenon, <1>1 DEF Filtered
  <2>2. Expected(x, out.path) = Expected(x, a.path)
    BY ZenonT(30), <1>1 DEF FiltersKeepOutcome
  <2>. HIDE DEF out
  <2>3. ObjRight(fresh, out.path, g, x)
    BY <2>2 DEF ObjRight
  <2>. QED  BY Zenon, <2>1, <2>3, UpdateLocSound
<1>2. CASE out = None /\ conf.filtered_in_locrib
  <2>1. u = prefix_update(w, "loc", r, a, v, fresh, TRUE)
    BY <1>2 DEF Filtered
  <2>. QED  BY Zenon, <2>1, UpdateLocSound
<1>3. CASE out = None /\ ~conf.filtered_in_locrib
  <2>1. u = prefix_withdraw(w, "loc", r)
    BY <1>3 DEF Filtered
  <2>. QED  BY <2>1, WithdrawSound
<1>. QED  BY <1>1, <1>2, <1>3

LEMMA SetStateSound ==
    ASSUME NoneIsNoRoute, NEW w, NEW g, NEW x, Sound(w, g, x),
           NEW r \in Routes, w.adj[r] # None,
           NEW v1, NEW v2, NEW v, v = [roa |-> v1, aspa |-> v2],
           NEW u, u = SetState(w, r, v)
    PROVE  Sound(u, g, x)
<1>1. /\ Shape(u) /\ u.adj[r].attr = w.adj[r].attr
      /\ \A y \in Routes \ {r} : u.adj[y] = w.adj[y]
  BY StateSet DEF Sound
<1>2. u.asp = w.asp
  BY Zenon DEF SetState, Shape, Sound
<1>3. CacheOk(u, g, x)
  BY Zenon, <1>2 DEF CacheOk, Sound
<1>4. Held(u)
  <2>1. ASSUME NEW y \in Routes, u.adj[y] # None
        PROVE  u.adj[y].attr \in Attrs /\ u.asp[u.adj[y].attr] # None
    <3>1. CASE y = r
      BY Zenon, <3>1, <1>1, <1>2 DEF Held, Sound
    <3>2. CASE y # r
      BY Zenon, <2>1, <3>2, <1>1, <1>2 DEF Held, Sound
    <3>. QED  BY Zenon, <3>1, <3>2
  <2>. QED  BY Zenon, <2>1 DEF Held
<1>. QED  BY ZenonT(30), <1>1, <1>3, <1>4 DEF Sound

\* The reference always decides, and so does the code when it agrees.
LEMMA ExpectedDecided ==
    ASSUME NEW x, NEW path
    PROVE  Decided(Expected(x, path))
BY DEF Decided, Expected, Both, Verdict

LEMMA ValidationDecided ==
    ASSUME ValidationRight, NEW a \in Attrs
    PROVE  /\ aspa_validation(rde_aspa, a.path) = Expected(vaps, a.path)
           /\ Decided(aspa_validation(rde_aspa, a.path))
<1>1. aspa_validation(rde_aspa, a.path) = Expected(vaps, a.path)
  BY DEF ValidationRight
<1>. QED  BY <1>1, ExpectedDecided

\* Only a route of an eBGP neighbor has a state.
LEMMA ValidityNever ==
    ASSUME NEW r, NEW c, Decided(c), rde_aspa_validity(r, c) = "NEVER_KNOWN"
    PROVE  Source[r].kind # "ebgp"
BY Zenon DEF Decided, rde_aspa_validity

\* An object that is computed anew is right.
LEMMA RevalidatedSound ==
    ASSUME NoneIsNoObject, ValidationRight, rde_aspa_generation \in Nat,
           Sound(rib, rde_aspa_generation, vaps),
           NEW a \in Attrs, rib.asp[a] # None, NEW w, w = Revalidated(rib, a)
    PROVE  /\ Sound(w, rde_aspa_generation, vaps)
           /\ w.asp[a] # None
           /\ w.asp[a].outcome = Expected(vaps, a.path)
<1>. DEFINE new == [gen |-> rde_aspa_generation,
                    outcome |-> aspa_validation(rde_aspa, a.path)]
            o == IF rib.asp[a].gen = rde_aspa_generation THEN rib.asp[a] ELSE new
<1>1. /\ Shape(w) /\ w.adj = rib.adj
  BY RevalidatedSame DEF Sound
<1>2. w.asp = [rib.asp EXCEPT ![a] = o]
  BY Zenon DEF Revalidated, Shape, Sound
<1>3. ObjRight(new, a.path, rde_aspa_generation, vaps) /\ new # None
  BY ValidationDecided DEF ObjRight, NoneIsNoObject
<1>4. ObjRight(rib.asp[a], a.path, rde_aspa_generation, vaps)
  BY DEF Sound, CacheOk
<1>. HIDE DEF new
<1>5. /\ ObjRight(o, a.path, rde_aspa_generation, vaps) /\ o # None
      /\ o.gen = rde_aspa_generation
  <2>1. new.gen = rde_aspa_generation
    BY DEF new
  <2>. QED  BY <2>1, <1>3, <1>4
<1>. HIDE DEF o
<1>6. w.asp[a] = o /\ DOMAIN w.asp = Attrs
  BY <1>2 DEF Sound, CacheOk
<1>7. \A b \in Attrs \ {a} : w.asp[b] = rib.asp[b]
  BY <1>2 DEF Sound, CacheOk
<1>8. CacheOk(w, rde_aspa_generation, vaps)
  BY Zenon, <1>5, <1>6, <1>7 DEF CacheOk, Sound
<1>9. Held(w)
  BY <1>1, <1>5, <1>6, <1>7 DEF Held, Sound
<1>. QED  BY <1>1, <1>5, <1>6, <1>8, <1>9 DEF Sound, ObjRight

\* What route r, e in the Adj-RIB-In, is due: passed by the walk or not, and
\* given an outcome of an earlier generation by a reload or not.
RouteOk(r, e, roa, x, passed, old) ==
  e # None =>
    /\ e.vstate.aspa = "NEVER_KNOWN" => Source[r].kind # "ebgp"
    /\ passed => e.vstate.roa = rde_roa_validity(roa, r, e.attr.path)
    /\ passed /\ ~old =>
         e.vstate.aspa = rde_aspa_validity(r, Expected(x, e.attr.path))

WalkPassed(r) == rpki = 0 \/ r < rpki

\* Given an outcome of an earlier generation by a reload, or still to be given
\* the state that goes with another role.
Excused(r) == r \in outdated \/ (r \in soft.roles /\ Awaited(r))

StatesOk ==
  /\ RibRight
  /\ rde_aspa_generation \in 0..(Gens - 1)
  /\ rde_aspa_generation = 0 => vaps = <<>>
  /\ Sound(rib, rde_aspa_generation, vaps)
  /\ \A r \in Routes :
       RouteOk(r, rib.adj[r], rde_roa, vaps, WalkPassed(r), Excused(r))

LEMMA StatesOkRight == ASSUME StatesOk PROVE StatesRight
<1>1. CacheRight
  BY DEF StatesOk, Sound, CacheOk, ObjRight, CacheRight
<1>2. ASSUME NEW r \in Routes \ outdated, Checked(r),
             ~(r \in soft.roles /\ Awaited(r))
      PROVE  rib.adj[r].vstate = Wanted(r)
  <2>1. IsRoute(rib.adj[r])
    BY <1>2 DEF StatesOk, RibRight, Shape, Checked
  <2>2. PICK e : e = rib.adj[r]
    BY SMTT(30)
  <2>3. /\ e.vstate.roa = rde_roa_validity(rde_roa, r, e.attr.path)
        /\ e.vstate.aspa = rde_aspa_validity(r, Expected(vaps, e.attr.path))
    BY SMTT(30), <1>2, <2>2 DEF StatesOk, RouteOk, Checked, WalkPassed, Excused
  <2>4. e.vstate = [roa |-> e.vstate.roa, aspa |-> e.vstate.aspa]
    BY SMTT(30), <2>1, <2>2 DEF IsRoute
  <2>. QED  BY Zenon, <2>2, <2>3, <2>4 DEF Wanted
<1>. QED  BY Zenon, <1>1, <1>2 DEF StatesRight, VstateRight

LEMMA StatesInit == ASSUME Init PROVE StatesOk
<1>1. /\ rde_aspa_generation = 0 /\ vaps = <<>>
      /\ \A r \in Routes : rib.adj[r] = None
      /\ rib.asp = [a \in Attrs |-> None]
  BY DEF Init, NoRoutes
<1>2. rde_aspa_generation \in 0..(Gens - 1)
  BY <1>1, GensAssumption
<1>3. RibRight
  BY RibInit
<1>4. Sound(rib, rde_aspa_generation, vaps)
  BY <1>1, <1>3 DEF Sound, CacheOk, Held, RibRight
<1>. QED  BY SMTT(30), <1>1, <1>2, <1>3, <1>4 DEF StatesOk, RouteOk

\* A step that is not of a reload: a route is excused as before.
LEMMA SameExcuse ==
    ASSUME StatesOk, UNCHANGED <<conf, soft>>, NEW y,
           y \in outdated => y \in outdated'
    PROVE  Excused(y) => Excused(y)'
<1>1. Awaited(y)' <=> Awaited(y)
  BY Zenon, SameConf DEF StatesOk, RibRight
<1>. QED  BY <1>1 DEF Excused

\* A step that touches route r only, no table and not the configuration.
LEMMA OneRoute ==
    ASSUME StatesOk, RibRight', NEW r \in Routes,
           UNCHANGED <<rde_aspa_generation, rde_roa, vaps, conf>>,
           Sound(rib', rde_aspa_generation, vaps),
           \A y \in Routes \ {r} : /\ rib'.adj[y] = rib.adj[y]
                                   /\ WalkPassed(y)' => WalkPassed(y)
                                   /\ Excused(y) => Excused(y)',
           RouteOk(r, rib'.adj[r], rde_roa, vaps, WalkPassed(r)', Excused(r)')
    PROVE  StatesOk'
<1>1. ASSUME NEW y \in Routes
      PROVE  RouteOk(y, rib'.adj[y], rde_roa, vaps, WalkPassed(y)', Excused(y)')
  <2>1. CASE y = r
    BY Zenon, <2>1
  <2>2. CASE y # r
    BY Zenon, <2>2 DEF StatesOk, RouteOk
  <2>. QED  BY Zenon, <2>1, <2>2
<1>2. ASSUME NEW y \in Routes
      PROVE  RouteOk(y, rib.adj[y], rde_roa, vaps, WalkPassed(y), Excused(y))'
  BY Zenon, <1>1 DEF RouteOk, rde_roa_validity, rde_aspa_validity
<1>3. Sound(rib, rde_aspa_generation, vaps)'
  BY Zenon DEF Sound, CacheOk, ObjRight, Held, Shape, Decided
<1>. QED  BY Zenon, <1>2, <1>3 DEF StatesOk

LEMMA WithdrawStates ==
    ASSUME StatesOk, RibRight', NEW r \in Routes, Withdraw(r)
    PROVE  StatesOk'
<1>1. PICK w : w = prefix_withdraw(rib, "loc", r)
  OBVIOUS
<1>2. rib' = prefix_withdraw(w, "adj", r)
  BY <1>1 DEF Withdraw
<1>3. /\ outdated' = outdated \ {r}
      /\ UNCHANGED <<rpki, rde_aspa_generation, rde_roa, vaps, conf, soft>>
  BY DEF Withdraw, tables
<1>10. \A y \in Routes \ {r} : Excused(y) => Excused(y)'
  BY <1>3, SameExcuse
<1>4. Sound(w, rde_aspa_generation, vaps)
  BY <1>1, WithdrawSound DEF StatesOk
<1>5. Sound(rib', rde_aspa_generation, vaps)
  BY Zenon, <1>2, <1>4, WithdrawSound
<1>6. Shape(w) /\ w.adj = rib.adj
  BY <1>1, WithdrawLoc DEF StatesOk, Sound
<1>7. rib'.adj[r] = None /\ \A y \in Routes \ {r} : rib'.adj[y] = w.adj[y]
  BY SMTT(30), <1>2, <1>6, WithdrawAdj
<1>8. RouteOk(r, rib'.adj[r], rde_roa, vaps, WalkPassed(r)', Excused(r)')
  BY <1>7 DEF RouteOk
<1>9. \A y \in Routes \ {r} : /\ rib'.adj[y] = rib.adj[y]
                              /\ WalkPassed(y)' => WalkPassed(y)
                              /\ Excused(y) => Excused(y)'
  BY Zenon, <1>3, <1>6, <1>7, <1>10 DEF WalkPassed
<1>. QED  BY Zenon, <1>3, <1>5, <1>8, <1>9, OneRoute

LEMMA AnnounceStates ==
    ASSUME NoneIsNoRoute, NoneIsNoObject, FiltersKeepOutcome, ValidationRight,
           StatesOk, RibRight',
           NEW r \in Routes, NEW attr \in Announced[r], Announce(r, attr)
    PROVE  StatesOk'
<1>. DEFINE g == rde_aspa_generation
            ebgp == Source[r].kind = "ebgp"
            path == attr.path
<1>1. PICK out, fresh, ro, av, v, w :
        /\ out = IF ebgp THEN aspa_validation(rde_aspa, path) ELSE Both("UNKNOWN")
        /\ fresh = [gen |-> IF ebgp THEN g ELSE 0, outcome |-> out]
        /\ ro = rde_roa_validity(rde_roa, r, path)
        /\ av = rde_aspa_validity(r, out)
        /\ v = [roa |-> ro, aspa |-> av]
        /\ w = Take(rib, r, attr, v, fresh)
        /\ rib' = IF Source[r].kind = "network"
                  THEN Pass(w, r, attr, v, fresh)
                  ELSE Filtered(w, r, attr, v, fresh)
  <2>. DEFINE out == IF ebgp THEN aspa_validation(rde_aspa, path) ELSE Both("UNKNOWN")
              fresh == [gen |-> IF ebgp THEN g ELSE 0, outcome |-> out]
              ro == rde_roa_validity(rde_roa, r, path)
              av == rde_aspa_validity(r, fresh.outcome)
              v == [roa |-> ro, aspa |-> av]
              w == Take(rib, r, attr, v, fresh)
  <2>1. rib' = IF Source[r].kind = "network"
               THEN Pass(w, r, attr, v, fresh)
               ELSE Filtered(w, r, attr, v, fresh)
    BY Zenon DEF Announce, Take, Pass
  <2>2. av = rde_aspa_validity(r, out)
    <3>. HIDE DEF out
    <3>. QED  OBVIOUS
  <2>. HIDE DEF out, ro, av, w
  <2>. QED  BY Zenon, <2>1, <2>2 DEF out, ro, w
<1>0. v = [roa |-> ro, aspa |-> av] /\ w = Take(rib, r, attr, v, fresh)
  BY Zenon, <1>1
<1>2. /\ outdated' = outdated \ {r}
      /\ UNCHANGED <<rpki, rde_aspa_generation, rde_roa, vaps, conf, soft>>
  BY SMTT(30) DEF Announce, tables
<1>17. \A y \in Routes \ {r} : Excused(y) => Excused(y)'
  BY <1>2, SameExcuse
<1>18. conf \in Confs
  BY Zenon DEF StatesOk, RibRight, Configured
<1>3. attr \in Attrs
  BY SMTT(30) DEF Attrs
<1>4. g \in Nat
  BY SMTT(30), GensAssumption DEF StatesOk
<1>5. ebgp => out = Expected(vaps, path)
  BY Zenon, <1>1, <1>3, ValidationDecided
<1>6. ~ebgp => out = Both("UNKNOWN")
  BY Zenon, <1>1
<1>7. Decided(out)
  <2>1. Decided(Both("UNKNOWN"))
    BY DEF Decided, Both
  <2>. QED  BY SMTT(30), <2>1, <1>5, <1>6, ExpectedDecided
<1>8. g = 0 => Expected(vaps, path) = Both("UNKNOWN")
  BY SMTT(30) DEF StatesOk, Expected
<1>9. fresh.outcome = out /\ fresh.gen = (IF ebgp THEN g ELSE 0) /\ fresh # None
  BY Zenon, <1>1 DEF NoneIsNoObject
<1>10. ObjRight(fresh, path, g, vaps)
  BY SMTT(30), <1>4, <1>5, <1>6, <1>7, <1>8, <1>9 DEF ObjRight
<1>11. Sound(w, g, vaps)
  BY ZenonT(30), <1>0, <1>3, <1>9, <1>10, UpdateAdjSound DEF StatesOk
<1>12. /\ Shape(w)
       /\ w.adj[r] = Passed(attr, v)
       /\ \A x \in Routes \ {r} : w.adj[x] = rib.adj[x]
  <2>1. Shape(rib)
    BY ZenonT(30) DEF StatesOk, RibRight
  <2>. QED  BY SMTT(30), <1>0, <2>1, UpdateAdj
<1>13. w.adj[r].attr = attr /\ w.adj[r].vstate = v /\ w.adj[r] # None
  BY SMTT(30), <1>12 DEF Passed, NoneIsNoRoute
<1>14. Sound(rib', g, vaps) /\ rib'.adj = w.adj
  <2>1. CASE Source[r].kind = "network"
    <3>1. rib' = Pass(w, r, attr, v, fresh)
      BY <2>1, <1>1
    <3>2. Sound(rib', g, vaps)
      BY ZenonT(30), <3>1, <1>9, <1>10, <1>11, UpdateLocSound DEF Pass
    <3>3. rib'.adj = w.adj
      BY SMTT(30), <3>1, <1>12, UpdateLoc
    <3>. QED  BY ZenonT(30), <3>2, <3>3
  <2>2. CASE Source[r].kind # "network"
    <3>1. rib' = Filtered(w, r, attr, v, fresh)
      BY Zenon, <2>2, <1>1
    <3>2. Sound(rib', g, vaps)
      BY Zenon, <3>1, <1>3, <1>9, <1>10, <1>11, <1>18, FilteredSound
    <3>3. rib' = Filtered(w, r, w.adj[r].attr, w.adj[r].vstate, fresh)
      BY ZenonT(30), <3>1, <1>13
    <3>4. rib'.adj = w.adj
      BY SMTT(30), <3>3, <1>12, <1>13, FilteredRight
    <3>. QED  BY <3>2, <3>4
  <2>. QED  BY <2>1, <2>2
<1>15. RouteOk(r, rib'.adj[r], rde_roa, vaps, WalkPassed(r)', Excused(r)')
  <2>1. av = rde_aspa_validity(r, Expected(vaps, path))
    BY Zenon, <1>1, <1>5 DEF rde_aspa_validity
  <2>2. av = "NEVER_KNOWN" => Source[r].kind # "ebgp"
    BY Zenon, <1>1, <1>7, ValidityNever
  <2>3. v.roa = ro /\ v.aspa = av
    BY Zenon, <1>1
  <2>4. PICK e : e = rib'.adj[r]
    BY Zenon
  <2>5. e.attr = attr /\ e.vstate.roa = ro /\ e.vstate.aspa = av
    BY Zenon, <2>3, <2>4, <1>13, <1>14
  <2>6. e.vstate.roa = rde_roa_validity(rde_roa, r, e.attr.path)
    BY ZenonT(30), <2>5, <1>1
  <2>7. e.vstate.aspa = rde_aspa_validity(r, Expected(vaps, e.attr.path))
    BY SMTT(30), <2>1, <2>5
  <2>. QED  BY Zenon, <2>2, <2>4, <2>5, <2>6, <2>7 DEF RouteOk
<1>16. \A y \in Routes \ {r} : /\ rib'.adj[y] = rib.adj[y]
                               /\ WalkPassed(y)' => WalkPassed(y)
                               /\ Excused(y) => Excused(y)'
  BY Zenon, <1>2, <1>12, <1>14, <1>17 DEF WalkPassed
<1>. QED  BY Zenon, <1>2, <1>14, <1>15, <1>16, OneRoute

\* The walk: the number of a route that is passed is smaller than the next.
LEMMA WalkMoves ==
    ASSUME rpki \in Routes, rpki' = NextOf(rpki), NEW y \in Routes \ {rpki},
           WalkPassed(y)'
    PROVE  WalkPassed(y)
<1>1. PICK n \in Nat : Routes = 1..n
  BY RoutesAreNumbered
<1>2. rpki \in Int /\ y \in Int
  BY <1>1
<1>3. CASE rpki + 1 \in Routes
  BY <1>2, <1>3, <1>1 DEF NextOf, WalkPassed
<1>4. CASE rpki + 1 \notin Routes
  BY <1>1, <1>2, <1>4 DEF WalkPassed
<1>. QED  BY <1>3, <1>4

LEMMA RpkiStepStates ==
    ASSUME NoneIsNoRoute, NoneIsNoObject, FiltersKeepOutcome, ValidationRight,
           StatesOk, RibRight', RpkiStep
    PROVE  StatesOk'
<1>. DEFINE g == rde_aspa_generation
<1>1. PICK r \in Routes : r = rpki
  BY DEF RpkiStep, StatesOk, RibRight
<1>2. PICK p : p = rib.adj[r]
  BY Zenon
<1>3. /\ rib' = rde_rpki_softreload(r)
      /\ outdated' = outdated \ {r} /\ rpki' = NextOf(r)
      /\ UNCHANGED <<rde_aspa_generation, rde_roa, vaps, conf, soft>>
  BY Zenon, <1>1 DEF RpkiStep, tables
<1>8. \A y \in Routes \ {r} : Excused(y) => Excused(y)'
  BY <1>3, SameExcuse
<1>9. conf \in Confs
  BY Zenon DEF StatesOk, RibRight, Configured
<1>4. \A y \in Routes \ {r} : /\ WalkPassed(y)' => WalkPassed(y)
                              /\ Excused(y) => Excused(y)'
  BY <1>1, <1>3, <1>8, WalkMoves
<1>5. Shape(rib) /\ Sound(rib, g, vaps) /\ g \in Nat
  BY SMTT(30), GensAssumption DEF StatesOk, Sound
<1>6. CASE p = None
  <2>1. rib' = rib
    BY Zenon, <1>2, <1>3, <1>6 DEF rde_rpki_softreload
  <2>2. RouteOk(r, rib'.adj[r], rde_roa, vaps, WalkPassed(r)', Excused(r)')
    BY Zenon, <2>1, <1>2, <1>6 DEF RouteOk
  <2>. QED  BY <2>1, <2>2, <1>3, <1>4, <1>5, OneRoute
<1>7. CASE p # None
  <2>. DEFINE never == p.vstate.aspa = "NEVER_KNOWN"
  <2>1. PICK w : w = IF never THEN rib ELSE Revalidated(rib, p.attr)
    OBVIOUS
  <2>2. p.attr \in Attrs /\ rib.asp[p.attr] # None
    BY Zenon, <1>2, <1>5, <1>7 DEF Sound, Held
  <2>3. /\ Sound(w, g, vaps) /\ w.asp[p.attr] # None
        /\ ~never => w.asp[p.attr].outcome = Expected(vaps, p.attr.path)
    <3>1. CASE never
      BY SMTT(30), <3>1, <2>1, <2>2, <1>5
    <3>2. CASE ~never
      <4>1. w = Revalidated(rib, p.attr)
        BY <3>2, <2>1
      <4>. QED  BY <4>1, <2>2, <1>5, RevalidatedSound
    <3>. QED  BY ZenonT(30), <3>1, <3>2
  <2>4. w.adj = rib.adj
    <3>1. CASE never
      BY <3>1, <2>1
    <3>2. CASE ~never
      BY SMTT(30), <3>2, <2>1, <1>5, RevalidatedSame
    <3>. QED  BY <3>1, <3>2
  <2>5. PICK ro, av, v, obj, set :
          /\ ro = rde_roa_validity(rde_roa, r, p.attr.path)
          /\ av = IF never THEN "NEVER_KNOWN" ELSE rde_aspa_validity(r, obj.outcome)
          /\ v = [roa |-> ro, aspa |-> av]
          /\ obj = w.asp[p.attr]
          /\ set = SetState(w, r, v)
          /\ rib' = IF v = p.vstate THEN w
                    ELSE IF Source[r].kind = "network" THEN set
                    ELSE Filtered(set, r, p.attr, v, obj)
    <3>. DEFINE obj == w.asp[p.attr]
                ro == rde_roa_validity(rde_roa, r, p.attr.path)
                av == IF never THEN "NEVER_KNOWN" ELSE rde_aspa_validity(r, obj.outcome)
                v == [roa |-> ro, aspa |-> av]
                set == SetState(w, r, v)
    <3>1. rib' = IF v = p.vstate THEN w
                 ELSE IF Source[r].kind = "network" THEN set
                 ELSE Filtered(set, r, p.attr, v, obj)
      BY Zenon, <1>2, <1>3, <1>7, <2>1 DEF rde_rpki_softreload, SetState
    <3>2. av = IF never THEN "NEVER_KNOWN" ELSE rde_aspa_validity(r, obj.outcome)
      OBVIOUS
    <3>3. ro = rde_roa_validity(rde_roa, r, p.attr.path) /\ obj = w.asp[p.attr]
      BY Zenon
    <3>. HIDE DEF ro, av, obj
    <3>. QED  BY SMTT(30), <3>1, <3>2, <3>3
  <2>6. /\ Sound(rib', g, vaps)
        /\ rib'.adj[r].attr = p.attr /\ rib'.adj[r].vstate = v
        /\ \A y \in Routes \ {r} : rib'.adj[y] = rib.adj[y]
    <3>1. CASE v = p.vstate
      <4>1. rib' = w
        BY Zenon, <3>1, <2>5
      <4>. QED  BY <4>1, <3>1, <2>3, <2>4, <1>2
    <3>2. CASE v # p.vstate
      <4>a. Shape(w) /\ w.adj[r] # None
        BY <2>3, <2>4, <1>2, <1>7 DEF Sound
      <4>b. v = [roa |-> ro, aspa |-> av] /\ set = SetState(w, r, v)
        BY Zenon, <2>5
      <4>c. w.adj[r].attr = p.attr
        BY ZenonT(30), <1>2, <2>4
      <4>1. /\ Shape(set)
            /\ set.adj[r].vstate = v /\ set.adj[r].attr = p.attr /\ set.adj[r] # None
            /\ \A y \in Routes \ {r} : set.adj[y] = w.adj[y]
        BY SMTT(30), <4>a, <4>b, <4>c, StateSet
      <4>2. Sound(set, g, vaps)
        BY Zenon, <4>a, <4>b, <2>3, SetStateSound
      <4>3. CASE Source[r].kind = "network"
        <5>1. rib' = set
          BY SMTT(30), <4>3, <3>2, <2>5
        <5>. QED  BY ZenonT(30), <5>1, <4>1, <4>2, <2>4
      <4>4. CASE Source[r].kind # "network"
        <5>1. rib' = Filtered(set, r, p.attr, v, obj)
          BY Zenon, <4>4, <3>2, <2>5
        <5>2. ObjRight(obj, p.attr.path, g, vaps) /\ obj # None
          BY Zenon, <2>2, <2>3, <2>5 DEF Sound, CacheOk
        <5>3. Sound(rib', g, vaps)
          BY ZenonT(30), <5>1, <5>2, <4>2, <2>2, <1>9, FilteredSound
        <5>4. rib' = Filtered(set, r, set.adj[r].attr, set.adj[r].vstate, obj)
          BY SMTT(30), <5>1, <4>1
        <5>5. rib'.adj = set.adj
          BY SMTT(30), <5>4, <4>1, FilteredRight
        <5>. QED  BY <5>3, <5>5, <4>1, <2>4
      <4>. QED  BY ZenonT(30), <4>3, <4>4
    <3>. QED  BY ZenonT(30), <3>1, <3>2
  <2>7. v.roa = ro /\ v.aspa = av
    BY <2>5
  <2>8. av = rde_aspa_validity(r, Expected(vaps, p.attr.path))
    <3>1. CASE never
      <4>1. Source[r].kind # "ebgp"
        BY ZenonT(30), <3>1, <1>2, <1>7 DEF StatesOk, RouteOk
      <4>. QED  BY Zenon, <4>1, <3>1, <2>5 DEF rde_aspa_validity
    <3>2. CASE ~never
      BY <3>2, <2>3, <2>5
    <3>. QED  BY Zenon, <3>1, <3>2
  <2>9. av = "NEVER_KNOWN" => Source[r].kind # "ebgp"
    BY Zenon, <2>8, ExpectedDecided, ValidityNever
  <2>10. RouteOk(r, rib'.adj[r], rde_roa, vaps, WalkPassed(r)', Excused(r)')
    <3>1. PICK e : e = rib'.adj[r]
      BY SMTT(30)
    <3>2. e.attr = p.attr /\ e.vstate.roa = ro /\ e.vstate.aspa = av
      BY ZenonT(30), <3>1, <2>6, <2>7
    <3>3. e.vstate.roa = rde_roa_validity(rde_roa, r, e.attr.path)
      BY <3>2, <2>5
    <3>4. e.vstate.aspa = rde_aspa_validity(r, Expected(vaps, e.attr.path))
      BY <3>2, <2>8
    <3>. QED  BY Zenon, <2>9, <3>1, <3>2, <3>3, <3>4 DEF RouteOk
  <2>. QED  BY ZenonT(30), <2>6, <2>10, <1>3, <1>4, OneRoute
<1>. QED  BY ZenonT(30), <1>6, <1>7

\* The objects of routes of the Adj-RIB-In stay the same under the filter.
LEMMA FilteredObject ==
    ASSUME NEW w, NEW g, NEW x, Sound(w, g, x), NEW r \in Routes, NEW a, NEW v,
           NEW fresh, w.adj[r] # None, NEW u, u = Filtered(w, r, a, v, fresh)
    PROVE  u.asp[w.adj[r].attr] = w.asp[w.adj[r].attr]
<1>. DEFINE b == w.adj[r].attr
<1>1. b \in Attrs /\ w.asp[b] # None
  BY ZenonT(30) DEF Sound, Held
<1>2. ASSUME NEW s, Shape(s), s.adj = w.adj, DOMAIN s.asp = Attrs,
             s.asp[b] = w.asp[b]
      PROVE  Freed(s).asp[b] = w.asp[b]
  <2>1. b \in Refs(s)
    BY Zenon, <1>2 DEF Refs
  <2>2. Freed(s).asp = [c \in Attrs |-> IF c \in Refs(s) THEN s.asp[c] ELSE None]
    BY SMTT(30), <1>2 DEF Freed, Shape
  <2>. QED  BY ONLY SMTT(30), <1>1, <1>2, <2>1, <2>2
<1>3. ASSUME NEW d, NEW f, u = prefix_update(w, "loc", r, d, v, fresh, f)
      PROVE  u.asp[b] = w.asp[b]
  <2>. DEFINE e == [attr |-> d, vstate |-> v, filtered |-> f]
              asp == path_getcache(w.asp, d, fresh)
              set == [w EXCEPT !["loc"][r] = e, !.asp = path_getcache(@, d, fresh)]
  <2>1. /\ DOMAIN set = {"adj", "loc", "asp"} /\ set.adj = w.adj
        /\ set.loc = [w.loc EXCEPT ![r] = e] /\ set.asp = asp
    BY DEF Shape, Sound
  <2>2. Shape(set)
    BY <2>1 DEF Shape, Sound
  <2>3. u = Freed(set)
    BY ZenonT(30), <1>3 DEF prefix_update
  <2>4. DOMAIN asp = Attrs /\ asp[b] = w.asp[b]
    <3>1. DOMAIN w.asp = Attrs
      BY Zenon DEF Sound, CacheOk
    <3>. QED  BY ONLY SMTT(30), <1>1, <3>1 DEF path_getcache
  <2>. HIDE DEF set, asp, e
  <2>. QED  BY Zenon, <1>2, <2>1, <2>2, <2>3, <2>4
<1>4. CASE u = prefix_withdraw(w, "loc", r)
  <2>. DEFINE set == [w EXCEPT !["loc"][r] = None]
  <2>1. /\ DOMAIN set = {"adj", "loc", "asp"} /\ set.adj = w.adj
        /\ set.loc = [w.loc EXCEPT ![r] = None] /\ set.asp = w.asp
    BY DEF Shape, Sound
  <2>2. Shape(set)
    BY <2>1 DEF Shape, Sound
  <2>3. u = Freed(set)
    BY Zenon, <1>4 DEF prefix_withdraw
  <2>. HIDE DEF set
  <2>4. DOMAIN w.asp = Attrs
    BY Zenon DEF Sound, CacheOk
  <2>. QED  BY Zenon, <1>2, <2>1, <2>2, <2>3, <2>4
<1>. QED  BY Zenon, <1>3, <1>4 DEF Filtered

LEMMA SoftStepStates ==
    ASSUME NoneIsNoRoute, NoneIsNoObject, FiltersKeepOutcome, StatesOk,
           RibRight', SoftStep
    PROVE  StatesOk'
<1>. DEFINE g == rde_aspa_generation
<1>1. PICK r \in Routes : r = soft.next
  BY SMTT(30) DEF SoftStep, StatesOk, RibRight, Configured
<1>2. PICK p : p = rib.adj[r]
  BY ZenonT(30)
<1>3. /\ rib' = rde_softreconfig_in(r, soft.reload)
      /\ outdated' = IF rib'.adj[r] # None /\ rib'.adj[r].vstate.aspa # "NEVER_KNOWN"
                        /\ rib'.asp[rib'.adj[r].attr].gen # g
                     THEN outdated \cup {r} ELSE outdated \ {r}
      /\ UNCHANGED <<rpki, rde_aspa_generation, rde_roa, vaps, conf>>
  BY SMTT(30), <1>1 DEF SoftStep, tables
<1>8. \A y \in Routes \ {r} : Excused(y) => Excused(y)'
  <2>1. Configured
    BY Zenon DEF StatesOk, RibRight
  <2>2. /\ soft'.roles = soft.roles
        /\ \A y \in Routes \ {r} : Awaited(y) => Awaited(y)'
    BY Zenon, <1>1, <2>1, SoftMoves
  <2>. QED  BY <1>3, <2>2 DEF Excused
<1>9. conf \in Confs
  BY Zenon DEF StatesOk, RibRight, Configured
<1>4. \A y \in Routes \ {r} : /\ WalkPassed(y)' => WalkPassed(y)
                              /\ Excused(y) => Excused(y)'
  BY Zenon, <1>3, <1>8 DEF WalkPassed
<1>5. Shape(rib) /\ Sound(rib, g, vaps)
  BY Zenon DEF StatesOk, Sound
<1>6. CASE p = None
  <2>1. rib' = rib
    BY SMTT(30), <1>2, <1>3, <1>6 DEF rde_softreconfig_in
  <2>2. RouteOk(r, rib'.adj[r], rde_roa, vaps, WalkPassed(r)', Excused(r)')
    BY SMTT(30), <2>1, <1>2, <1>6 DEF RouteOk
  <2>. QED  BY Zenon, <2>1, <2>2, <1>3, <1>4, <1>5, OneRoute
<1>7. CASE p # None
  <2>. DEFINE never == p.vstate.aspa = "NEVER_KNOWN"
  <2>1. PICK av, v, obj, set :
          /\ av = IF never THEN "NEVER_KNOWN" ELSE rde_aspa_validity(r, obj.outcome)
          /\ v = [roa |-> p.vstate.roa, aspa |-> av]
          /\ obj = rib.asp[p.attr]
          /\ set = SetState(rib, r, v)
          /\ rib' = IF Source[r].kind = "network" \/ ~soft.reload THEN set
                    ELSE Filtered(set, r, p.attr, set.adj[r].vstate, obj)
    <3>. DEFINE obj == rib.asp[rib.adj[r].attr]
                av == IF rib.adj[r].vstate.aspa = "NEVER_KNOWN" THEN "NEVER_KNOWN"
                      ELSE rde_aspa_validity(r, obj.outcome)
                ro == p.vstate.roa
                v == [roa |-> ro, aspa |-> av]
                set == [rib EXCEPT !.adj[r].vstate.aspa = av]
    <3>0. rib' = IF rib.adj[r] = None THEN rib
                 ELSE IF Source[r].kind = "network" \/ ~soft.reload THEN set
                 ELSE Filtered(set, r, rib.adj[r].attr, set.adj[r].vstate, obj)
      BY <1>3, Zenon DEF rde_softreconfig_in
    <3>4. av = IF never THEN "NEVER_KNOWN" ELSE rde_aspa_validity(r, obj.outcome)
      BY <1>2
    <3>5. obj = rib.asp[p.attr]
      BY <1>2
    <3>. HIDE DEF set, obj
    <3>1. rib' = IF Source[r].kind = "network" \/ ~soft.reload THEN set
                 ELSE Filtered(set, r, p.attr, set.adj[r].vstate, obj)
      BY SMTT(30), <1>2, <3>0, <1>7
    <3>2. set = SetState(rib, r, v)
      <4>1. IsRoute(p)
        BY SMTT(30), <1>2, <1>5, <1>7 DEF Shape
      <4>2. [p.vstate EXCEPT !.aspa = av] = v
        <5>1. p.vstate = [roa |-> p.vstate.roa, aspa |-> p.vstate.aspa]
          BY <4>1 DEF IsRoute
        <5>0. PICK x : x = av
          OBVIOUS
        <5>2. PICK s, s1, s2 : s = p.vstate /\ s = [roa |-> s1, aspa |-> s2] /\ ro = s1
          BY <5>1
        <5>3. [s EXCEPT !.aspa = x] = [roa |-> s1, aspa |-> x]
          BY <5>2, OtherAspa
        <5>. QED  BY SMTT(30), <5>0, <5>2, <5>3
      <4>. HIDE DEF v, av
      <4>3. [rib.adj[r] EXCEPT !.vstate.aspa = av] = [rib.adj[r] EXCEPT !.vstate = v]
        BY SMTT(30), <4>2, <1>2
      <4>. QED  BY SMTT(30), <4>3 DEF SetState, set
    <3>. HIDE DEF av, obj, set
    <3>. QED  BY Zenon, <3>1, <3>2, <3>4, <3>5
  <2>2. v = [roa |-> p.vstate.roa, aspa |-> av] /\ set = SetState(rib, r, v)
    BY Zenon, <2>1
  <2>3. v.roa = p.vstate.roa /\ v.aspa = av
    BY SMTT(30), <2>2
  <2>4. /\ p.attr \in Attrs /\ obj # None
        /\ ObjRight(obj, p.attr.path, g, vaps)
    <3>1. obj = rib.asp[p.attr]
      BY ZenonT(30), <2>1
    <3>. QED  BY <3>1, <1>2, <1>5, <1>7 DEF Sound, Held, CacheOk
  <2>5. /\ set.adj[r].vstate = v /\ set.adj[r].attr = p.attr /\ set.adj[r] # None
        /\ Shape(set)
        /\ \A y \in Routes \ {r} : set.adj[y] = rib.adj[y]
    <3>1. Shape(rib) /\ rib.adj[r] # None /\ p = rib.adj[r] /\ r \in Routes
      BY Zenon, <1>2, <1>5, <1>7
    <3>. QED  BY ONLY SMTT(30), NoneIsNoRoute, <2>2, <3>1, StateSet
  <2>6. Sound(set, g, vaps)
    BY Zenon, <1>2, <1>5, <1>7, <2>2, SetStateSound
  <2>7. set.asp[p.attr] = obj
    <3>1. obj = rib.asp[p.attr]
      BY Zenon, <2>1
    <3>2. set.asp = rib.asp
      BY SMTT(30), <2>2, <1>5 DEF SetState, Shape
    <3>. QED  BY <3>1, <3>2
  <2>8. /\ Sound(rib', g, vaps) /\ rib'.adj = set.adj /\ rib'.asp[p.attr] = obj
    <3>1. CASE Source[r].kind = "network" \/ ~soft.reload
      <4>1. rib' = set
        BY Zenon, <3>1, <2>1
      <4>. QED  BY <4>1, <2>6, <2>7
    <3>2. CASE ~(Source[r].kind = "network" \/ ~soft.reload)
      <4>1. rib' = Filtered(set, r, p.attr, set.adj[r].vstate, obj)
        BY Zenon, <3>2, <2>1
      <4>2. Sound(rib', g, vaps)
        BY Zenon, <4>1, <2>4, <2>6, <1>9, FilteredSound
      <4>3. rib' = Filtered(set, r, set.adj[r].attr, set.adj[r].vstate, obj)
        BY Zenon, <4>1, <2>5
      <4>4. rib'.adj = set.adj
        BY SMTT(30), <4>3, <2>5, FilteredRight
      <4>5. rib'.asp[set.adj[r].attr] = set.asp[set.adj[r].attr]
        <5>1. set.adj[r] # None /\ r \in Routes
          BY Zenon, <1>2, <2>5
        <5>2. PICK u, a, vs, n : /\ u = rib' /\ a = p.attr /\ vs = set.adj[r].vstate
                                 /\ n = g
          OBVIOUS
        <5>3. u = Filtered(set, r, a, vs, obj) /\ Sound(set, n, vaps)
          BY ZenonT(30), <4>1, <5>2, <2>6
        <5>4. u.asp[set.adj[r].attr] = set.asp[set.adj[r].attr]
          BY ONLY SMTT(30), <5>1, <5>3, FilteredObject
        <5>. QED  BY Zenon, <5>2, <5>4
      <4>. QED  BY <4>2, <4>4, <4>5, <2>5, <2>7
    <3>. QED  BY <3>1, <3>2
  <2>9. av = "NEVER_KNOWN" => Source[r].kind # "ebgp"
    <3>1. CASE never
      BY <3>1, <1>2, <1>7 DEF StatesOk, RouteOk
    <3>2. CASE ~never
      <4>1. av = rde_aspa_validity(r, obj.outcome)
        BY Zenon, <3>2, <2>1
      <4>2. Decided(obj.outcome)
        BY <2>4 DEF ObjRight
      <4>. QED  BY Zenon, <4>1, <4>2, ValidityNever
    <3>. QED  BY ZenonT(30), <3>1, <3>2
  <2>10. PICK e : e = rib'.adj[r]
    BY Zenon
  <2>11. /\ e.attr = p.attr /\ e.vstate.roa = p.vstate.roa /\ e.vstate.aspa = av
         /\ e # None
    BY Zenon, <2>3, <2>5, <2>8, <2>10
  <2>12. WalkPassed(r)' => e.vstate.roa = rde_roa_validity(rde_roa, r, e.attr.path)
    <3>1. WalkPassed(r)' => WalkPassed(r)
      BY ZenonT(30), <1>3 DEF WalkPassed
    <3>2. WalkPassed(r) => p.vstate.roa = rde_roa_validity(rde_roa, r, p.attr.path)
      BY <1>2, <1>7 DEF StatesOk, RouteOk
    <3>. QED  BY Zenon, <3>1, <3>2, <2>11
  <2>13. r \notin outdated' =>
           e.vstate.aspa = rde_aspa_validity(r, Expected(vaps, e.attr.path))
    <3>1. CASE av = "NEVER_KNOWN"
      <4>1. Source[r].kind # "ebgp"
        BY SMTT(30), <3>1, <2>9
      <4>. QED  BY <4>1, <3>1, <2>11 DEF rde_aspa_validity
    <3>2. CASE av # "NEVER_KNOWN"
      <4>. SUFFICES ASSUME r \notin outdated'
                    PROVE  e.vstate.aspa = rde_aspa_validity(r, Expected(vaps, e.attr.path))
        BY SMTT(30)
      <4>1. rib'.asp[e.attr].gen = g
        BY SMTT(30), <3>2, <2>10, <2>11, <1>3
      <4>2. obj.gen = g
        BY <4>1, <2>8, <2>11
      <4>3. obj.outcome = Expected(vaps, p.attr.path)
        BY <4>2, <2>4 DEF ObjRight
      <4>4. ~never
        BY Zenon, <3>2, <2>1
      <4>5. av = rde_aspa_validity(r, obj.outcome)
        BY Zenon, <4>4, <2>1
      <4>. QED  BY <4>3, <4>5, <2>11
    <3>. QED  BY <3>1, <3>2
  <2>14. RouteOk(r, rib'.adj[r], rde_roa, vaps, WalkPassed(r)', Excused(r)')
    BY ZenonT(30), <2>9, <2>10, <2>11, <2>12, <2>13 DEF RouteOk, Excused
  <2>15. \A y \in Routes \ {r} : rib'.adj[y] = rib.adj[y]
    BY SMTT(30), <2>5, <2>8
  <2>. QED  BY Zenon, <2>8, <2>14, <2>15, <1>3, <1>4, OneRoute
<1>. QED  BY SMTT(30), <1>6, <1>7

\* The end of a transmission: with a new ASPA table the generation moves on, so
\* that no object is of it; with any new table the walk starts at the first route.
LEMMA SwitchStates ==
    ASSUME TableRight, StatesOk, RibRight', NoWrap,
           UNCHANGED <<rib, outdated, conf, soft>>,
           ibuf_rtr # <<>>, Head(ibuf_rtr).type = "done", rpki = 0,
           Switch(Head(ibuf_rtr))
    PROVE  StatesOk'
<1>. DEFINE g == rde_aspa_generation
            changed == ~aspa_table_equal(aspa_new, rde_aspa)
            again == roa_new # rde_roa \/ changed
<1>1. /\ rde_roa' = roa_new
      /\ vaps' = Head(ibuf_rtr).vaps
      /\ g' = IF changed THEN (g + 1) % Gens ELSE g
      /\ rpki' = IF again THEN 1 ELSE 0
  BY SMTT(30) DEF Switch
<1>2. ~changed => vaps' = vaps
  BY <1>1 DEF TableRight, EqualIsSame
<1>3. g \in Nat /\ g < Gens /\ Gens \in Nat /\ Gens > 1
  BY GensAssumption DEF StatesOk
<1>. HIDE DEF changed
<1>4. changed => g' = g + 1 /\ g + 1 < Gens
  <2>1. CASE g + 1 < Gens
    <3>1. (g + 1) % Gens = g + 1
      BY <1>3, <2>1
    <3>. QED  BY <3>1, <2>1, <1>1
  <2>2. CASE ~(g + 1 < Gens)
    <3>1. g + 1 = Gens /\ (g + 1) % Gens = 0
      BY SMTT(30), <1>3, <2>2
    <3>. QED  BY <3>1, <1>1, <1>3 DEF NoWrap
  <2>. QED  BY <2>1, <2>2
<1>5. /\ g' \in 0..(Gens - 1)
      /\ g' = 0 => vaps' = <<>>
  BY SMTT(30), <1>1, <1>2, <1>3, <1>4 DEF StatesOk
<1>6. Sound(rib, g', vaps')
  <2>1. ASSUME NEW o, NEW path, ObjRight(o, path, g, vaps)
        PROVE  ObjRight(o, path, g', vaps')
    <3>1. CASE changed
      BY <2>1, <3>1, <1>3, <1>4 DEF ObjRight
    <3>2. CASE ~changed
      BY SMTT(30), <2>1, <3>2, <1>1, <1>2 DEF ObjRight
    <3>. QED  BY <3>1, <3>2
  <2>. QED  BY <2>1 DEF StatesOk, Sound, CacheOk
<1>7. ASSUME NEW r \in Routes
      PROVE  RouteOk(r, rib.adj[r], rde_roa', vaps', WalkPassed(r)', Excused(r)')
  <2>0. Excused(r) => Excused(r)'
    BY SameExcuse
  <2>1. CASE again
    <3>1. r >= 1 /\ r \in Int
      BY RoutesAreNumbered
    <3>2. ~WalkPassed(r)'
      BY SMTT(30), <2>1, <3>1, <1>1 DEF WalkPassed
    <3>. QED  BY Zenon, <3>2 DEF StatesOk, RouteOk
  <2>2. CASE ~again
    <3>1. rde_roa' = rde_roa /\ vaps' = vaps
      BY <2>2, <1>1, <1>2
    <3>2. WalkPassed(r)
      BY Zenon DEF WalkPassed
    <3>. QED  BY <2>0, <3>1, <3>2 DEF StatesOk, RouteOk
  <2>. QED  BY <2>1, <2>2
<1>8. ASSUME NEW r \in Routes
      PROVE  RouteOk(r, rib.adj[r], rde_roa, vaps, WalkPassed(r), Excused(r))'
  BY Zenon, <1>7 DEF RouteOk, rde_roa_validity, rde_aspa_validity
<1>9. Sound(rib, rde_aspa_generation, vaps)'
  BY ZenonT(30), <1>6 DEF Sound, CacheOk, ObjRight, Held, Shape, Decided
<1>. QED  BY SMTT(30), <1>5, <1>8, <1>9 DEF StatesOk

\* A step that leaves the states and the tables in use alone.
LEMMA NothingStates ==
    ASSUME StatesOk, RibRight',
           UNCHANGED <<rib, outdated, rpki, rde_aspa_generation, rde_roa, vaps>>,
           UNCHANGED <<conf, soft>>
    PROVE  StatesOk'
<1>1. Sound(rib', rde_aspa_generation, vaps)
  BY DEF StatesOk
<1>2. 1 \in Routes
  BY RoutesAreNumbered
<1>3. \A y \in Routes : /\ rib'.adj[y] = rib.adj[y]
                        /\ WalkPassed(y)' <=> WalkPassed(y)
                        /\ Excused(y) => Excused(y)'
  BY Zenon, SameExcuse DEF WalkPassed
<1>4. RouteOk(1, rib'.adj[1], rde_roa, vaps, WalkPassed(1)', Excused(1)')
  <2>1. RouteOk(1, rib.adj[1], rde_roa, vaps, WalkPassed(1), Excused(1))
    BY <1>2 DEF StatesOk
  <2>. QED  BY Zenon, <1>2, <1>3, <2>1 DEF RouteOk
<1>. QED  BY <1>1, <1>2, <1>3, <1>4, OneRoute

\* A reload excuses the routes of the peers with another role.
LEMMA SoftStartStates ==
    ASSUME StatesOk, RibRight', SoftStart
    PROVE  StatesOk'
<1>1. /\ UNCHANGED <<rib, outdated, rpki, rde_aspa_generation, rde_roa, vaps>>
      /\ soft.next = 0
  BY DEF SoftStart, tables
<1>2. PICK new \in Confs :
        conf' = new /\ soft'.next = 1 /\ soft'.roles = Rerole(new)
  BY DEF SoftStart
<1>3. ASSUME NEW r \in Routes
      PROVE  RouteOk(r, rib.adj[r], rde_roa, vaps, WalkPassed(r), Excused(r))'
  <2>1. RouteOk(r, rib.adj[r], rde_roa, vaps, WalkPassed(r), r \in outdated)
    <3>1. Excused(r) <=> r \in outdated
      BY <1>1 DEF Excused, Awaited
    <3>2. RouteOk(r, rib.adj[r], rde_roa, vaps, WalkPassed(r), Excused(r))
      BY Zenon DEF StatesOk
    <3>. QED  BY Zenon, <3>1, <3>2 DEF RouteOk
  <2>2. Awaited(r)' /\ (r \in outdated => Excused(r)')
    BY <1>1, <1>2, RoutesAreNumbered DEF Awaited, Excused
  <2>3. WalkPassed(r)' <=> WalkPassed(r)
    BY ZenonT(30), <1>1 DEF WalkPassed
  <2>4. CASE conf'.role[Source[r].peer] = conf.role[Source[r].peer]
    BY ZenonT(30), <1>1, <2>1, <2>2, <2>3, <2>4
       DEF RouteOk, rde_roa_validity, rde_aspa_validity
  <2>5. CASE conf'.role[Source[r].peer] # conf.role[Source[r].peer]
    <3>1. Excused(r)'
      BY Zenon, <1>2, <2>2, <2>5 DEF Rerole, Excused
    <3>. QED  BY <1>1, <2>1, <2>3, <3>1 DEF RouteOk, rde_roa_validity
  <2>. QED  BY Zenon, <2>4, <2>5
<1>4. Sound(rib, rde_aspa_generation, vaps)'
  BY ZenonT(30), <1>1 DEF StatesOk, Sound, CacheOk, ObjRight, Held, Shape, Decided
<1>. QED  BY Zenon, <1>1, <1>3, <1>4 DEF StatesOk

LEMMA StatesKept ==
    ASSUME NoneIsNoRoute, NoneIsNoObject, FiltersKeepOutcome,
           TableRight, ValidationRight, StatesOk, [Next]_vars, [NoWrap]_vars
    PROVE  StatesOk'
<1>0. RibRight'
  BY RibKept DEF StatesOk
<1>1. CASE Recalc
  <2>1. UNCHANGED <<rib, outdated, rpki, rde_aspa_generation, rde_roa, vaps>>
    BY SMTT(30), <1>1 DEF Recalc, tables
  <2>2. UNCHANGED <<conf, soft>>
    BY SMTT(30), <1>1 DEF Recalc
  <2>. QED  BY <2>1, <2>2, <1>0, NothingStates
<1>2. CASE rde_dispatch_imsg_rtr
  <2>1. UNCHANGED <<rib, outdated, conf, soft>> /\ ibuf_rtr # <<>>
    BY <1>2 DEF rde_dispatch_imsg_rtr
  <2>2. CASE UNCHANGED <<rpki, rde_aspa_generation, rde_roa, vaps>>
    BY <2>1, <2>2, <1>0, NothingStates
  <2>3. CASE /\ Head(ibuf_rtr).type = "done" /\ rpki = 0
             /\ Switch(Head(ibuf_rtr))
    <3>1. CASE NoWrap
      BY <3>1, <2>1, <2>3, <1>0, SwitchStates
    <3>2. CASE UNCHANGED vars
      <4>1. UNCHANGED <<rpki, rde_aspa_generation, rde_roa, vaps>>
        BY <3>2 DEF vars, tables
      <4>. QED  BY <4>1, <2>1, <1>0, NothingStates
    <3>. QED  BY <3>1, <3>2
  <2>. QED  BY <1>2, <2>2, <2>3 DEF rde_dispatch_imsg_rtr, RtrDone
<1>3. CASE \E r \in Routes : \E attr \in Announced[r] : Announce(r, attr)
  BY <1>0, <1>3, AnnounceStates
<1>4. CASE \E r \in Routes : Withdraw(r)
  BY <1>0, <1>4, WithdrawStates
<1>5. CASE RpkiStep
  BY <1>0, <1>5, RpkiStepStates
<1>6. CASE SoftStart
  BY <1>0, <1>6, SoftStartStates
<1>7. CASE SoftStep
  BY SMTT(30), <1>0, <1>7, SoftStepStates
<1>8. CASE UNCHANGED vars
  <2>1. UNCHANGED <<rib, outdated, rpki, rde_aspa_generation, rde_roa, vaps>>
    BY <1>8 DEF vars, tables
  <2>2. UNCHANGED <<conf, soft>>
    BY <1>8 DEF vars
  <2>. QED  BY <2>1, <2>2, <1>0, NothingStates
<1>. QED  BY SMTT(30), <1>1, <1>2, <1>3, <1>4, <1>5, <1>6, <1>7, <1>8 DEF Next

\* As long as the one byte of the generation has not come round, no route that
\* the walk has passed and no shared object of the present generation holds the
\* outcome of an earlier table, for any number of routes, updates, transmissions
\* and reloads with other filters and roles, and whatever order they interleave
\* in: given that a table holds what was sent and that aspa_validation agrees
\* with the reference.  Excepted are the routes a reload gave an old outcome and,
\* after a change of role, those its walk has still to come to
\* (rde_rpki_softreload, rde_softreconfig_in, rde_aspa_reload, path_getcache).
THEOREM StatesStayRight ==
    ASSUME NoneIsNoRoute, NoneIsNoObject, FiltersKeepOutcome
    PROVE  Spec /\ [](TableRight /\ ValidationRight) /\ [][NoWrap]_vars
             => []StatesRight
<1>1. Init => StatesOk
  BY StatesInit
<1>2. TableRight /\ ValidationRight /\ StatesOk /\ [Next]_vars /\ [NoWrap]_vars
        => StatesOk'
  BY StatesKept
<1>3. StatesOk => StatesRight
  BY StatesOkRight
<1>. QED  BY <1>1, <1>2, <1>3, PTL DEF Spec
-----------------------------------------------------------------------------
\* A transmission holds a ROA table and finitely many ASPA sets.
OffersAreFinite ==
  \A k \in 1..Len(Offers) : \A offer \in Offers[k] :
    /\ offer = [roa |-> offer.roa, vaps |-> offer.vaps]
    /\ Cardinality(DOMAIN offer.vaps) \in Nat

\* A message that neither brings a ROA table nor ends a transmission.
Between(msg) == msg.type \notin {"roa_set", "done"}

\* The end of a transmission at place i of the pipe: its ROA table is the last
\* one before it in the pipe or, if there is none, the one that was received.
Paired(q, i, roa, offers) ==
  \E offer \in offers :
    /\ q[i].vaps = offer.vaps
    /\ offer = [roa |-> offer.roa, vaps |-> offer.vaps]
    /\ \/ \E j \in 1..(i - 1) : /\ q[j].type = "roa_set" /\ q[j].roa = offer.roa
                                /\ \A k \in (j + 1)..(i - 1) : Between(q[k])
       \/ /\ roa = offer.roa
          /\ \A k \in 1..(i - 1) : Between(q[k])

PipeRight ==
  /\ \E S : ibuf_rtr \in Seq(S)
  /\ left.offers \in 0..Len(Offers)
  /\ \A i \in 1..Len(ibuf_rtr) :
       ibuf_rtr[i].type = "done" => Paired(ibuf_rtr, i, roa_new, sent)
  /\ OfOneTransmission

LEMMA Appended ==
    ASSUME NEW S, NEW x \in Seq(S), NEW m \in Seq(S), NEW y, y = x \o m
    PROVE  /\ y \in Seq(S) /\ Len(x) \in Nat /\ Len(y) = Len(x) + Len(m)
           /\ \A i \in 1..Len(x) : y[i] = x[i]
           /\ \A i \in 1..Len(m) : y[Len(x) + i] = m[i]
BY SMTT(30)

\* What rtr_recalc() sends.
LEMMA RecalcSends ==
    ASSUME NEW offer, Cardinality(DOMAIN offer.vaps) \in Nat
    PROVE  \E n \in Nat : \E S : LET q == rtr_recalc(offer) IN
             /\ q \in Seq(S) /\ Len(q) = n + 3
             /\ q[1].type = "roa_set" /\ q[1].roa = offer.roa
             /\ q[n + 3].type = "done" /\ q[n + 3].vaps = offer.vaps
             /\ \A k \in 2..(n + 2) : Between(q[k])
<1>. DEFINE n == Cardinality(DOMAIN offer.vaps)
            customers == Descending(DOMAIN offer.vaps)
            set(i) == [type |-> "aspa", as |-> customers[i],
                       tas |-> Sorted(offer.vaps[customers[i]])]
            sizes == [i \in DOMAIN customers |->
                        Cardinality(offer.vaps[customers[i]])]
            a == [type |-> "roa_set", roa |-> offer.roa]
            b == [type |-> "aspa_prep", entries |-> Len(customers),
                  datasize |-> FoldFunction(+, 0, sizes)]
            c == [i \in DOMAIN customers |-> set(i)]
            d == [type |-> "done", vaps |-> offer.vaps]
            S == {a, b, d} \cup {set(i) : i \in DOMAIN customers}
            q == <<a, b>> \o c \o <<d>>
<1>1. rtr_recalc(offer) = q
  BY Zenon DEF rtr_recalc
<1>2. DOMAIN customers = 1..n
  BY Zenon DEF Descending
<1>. HIDE DEF customers, sizes, n
<1>3. /\ a.type = "roa_set" /\ a.roa = offer.roa
      /\ d.type = "done" /\ d.vaps = offer.vaps /\ Between(b)
      /\ \A i \in 1..n : Between(set(i))
  BY Zenon DEF Between
<1>. HIDE DEF a, b, d, set
<1>4. n \in Nat
  BY DEF n
<1>5. c \in Seq(S) /\ Len(c) = n /\ \A i \in 1..n : c[i] = set(i)
  BY <1>2, <1>4
<1>6. <<a, b>> \in Seq(S) /\ <<d>> \in Seq(S)
  OBVIOUS
<1>. HIDE DEF c, S
<1>7. q \in Seq(S) /\ Len(q) = n + 3
  BY <1>5, <1>6, <1>4
<1>8. q[1] = a /\ q[n + 3] = d
  BY <1>5, <1>6, <1>4
<1>9. ASSUME NEW k \in 2..(n + 2) PROVE Between(q[k])
  <2>1. CASE k = 2
    <3>1. q[2] = b
      BY SMTT(30), <1>5, <1>6, <1>4
    <3>. QED  BY <2>1, <3>1, <1>3
  <2>2. CASE k # 2
    <3>1. k - 2 \in 1..n
      BY <1>4, <2>2
    <3>2. q[k] = c[k - 2]
      BY <1>5, <1>6, <1>4, <3>1
    <3>. QED  BY <3>1, <3>2, <1>3, <1>5
  <2>. QED  BY Zenon, <2>1, <2>2
<1>. HIDE DEF q
<1>. QED  BY <1>1, <1>3, <1>4, <1>7, <1>8, <1>9

LEMMA PipeInit == ASSUME Init, Len(Offers) \in Nat PROVE PipeRight
<1>1. ibuf_rtr = <<>> /\ left.offers = Len(Offers)
  BY DEF Init
<1>2. ibuf_rtr \in Seq({}) /\ Len(ibuf_rtr) = 0
  BY SMTT(30), <1>1
<1>3. OfOneTransmission
  BY SMTT(30) DEF Init, OfOneTransmission
<1>. QED  BY SMTT(30), <1>1, <1>2, <1>3 DEF PipeRight

LEMMA RecalcPipe ==
    ASSUME OffersAreFinite, Len(Offers) \in Nat, PipeRight, Recalc
    PROVE  PipeRight'
<1>. DEFINE q == ibuf_rtr
            len == Len(q)
            k0 == Len(Offers) + 1 - left.offers
<1>1. left.offers > 0 /\ left.offers \in 0..Len(Offers)
  BY DEF Recalc, PipeRight
<1>2. k0 \in 1..Len(Offers)
  BY <1>1
<1>3. PICK offer \in Offers[k0] :
        q' = q \o rtr_recalc(offer) /\ sent' = sent \cup {offer}
  BY DEF Recalc
<1>4. UNCHANGED <<roa_new, rde_roa, vaps>>
  BY DEF Recalc, tables
<1>5. left'.offers \in 0..Len(Offers)
  <2>1. left' = [left EXCEPT !.offers = left.offers - 1]
    BY DEF Recalc
  <2>2. left'.offers = left.offers - 1 \/ left'.offers = left.offers
    BY SMTT(30), <2>1
  <2>. QED  BY <1>1, <2>2
<1>6. OfOneTransmission'
  BY <1>3, <1>4 DEF PipeRight, OfOneTransmission
<1>7. /\ offer = [roa |-> offer.roa, vaps |-> offer.vaps]
      /\ Cardinality(DOMAIN offer.vaps) \in Nat
  BY SMTT(30), <1>2, <1>3 DEF OffersAreFinite
<1>8. PICK m, n, S :
        /\ m = rtr_recalc(offer) /\ n \in Nat
        /\ m \in Seq(S) /\ Len(m) = n + 3
        /\ m[1].type = "roa_set" /\ m[1].roa = offer.roa
        /\ m[n + 3].type = "done" /\ m[n + 3].vaps = offer.vaps
        /\ \A k \in 2..(n + 2) : Between(m[k])
  BY SMTT(30), <1>7, RecalcSends
<1>9. PICK T : q \in Seq(T)
  BY DEF PipeRight
<1>10. q \in Seq(T \cup S) /\ m \in Seq(T \cup S)
  BY <1>8, <1>9
<1>11. /\ q' \in Seq(T \cup S) /\ Len(q') = len + n + 3 /\ len \in Nat
       /\ \A i \in 1..len : q'[i] = q[i]
       /\ \A i \in 1..(n + 3) : q'[len + i] = m[i]
  <2>1. q' = q \o m
    BY <1>3, <1>8
  <2>2. PICK y : y = q'
    OBVIOUS
  <2>3. PICK x : x = q /\ x \in Seq(T \cup S) /\ y = x \o m
    BY SMTT(30), <2>1, <2>2, <1>10
  <2>4. m \in Seq(T \cup S) /\ Len(m) = n + 3 /\ n \in Nat
    BY SMTT(30), <1>8, <1>10
  <2>5. /\ y \in Seq(T \cup S) /\ Len(x) \in Nat /\ Len(y) = Len(x) + Len(m)
        /\ \A i \in 1..Len(x) : y[i] = x[i]
        /\ \A i \in 1..Len(m) : y[Len(x) + i] = m[i]
    <3>1. PICK U : U = T \cup S /\ x \in Seq(U) /\ m \in Seq(U)
      BY <2>3, <2>4
    <3>2. y = x \o m
      BY <2>3
    <3>. QED  BY SMTT(30), <3>1, <3>2, Appended
  <2>6. Len(y) = Len(x) + n + 3 /\ \A i \in 1..(n + 3) : y[Len(x) + i] = m[i]
    BY SMTT(30), <2>4, <2>5
  <2>. QED  BY Zenon, <2>2, <2>3, <2>5, <2>6
<1>12. ASSUME NEW i \in 1..Len(q'), q'[i].type = "done"
       PROVE  Paired(q', i, roa_new', sent')
  <2>1. CASE i <= len
    <3>1. i \in 1..len /\ q'[i] = q[i]
      BY SMTT(30), <2>1, <1>11, <1>12
    <3>2. Paired(q, i, roa_new, sent)
      BY <3>1, <1>12 DEF PipeRight
    <3>3. PICK o \in sent :
            /\ q[i].vaps = o.vaps /\ o = [roa |-> o.roa, vaps |-> o.vaps]
            /\ \/ \E j \in 1..(i - 1) : /\ q[j].type = "roa_set" /\ q[j].roa = o.roa
                                        /\ \A k \in (j + 1)..(i - 1) : Between(q[k])
               \/ roa_new = o.roa /\ \A k \in 1..(i - 1) : Between(q[k])
      BY Zenon, <3>2 DEF Paired
    <3>4. \A k \in 1..(i - 1) : k \in 1..len /\ q'[k] = q[k]
      BY SMTT(30), <3>1, <1>11
    <3>5. o \in sent' /\ roa_new' = roa_new
      BY ZenonT(30), <1>3, <1>4
    <3>6. \/ \E j \in 1..(i - 1) : /\ q'[j].type = "roa_set" /\ q'[j].roa = o.roa
                                   /\ \A k \in (j + 1)..(i - 1) : Between(q'[k])
          \/ roa_new' = o.roa /\ \A k \in 1..(i - 1) : Between(q'[k])
      <4>1. CASE \E j \in 1..(i - 1) : /\ q[j].type = "roa_set" /\ q[j].roa = o.roa
                                       /\ \A k \in (j + 1)..(i - 1) : Between(q[k])
        <5>1. PICK j \in 1..(i - 1) : /\ q[j].type = "roa_set" /\ q[j].roa = o.roa
                                      /\ \A k \in (j + 1)..(i - 1) : Between(q[k])
          BY SMTT(30), <4>1
        <5>2. \A k \in (j + 1)..(i - 1) : k \in 1..(i - 1)
          BY SMTT(30)
        <5>. QED  BY ZenonT(30), <5>1, <5>2, <3>4
      <4>2. CASE roa_new = o.roa /\ \A k \in 1..(i - 1) : Between(q[k])
        BY <4>2, <3>4, <3>5
      <4>. QED  BY <3>3, <4>1, <4>2
    <3>. QED  BY SMTT(30), <3>1, <3>3, <3>5, <3>6 DEF Paired
  <2>2. CASE i > len
    <3>1. PICK h \in 1..(n + 3) : i = len + h
      <4>1. i - len \in 1..(n + 3) /\ i = len + (i - len)
        BY SMTT(30), <2>2, <1>8, <1>11
      <4>. QED  BY SMTT(30), <4>1
    <3>2. q'[i] = m[h]
      BY SMTT(30), <3>1, <1>11
    <3>3. h = n + 3
      <4>1. h # 1
        BY SMTT(30), <3>2, <1>8, <1>12
      <4>2. h \notin 2..(n + 2)
        BY SMTT(30), <3>2, <1>8, <1>12 DEF Between
      <4>. QED  BY SMTT(30), <4>1, <4>2, <3>1, <1>8
    <3>4. q'[i].vaps = offer.vaps
      BY SMTT(30), <3>2, <3>3, <1>8
    <3>5. /\ len + 1 \in 1..(i - 1)
          /\ q'[len + 1].type = "roa_set" /\ q'[len + 1].roa = offer.roa
      BY SMTT(30), <3>1, <3>3, <1>8, <1>11
    <3>6. ASSUME NEW k \in ((len + 1) + 1)..(i - 1) PROVE Between(q'[k])
      <4>1. k - len \in 2..(n + 2) /\ k = len + (k - len)
        BY SMTT(30), <3>1, <3>3, <1>8, <1>11
      <4>2. k - len \in 1..(n + 3)
        BY SMTT(30), <4>1, <1>8
      <4>3. q'[k] = m[k - len]
        BY Zenon, <4>1, <4>2, <1>11
      <4>. QED  BY SMTT(30), <4>1, <4>3, <1>8
    <3>7. offer \in sent'
      BY SMTT(30), <1>3
    <3>. QED  BY Zenon, <3>4, <3>5, <3>6, <3>7, <1>7 DEF Paired
  <2>. QED  BY SMTT(30), <2>1, <2>2, <1>11
<1>. QED  BY <1>5, <1>6, <1>11, <1>12 DEF PipeRight

LEMMA DispatchPipe ==
    ASSUME PipeRight, rde_dispatch_imsg_rtr
    PROVE  PipeRight'
<1>. DEFINE q == ibuf_rtr
            msg == Head(ibuf_rtr)
<1>1. PICK S : q \in Seq(S)
  BY DEF PipeRight
<1>2. /\ q # <<>> /\ q' = Tail(q) /\ UNCHANGED <<sent, left>>
      /\ msg.type \in {"roa_set", "aspa_prep", "aspa", "done"}
  BY DEF rde_dispatch_imsg_rtr
<1>3. /\ q' \in Seq(S) /\ Len(q) \in Nat /\ Len(q') = Len(q) - 1 /\ msg = q[1]
      /\ \A i \in 1..Len(q') : q'[i] = q[i + 1]
  <2>1. PICK x, y : x = q /\ y = q' /\ x \in Seq(S) /\ x # <<>> /\ y = Tail(x)
    BY <1>1, <1>2
  <2>2. /\ y \in Seq(S) /\ Len(x) \in Nat /\ Len(y) = Len(x) - 1 /\ Head(x) = x[1]
        /\ \A i \in 1..Len(y) : y[i] = x[i + 1]
    BY SMTT(30), <2>1
  <2>. QED  BY <2>1, <2>2
<1>4. msg.type = "roa_set" => roa_new' = msg.roa
  BY DEF rde_dispatch_imsg_rtr
<1>5. Between(msg) => roa_new' = roa_new
  BY SMTT(30) DEF rde_dispatch_imsg_rtr, Between
<1>6. OfOneTransmission'
  <2>1. CASE UNCHANGED <<rde_roa, vaps>>
    BY <2>1, <1>2 DEF PipeRight, OfOneTransmission
  <2>2. CASE msg.type = "done" /\ Switch(msg)
    <3>1. rde_roa' = roa_new /\ vaps' = msg.vaps
      BY <2>2 DEF Switch
    <3>2. 1 \in 1..Len(q)
      BY SMTT(30), <1>1, <1>2
    <3>3. Paired(q, 1, roa_new, sent)
      BY <2>2, <3>2, <1>3 DEF PipeRight
    <3>4. PICK offer \in sent : /\ q[1].vaps = offer.vaps /\ roa_new = offer.roa
                                /\ offer = [roa |-> offer.roa, vaps |-> offer.vaps]
      BY <3>3 DEF Paired
    <3>. QED  BY SMTT(30), <3>1, <3>4, <1>2, <1>3 DEF OfOneTransmission
  <2>. QED  BY <2>1, <2>2 DEF rde_dispatch_imsg_rtr, RtrDone
<1>. HIDE DEF q, msg
<1>7. ASSUME NEW i \in 1..Len(q'), q'[i].type = "done"
      PROVE  Paired(q', i, roa_new', sent')
  <2>1. i + 1 \in 1..Len(q) /\ q'[i] = q[i + 1] /\ i \in Nat /\ i >= 1
    BY SMTT(30), <1>3, <1>7
  <2>2. Paired(q, i + 1, roa_new, sent)
    BY SMTT(30), <2>1, <1>7 DEF PipeRight, q
  <2>3. PICK o \in sent :
          /\ q[i + 1].vaps = o.vaps /\ o = [roa |-> o.roa, vaps |-> o.vaps]
          /\ \/ \E j \in 1..((i + 1) - 1) :
                   /\ q[j].type = "roa_set" /\ q[j].roa = o.roa
                   /\ \A k \in (j + 1)..((i + 1) - 1) : Between(q[k])
             \/ roa_new = o.roa /\ \A k \in 1..((i + 1) - 1) : Between(q[k])
    BY <2>2 DEF Paired
  <2>4. (i + 1) - 1 = i
    BY SMTT(30), <2>1
  <2>5. \A k \in 1..(i - 1) : k + 1 \in 1..i /\ q'[k] = q[k + 1]
    BY SMTT(30), <2>1, <1>3
  <2>6. \/ \E j \in 1..(i - 1) : /\ q'[j].type = "roa_set" /\ q'[j].roa = o.roa
                                 /\ \A k \in (j + 1)..(i - 1) : Between(q'[k])
        \/ roa_new' = o.roa /\ \A k \in 1..(i - 1) : Between(q'[k])
    <3>1. ASSUME NEW j \in 1..i, q[j].type = "roa_set", q[j].roa = o.roa,
                 \A k \in (j + 1)..i : Between(q[k])
          PROVE  <2>6!:
      <4>1. CASE j = 1
        <5>1. roa_new' = o.roa
          BY <4>1, <3>1, <1>3, <1>4
        <5>2. \A k \in 1..(i - 1) : k + 1 \in (j + 1)..i
          BY SMTT(30), <4>1, <2>1
        <5>. QED  BY SMTT(30), <5>1, <5>2, <3>1, <2>5
      <4>2. CASE j # 1
        <5>1. j - 1 \in 1..(i - 1) /\ (j - 1) + 1 = j
          BY <4>2, <2>1
        <5>2. q'[j - 1].type = "roa_set" /\ q'[j - 1].roa = o.roa
          BY Zenon, <5>1, <3>1, <2>5
        <5>3. ASSUME NEW k \in ((j - 1) + 1)..(i - 1) PROVE Between(q'[k])
          <6>1. k \in 1..(i - 1) /\ k + 1 \in (j + 1)..i
            BY SMTT(30), <5>1, <2>1
          <6>. QED  BY SMTT(30), <6>1, <3>1, <2>5
        <5>. QED  BY <5>1, <5>2, <5>3
      <4>. QED  BY SMTT(30), <4>1, <4>2
    <3>2. ASSUME roa_new = o.roa, \A k \in 1..i : Between(q[k])
          PROVE  <2>6!:
      <4>1. roa_new' = o.roa
        BY SMTT(30), <3>2, <2>1, <1>3, <1>5
      <4>. QED  BY SMTT(30), <4>1, <3>2, <2>5
    <3>. QED  BY SMTT(30), <3>1, <3>2, <2>3, <2>4
  <2>7. o \in sent' /\ q'[i].vaps = o.vaps
    BY <2>1, <2>3, <1>2
  <2>8. o = [roa |-> o.roa, vaps |-> o.vaps]
    BY Zenon, <2>3
  <2>. QED  BY ZenonT(30), <2>6, <2>7, <2>8 DEF Paired
<1>. QED  BY SMTT(30), <1>2, <1>3, <1>6, <1>7 DEF PipeRight, q

\* The ROA table and the ASPA table in use are always those of one and the same
\* transmission, however the transmissions, the walks that make the RDE drop one
\* and the other handlers interleave, for any number and size of transmissions
\* (rtr_recalc, rde_dispatch_imsg_rtr).
THEOREM TablesOfOneTransmission ==
    ASSUME OffersAreFinite, Len(Offers) \in Nat
    PROVE  Spec => []OfOneTransmission
<1>1. Init => PipeRight
  BY SMTT(30), PipeInit
<1>2. ASSUME PipeRight, [Next]_vars PROVE PipeRight'
  <2>1. CASE Recalc
    BY <1>2, <2>1, RecalcPipe
  <2>2. CASE rde_dispatch_imsg_rtr
    BY SMTT(30), <1>2, <2>2, DispatchPipe
  <2>3. CASE UNCHANGED <<ibuf_rtr, roa_new, rde_roa, vaps, sent, left.offers>>
    BY <1>2, <2>3 DEF PipeRight, Paired, Between, OfOneTransmission
  <2>4. CASE \E r \in Routes : \E attr \in Announced[r] : Announce(r, attr)
    <3>1. UNCHANGED <<ibuf_rtr, roa_new, rde_roa, vaps, sent>>
      BY <2>4 DEF Announce, tables
    <3>2. left' = [left EXCEPT !.updates = @ - 1]
      BY <2>4 DEF Announce
    <3>. QED  BY <3>1, <3>2, <2>3
  <2>5. CASE \E r \in Routes : Withdraw(r)
    <3>1. UNCHANGED <<ibuf_rtr, roa_new, rde_roa, vaps, sent>>
      BY <2>5 DEF Withdraw, tables
    <3>2. left' = [left EXCEPT !.updates = @ - 1]
      BY <2>5 DEF Withdraw
    <3>. QED  BY <3>1, <3>2, <2>3
  <2>7. CASE SoftStart
    <3>1. UNCHANGED <<ibuf_rtr, roa_new, rde_roa, vaps, sent>>
      BY <2>7 DEF SoftStart, tables
    <3>2. left' = [left EXCEPT !.reloads = @ - 1]
      BY SMTT(30), <2>7 DEF SoftStart
    <3>. QED  BY <3>1, <3>2, <2>3
  <2>8. CASE RpkiStep
    BY SMTT(30), <2>8, <2>3 DEF RpkiStep, tables
  <2>9. CASE SoftStep
    BY <2>9, <2>3 DEF SoftStep, tables
  <2>6. CASE UNCHANGED vars
    BY <2>6, <2>3 DEF vars, tables
  <2>. QED  BY <1>2, <2>1, <2>2, <2>4, <2>5, <2>6, <2>7, <2>8, <2>9 DEF Next
<1>3. PipeRight => OfOneTransmission
  BY DEF PipeRight
<1>. QED  BY <1>1, <1>2, <1>3, PTL DEF Spec
=============================================================================
