-------------------------------- MODULE Aspa --------------------------------
(***************************************************************************)
(* The ASPA table of the RDE and the validation of an AS path against it   *)
(* (rde_aspa.c).  The table is an array of customer sets and a hash table  *)
(* of pointers into it; the sets of one bucket are neighbours in the array *)
(* in ascending order, chained by `next'.  Array and data indices start at *)
(* 1, the index 0 is the NULL pointer of a bucket.                         *)
(***************************************************************************)
EXTENDS Integers, FiniteSets, Sequences, Functions

CONSTANTS
  Hash,     \* hash(as) & mask, a function from the AS numbers to the buckets
  Linear,   \* the size from which a provider list is searched by halves (16)
  None      \* the NULL pointer

Buckets == {Hash[as] : as \in DOMAIN Hash}

Inserted(s, i, e) == SubSeq(s, 1, i - 1) \o <<e>> \o SubSeq(s, i, Len(s))

aspa_table_prep(entries, datasize) ==
  IF entries = 0 THEN None
  ELSE [sets |-> <<>>, table |-> [h \in Buckets |-> 0], data |-> <<>>,
        maxset |-> entries, maxdata |-> datasize]

\* Bug: the buckets that point behind the new set do not move.
aspa_add_set_stuck(ra, cas, pas) ==
  LET at  == ra.table[Hash[cas]]
      pos == IF at = 0 THEN Len(ra.sets) + 1 ELSE at
      set == [as |-> cas, next |-> at # 0, num |-> Len(pas),
              pas |-> Len(ra.data)]
  IN [ra EXCEPT !.sets = Inserted(@, pos, set),
                !.table[Hash[cas]] = pos,
                !.data = @ \o pas]

(* A set that shares its bucket is put before the first one of the bucket, *)
(* the array behind it moves up and so do the buckets that point there.    *)
aspa_add_set(ra, cas, pas) ==
  LET at  == ra.table[Hash[cas]]
      pos == IF at = 0 THEN Len(ra.sets) + 1 ELSE at
      set == [as |-> cas, next |-> at # 0, num |-> Len(pas),
              pas |-> Len(ra.data)]
  IN [ra EXCEPT !.sets = Inserted(@, pos, set),
                !.table = [h \in Buckets |->
                             IF h = Hash[cas] THEN pos
                             ELSE IF at # 0 /\ @[h] > pos THEN @[h] + 1
                             ELSE @[h]],
                !.data = @ \o pas]

(* The checks of aspa_add_set that end the process.                        *)
AddFails(ra, cas, pas) ==
  LET at == ra.table[Hash[cas]] IN
  \/ Len(ra.sets) >= ra.maxset
  \/ at # 0 /\ ra.sets[at].as <= cas
  \/ ra.maxdata - Len(ra.data) < Len(pas)

aspa_table_equal(ra, rb) ==
  IF ra = None \/ rb = None THEN ra = rb
  ELSE /\ ra.maxset = rb.maxset /\ ra.maxdata = rb.maxdata
       /\ \A i \in 1..ra.maxset : /\ ra.sets[i].as = rb.sets[i].as
                                  /\ ra.sets[i].num = rb.sets[i].num
       /\ ra.data = rb.data

(* The walk along a bucket ends at the first set that is not smaller or is *)
(* the last of the chain.                                                  *)
aspa_lookup(ra, asnum) ==
  LET walk[i \in 0..Len(ra.sets)] ==
        IF i # 0 /\ ra.sets[i].as < asnum /\ ra.sets[i].next
        THEN walk[i + 1] ELSE i
      end == walk[ra.table[Hash[asnum]]]
  IN IF end # 0 /\ ra.sets[end].as = asnum THEN end ELSE 0

Scanned(list, pas) ==
  \E i \in 1..Len(list) :
    list[i] = pas /\ \A j \in 1..(i - 1) : list[j] < pas

Halved(list, pas) ==
  LET n == Len(list)
      search[i \in 0..n, lim \in 0..n] ==
        IF lim = 0 THEN FALSE
        ELSE LET x == i + lim \div 2 IN
             IF list[x + 1] = pas THEN TRUE
             ELSE IF list[x + 1] < pas THEN search[x + 1, (lim - 1) \div 2]
             ELSE search[i, lim \div 2]
  IN search[0, n]

aspa_cp_lookup(ra, cas, pas) ==
  LET at == aspa_lookup(ra, cas) IN
  IF at = 0 THEN "UNKNOWN"
  ELSE LET set   == ra.sets[at]
           list  == SubSeq(ra.data, set.pas + 1, set.pas + set.num)
           found == IF set.num < Linear THEN Scanned(list, pas)
                    ELSE Halved(list, pas)
       IN IF found THEN "PROVIDER" ELSE "NOT_PROVIDER"

(***************************************************************************)
(* aspa_check_aspath: one pass from the neighbor to the origin, prepends   *)
(* skipped, that keeps the indices struct aspa_state names.                *)
(***************************************************************************)
FirstOf(old, new) == IF old = 0 THEN new ELSE old

Hop(ra, s, as) ==
  LET n    == s.nhops + 1
      down == aspa_cp_lookup(ra, s.prevas, as)
      up   == aspa_cp_lookup(ra, as, s.prevas)
  IN IF as = s.prevas THEN s
     ELSE IF s.prevas = 0 THEN [s EXCEPT !.nhops = n, !.prevas = as]
     ELSE [s EXCEPT
       !.nhops    = n,
       !.prevas   = as,
       !.ndown_np = IF down = "NOT_PROVIDER" THEN FirstOf(@, n) ELSE @,
       !.ndown_p  = IF down = "PROVIDER" /\ @ + 1 = n THEN n ELSE @,
       !.nup_u    = IF up = "UNKNOWN" THEN n - 1 ELSE @,
       !.nup_np   = IF up = "NOT_PROVIDER" THEN n - 1 ELSE @,
       !.nup_p    = IF up = "PROVIDER" THEN FirstOf(@, n - 1) ELSE 0]

aspa_check_aspath(ra, ases) ==
  LET state[i \in 0..Len(ases)] ==
        IF i = 0 THEN [nhops |-> 0, prevas |-> 0, nup_p |-> 0, nup_u |-> 0,
                       nup_np |-> 0, ndown_p |-> 1, ndown_np |-> 0]
        ELSE Hop(ra, state[i - 1], ases[i])
      s == state[Len(ases)]
  IN [s EXCEPT !.nup_p = FirstOf(@, s.nhops)]

\* Bug: ramps that exclude each other at one AS are let pass.
aspa_check_finalize_gap(s) ==
  [onlyup |-> IF s.nup_np # 0 THEN "INVALID"
              ELSE IF s.nup_u # 0 THEN "UNKNOWN" ELSE "VALID",
   downup |-> IF s.nhops <= 2 \/ s.nup_p - s.ndown_p <= 1 THEN "VALID"
              ELSE IF s.nup_np # 0 /\ s.ndown_np # 0
                      /\ s.nup_np - s.ndown_np > 0 THEN "INVALID"
              ELSE "UNKNOWN"]

(* Both ramps are allowed to touch, and a third AS may not lie between.    *)
aspa_check_finalize(s) ==
  [onlyup |-> IF s.nup_np # 0 THEN "INVALID"
              ELSE IF s.nup_u # 0 THEN "UNKNOWN" ELSE "VALID",
   downup |-> IF s.nhops <= 2 \/ s.nup_p - s.ndown_p <= 1 THEN "VALID"
              ELSE IF s.nup_np # 0 /\ s.ndown_np # 0
                      /\ s.nup_np - s.ndown_np >= 0 THEN "INVALID"
              ELSE "UNKNOWN"]

(* A path is a sequence of segments [type, ases].                          *)
Joined(path) ==
  LET joined[i \in 0..Len(path)] ==
        IF i = 0 THEN <<>> ELSE joined[i - 1] \o path[i].ases
  IN joined[Len(path)]

Both(v) == [onlyup |-> v, downup |-> v]

aspa_validation(ra, path) ==
  IF ra = None THEN Both("UNKNOWN")
  ELSE IF path = <<>> \/ \E i \in DOMAIN path : path[i].type # "AS_SEQUENCE"
  THEN Both("INVALID")
  ELSE aspa_check_finalize(aspa_check_aspath(ra, Joined(path)))

(***************************************************************************)
(* The reference, over the records [customer -> set of providers] the      *)
(* table was built from and a path without prepends: hop i joins AS i and  *)
(* AS i + 1, seen from the neighbor.  A path goes up from its origin; from *)
(* a provider it may come down again after at most one hop that is neither.*)
(***************************************************************************)
Relation(vaps, cas, pas) ==
  IF cas \notin DOMAIN vaps THEN "UNKNOWN"
  ELSE IF pas \in vaps[cas] THEN "PROVIDER" ELSE "NOT_PROVIDER"

Hops(p) == 1..(Len(p) - 1)
Up(vaps, p, ok) == {i \in Hops(p) : Relation(vaps, p[i + 1], p[i]) \in ok}
Down(vaps, p, ok) == {i \in Hops(p) : Relation(vaps, p[i], p[i + 1]) \in ok}
Climbs(vaps, p, ok) == Up(vaps, p, ok) = Hops(p)
Ridge(vaps, p, ok) ==
  \/ Hops(p) = {}
  \/ \E top \in Hops(p) : /\ 1..(top - 1) \subseteq Down(vaps, p, ok)
                          /\ (top + 1)..(Len(p) - 1) \subseteq Up(vaps, p, ok)

Verdict(Holds(_)) ==
  IF Holds({"PROVIDER"}) THEN "VALID"
  ELSE IF Holds({"PROVIDER", "UNKNOWN"}) THEN "UNKNOWN" ELSE "INVALID"

Unprepended(s) ==
  LET keep == {i \in DOMAIN s : i = 1 \/ s[i] # s[i - 1]}
      nth(k) == CHOOSE i \in keep : Cardinality({j \in keep : j <= i}) = k
  IN [k \in 1..Cardinality(keep) |-> s[nth(k)]]

Expected(vaps, path) ==
  IF DOMAIN vaps = {} THEN Both("UNKNOWN")
  ELSE IF path = <<>> \/ \E i \in DOMAIN path : path[i].type = "AS_SET"
  THEN Both("INVALID")
  ELSE LET p == Unprepended(Joined(path))
       IN [onlyup |-> Verdict(LAMBDA ok : Climbs(vaps, p, ok)),
           downup |-> Verdict(LAMBDA ok : Ridge(vaps, p, ok))]
=============================================================================
