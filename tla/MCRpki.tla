------------------------------- MODULE MCRpki -------------------------------
EXTENDS Rpki, TLC

Ases == 1..4
MCHash == [as \in Ases |-> IF as = 3 THEN 1 ELSE 0]

Seg(s) == [type |-> "AS_SEQUENCE", ases |-> s]
Main == <<Seg(<<1, 2>>), Seg(<<2, 3, 4>>)>>
Short == <<Seg(<<2, 3>>)>>
Attr(path, kind, med) == [path |-> path, kind |-> kind, med |-> med]

MCRoutes == 1..2
MCSource == <<[kind |-> "ebgp", peer |-> 1], [kind |-> "ebgp", peer |-> 2]>>
MCAnnounced == <<{Attr(Main, "ebgp", 0), Attr(Short, "ebgp", 0)},
                 {Attr(Main, "ebgp", 0), Attr(Main, "ebgp", 1)}>>

(* "strict": deny from any ovs invalid, deny from any avs invalid, match   *)
(* from any avs valid set med 1; "prepend": match from the first neighbor  *)
(* set prepend-self 1, with local-as 1; "any": allow from any.             *)
MCInRules(rules, attr, vstate) ==
  CASE rules = "strict" ->
         IF vstate.roa = "invalid" \/ vstate.aspa = "INVALID" THEN None
         ELSE IF vstate.aspa = "VALID" THEN [attr EXCEPT !.med = 1]
         ELSE attr
    [] rules = "prepend" ->
         IF attr.path = Short THEN [attr EXCEPT !.path = <<Seg(<<1, 2, 3>>)>>]
         ELSE attr
    [] rules = "any" -> attr

Conf(rules, filtered, role1) ==
  [rules |-> rules, filtered_in_locrib |-> filtered,
   role |-> <<role1, "provider">>]
MCBoot == Conf("strict", FALSE, "customer")
MCConfs == {MCBoot, Conf("strict", TRUE, "customer"),
            Conf("any", FALSE, "customer"), Conf("strict", FALSE, "provider")}
PrependBoot == Conf("prepend", FALSE, "customer")
PrependConfs == {PrependBoot}

(* The second neighbor, AS 1, announces the path the first one's becomes.  *)
PrependAnnounced == <<{Attr(Short, "ebgp", 0)},
                      {Attr(<<Seg(<<1, 2, 3>>)>>, "ebgp", 0)}>>

MCPaths ==
  {<<>>, <<Seg(<<1>>)>>, <<Seg(<<3, 3>>)>>, <<Seg(<<1, 2, 3>>)>>,
   <<Seg(<<1, 2, 1, 2>>)>>, <<Seg(<<4, 3, 2, 2, 1>>)>>,
   <<Seg(<<1, 2>>), [type |-> "AS_SET", ases |-> <<3, 4>>]>>}

(* Every choice of providers for AS 3 among its neighbours on the path     *)
(* 2 3 4 with and without those of 2 and 4, and every choice of one        *)
(* provider each on the path 1 2 3 4.  The second transmission may have    *)
(* the ASPA records of the first.                                          *)
Lists(c, ases) == {c :> P : P \in SUBSET ({c - 1, c + 1} \cap ases)}
Maybe(c) == {<<>>} \cup (IF c = 3 THEN Lists(c, 2..4) ELSE {c :> {3}})
One(c) == {c :> {p} : p \in {c - 1, c + 1} \cap Ases}
AnyVaps == {a @@ b @@ c : a \in Maybe(2), b \in Maybe(3), c \in Maybe(4)}
           \cup {a @@ b @@ c @@ d : a \in One(1), b \in One(2),
                                    c \in One(3), d \in One(4)}
Offer(roa, vaps_) == [roa |-> roa, vaps |-> vaps_]
V1 == [c \in {2, 3, 4} |-> {c - 1}]
V2 == [c \in {1, 3} |-> {2, 4}]
V3 == [c \in {2, 4} |-> {3}]
MCOffers ==
  <<{Offer({<<1, 4>>}, v) : v \in AnyVaps},
    {Offer({<<1, 3>>}, V3), Offer({<<1, 4>>}, V2)}>>
FewOffers ==
  <<{Offer({}, V1), Offer({}, V2)}, {Offer({}, V1), Offer({}, <<>>)},
    {Offer({<<1, 4>>}, V1), Offer({<<1, 3>>}, V2)}>>
=============================================================================
