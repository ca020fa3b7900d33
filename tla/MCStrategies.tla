---------------------------- MODULE MCStrategies ----------------------------
(* Instances of Strategies. *)
EXTENDS Strategies

Dist(a, b) == IF a > b THEN a - b ELSE b - a

(* Exploration: rankings <<kind, v, f>> and what a position scores. *)
MCScore(rank, at) ==
  CASE rank[1] = "bowl"   -> 1 + Dist(at[1], rank[2]) + Dist(at[2], rank[3])
    [] rank[1] = "ridge"  -> 1 + 5 * Dist(at[1], at[2]) + Dist(at[1], rank[2])
    [] rank[1] = "across" -> 1 + 5 * Dist(at[1] + at[2], rank[3]) + Dist(at[1], rank[2])

Grid3 == [lo |-> 0, hi |-> 12, n |-> 3]
Grid5 == [lo |-> 0, hi |-> 8, n |-> 5]
Plain == [rank |-> <<"bowl", 3, 3>>, v |-> Grid5, f |-> Grid5, fine |-> 0, fineK |-> 1,
          rays |-> 1, topK |-> 1, trend |-> 2]
Fine  == [Plain EXCEPT !.v = Grid3, !.f = Grid3, !.fine = 3]

\* The two best cells have one voltage.
OneVoltage == [Plain EXCEPT !.rank = <<"bowl", 4, 5>>, !.fineK = 2, !.topK = 2]

OneEra(era) == [eras |-> <<era>>, faults |-> 0]

MCScenes ==
  {OneEra([Plain EXCEPT !.rank = r]) :
     r \in {<<"bowl", 0, 5>>, <<"bowl", 4, 0>>, <<"bowl", 8, 5>>, <<"ridge", 0, 0>>,
            <<"ridge", 3, 0>>, <<"across", 6, 8>>, <<"across", 3, 6>>}}
  \cup {OneEra([Fine EXCEPT !.rank = r]) :
          r \in {<<"bowl", 8, 0>>, <<"bowl", 4, 5>>, <<"ridge", 6, 0>>, <<"across", 3, 6>>}}
  \cup {OneEra([Plain EXCEPT !.rank = <<"ridge", 3, 0>>, !.fineK = 2, !.rays = 2, !.topK = 2]),
        OneEra([Fine EXCEPT !.rank = <<"ridge", 3, 0>>, !.fineK = 2, !.rays = 2])}
  \cup {[eras |-> <<Plain, [Plain EXCEPT !.rank = <<"bowl", 8, 0>>]>>, faults |-> 0],
        [eras |-> <<[Fine EXCEPT !.rank = <<"bowl", 8, 0>>], [Fine EXCEPT !.v.hi = 6, !.v.n = 2]>>,
         faults |-> 0],
        [eras |-> <<Fine>>, faults |-> 1],
        [eras |-> <<OneVoltage, [OneVoltage EXCEPT !.topK = 1]>>, faults |-> 0]}

(* Braiins: profits that fall evenly from a peak. *)
Even(p) == [w \in 0..25 |-> 30 - Dist(w, p)]

MCMarkets ==
  {[curves |-> {Even(p)}, limits |-> {l}] : p \in {0, 2, 5, 9}, l \in {<<0, 12>>, <<3, 10>>}}
  \cup {[curves |-> {Even(4)}, limits |-> {<<0, 24>>}],
        [curves |-> {Even(8)}, limits |-> {<<0, 11>>}],
        [curves |-> {Even(3)}, limits |-> {<<0, 7>>, <<5, 10>>, <<4, 4>>}],
        [curves |-> {Even(1), Even(3)}, limits |-> {<<0, 4>>}]}

(* Whatsminer: a hill of J/TH around its lowest cell, or one as good as another.  A miner *)
(* with the low mode alone reaches no more than twice its frequency.  Of those that tell  *)
(* no frequency one has a low mode that runs at the fallback, the other has none.        *)
Hill(p, f) == [c \in (2..4) \X (2..6) |-> 20 + Dist(c[1], p) + Dist(c[2], f)]

Flat == [c \in (2..4) \X (2..6) |-> 20]

Stock == [native |-> [low |-> 2, normal |-> 4, high |-> 6], supports |-> {"low", "normal", "high"},
          anchor |-> "current_mode", tells |-> TRUE, says132 |-> TRUE, fine |-> <<0, 0>>, faults |-> 0, lands |-> {Hill(3, 3)}]

MCMiners == {[Stock EXCEPT !.lands = {Hill(2, 4), Hill(4, 6)}],
             [Stock EXCEPT !.anchor = "normal_only", !.fine = <<1, 2>>],
             [Stock EXCEPT !.supports = {"normal", "high"}],
             [Stock EXCEPT !.supports = {"low"}, !.faults = 1, !.lands = {Flat}],
             [Stock EXCEPT !.faults = 1],
             [Stock EXCEPT !.supports = {"normal", "high"}, !.says132 = FALSE],
             [Stock EXCEPT !.tells = FALSE, !.lands = {Flat}],
             [Stock EXCEPT !.tells = FALSE, !.native.low = 3]}

(* VoltageApply: points at every level, of one clock and of two. *)
PointAt(v, f1, f2) == [v |-> v, f |-> [b \in {1, 2} |-> IF b = 1 THEN f1 ELSE f2], uniform |-> f1 = f2]

MCPoints == {PointAt(1, 1, 1), PointAt(2, 2, 1), PointAt(4, 1, 4)}
=============================================================================
