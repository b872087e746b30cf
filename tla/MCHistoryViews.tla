---------------------------- MODULE MCHistoryViews ----------------------------
(* Instances of HistoryViews for TLC. *)
EXTENDS HistoryViews

CONSTANTS t0, t1, t2, t3, w1, w2, w3

\* Two windows and a desktop: what groups and replays are made of.
Sessions == [kinds |-> {"screen", "mic"}, windows |-> {w1, w2, NoWindow}, texts |-> {t0},
             embeddings |-> FALSE, filters |-> {}, rows |-> 3, until |-> 2]

\* Screenshots and segments that the two rankings order differently.
Rankings == [kinds |-> {"screen", "mic"}, windows |-> {w3, NoWindow}, texts |-> {t1, t2, t3},
             embeddings |-> TRUE, rows |-> 3, until |-> 0,
             filters |-> [source : {"any", "screen", "mic"}, app : {"any", w3}]]

WindowNames == Permutations({w1, w2})

BothWorlds == {Sessions, Rankings}

\* t1 matches best, t2 is nearest, t3 is only found by its vector.
QueryRank(text) == CASE text = t1 -> 1 [] text = t2 -> 2 [] OTHER -> 0
QueryDistance(text) == CASE text = t1 -> 2 [] text = t2 -> 1 [] OTHER -> 3
=============================================================================
