--------------------------- MODULE MC_Synchroniser ---------------------------
EXTENDS EmpegSync

\* Items of the source: the root, two lists, two tunes, a better encoding of the
\* first, and a file that is no media.
R == 8  P == 9  Q == 10  X == 11  Y == 12  XH == 13  F == 14

List(title, kids) == [title |-> title, kind |-> "list", kids |-> kids, size |-> 0, tags |-> 0, high |-> 0]
Tune(title, size, tags, high) == [title |-> title, kind |-> "tune", kids |-> <<>>, size |-> size, tags |-> tags, high |-> high]

Tree(rootkids, pkids, qkids, x, y) ==
  [i \in {R, P, Q, X, Y, XH, F} |->
    CASE i = R -> List("root", rootkids)
      [] i = P -> List("p", pkids)
      [] i = Q -> List("q", qkids)
      [] i = X -> x
      [] i = Y -> y
      [] i = XH -> [Tune("x", 3, 1, 0) EXCEPT !.kind = "high"]
      [] i = F -> [Tune("cover", 1, 1, 0) EXCEPT !.kind = "file"]]

\* The shapes of the tree: items that move, appear in two places, are nested.
Shapes(xs, ys, rks, pks, qks) ==
  {Tree(rk, pk, qk, x, y) : rk \in rks, pk \in pks, qk \in qks, x \in xs, y \in ys}

MC_Sources ==
  Shapes({Tune("x", 1, 1, 0)}, {Tune("y", 1, 1, 0)},
         {<<P>>, <<P, Q>>, <<Q, P>>}, {<<X>>, <<X, Y>>, <<Q, X>>, <<F, Y>>}, {<<>>, <<Y, X>>})
  \union
  Shapes({Tune("x", 1, 1, 0), Tune("x", 2, 1, 0), Tune("x", 1, 2, 0), Tune("x", 1, 1, XH)},
         {Tune("x", 1, 1, 0), Tune("x", 2, 1, 0)}, {<<P, Q>>}, {<<X>>}, {<<X>>, <<Y>>})

\* Those that go to a player.
MC_EmpegSources ==
  {s \in MC_Sources : /\ s[Y].size = 1 /\ s[X].tags = 1 /\ s[X].high = 0 /\ s[R].kids # <<Q, P>>
                      /\ s[P].kids \in {<<X>>, <<F, Y>>}
                      /\ (s[R].kids = <<P>> => s[Q].kids = <<>> /\ s[P].kids = <<X>>)
                      /\ (s[X].size = 2 => s[Q].kids = <<X>>)}
=============================================================================
