-------------------------------- MODULE Green --------------------------------
(***************************************************************************)
(* The green trees of engine/cst: the arenas of builder.go and green.go,   *)
(* where equal tokens and equal nodes are kept once, and the cursors of    *)
(* red.go, which know where in the source they stand.                      *)
(*                                                                         *)
(* A builder b has the distinct tokens b.leaves, the distinct nodes        *)
(* b.nodes, and the frames b.stack of the nodes that are not finished.  A  *)
(* token is a record with a kind and a text.                               *)
(***************************************************************************)
EXTENDS Integers, Sequences, SequencesExt

Leaf(i) == [leaf |-> TRUE, at |-> i]
Inner(i) == [leaf |-> FALSE, at |-> i]
Frame(kind, children) == [kind |-> kind, children |-> children]

\* The frame below the others is for the root.
NewBuilder == [leaves |-> <<>>, nodes |-> <<>>, stack |-> <<Frame("base", <<>>)>>]

Intern(arena, x) == IF x \in ToSet(arena) THEN arena ELSE Append(arena, x)
Handle(arena, x) == CHOOSE i \in DOMAIN arena : arena[i] = x

Top(b) == b.stack[Len(b.stack)]
Adopt(stack, child) == [stack EXCEPT ![Len(stack)].children = Append(@, child)]

StartNode(b, kind) == [b EXCEPT !.stack = Append(@, Frame(kind, <<>>))]

Token(b, t) ==
  LET leaves == Intern(b.leaves, t)
  IN  [b EXCEPT !.leaves = leaves, !.stack = Adopt(@, Leaf(Handle(leaves, t)))]

\* Seeded fault: only tokens are wide.
WidthOfTokens(b, child) == IF child.leaf THEN Len(b.leaves[child.at].text) ELSE 0

Width(b, child) == IF child.leaf THEN Len(b.leaves[child.at].text) ELSE b.nodes[child.at].width
TotalWidth(b, children) == FoldLeft(LAMBDA w, child : w + Width(b, child), 0, children)

FinishNode(b) ==
  LET node == [kind |-> Top(b).kind, children |-> Top(b).children,
               width |-> TotalWidth(b, Top(b).children)]
      nodes == Intern(b.nodes, node)
  IN  [b EXCEPT !.nodes = nodes, !.stack = Adopt(Front(@), Inner(Handle(nodes, node)))]

\* Builder.Checkpoint and StartNodeAt: a new frame takes over the children
\* that the open one got since the checkpoint.
Checkpoint(b) == [frame |-> Len(b.stack), n |-> Len(Top(b).children)]

StartNodeAt(b, cp, kind) ==
  LET children == Top(b).children
      kept == [b.stack EXCEPT ![Len(b.stack)].children = SubSeq(@, 1, cp.n)]
  IN  [b EXCEPT !.stack = Append(kept, Frame(kind, SubSeq(children, cp.n + 1, Len(children))))]

\* What the builder panics on.
MayFinishNode(b) == Len(b.stack) > 1
MayStartNodeAt(b, cp) == cp.frame = Len(b.stack) /\ cp.n <= Len(Top(b).children)
MayFinish(b) == Len(b.stack) = 1 /\ Len(Top(b).children) = 1 /\ ~Top(b).children[1].leaf
-----------------------------------------------------------------------------
\* Node.Text, of every node in the arena.
Texts(b) ==
  LET text[i \in DOMAIN b.nodes] ==
        FlattenSeq([j \in DOMAIN b.nodes[i].children |->
                      LET child == b.nodes[i].children[j]
                      IN  IF child.leaf THEN b.leaves[child.at].text ELSE text[child.at]])
  IN  text

ChildrenText(b, children) ==
  LET text == Texts(b)
  IN  FlattenSeq([j \in DOMAIN children |->
                    IF children[j].leaf THEN b.leaves[children[j].at].text ELSE text[children[j].at]])

\* The tree under each node: its tokens and nodes, with their texts.
Red(b) ==
  LET text == Texts(b)
      red[i \in DOMAIN b.nodes] ==
        LET Child(child) == IF child.leaf
                              THEN [leaf |-> TRUE, kind |-> b.leaves[child.at].kind,
                                    text |-> b.leaves[child.at].text]
                              ELSE red[child.at]
        IN  [leaf |-> FALSE, kind |-> b.nodes[i].kind, text |-> text[i],
             children |-> FoldLeft(LAMBDA cs, child : Append(cs, Child(child)), <<>>, b.nodes[i].children)]
  IN  red

\* Node.Children: the offset of each child.
Offset(b, children, j, from) == from + TotalWidth(b, SubSeq(children, 1, j - 1))

\* The cursors of all nodes in the tree of node i, when that is at `from'.
Cursors(b, i, from) ==
  LET below[c \in [node : DOMAIN b.nodes, offset : Nat]] ==
        LET children == b.nodes[c.node].children
        IN  {c} \cup
            UNION {below[[node |-> children[j].at, offset |-> Offset(b, children, j, c.offset)]] :
                     j \in {h \in DOMAIN children : ~children[h].leaf}}
  IN  below[[node |-> i, offset |-> from]]
=============================================================================
