---------------------------- MODULE MCRegulative ----------------------------
(* Contracts of up to three rules, over two parties. *)
EXTENDS Regulative

Deed(p, a) == [party |-> p, action |-> a]
MCDeeds == {Deed("a", "pay"), Deed("a", "pay little"), Deed("a", "ship"), Deed("b", "ship")}

\* "a" pays, and little does not count; "b" ships.
Pay(modal, due, hence, lest) ==
  Obligation(modal, "a", {"pay", "pay little"}, {"pay", "ship"}, due, hence, lest)
Ship(modal, due, hence, lest) ==
  Obligation(modal, "b", {"ship"}, {"pay", "ship"}, due, hence, lest)

Others == {Ship("must", 1, Fulfilled, NoRule), Ship("shant", 1, Fulfilled, NoRule)}
After == {Fulfilled} \cup Others
Chains ==
  {Pay(m, d, h, l) : m \in {"must", "shant"}, d \in {NoDue, 1}, h \in After,
     l \in {NoRule, ExplicitBreach, Pay("must", 2, Fulfilled, NoRule)}}
   \cup {Pay("may", d, h, NoRule) : d \in {NoDue, 1}, h \in After}
Plain ==
  {Pay(m, 1, Fulfilled, NoRule) : m \in {"must", "may", "shant"}}
    \cup {Pay("must", NoDue, Ship("must", 1, Fulfilled, NoRule), NoRule)}
Parallel == {ROp(o, x, y) : o \in {"and", "or"}, x \in Plain,
              y \in Others \cup {Ship("must", 2, Fulfilled, NoRule)}}
Nested == {ROp(o, ROp(p, Ship("must", 1, Fulfilled, NoRule), Pay("must", NoDue, Fulfilled, NoRule)),
               Pay("do", 2, Fulfilled, NoRule)) : o, p \in {"and", "or"}}
Spawned == {Ship("may", 1, x, NoRule) : x \in {ROp(o, Pay("must", 1, Fulfilled, NoRule),
                                                 Ship("must", 2, Fulfilled, NoRule)) : o \in {"and", "or"}}}
Accused == {ROp("and", Pay("must", 2, Fulfilled, ExplicitBreach), Ship("must", 1, Fulfilled, NoRule))}

\* The documentation's own example of ROR: both sides say LEST BREACH, or one.
EitherWay ==
  {ROp("or", Pay("must", 2, Fulfilled, ExplicitBreach), Ship("must", 1, Fulfilled, l)) :
     l \in {ExplicitBreach, NoRule}}

MCContracts == Chains \cup Parallel \cup Nested \cup Spawned \cup Accused \cup EitherWay
=============================================================================
