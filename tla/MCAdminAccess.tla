------------------------------ MODULE MCAdminAccess -----------------------------
(* A small instance of AdminAccess for TLC. *)
EXTENDS AdminAccess, TLC

CONSTANTS a1, a2, a3, t1, t2

ThreeRequests == {a1, a2, a3}
TwoTokens     == {t1, t2}

Id(l, t, rs)   == [label |-> l, token |-> t, roles |-> rs]
Config(is, l)  == [identities |-> is, legacy |-> l]

\* Two tokens of one actor with different roles.
TwoRoles == Config(<<Id("watched", t1, {"read"}), Id("watched", t2, {"write"})>>, NoToken)

\* A second actor, and a legacy token that an identity with fewer roles shadows.
Shadowed == Config(<<Id("watched", t1, {"read"}), Id("other", t2, {"read"})>>, t1)

LegacyOnly == Config(<<>>, t2)

\* Settings that do not start.
Rejected == {
  Config(<<>>, NoToken),
  Config(<<Id("watched", t1, {})>>, t2),
  Config(<<Id("watched", Weak, {"read"})>>, t2) }

\* On a read path both tokens of TwoRoles count alike.
SomeCases ==
  {<<TwoRoles, "write">>}
    \cup ({Shadowed, LegacyOnly} \cup Rejected) \X {"read", "write"}

\* Requests are interchangeable.
Symmetry == Permutations(Requests)
=============================================================================
