------------------------------ MODULE MCDataBind ------------------------------
\* One root with a chain of three keys below it, and one key beside the third,
\* whose name begins with that one's.  The lists start short, so that they
\* grow, and a gap makes them relist; so do the arrays of a node, so that the
\* second watch through it makes it grow.
EXTENDS DataBindProps

CONSTANTS a, b, c, cc, d

KeyNames == {a, b, c, cc, d}
KeyTree == {<<a>>, <<a, b>>, <<a, b, c>>, <<a, b, c, d>>, <<a, b, cc>>}
Beginnings == {<<n, n>> : n \in KeyNames} \cup {<<c, cc>>}

Symmetry == Permutations(VMs)
=============================================================================
