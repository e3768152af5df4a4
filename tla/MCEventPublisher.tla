-------------------------- MODULE MCEventPublisher --------------------------
EXTENDS EventPublisher, TLC

CONSTANTS a, b,     \* types
          h1, h2    \* handlers

\* One handler of each type.  A handler of a may also deal with b.
MCTypes == {a, b}
MCHandlers == {h1, h2}
MCTypeOf == (h1 :> a) @@ (h2 :> b)
MCUses == (a :> {a, b}) @@ (b :> {b})

Symmetry == Permutations(Threads)
=============================================================================
