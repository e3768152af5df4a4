----------------------- MODULE MCQueuedEventPublisher -----------------------
EXTENDS QueuedEventPublisher, TLC

CONSTANTS a, b,         \* types
          h1, h2    \* handlers

\* Two handlers of one type; events of the other have none.
MCTypes == {a, b}
MCHandlers == {h1, h2}
MCTypeOf == (h1 :> a) @@ (h2 :> a)
=============================================================================
