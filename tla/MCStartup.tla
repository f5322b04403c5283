----------------------------- MODULE MCStartup -----------------------------
(* A small instance of Startup for TLC. *)
EXTENDS Startup

MCDefaults == [grpc |-> "g", http |-> "h", hours |-> 2, size |-> 3, flush |-> 1]

\* A setting that is set in any of the layers to any of its values.
Values(x) ==
    CASE x \in Texts -> {{}, {"a"}, {"nonsense"}}
      [] x = "hours" -> {{}, {1}, {5}, {7}}
      [] OTHER -> {{}, {0}, {1}}
Only(x, option) == [y \in Names |-> IF y = x THEN option ELSE {}]
Layering(x, a, e, f) == [arg |-> Only(x, a), env |-> Only(x, e), file |-> Only(x, f)]
MCLayerings ==
    UNION {{Layering(x, a, e, f) : a \in Values(x), e \in Values(x), f \in Values(x)}
              : x \in Names}
    \cup {Layering("grpc", {"h"}, {}, {})}  \* the address of the other listener
=============================================================================
