----------------------------- MODULE MCJobParts -----------------------------
(* Four jobs for the worker, three of them for the scheduler alone; two      *)
(* callers of the store.                                                     *)
EXTENDS JobParts, TLC

CONSTANTS none,
          a, b,           \* subscriptions
          manual,         \* the fairness key of jobs without subscription
          ta, ma, tb,     \* transfers of a and b, a scrape of a
          all, hi,        \* a scrape of everything, a manual transfer
          pa, pb,         \* pushes about a and b
          c1, c2, nobody  \* callers of the store

Class == (ta :> "transfer") @@ (tb :> "transfer") @@ (ma :> "metadata")
         @@ (all :> "metadata") @@ (hi :> "transfer")
         @@ (pa :> "push") @@ (pb :> "push")
Sub == (ta :> a) @@ (tb :> b) @@ (ma :> a) @@ (all :> none) @@ (hi :> none)
       @@ (pa :> a) @@ (pb :> b)
Prio == (ta :> "normal") @@ (tb :> "normal") @@ (ma :> "low")
        @@ (all :> "low") @@ (hi :> "high")
        @@ (pa :> "high") @@ (pb :> "high")
KeyOf == (ta :> a) @@ (tb :> b) @@ (ma :> a) @@ (all :> none) @@ (hi :> manual)
         @@ (pa :> a) @@ (pb :> b)

ClassOf == [j \in Jobs |-> Class[j]]
SubOf == [j \in Jobs |-> Sub[j]]
PrioOf == [j \in Jobs |-> Prio[j]]
Group1 == [j \in Jobs |-> KeyOf[j]]

Limits(g, n) == [global |-> g, limit |-> [c \in Classes |-> n], maintenance |-> FALSE]
Paused == [Limits(2, 2) EXCEPT !.maintenance = TRUE]
Varying == {Limits(3, 2), Limits(1, 0), Paused}
Wide == {Limits(3, 3)}
Single == {Limits(1, 1)}

Callers == Permutations(Clients)
=============================================================================
