---- MODULE MCK3Scheduler ----
EXTENDS K3Scheduler
CONSTANTS q1, q2, q3

MCHome == (q1 :> 0) @@ (q2 :> 1) @@ (q3 :> 1)

Of(l, a, b, c) == [lane |-> l, kind |-> (q1 :> a) @@ (q2 :> b) @@ (q3 :> c)]

MCSetups ==
    {Of("whale", "long", "long", "absent"),
     Of("whale", "long", "refused", "absent"),
     Of("whale", "long", "absent", "short"),
     Of("whale", "misfit", "empty", "short"),
     Of("cp", "long", "long", "short")}
====
