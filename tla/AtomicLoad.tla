----------------------------- MODULE AtomicLoad -----------------------------
(***************************************************************************)
(* What the selective path promises the decoder, without blocks, layers,   *)
(* gates or telemetry: the prefix of a request is loaded at most once, and *)
(* the load is atomic - it ends with the whole prefix or with nothing, in  *)
(* which case the prefix is computed natively. "torn" is the value a       *)
(* prefix would have that is used while incomplete: no step reaches it.    *)
(***************************************************************************)
CONSTANT Requests

VARIABLES
    prefix,     \* the prefix of a request as the decoder sees it
    offered     \* requests whose one external load was started

vars == <<prefix, offered>>

Prefixes == {"absent", "loading", "external", "native", "torn", "gone"}
In(p) == {r \in Requests : prefix[r] = p}

Init == prefix = [r \in Requests |-> "absent"] /\ offered = {}

\* An admitted request starts its only load.
Begin(r) ==
    /\ prefix[r] = "absent" /\ r \notin offered
    /\ prefix' = [prefix EXCEPT ![r] = "loading"]
    /\ offered' = offered \cup {r}

\* An engine step ends some loads, each with everything or with nothing.
Resolve ==
    /\ \E L \in SUBSET In("loading") : \E W \in SUBSET L :
          prefix' = [r \in Requests |-> IF r \in W THEN "external"
                                        ELSE IF r \in L THEN "absent"
                                        ELSE prefix[r]]
    /\ UNCHANGED offered

\* The forward pass prefills what is absent.
Prefill ==
    /\ \E N \in SUBSET In("absent") :
          prefix' = [r \in Requests |-> IF r \in N THEN "native" ELSE prefix[r]]
    /\ UNCHANGED offered

\* Preemption throws a computed prefix away.
Drop(r) ==
    /\ prefix[r] \in {"external", "native"}
    /\ prefix' = [prefix EXCEPT ![r] = "absent"]
    /\ UNCHANGED offered

\* The request finishes or is aborted.
Leave(r) ==
    /\ prefix[r] # "gone"
    /\ prefix' = [prefix EXCEPT ![r] = "gone"]
    /\ UNCHANGED offered

Next ==
    \/ Resolve \/ Prefill
    \/ \E r \in Requests : Begin(r) \/ Drop(r) \/ Leave(r)

Spec == Init /\ [][Next]_vars
=============================================================================
