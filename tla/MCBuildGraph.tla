---------------------------- MODULE MCBuildGraph ----------------------------
(***************************************************************************)
(* BuildGraph on all graphs of a few outputs.  Two outputs of one provider  *)
(* are what makes graphs of outputs and of providers differ.                *)
(***************************************************************************)
EXTENDS BuildGraph, FiniteSets

(* Four outputs of three providers.  Either none requires itself and three of   *)
(* them require at most one, or the last one requires nothing and the first     *)
(* one at most two, and each may require itself and a file from outside.        *)
MCOutputs == {"a1", "a2", "b1", "c1"}
MCExternals == {"file"}
MCProviders == {"a", "b", "c"}
MCGraphs ==
    {g \in [MCOutputs -> SUBSET MCOutputs] :
        /\ \A o \in MCOutputs : o \notin g[o]
        /\ \A o \in {"a2", "b1", "c1"} : Cardinality(g[o]) <= 1}
    \cup {g \in [MCOutputs -> SUBSET {"a1", "a2", "b1", "file"}] :
             g["c1"] = {} /\ Cardinality(g["a1"]) <= 2}
MCPlatforms == {{"a", "c"}, MCProviders}
MCProviderOf ==
    [o \in MCOutputs |-> CASE o \in {"a1", "a2"} -> "a" [] o = "b1" -> "b" [] o = "c1" -> "c"]

(* Two providers that require each other by different outputs, for the cycle    *)
(* that is left out of the order.                                              *)
PairOutputs == {"a1", "a2", "b1"}
PairProviders == {"a", "b"}
PairGraphs == [PairOutputs -> SUBSET PairOutputs]
PairPlatforms == {PairProviders}
PairProviderOf == [o \in PairOutputs |-> IF o = "b1" THEN "b" ELSE "a"]
NoExternals == {}
=============================================================================
