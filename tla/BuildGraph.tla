------------------------------ MODULE BuildGraph ------------------------------
(***************************************************************************)
(* build_graph (catalogue.py): which outputs of the catalogue can be built  *)
(* here (build_output_index), the providers the targets need (the recursive *)
(* visit, with its own check for cycles) and the order they are built in    *)
(* (Kahn's algorithm).  run_build takes the providers in that order.        *)
(*                                                                         *)
(* Dictionaries and sets are walked in any order: the order in the code is  *)
(* that of the catalogue's files, and of Python's hashes for adj.           *)
(***************************************************************************)
EXTENDS Naturals, Sequences, FiniteSets

CONSTANTS
    Outputs,    \* what the providers of the catalogue provide
    Externals,  \* requirements that no provider provides
    Providers,  \* provider instances
    ProviderOf,
    Graphs,     \* the requirements of all outputs: the graphs to consider
    Platforms,  \* the sets of providers that the build platform may support
    None

ASSUME GraphAssumption ==
    /\ Outputs \cap Externals = {}
    /\ ProviderOf \in [Outputs -> Providers]
    /\ Graphs \subseteq [Outputs -> SUBSET (Outputs \cup Externals)]
    /\ Platforms \subseteq SUBSET Providers
    /\ None \notin Outputs \cup Externals
ASSUME CatalogueIsFinite == IsFiniteSet(Outputs) /\ IsFiniteSet(Externals)

VARIABLES
    requires,   \* requirements of each output, its own and its provider's
    supported,  \* providers with this build platform and source kind
    present,    \* externals that are implicit outputs or exist in build_dir
    buildable,  \* record["buildable"] of each output
    changed,    \* a requirement made an output unbuildable in this pass
    pass,       \* outputs this pass has still to look at
    targets,
    stack,      \* calls of visit, innermost first, with what each has to visit
    visited, needed, edges, nodes,
    in_degree, queue, order,
    pc          \* "index", "targets", "visit", "sort"; "built" or an exception

given == <<requires, supported, present>>
index == <<buildable, changed, pass>>
graph == <<visited, needed, edges, nodes>>
sorting == <<in_degree, queue, order>>
vars == <<given, index, targets, stack, graph, sorting, pc>>

Returned == {"built", "refused", "missing", "cycle"}
Elements(s) == {s[i] : i \in DOMAIN s}
Orders(S) == {s \in [1..Cardinality(S) -> S] : Elements(s) = S}

Init ==
    /\ requires \in Graphs /\ present \in SUBSET Externals
    /\ supported \in Platforms
    /\ buildable = [o \in Outputs |-> ProviderOf[o] \in supported]
    /\ changed = FALSE /\ pass = Outputs
    /\ targets = {} /\ stack = <<>>
    /\ visited = {} /\ needed = {} /\ edges = {} /\ nodes = {}
    /\ in_degree = [p \in Providers |-> 0] /\ queue = <<>> /\ order = <<>>
    /\ pc = "index"
-----------------------------------------------------------------------------
Available(r) == IF r \in Outputs THEN buildable[r] ELSE r \in present

(* An output with a requirement that is not available is not buildable. *)
IndexOutput ==
    /\ pc = "index"
    /\ \E o \in pass :
        /\ pass' = pass \ {o}
        /\ IF buildable[o] /\ \E r \in requires[o] : ~Available(r)
              THEN buildable' = [buildable EXCEPT ![o] = FALSE] /\ changed' = TRUE
              ELSE UNCHANGED <<buildable, changed>>
    /\ UNCHANGED <<given, targets, stack, graph, sorting, pc>>

(* Fault: one pass over the index is thought to be enough. *)
EndOnlyPass ==
    /\ pc = "index" /\ pass = {}
    /\ pc' = "targets"
    /\ UNCHANGED <<given, index, targets, stack, graph, sorting>>

(* Fault: changed is never reset. *)
EndPassChanged ==
    /\ pc = "index" /\ pass = {}
    /\ IF changed THEN pass' = Outputs /\ pc' = pc ELSE pass' = pass /\ pc' = "targets"
    /\ UNCHANGED <<given, buildable, changed, targets, stack, graph, sorting>>

(* The passes go on until one has changed nothing. *)
EndPass ==
    /\ pc = "index" /\ pass = {}
    /\ IF changed THEN pass' = Outputs /\ pc' = pc ELSE pass' = pass /\ pc' = "targets"
    /\ changed' = FALSE
    /\ UNCHANGED <<given, buildable, targets, stack, graph, sorting>>

(* Fault: targets are taken without a look at the index. *)
TakeTargets ==
    /\ pc = "targets"
    /\ \E T \in (SUBSET Outputs) \ {{}} :
        targets' = T /\ stack' = <<[output |-> None, rest |-> T]>>
    /\ pc' = "visit"
    /\ UNCHANGED <<given, index, graph, sorting>>

CheckTargets ==
    /\ pc = "targets"
    /\ \E T \in (SUBSET Outputs) \ {{}} :
        /\ targets' = T
        /\ IF \A t \in T : buildable[t]
              THEN pc' = "visit" /\ stack' = <<[output |-> None, rest |-> T]>>
              ELSE pc' = "refused" /\ stack' = stack
    /\ UNCHANGED <<given, index, graph, sorting>>
-----------------------------------------------------------------------------
(* visit: the loop over the targets is the outermost call. *)
Top == Head(stack)
Chain == {ProviderOf[c.output] : c \in {d \in Elements(stack) : d.output # None}}
Left(r) == <<[Top EXCEPT !.rest = @ \ {r}]>> \o Tail(stack)
Node(r) == IF r \in Outputs /\ buildable[r] THEN ProviderOf[r] ELSE r
AddEdge(r) ==
    edges' = IF Top.output = None THEN edges
             ELSE edges \cup {<<ProviderOf[Top.output], Node(r)>>}

VisitExternal(r) ==
    /\ r \notin Outputs /\ r \in present
    /\ stack' = Left(r)
    /\ UNCHANGED <<visited, needed, nodes, pc>>

VisitMissing(r) ==
    /\ ~Available(r)
    /\ pc' = "missing"
    /\ UNCHANGED <<stack, visited, needed, nodes>>

(* Fault: a provider that has been visited is taken for one of the chain. *)
FindRepetition(r) ==
    /\ r \in Outputs /\ buildable[r]
    /\ ProviderOf[r] \in nodes
    /\ needed' = needed \cup {r}
    /\ pc' = "cycle"
    /\ UNCHANGED <<stack, visited, nodes>>

FindCycle(r) ==
    /\ r \in Outputs /\ buildable[r]
    /\ ProviderOf[r] \in Chain
    /\ needed' = needed \cup {r}
    /\ pc' = "cycle"
    /\ UNCHANGED <<stack, visited, nodes>>

VisitAgain(r) ==
    /\ r \in visited
    /\ ProviderOf[r] \notin Chain
    /\ needed' = needed \cup {r}
    /\ stack' = Left(r)
    /\ UNCHANGED <<visited, nodes, pc>>

(* Fault: only the first output of a provider has its requirements visited. *)
VisitProviderOnce(r) ==
    /\ r \in Outputs /\ buildable[r]
    /\ ProviderOf[r] \notin Chain /\ r \notin visited
    /\ needed' = needed \cup {r}
    /\ visited' = visited \cup {r}
    /\ nodes' = nodes \cup {ProviderOf[r]}
    /\ stack' = <<[output |-> r,
                   rest |-> IF ProviderOf[r] \in nodes THEN {} ELSE requires[r]]>> \o Left(r)
    /\ UNCHANGED pc

VisitOutput(r) ==
    /\ r \in Outputs /\ buildable[r]
    /\ ProviderOf[r] \notin Chain /\ r \notin visited
    /\ needed' = needed \cup {r}
    /\ visited' = visited \cup {r}
    /\ nodes' = nodes \cup {ProviderOf[r]}
    /\ stack' = <<[output |-> r, rest |-> requires[r]]>> \o Left(r)
    /\ UNCHANGED pc

Visit ==
    /\ pc = "visit"
    /\ \E r \in Top.rest :
        /\ AddEdge(r)
        /\ \/ VisitExternal(r) \/ VisitMissing(r) \/ FindCycle(r)
           \/ VisitAgain(r) \/ VisitOutput(r)
    /\ UNCHANGED <<given, index, targets, sorting>>

Return ==
    /\ pc = "visit"
    /\ Top.rest = {} /\ Len(stack) > 1
    /\ stack' = Tail(stack)
    /\ UNCHANGED <<given, index, targets, graph, sorting, pc>>
-----------------------------------------------------------------------------
(* Kahn's algorithm over the edges between two different providers. *)
Before(p) == {d \in nodes \ {p} : <<p, d>> \in edges}

(* Fault: in_degree is not counted. *)
StartSortUncounted ==
    /\ pc = "visit"
    /\ Top.rest = {} /\ Len(stack) = 1
    /\ in_degree' = [p \in Providers |-> 0]
    /\ queue' \in Orders({p \in nodes : Before(p) = {}})
    /\ stack' = <<>>
    /\ pc' = "sort"
    /\ UNCHANGED <<given, index, targets, graph, order>>

StartSort ==
    /\ pc = "visit"
    /\ Top.rest = {} /\ Len(stack) = 1
    /\ in_degree' = [p \in Providers |-> Cardinality(Before(p))]
    /\ queue' \in Orders({p \in nodes : Before(p) = {}})
    /\ stack' = <<>>
    /\ pc' = "sort"
    /\ UNCHANGED <<given, index, targets, graph, order>>

(* Fault: a provider is queued as soon as one of its dependencies is done. *)
SortEarly ==
    /\ pc = "sort" /\ queue # <<>>
    /\ LET p == Head(queue)
           after == {q \in nodes : p \in Before(q)}
       IN  /\ order' = Append(order, p)
           /\ in_degree' = [q \in Providers |-> IF q \in after THEN in_degree[q] - 1
                                                               ELSE in_degree[q]]
           /\ \E s \in Orders({q \in after : in_degree[q] >= 1}) : queue' = Tail(queue) \o s
    /\ UNCHANGED <<given, index, targets, stack, graph, pc>>

Sort ==
    /\ pc = "sort" /\ queue # <<>>
    /\ LET p == Head(queue)
           after == {q \in nodes : p \in Before(q)}
       IN  /\ order' = Append(order, p)
           /\ in_degree' = [q \in Providers |-> IF q \in after THEN in_degree[q] - 1
                                                           ELSE in_degree[q]]
           /\ \E s \in Orders({q \in after : in_degree[q] = 1}) : queue' = Tail(queue) \o s
    /\ UNCHANGED <<given, index, targets, stack, graph, pc>>

EndSort ==
    /\ pc = "sort" /\ queue = <<>>
    /\ pc' = "built"
    /\ UNCHANGED <<given, index, targets, stack, graph, sorting>>

Next ==
    IndexOutput \/ EndPass \/ CheckTargets \/ Visit \/ Return \/ StartSort \/ Sort \/ EndSort

Spec == Init /\ [][Next]_vars

(* A function that has been called goes on. *)
FairSpec == Spec /\ WF_vars(Next)
-----------------------------------------------------------------------------
TypeOK ==
    /\ requires \in Graphs /\ supported \in Platforms /\ present \subseteq Externals
    /\ buildable \in [Outputs -> BOOLEAN] /\ changed \in BOOLEAN
    /\ pass \subseteq Outputs /\ targets \subseteq Outputs
    /\ \A c \in Elements(stack) :
        c \in [output : Outputs \cup {None}, rest : SUBSET (Outputs \cup Externals)]
    /\ visited \subseteq Outputs /\ needed \subseteq Outputs /\ nodes \subseteq Providers
    /\ edges \subseteq Providers \X (Providers \cup Outputs \cup Externals)
    /\ in_degree \in [Providers -> Nat]
    /\ queue \in Seq(Providers) /\ order \in Seq(Providers)
    /\ pc \in {"index", "targets", "visit", "sort"} \cup Returned

(* Whatever the order of the passes, the index says of exactly the outputs  *)
(* that can be built, one after the other, that they are buildable: the set  *)
(* is closed, and every closed set of supported providers' outputs is in it. *)
Closed(S) == \A o \in S : requires[o] \subseteq S \cup present
IndexIsGreatest ==
    pc # "index" =>
        /\ Closed({o \in Outputs : buildable[o]})
        /\ \A S \in SUBSET {o \in Outputs : ProviderOf[o] \in supported} :
               Closed(S) => \A o \in S : buildable[o]

(* Once the targets are accepted, visit finds a provider or a file for all   *)
(* they need: its two KeyErrors are out of reach.                            *)
NothingMissing == pc # "missing"

(* The outputs a build is to make are the targets and all they require, and *)
(* no others, though a provider is visited by way of several of its outputs. *)
Needs(S) == S \cup UNION {requires[o] \cap Outputs : o \in S}
NeededIsClosure ==
    pc = "built" =>
        /\ targets \subseteq needed /\ Needs(needed) \subseteq needed
        /\ \A S \in SUBSET needed : targets \subseteq S /\ Needs(S) \subseteq S => S = needed

(* "Topologically sorted provider instances": a provider comes once, and     *)
(* after every other provider that its outputs require something of.         *)
OrderIsTopological ==
    /\ \A i, j \in DOMAIN order : order[i] = order[j] => i = j
    /\ \A j \in DOMAIN order : \A d \in Before(order[j]) : \E i \in 1..(j - 1) : order[i] = d

(* A cycle is reported only where providers require each other in a circle, *)
(* and only such a circle can keep a provider out of the order.              *)
Circular == \E S \in (SUBSET nodes) \ {{}} : \A p \in S : \E d \in S : <<p, d>> \in edges
OnlyCyclesFail ==
    /\ pc = "cycle" => Circular
    /\ pc = "built" /\ ~Circular => Elements(order) = nodes

(* "dependencies first, targets last" (catalogue.py): the providers of the   *)
(* targets are in the order, so that run_build makes the targets.            *)
TargetsAreOrdered == pc = "built" => \A t \in targets : ProviderOf[t] \in Elements(order)

(* build_graph returns or raises: the passes over the index end, and so does *)
(* the visit of requirements that go in a circle.                            *)
Terminates == <>(pc \in Returned)
=============================================================================
